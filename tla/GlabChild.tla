----------------------------- MODULE GlabChild -----------------------------
(***************************************************************************)
(* One run of the official glab executable (internal/delegate/glab): the    *)
(* captured call of every delegated request (client.go, runCapturePath) and *)
(* the human login behind a monitored terminal (login_terminal.go, runLogin;*)
(* login_monitor.go).  The command waits for the child while goroutines     *)
(* take its output, relay the human's input (on Windows) and kill it when   *)
(* the context is done; then it waits a bounded time for them (on Windows   *)
(* first for the human's terminal, unbounded) and answers from what they    *)
(* recorded.                                                                *)
(*                                                                         *)
(* The child prints, changes the provider, leaves a descendant that holds   *)
(* its output open, exits or hangs as it likes; the human's terminal may    *)
(* stop taking output and the human may interrupt.                          *)
(***************************************************************************)
EXTENDS Naturals, Sequences

CONSTANTS
  Invocation,
  MaxChunks   \* bound on the pieces of output a child prints

VARIABLES
  child,    \* the process, the output not yet taken, the request at the provider
  pc,       \* pc[c]: where c's main goroutine is
  run,      \* run[c]: how it was called, its goroutines and what they recorded
  verdict,  \* verdict[c]: what the caller was told
  printed,  \* pieces of output printed so far
  past      \* history: all that was printed, all that was shown, whether the
            \* bounded wait for the output ran out

vars == <<child, pc, run, verdict, printed, past>>
-----------------------------------------------------------------------------
\* Output is told apart by what the relays look for: the pinned warning that the
\* credential would be stored as plain text, malformed text, more than the limit,
\* and a framed HTTP refusal of the request.
Chunk == {"text", "warning", "malformed", "flood", "refusal"}
Login == {"login", "console"}      \* console: Windows, with an input relay
Kind == {"read", "write"} \cup Login
Steps == {"waiting", "afterwait", "input", "output", "closing", "closed", "decide"}

TypeOK ==
  /\ pc \in [Invocation -> Steps \cup {"answered"}]
  /\ child \in [proc : {"running", "ok", "failed", "killed"}, helper : BOOLEAN,
                pipe : Seq(Chunk), applied : BOOLEAN]
  /\ run \in [Invocation ->
       [kind : Kind, ctx : BOOLEAN, cancel : BOOLEAN, closed : BOOLEAN,
        relay : {"read", "stopped"} \cup Chunk, failed : BOOLEAN, warning : BOOLEAN,
        err : BOOLEAN, refusal : BOOLEAN, stuck : BOOLEAN,
        input : {"open", "stopped"}, inputErr : BOOLEAN, interrupt : BOOLEAN]]
  /\ verdict \in [Invocation -> {"none", "ok", "insecure", "cancelled", "refused", "rejected"}]
  /\ printed \in 0..MaxChunks
  /\ past \in [printed : Seq(Chunk), shown : Seq(Chunk), late : BOOLEAN]

\* One command runs.
Caller == CHOOSE c \in Invocation : TRUE

Init ==
  /\ child = [proc |-> "running", helper |-> FALSE, pipe |-> <<>>, applied |-> FALSE]
  /\ pc = [c \in Invocation |-> IF c = Caller THEN "waiting" ELSE "answered"]
  /\ \E k \in Kind :
       run = [c \in Invocation |->
         [kind |-> k, ctx |-> TRUE, cancel |-> FALSE, closed |-> FALSE,
          relay |-> "read", failed |-> FALSE, warning |-> FALSE, err |-> FALSE,
          refusal |-> FALSE, stuck |-> FALSE,
          input |-> IF k = "console" THEN "open" ELSE "stopped",
          inputErr |-> FALSE, interrupt |-> FALSE]]
  /\ verdict = [c \in Invocation |-> "none"]
  /\ printed = 0
  /\ past = [printed |-> <<>>, shown |-> <<>>, late |-> FALSE]
-----------------------------------------------------------------------------
(***************************************************************************)
(* The child (external), until the command has answered.                    *)
(***************************************************************************)
Lives(c) == pc[c] # "answered" /\ child.proc = "running"
OnlyChild == UNCHANGED <<pc, run, verdict>>

\* glab api makes one request: it prints a refusal, or the request has been applied.
Prints(c) ==
  /\ pc[c] \in Steps /\ Lives(c)
  /\ printed < MaxChunks /\ printed' = printed + 1
  /\ \E k \in IF run[c].kind \in Login THEN Chunk \ {"refusal"}
              ELSE {"text", "flood"} \cup IF child.applied THEN {} ELSE {"refusal"} :
       /\ child' = [child EXCEPT !.pipe = Append(@, k)]
       /\ past' = [past EXCEPT !.printed = Append(@, k)]
  /\ OnlyChild

Printed(k) == \E i \in 1..Len(past.printed) : past.printed[i] = k

Applies(c) ==
  /\ pc[c] \in Steps /\ Lives(c) /\ run[c].kind = "write"
  /\ ~child.applied /\ ~Printed("refusal")
  /\ child' = [child EXCEPT !.applied = TRUE]
  /\ OnlyChild /\ UNCHANGED <<printed, past>>

\* A success is one that applied the write; a failure may have applied it too.
Exits(c) ==
  /\ pc[c] \in Steps /\ Lives(c)
  /\ \E p \in {"ok", "failed"}, h \in BOOLEAN :
       /\ p = "ok" => ~Printed("refusal")
       /\ p = "ok" /\ run[c].kind = "write" => child.applied
       /\ child' = [child EXCEPT !.proc = p, !.helper = h]
  /\ OnlyChild /\ UNCHANGED <<printed, past>>

\* The descendant that holds the output open ends.
HelperEnds(c) ==
  /\ pc[c] \in Steps /\ child.helper
  /\ child' = [child EXCEPT !.helper = FALSE]
  /\ OnlyChild /\ UNCHANGED <<printed, past>>
-----------------------------------------------------------------------------
(***************************************************************************)
(* The goroutines.  cancel is childCtx's own cancellation, by a goroutine.  *)
(***************************************************************************)
OnlyRun == UNCHANGED <<pc, verdict, printed>>
Done(c) == run[c].cancel \/ ~run[c].ctx

\* The caller cancels, or the deadline of the operation passes.
Cancelled(c) ==
  /\ pc[c] \in Steps /\ run[c].ctx
  /\ run' = [run EXCEPT ![c].ctx = FALSE]
  /\ OnlyRun /\ UNCHANGED <<child, past>>

\* The killer kills the child, and nothing the child has started; it stops looking
\* once the child has been waited for.
Kills(c) ==
  /\ pc[c] = "waiting" /\ Lives(c) /\ Done(c)
  /\ \E h \in BOOLEAN : child' = [child EXCEPT !.proc = "killed", !.helper = h]
  /\ OnlyRun /\ UNCHANGED <<run, past>>

TakesNext(c) ==
  /\ pc[c] \in Steps /\ run[c].relay = "read" /\ child.pipe # <<>>
  /\ child' = [child EXCEPT !.pipe = Tail(@)]

\* boundedCapture.Write keeps what fits and never blocks the child.
Captures(c) ==
  /\ TakesNext(c) /\ run[c].kind \notin Login
  /\ run' = [run EXCEPT ![c].err = @ \/ Head(child.pipe) = "flood",
                        ![c].cancel = @ \/ Head(child.pipe) = "flood",
                        ![c].refusal = @ \/ Head(child.pipe) = "refusal"]
  /\ OnlyRun /\ UNCHANGED past

\* Mutant: the output before a limit or a warning is relayed, and so is the rest.
KeepsRelaying(r, k) == FALSE

\* After these nothing more is forwarded; the output is drained all the same.
StopsRelaying(r, k) == r.failed \/ k \in {"warning", "malformed", "flood"}

\* relayLoginOutput: one read.  A warning is marked before the terminal gets what
\* leads up to it; the child is cancelled once the terminal has taken that.
Relays(c) ==
  /\ TakesNext(c) /\ run[c].kind \in Login
  /\ LET r == run[c]
         k == Head(child.pipe) IN
     run' = [run EXCEPT ![c] =
       IF r.failed THEN r
       ELSE IF k = "malformed"
            THEN [r EXCEPT !.err = TRUE, !.cancel = TRUE, !.failed = StopsRelaying(r, k)]
       ELSE [r EXCEPT !.relay = k, !.warning = @ \/ k = "warning"]]
  /\ OnlyRun /\ UNCHANGED past

\* writeFull(destination): the terminal takes it, when it does.
Shows(c) ==
  /\ pc[c] \in Steps /\ run[c].relay \in Chunk
  /\ LET k == run[c].relay IN
     /\ past' = [past EXCEPT !.shown = Append(@, k)]
     /\ run' = [run EXCEPT ![c].relay = "read", ![c].failed = StopsRelaying(run[c], k),
                           ![c].err = @ \/ k = "flood",
                           ![c].cancel = @ \/ k \in {"warning", "flood"}]
  /\ OnlyRun /\ UNCHANGED child

\* The terminal or the read of the child's terminal fails; a read error other than
\* the end ends the relay.
RelayFails(c) ==
  /\ pc[c] \in Steps /\ run[c].kind \in Login /\ run[c].relay # "stopped"
  /\ run' = [run EXCEPT ![c].relay = IF @ = "read" THEN "stopped" ELSE "read",
                        ![c].err = @ \/ ~run[c].failed, ![c].failed = TRUE,
                        ![c].cancel = TRUE]
  /\ OnlyRun /\ UNCHANGED <<child, past>>

\* The end of the output: nobody holds it open, or this side has closed it.
EndOfOutput(c) ==
  /\ pc[c] \in Steps /\ run[c].relay = "read"
  /\ \/ child.pipe = <<>> /\ child.proc # "running" /\ ~child.helper
     \/ run[c].closed
  /\ run' = [run EXCEPT ![c].relay = "stopped"]
  /\ OnlyRun /\ UNCHANGED <<child, past>>

EndOfCapture(c) == EndOfOutput(c) /\ run[c].kind \notin Login

\* relayLoginInput (Windows): an interrupt counts whenever it is read, an error only
\* until the command stops the relay; the closed file ends it.
Interrupts(c) ==
  /\ pc[c] \in Steps /\ run[c].input = "open"
  /\ run' = [run EXCEPT ![c].input = "stopped", ![c].interrupt = TRUE, ![c].cancel = TRUE]
  /\ OnlyRun /\ UNCHANGED <<child, past>>

InputEnds(c) ==
  /\ pc[c] \in Steps /\ run[c].input = "open"
  /\ run' = [run EXCEPT ![c].input = "stopped",
                        ![c].inputErr = pc[c] = "waiting",
                        ![c].cancel = @ \/ pc[c] = "waiting"]
  /\ OnlyRun /\ UNCHANGED <<child, past>>
-----------------------------------------------------------------------------
(***************************************************************************)
(* The main goroutine.                                                      *)
(***************************************************************************)
Goto(c, step) == pc' = [pc EXCEPT ![c] = step]
OnlyMain == UNCHANGED <<verdict, printed>>

\* session.Wait, cmd.Wait: the child has ended.
Waited(c) ==
  /\ pc[c] = "waiting" /\ child.proc # "running"
  /\ Goto(c, IF run[c].kind = "console" THEN "afterwait" ELSE "output")
  /\ UNCHANGED <<child, run, past>> /\ OnlyMain

\* On Windows the human's input is closed, which waits for a read of it, and then the
\* pseudo console, which ends what else is attached to it and waits for its output to
\* be taken; neither has a time limit (Hangs).
AfterWait(c) ==
  /\ pc[c] = "afterwait"
  /\ child' = [child EXCEPT !.helper = FALSE]
  /\ Goto(c, "input")
  /\ UNCHANGED <<run, past>> /\ OnlyMain

\* waitForLoginRelay(inputDone): stopped, or two seconds have passed.
InputWaited(c) ==
  /\ pc[c] = "input"
  /\ run' = [run EXCEPT ![c].stuck = run[c].input = "open"]
  /\ Goto(c, "output")
  /\ UNCHANGED <<child, past>> /\ OnlyMain

OutputWaited(c) ==
  /\ pc[c] \in {"output", "closed"} /\ run[c].relay = "stopped"
  /\ Goto(c, "decide")
  /\ UNCHANGED <<child, run, past>> /\ OnlyMain

\* Mutant: the command waits for the output for as long as it takes.
Patient(c) == FALSE

OutputIsLate(c) == pc[c] = "output" /\ run[c].relay # "stopped"

\* Two seconds (loginDrainTimeout, cmd.WaitDelay) have passed: this side closes.
\* A captured call that was cut off so has failed even if the child succeeded.  The
\* file of the human's terminal is closed last; on Windows that waits for a write.
Closes(c) ==
  /\ OutputIsLate(c)
  /\ run' = [run EXCEPT ![c].closed = TRUE, ![c].stuck = @ \/ run[c].kind \notin Login]
  /\ past' = [past EXCEPT !.late = TRUE]
  /\ Goto(c, IF run[c].kind = "console" THEN "closing" ELSE "closed")
  /\ UNCHANGED child /\ OnlyMain

TerminalClosed(c) ==
  /\ pc[c] = "closing" /\ run[c].relay \notin Chunk
  /\ Goto(c, "closed")
  /\ UNCHANGED <<child, run, past>> /\ OnlyMain

\* A relay that does not stop even then is left behind; a capture does stop.
LeavesRelay(c) ==
  /\ pc[c] = "closed" /\ run[c].kind \in Login /\ run[c].relay # "stopped"
  /\ run' = [run EXCEPT ![c].stuck = TRUE]
  /\ Goto(c, "decide")
  /\ UNCHANGED <<child, past>> /\ OnlyMain

Answer(c, v) ==
  /\ Goto(c, "answered")
  /\ verdict' = [verdict EXCEPT ![c] = v]
  /\ UNCHANGED <<child, run, printed, past>>

\* Mutant: any failed write is the provider's refusal.
AnyFailure(c) == TRUE

\* Only pinned wrapper framing proves a status.
FramedRefusal(c) == run[c].refusal

AnswersLogin(c) ==
  /\ pc[c] = "decide" /\ run[c].kind \in Login
  /\ LET r == run[c] IN
     \/ r.warning /\ Answer(c, "insecure")
     \/ ~r.warning /\ (r.interrupt \/ ~r.ctx) /\ Answer(c, "cancelled")
     \/ /\ ~r.warning /\ ~r.interrupt /\ r.ctx
        /\ Answer(c, IF r.err \/ r.stuck \/ r.inputErr \/ child.proc # "ok"
                     THEN "refused" ELSE "ok")

AnswersCapture(c) ==
  /\ pc[c] = "decide" /\ run[c].kind \notin Login
  /\ LET r == run[c]
         fails == r.stuck \/ child.proc # "ok" IN
     \/ r.err /\ Answer(c, "refused")
     \/ ~r.err /\ ~r.ctx /\ Answer(c, "cancelled")
     \/ ~r.err /\ r.ctx /\ ~fails /\ Answer(c, "ok")
     \/ /\ ~r.err /\ r.ctx /\ fails
        /\ Answer(c, IF r.kind = "write" /\ FramedRefusal(c) THEN "rejected" ELSE "refused")

Goroutines(c) ==
  \/ Cancelled(c) \/ Kills(c) \/ Captures(c) \/ Relays(c) \/ Shows(c) \/ RelayFails(c)
  \/ EndOfOutput(c) \/ Interrupts(c) \/ InputEnds(c)
Main(c) ==
  \/ Waited(c) \/ AfterWait(c) \/ InputWaited(c) \/ OutputWaited(c) \/ Closes(c)
  \/ TerminalClosed(c) \/ LeavesRelay(c)
  \/ AnswersLogin(c) \/ AnswersCapture(c)
Child(c) == Prints(c) \/ Applies(c) \/ Exits(c) \/ HelperEnds(c)

Next == \E c \in Invocation : Child(c) \/ Goroutines(c) \/ Main(c)

\* Where the command itself may wait for the human's terminal, on Windows: for a
\* read of the input, for output nobody takes while the relay writes or has failed,
\* for a write of the relay.
Hangs(c) ==
  /\ pc[c] \in {"afterwait", "closing"} /\ run[c].kind = "console"
  /\ \/ run[c].relay \in Chunk
     \/ pc[c] = "afterwait" /\ run[c].relay = "stopped" /\ child.pipe # <<>>
     \/ pc[c] = "afterwait" /\ run[c].input = "open"

\* The command's own steps, but where it hangs, its killer (a killed process ends) and
\* the copy of a captured output, which never waits for anyone.  A relay may wait for
\* the human's terminal forever, the child and its descendants need never end.
Fairness ==
  \A c \in Invocation :
    /\ WF_vars(Main(c) /\ ~Hangs(c)) /\ WF_vars(Kills(c))
    /\ WF_vars(Captures(c) \/ EndOfCapture(c))

Spec == Init /\ [][Next]_vars /\ Fairness
-----------------------------------------------------------------------------
\* What the command answers is true of the child.  Ok: it exited by itself with
\* success and applied the write, and all it printed was taken and was neither a
\* warning, malformed nor too much (for a login: unless the output had not ended
\* two seconds after the child).  Insecure: it printed the warning.  Rejected:
\* nothing was applied, and nothing will be.
ChildVerdictIsTrue ==
  \A c \in Invocation :
    /\ verdict[c] = "ok" =>
         /\ child.proc = "ok" /\ (run[c].kind = "write" => child.applied)
         /\ \/ past.late /\ run[c].kind \in Login
            \/ child.pipe = <<>> /\ \A i \in DOMAIN past.printed : past.printed[i] = "text"
    /\ verdict[c] = "insecure" => Printed("warning")
    /\ verdict[c] = "rejected" => ~child.applied /\ child.proc # "running"

\* The human is shown what the child printed, in its order and without gaps, up to
\* the warning or the limit and nothing after; malformed text never.
ShowsUpToTheWarning ==
  /\ Len(past.shown) <= Len(past.printed)
  /\ \A i \in DOMAIN past.shown :
       /\ past.shown[i] = past.printed[i] /\ past.shown[i] # "malformed"
       /\ i < Len(past.shown) => past.shown[i] = "text"

\* A command whose child has ended, or whose caller has cancelled, answers, whatever
\* the child's descendants and the relays do; and whatever the human's terminal does,
\* save on Windows, where it may be waited for without a limit.
EveryChildEnds ==
  \A c \in Invocation :
    \/ <>[]Hangs(c)
    \/ pc[c] = "waiting" /\ (child.proc # "running" \/ Done(c)) ~> pc[c] \notin Steps
=============================================================================
