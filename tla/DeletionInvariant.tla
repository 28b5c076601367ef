-------------------------- MODULE DeletionInvariant -------------------------
(***************************************************************************)
(* The inductive invariant of the delete commands, and how their steps read *)
(* in GuardedWrite: what NoteAndDeleteProofs proves of ResourceDelete.      *)
(***************************************************************************)
EXTENDS ResourceDelete

Reconciling == {"readback", "recheck"}

\* Where a run is tells what it has sent, heard and said, and what is gone.
StageOf(c) ==
  /\ pc[c] \in {"idle"} \cup Preflight => wire[c] = "unsent"
  /\ pc[c] \in {"reply"} \cup Reconciling => wire[c] # "unsent"
  /\ pc[c] # "done" => verdict[c] = "none"
  /\ pc[c] # "reply" => reply[c] = Nil
  /\ acked[c] => wire[c] = "applied"
  /\ wire[c] = "applied" /\ Active(c) => held[c]
  /\ took[c] # Nil => wire[c] = "applied"

\* An answer with a record or an acknowledgment is of a request carried out, one
\* with a status of a refused one, save the 400 of a snippet.
AnswerOf(c) ==
  /\ reply[c] \in Rev => wire[c] = "applied" /\ kind = "release" /\ took[c] = reply[c]
  /\ reply[c] = "ack" => wire[c] = "applied" /\ kind # "release"
  /\ reply[c] = "status" => wire[c] = "refused"
  /\ reply[c] = "http400" => wire[c] = "refused" \/ (wire[c] = "applied" /\ kind = "snippet")
  /\ acked[c] /\ kind = "release" => took[c] = ask[c]
  /\ verdict[c] = "deleted" /\ kind = "release" => took[c] = ask[c] /\ wire[c] = "applied"

\* From the second look to the end of the request: the reviewed revision, or none,
\* or a change that came after that look.
WindowOf(c) == pc[c] = "write" \/ wire[c] = "inflight" => res \in {ask[c], Nil} \/ drift[c]

Stages == \A c \in Invocation : StageOf(c)
Answers == \A c \in Invocation : AnswerOf(c)
Window == \A c \in Invocation : WindowOf(c)

IInv == TypeOK /\ Stages /\ Answers /\ Window

AbstractPhase == [c \in Invocation |-> Phase(c)]
AbstractEffect == [c \in Invocation |-> Effect(c)]
AbstractVerdict == [c \in Invocation |-> Claim(c)]

\* Nothing the caller or the provider could notice.
Silent ==
  /\ UNCHANGED <<wire, held, verdict>>
  /\ \A d \in Invocation : pc'[d] = "idle" <=> pc[d] = "idle"

\* A run says v to its caller, and does nothing else.
Says(c, v) ==
  /\ UNCHANGED <<wire, held>>
  /\ pc[c] # "idle"
  /\ verdict[c] = "none"
  /\ pc' = [pc EXCEPT ![c] = "done"]
  /\ verdict' = [verdict EXCEPT ![c] = v]

ClaimOf(v) == IF v = "deleted" THEN "done" ELSE v
=============================================================================
