--------------------------- MODULE NativeTransfer ---------------------------
(***************************************************************************)
(* The product-native client (internal/productnative/client.go): the calls  *)
(* of one operation share an identity, a lifetime and a budget of requests, *)
(* buffered bytes and streamed bytes.  A call waits for its turn, is        *)
(* admitted for at most what is left, makes one request without redirects   *)
(* or retries, and copies the body through a scanner that refuses the       *)
(* credential wherever the reads cut it.                                    *)
(*                                                                         *)
(* The provider answers anything, and may echo the credential with a read   *)
(* ending inside it; calls overlap and may be cancelled at any point, the   *)
(* operation may close.                                                     *)
(***************************************************************************)
EXTENDS Integers, Sequences

CONSTANTS
  Invocation,      \* the callers of one client
  MaxRequests,     \* the budget (in the code 64, 8 MiB and 64 MiB)
  MaxBytes,
  MaxStreamBytes,
  MaxCalls         \* bound on the calls made

VARIABLES
  client,   \* who has the turn, what is used, whether the operation is open
  pc,       \* pc[c]: where c's call is
  run,      \* run[c]: the call's arguments, its allowance and what it received
  verdict,  \* verdict[c]: what c's last call was told
  calls,    \* calls made so far
  past      \* history: bytes of accepted bodies, buffered and streamed

vars == <<client, pc, run, verdict, calls, past>>
-----------------------------------------------------------------------------
\* A body is a sequence of pieces, one for each read: the two halves of the
\* credential, which are harmless apart, and its form with JSON escapes.
Piece == {"first", "second", "escaped"}
Secret == <<"first", "second">>
Holds(body) == \E i \in 1..Len(body) - 1 : SubSeq(body, i, i + 1) = Secret
Nobody == "nobody"
Unknown == -1      \* no Content-Length
Steps == {"queued", "sent", "copying"}
Budget(stream) == IF stream THEN MaxStreamBytes ELSE MaxBytes

TypeOK ==
  /\ pc \in [Invocation -> Steps \cup {"idle"}]
  /\ client \in [turn : Invocation \cup {Nobody}, requests : 0..MaxRequests,
                 used : [BOOLEAN -> Int], open : BOOLEAN]
  /\ \A s \in BOOLEAN : client.used[s] \in 0..Budget(s) + 1
  /\ run \in [Invocation ->
       [stream : BOOLEAN, max : Nat, bound : Nat, length : Int,
        body : Seq(Piece), tail : Seq(Piece)]]
  /\ verdict \in [Invocation -> {"none", "ok", "refused", "cancelled"}]
  /\ calls \in 0..MaxCalls
  /\ past \in [BOOLEAN -> Nat]

Call(stream, max) == [stream |-> stream, max |-> max, bound |-> 0, length |-> Unknown,
                      body |-> <<>>, tail |-> <<>>]

Init ==
  /\ pc = [c \in Invocation |-> "idle"]
  /\ client = [turn |-> Nobody, requests |-> 0, used |-> [s \in BOOLEAN |-> 0], open |-> TRUE]
  /\ run = [c \in Invocation |-> Call(FALSE, 0)]
  /\ verdict = [c \in Invocation |-> "none"]
  /\ calls = 0
  /\ past = [s \in BOOLEAN |-> 0]
-----------------------------------------------------------------------------
Goto(c, step) == pc' = [pc EXCEPT ![c] = step]
Answer(c, v) ==
  /\ Goto(c, "idle")
  /\ verdict' = [verdict EXCEPT ![c] = v]
\* Every return of transfer gives the turn back; a failure returns no body.
GiveBack(used) == client' = [client EXCEPT !.turn = Nobody, !.used = used]
NoBody(c) == run' = [run EXCEPT ![c] = Call(FALSE, 0)]

\* Do or Stream, with a bound of its own that validate accepts.
Calls(c) ==
  /\ pc[c] = "idle"
  /\ calls < MaxCalls /\ calls' = calls + 1
  /\ \E s \in BOOLEAN : \E m \in 1..Budget(s) :
       run' = [run EXCEPT ![c] = Call(s, m)]
  /\ Goto(c, "queued")
  /\ verdict' = [verdict EXCEPT ![c] = "none"]
  /\ UNCHANGED <<client, past>>

\* Mutant: the mutex is not taken.
AnyTurn == TRUE

MyTurn == client.turn = Nobody

Remaining(c) == Budget(run[c].stream) - client.used[run[c].stream]
Smaller(a, b) == IF a < b THEN a ELSE b

\* Mutant: the caller's bound alone.
OwnBound(c) == run[c].max

Allowance(c) == Smaller(run[c].max, Remaining(c))

Admitted(c) ==
  /\ pc[c] = "queued" /\ MyTurn
  /\ client.open /\ Remaining(c) > 0 /\ client.requests < MaxRequests
  /\ run' = [run EXCEPT ![c].bound = Allowance(c)]
  /\ client' = [client EXCEPT !.turn = c, !.requests = @ + 1]
  /\ Goto(c, "sent")
  /\ UNCHANGED <<verdict, calls, past>>

\* Its context is done by now, or nothing is left.
Refused(c) ==
  /\ pc[c] = "queued" /\ MyTurn
  /\ \/ Answer(c, "cancelled")
     \/ /\ client.open
        /\ Remaining(c) <= 0 \/ client.requests >= MaxRequests
        /\ Answer(c, "refused")
  /\ NoBody(c)
  /\ UNCHANGED <<client, calls, past>>

\* No answer; a redirect, which is not followed; an error status; headers that are
\* unsafe or announce more than the bound.
AnswerRefused(c) ==
  /\ pc[c] = "sent"
  /\ GiveBack(client.used)
  /\ Answer(c, "refused") /\ NoBody(c)
  /\ UNCHANGED <<calls, past>>

AnswerAccepted(c) ==
  /\ pc[c] = "sent"
  /\ \E n \in {Unknown} \cup 0..run[c].bound : run' = [run EXCEPT ![c].length = n]
  /\ Goto(c, "copying")
  /\ UNCHANGED <<client, verdict, calls, past>>

\* Mutant: every read is scanned by itself.
NoTail(seen) == <<>>

\* The last bytes seen, one less than the longest form of the credential.
KeptTail(seen) == SubSeq(seen, Len(seen), Len(seen))

\* One read of the limited body, one byte past the bound at most: what holds the
\* credential is not written on.
Copies(c) ==
  /\ pc[c] = "copying"
  /\ Len(run[c].body) <= run[c].bound
  /\ \E p \in Piece :
       LET seen == Append(run[c].tail, p) IN
       /\ ~Holds(seen)
       /\ run' = [run EXCEPT ![c].body = Append(@, p), ![c].tail = KeptTail(seen)]
  /\ UNCHANGED <<client, pc, verdict, calls, past>>

Spent(c) == [client.used EXCEPT ![run[c].stream] = @ + Len(run[c].body)]

\* The read fails, or the scanner refuses what it sees.
CopyFails(c) ==
  /\ pc[c] = "copying"
  /\ GiveBack(Spent(c)) /\ NoBody(c)
  /\ Answer(c, "refused")
  /\ UNCHANGED <<calls, past>>

\* Mutant: a body of one byte more than the bound, cut there, is taken.
CutIsWhole(c) == TRUE

Complete(c) ==
  LET n == Len(run[c].body) IN
  n <= run[c].bound /\ (run[c].length = Unknown \/ run[c].length = n)

\* A buffered body is parsed too: its JSON may hide the credential.
Hides(body) == \E i \in 1..Len(body) : body[i] = "escaped"

\* The body ends.
Ends(c) ==
  /\ pc[c] = "copying" /\ client.open
  /\ GiveBack(Spent(c))
  /\ \/ /\ Complete(c) /\ (run[c].stream \/ ~Hides(run[c].body))
        /\ Answer(c, "ok")
        /\ past' = [past EXCEPT ![run[c].stream] = @ + Len(run[c].body)]
        /\ UNCHANGED run
     \/ /\ ~Complete(c) \/ (~run[c].stream /\ Hides(run[c].body))
        /\ Answer(c, "refused") /\ NoBody(c)
        /\ UNCHANGED past
  /\ UNCHANGED calls

\* The context of the call or of the operation is done.
Cancelled(c) ==
  /\ pc[c] \in {"sent", "copying"}
  /\ GiveBack(Spent(c)) /\ NoBody(c)
  /\ Answer(c, "cancelled")
  /\ UNCHANGED <<calls, past>>

\* Close, or 45 seconds after Open.
Closed ==
  /\ (\E c \in Invocation : pc[c] \in Steps) /\ client.open
  /\ client' = [client EXCEPT !.open = FALSE]
  /\ UNCHANGED <<pc, run, verdict, calls, past>>

Step(c) ==
  \/ Calls(c) \/ Admitted(c) \/ Refused(c) \/ AnswerRefused(c) \/ AnswerAccepted(c)
  \/ Copies(c) \/ CopyFails(c) \/ Ends(c) \/ Cancelled(c)

Next == Closed \/ \E c \in Invocation : Step(c)

Spec == Init /\ [][Next]_vars
-----------------------------------------------------------------------------
\* However the provider's answer is cut into reads, no writer of the operation is
\* given the credential, and no accepted body it parses hides it.
CredentialNeverDelivered ==
  \A c \in Invocation :
    /\ ~Holds(run[c].body)
    /\ verdict[c] = "ok" /\ ~run[c].stream => ~Hides(run[c].body)

\* An accepted body is whole and within the call's own bound, and all accepted
\* bodies together are within the operation's budget, whichever calls overlapped.
TransferVerdictIsTrue ==
  /\ \A c \in Invocation :
       verdict[c] = "ok" =>
         /\ Len(run[c].body) <= run[c].max
         /\ run[c].length \in {Unknown, Len(run[c].body)}
  /\ \A s \in BOOLEAN : past[s] <= Budget(s)
=============================================================================
