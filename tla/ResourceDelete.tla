--------------------------- MODULE ResourceDelete ---------------------------
(***************************************************************************)
(* gl-axi issue|pipeline|release|snippet delete: invocations that review    *)
(* one resource twice, delete it with one request, and call it deleted only *)
(* when the provider acknowledged the request and the resource cannot be    *)
(* found afterwards although the account, the project and the release's tag *)
(* still can (src/internal/product/commands_delete.go).                     *)
(*                                                                          *)
(* One resource, whose revision stands for all that checkDeletionRecord     *)
(* compares; a revision is never used again.  A read is one atomic look at  *)
(* the provider.                                                            *)
(***************************************************************************)
EXTENDS Naturals

CONSTANTS
  Invocation,    \* the runs of the command
  Rev,           \* revisions of the resource
  Nil,           \* no resource
  MaxOther       \* bound: changes by other actors

\* A revision, the resource's absence and the answers that carry no record can be
\* told apart.
ASSUME DeleteAssumption ==
  /\ Rev \cap {Nil, "ack", "status", "http400"} = {}
  /\ Nil \notin {"ack", "status", "http400"}
  /\ MaxOther \in Nat

Kind == {"issue", "pipeline", "release", "snippet"}

VARIABLES
  kind,     \* the kind of the resource
  res,      \* provider: the revision of the resource, or Nil
  used,     \* provider: the revisions there have been
  tag,      \* provider: does the release's tag name the expected commit?
  access,   \* provider: what the account sees: "full"; "scoped", all but the
            \* resource; or "none"
  others,   \* number of changes made by other actors
  ask,      \* ask[c]: the revision the caller of c reviewed
  pc,       \* pc[c]: the next call of c
  ctx,      \* ctx[c]: "live", or "done" once the deadline passed or c was interrupted
  wire,     \* wire[c]: c's DELETE request
  reply,    \* reply[c]: the provider's answer to c's pending request
  acked,    \* acked[c]: the answer was the exact acknowledgment
  verdict,  \* verdict[c]: the action of c's receipt
  took,     \* history: took[c] is the revision c's request removed
  held,     \* history: the resource was gone at some moment since c started or attempted
  drift     \* history: the resource changed since c's last look at it

provider == <<kind, res, used, tag, access, others>>
history == <<took, held, drift>>
vars == <<kind, res, used, tag, access, others, ask, pc, ctx, wire, reply, acked,
          verdict, took, held, drift>>

Preflight == {"identify", "tag", "review", "bind", "final", "write"}

\* The types, and the verdicts a delete can come to; a revision, once used, is
\* never used again.
TypeOK ==
  /\ kind \in Kind
  /\ res \in used \cup {Nil}
  /\ used \subseteq Rev
  /\ tag \in BOOLEAN
  /\ access \in {"full", "scoped", "none"}
  /\ others \in 0..MaxOther
  /\ ask \in [Invocation -> Rev]
  /\ pc \in [Invocation -> {"idle", "reply", "readback", "recheck", "done"} \cup Preflight]
  /\ ctx \in [Invocation -> {"live", "done"}]
  /\ wire \in [Invocation -> {"unsent", "inflight", "applied", "refused", "lost"}]
  /\ reply \in [Invocation -> Rev \cup {Nil, "ack", "status", "http400"}]
  /\ acked \in [Invocation -> BOOLEAN]
  /\ verdict \in [Invocation -> {"none", "refused", "deleted", "rejected", "ambiguous"}]
  /\ took \in [Invocation -> Rev \cup {Nil}]
  /\ held \in [Invocation -> BOOLEAN]
  /\ drift \in [Invocation -> BOOLEAN]

-----------------------------------------------------------------------------
Active(c) == pc[c] \notin {"idle", "done"}

\* What c was asked for.
Goal == res = Nil

\* History: every change at the provider refreshes held.
Observed == held' = [c \in Invocation |-> held[c] \/ (Active(c) /\ Goal')]

Readable == access # "none"

\* readDeletionRecord and checkDeletionRecord: the reviewed revision is there.
SeesReviewed(c) == access = "full" /\ res = ask[c]

\* A scoped 404, which does not tell deletion from lost access.
NotFound == Readable /\ (res = Nil \/ access = "scoped")

Init ==
  /\ kind \in Kind
  /\ res \in Rev \cup {Nil}
  /\ used = {res} \ {Nil}
  /\ tag \in BOOLEAN
  /\ access = "full"
  /\ others = 0
  /\ ask \in [Invocation -> Rev]
  /\ pc = [c \in Invocation |-> "idle"]
  /\ ctx = [c \in Invocation |-> "live"]
  /\ wire = [c \in Invocation |-> "unsent"]
  /\ reply = [c \in Invocation |-> Nil]
  /\ acked = [c \in Invocation |-> FALSE]
  /\ verdict = [c \in Invocation |-> "none"]
  /\ took = [c \in Invocation |-> Nil]
  /\ held = [c \in Invocation |-> FALSE]
  /\ drift = [c \in Invocation |-> FALSE]

-----------------------------------------------------------------------------
(* The invocation.                                                          *)

Goto(c, l) == pc' = [pc EXCEPT ![c] = l]

\* The invocation ends: its context is canceled and its locals are gone.
End(c) ==
  /\ Goto(c, "done")
  /\ ctx' = [ctx EXCEPT ![c] = "done"]
  /\ reply' = [reply EXCEPT ![c] = Nil]
  /\ acked' = [acked EXCEPT ![c] = FALSE]

Return(c, v) == End(c) /\ verdict' = [verdict EXCEPT ![c] = v]

\* c's read in stage l shows what it must, and c goes on to its next call.
Passes(c, l, next) ==
  /\ pc[c] = l
  /\ ctx[c] = "live"
  /\ Goto(c, next)
  /\ UNCHANGED <<provider, ask, ctx, wire, reply, acked, verdict, took, held>>

Start(c) ==
  /\ pc[c] = "idle"
  /\ Goto(c, "identify")
  /\ held' = [held EXCEPT ![c] = Goal]
  /\ UNCHANGED <<provider, ask, ctx, wire, reply, acked, verdict, took, drift>>

\* A read before the write fails or shows something else than reviewed, or the
\* context is done before the mutation: an ordinary error with a receipt that
\* says not_applied.  A resource that is not there is no success.
Refuse(c) ==
  /\ pc[c] \in Preflight
  /\ Return(c, "refused")
  /\ UNCHANGED <<provider, ask, wire, history>>

\* readDeletionActor and checkDeletionProject.
Identify(c) ==
  /\ Readable
  /\ Passes(c, "identify", IF kind = "release" THEN "tag" ELSE "review")
  /\ UNCHANGED drift

\* checkDeletionTag.
CheckTag(c) ==
  /\ Readable /\ tag
  /\ Passes(c, "tag", "review")
  /\ UNCHANGED drift

Review(c) ==
  /\ SeesReviewed(c)
  /\ Passes(c, "review", "bind")
  /\ drift' = [drift EXCEPT ![c] = FALSE]

\* checkDeletionProject by its numeric identity.
Bind(c) ==
  /\ Readable
  /\ Passes(c, "bind", "final")
  /\ UNCHANGED drift

\* The second review, the last call before the DELETE.
StillThere(c) ==   \* mutant: only the existence of the resource is looked at again
  /\ access = "full" /\ res # Nil
  /\ Passes(c, "final", "write")
  /\ drift' = [drift EXCEPT ![c] = FALSE]
Final(c) ==
  /\ SeesReviewed(c)
  /\ Passes(c, "final", "write")
  /\ drift' = [drift EXCEPT ![c] = FALSE]

\* The one DELETE.
Write(c) ==
  /\ pc[c] = "write"
  /\ ctx[c] = "live"
  /\ \E w \in {"inflight", "lost"} : wire' = [wire EXCEPT ![c] = w]
  /\ Goto(c, "reply")
  /\ held' = [held EXCEPT ![c] = Goal]
  /\ UNCHANGED <<provider, ask, ctx, reply, acked, verdict, took, drift>>

\* The acknowledgment: for a release the deleted record, which must be the
\* reviewed one, otherwise an empty 204.
AnyBody(c) == reply[c] \notin {Nil, "status", "http400"}   \* mutant: any record will do
Acknowledged(c) == reply[c] = IF kind = "release" THEN ask[c] ELSE "ack"

\* deletionRejection: a snippet's database row may be gone behind a 400.
StatusRejects(c) == reply[c] \in {"status", "http400"}   \* mutant: no such exception
Rejects(c) ==
  \/ reply[c] = "status"
  \/ reply[c] = "http400" /\ kind # "snippet"

Readback(c, a) ==
  /\ Goto(c, "readback")
  /\ acked' = [acked EXCEPT ![c] = a]
  /\ reply' = [reply EXCEPT ![c] = Nil]
  /\ UNCHANGED <<ctx, verdict>>

\* The answer arrives: a rejection is final at once, all else is read back.
Answered(c) ==
  /\ pc[c] = "reply"
  /\ ctx[c] = "live"
  /\ reply[c] # Nil
  /\ IF Rejects(c) THEN Return(c, "rejected") ELSE Readback(c, Acknowledged(c))
  /\ UNCHANGED <<provider, ask, wire, history>>

\* The connection breaks, the call's own 10 s pass or the answer is unreadable.
AnswerLost(c) ==
  /\ pc[c] = "reply"
  /\ Readback(c, FALSE)
  /\ UNCHANGED <<provider, ask, wire, history>>

\* The reconciling read: not found goes on to the checks that make it mean
\* something, anything else is ambiguous.
PresentIsTheAction(c) ==   \* mutant: the postcondition is returned as the action
  /\ pc[c] = "readback"
  /\ ctx[c] = "live"
  /\ IF NotFound
       THEN Goto(c, "recheck") /\ UNCHANGED <<ctx, reply, acked, verdict>>
       ELSE Return(c, "present")
  /\ UNCHANGED <<provider, ask, wire, history>>
ReadBack(c) ==
  /\ pc[c] = "readback"
  /\ ctx[c] = "live"
  /\ IF NotFound
       THEN Goto(c, "recheck") /\ UNCHANGED <<ctx, reply, acked, verdict>>
       ELSE Return(c, "ambiguous")
  /\ UNCHANGED <<provider, ask, wire, history>>

\* Project, account and tag again.
Recheck(c) ==
  /\ pc[c] = "recheck"
  /\ ctx[c] = "live"
  /\ Return(c, IF Readable /\ (kind = "release" => tag) /\ acked[c]
               THEN "deleted" ELSE "ambiguous")
  /\ UNCHANGED <<provider, ask, wire, history>>

\* A reconciling read fails, or the context was done.
ReconcileFails(c) ==
  /\ pc[c] \in {"readback", "recheck"}
  /\ Return(c, "ambiguous")
  /\ UNCHANGED <<provider, ask, wire, history>>

\* The 45 s deadline of the operation, or an interrupt.
Expire(c) ==
  /\ Active(c)
  /\ ctx[c] = "live"
  /\ ctx' = [ctx EXCEPT ![c] = "done"]
  /\ UNCHANGED <<provider, ask, pc, wire, reply, acked, verdict, history>>

\* The process is killed: no receipt, and a request already sent lives on.
Crash(c) ==
  /\ Active(c)
  /\ End(c)
  /\ UNCHANGED <<provider, ask, wire, verdict, history>>

-----------------------------------------------------------------------------
(* The provider and its other users (outside src/).                         *)

Answer(c, r) == reply' = IF pc[c] = "reply" THEN [reply EXCEPT ![c] = r] ELSE reply

\* The resource is removed, in whatever revision it is by now.  The answer is the
\* removed release or an empty 204; for a snippet also a 400 when its repository
\* could not be removed.
ApplyDelete(c) ==
  /\ wire[c] = "inflight"
  /\ access = "full"
  /\ res # Nil
  /\ res' = Nil
  /\ wire' = [wire EXCEPT ![c] = "applied"]
  /\ took' = [took EXCEPT ![c] = res]
  /\ \/ Answer(c, IF kind = "release" THEN res ELSE "ack")
     \/ kind = "snippet" /\ Answer(c, "http400")
  /\ UNCHANGED <<kind, used, tag, access, others, ask, pc, ctx, acked, verdict, drift>>
  /\ Observed

\* A request is refused with a 4xx (a 404, for one, when the resource is gone), or
\* never arrives.
DropDelete(c) ==
  /\ wire[c] = "inflight"
  /\ \/ /\ wire' = [wire EXCEPT ![c] = "refused"]
        /\ \E r \in {"status", "http400"} : Answer(c, r)
     \/ wire' = [wire EXCEPT ![c] = "lost"] /\ UNCHANGED reply
  /\ UNCHANGED <<provider, ask, pc, ctx, acked, verdict, history>>

Disturb ==
  /\ others < MaxOther
  /\ others' = others + 1
  /\ UNCHANGED <<kind, ask, pc, ctx, wire, reply, acked, verdict, took>>

\* The resource is changed, deleted by another user, or (a release) made anew.
OtherChanges ==
  /\ Disturb
  /\ \/ \E r \in Rev \ used :
          /\ res # Nil \/ kind = "release"
          /\ res' = r
          /\ used' = used \cup {r}
     \/ res # Nil /\ res' = Nil /\ UNCHANGED used
  /\ drift' = [c \in Invocation |-> drift[c] \/ Active(c) \/ wire[c] = "inflight"]
  /\ UNCHANGED <<tag, access>>
  /\ Observed

\* The tag is moved or removed, or the account loses or regains access.
OtherInterferes ==
  /\ Disturb
  /\ \/ tag' = ~tag /\ UNCHANGED access
     \/ access' \in {"full", "scoped", "none"} \ {access} /\ UNCHANGED tag
  /\ UNCHANGED <<res, used, held, drift>>

-----------------------------------------------------------------------------
Run(c) ==
  \/ Start(c) \/ Refuse(c) \/ Identify(c) \/ CheckTag(c) \/ Review(c) \/ Bind(c)
  \/ Final(c) \/ Write(c) \/ Answered(c) \/ AnswerLost(c)
  \/ ReadBack(c) \/ Recheck(c) \/ ReconcileFails(c) \/ Expire(c) \/ Crash(c)

Provider(c) == ApplyDelete(c) \/ DropDelete(c)

Next ==
  \/ \E c \in Invocation : Run(c) \/ Provider(c)
  \/ OtherChanges
  \/ OtherInterferes

Spec == Init /\ [][Next]_vars

-----------------------------------------------------------------------------
(* Properties.                                                              *)

Effect(c) ==
  IF wire[c] = "unsent" THEN "none"
  ELSE IF wire[c] \in {"refused", "lost"} THEN "dropped" ELSE wire[c]

Phase(c) ==
  IF pc[c] = "idle" THEN "idle"
  ELSE IF wire[c] = "unsent" THEN "preflight" ELSE "attempted"

Claim(c) == IF verdict[c] = "deleted" THEN "done" ELSE verdict[c]

GW == INSTANCE GuardedWrite WITH
        phase <- [c \in Invocation |-> Phase(c)],
        effect <- [c \in Invocation |-> Effect(c)],
        verdict <- [c \in Invocation |-> Claim(c)]

\* Every invocation keeps the promise of GuardedWrite: one DELETE at most, none
\* behind not_applied; deleted only when the resource really was gone after the
\* attempt, whatever the account could see; rejected only when the request
\* removed nothing and will not.
ImplementsGuardedWrite == GW!Spec

\* Nobody's later work is deleted unnoticed but in one window: what a request
\* removes is the reviewed revision, or it changed after c's second look.  Of a
\* release, whose answer shows what was removed, deleted is never said of such a
\* change: this run itself removed exactly the reviewed record.
DeletesTheReviewed ==
  [][\A c \in Invocation :
       /\ took'[c] # took[c] => took'[c] = ask[c] \/ drift[c]
       /\ verdict'[c] = "deleted" /\ kind = "release" => took'[c] = ask[c]]_vars
=============================================================================
