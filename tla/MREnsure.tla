------------------------------ MODULE MREnsure ------------------------------
(***************************************************************************)
(* gl-axi mr ensure: invocations that look a branch pair's open merge       *)
(* request up, and create it, bring its title and description up to date,   *)
(* or leave it alone (src/internal/product/commands_ensure.go).  Several    *)
(* invocations share one provider with other writers; requests may be late, *)
(* lost or refused, answers may be lost, an invocation may hit its deadline *)
(* or be killed at any step.                                                *)
(*                                                                          *)
(* One branch pair of one project.  A title and description are one         *)
(* Content; a creation selection (assignees, reviewers, milestone, draft)   *)
(* is one Meta.  A lookup or a view is one atomic read at the provider; its *)
(* result is used in later steps.                                           *)
(***************************************************************************)
EXTENDS Naturals, FiniteSets

CONSTANTS
  Invocation,    \* the runs of the command
  IID,           \* merge requests the branch pair may ever have
  Content,       \* title and description
  Meta,          \* creation metadata
  DefaultMeta,   \* what a request without a selection gets
  NoSelection,   \* no creation selector was given
  Sha,           \* heads of the source branch
  Nil,           \* no merge request
  MaxOther       \* bound: changes by other actors

ASSUME EnsureAssumption ==
  /\ DefaultMeta \in Meta
  /\ NoSelection \notin Meta
  /\ IsFiniteSet(IID)
  /\ MaxOther \in Nat

Ask == [content : Content, sel : Meta \cup {NoSelection}]
MR == [open : BOOLEAN, content : Content, meta : Meta]
Seen == [iid : IID, rec : MR, sha : Sha]

ASSUME NilAssumption == Nil \notin MR /\ Nil \notin Seen

VARIABLES
  mr,       \* provider: mr[i], or Nil while i does not exist
  head,     \* provider: head of the source branch, so of every open merge request
  others,   \* number of changes made by other actors
  ask,      \* ask[c]: the content and the selection c was given
  pc,       \* pc[c]: the next call of c
  ctx,      \* ctx[c]: "live", or "done" once the deadline passed or c was interrupted
  view,     \* view[c]: the one match c's lookup returned
  wire,     \* wire[c]: c's mutating request
  echo,     \* echo[c]: the record the provider answers c's pending write with
  cause,    \* cause[c]: does c's write error carry a recognized HTTP status?
  verdict,  \* verdict[c]: what c returned
  held,     \* history: Goal(c) held at some moment since c started or attempted
  raced     \* history: writers of the branch pair overlapped

provider == <<mr, head, others>>
vars == <<mr, head, others, ask, pc, ctx, view, wire, echo, cause, verdict, held, raced>>

Replying == {"createReply", "updateReply"}
Reconciling == {"createReconcile", "updateReconcile"}
Reading == {"lookup", "recheck"} \cup Reconciling

\* The types of the provider's records and of what an invocation keeps, and the
\* verdicts and causes that executeMREnsure and mrEnsureFailure can come to: a
\* status is kept only as the cause of a definite HTTP rejection.
TypeOK ==
  /\ mr \in [IID -> MR \cup {Nil}]
  /\ head \in Sha
  /\ others \in 0..MaxOther
  /\ ask \in [Invocation -> Ask]
  /\ pc \in [Invocation -> {"idle", "existing", "create", "done"} \cup Replying \cup Reading]
  /\ ctx \in [Invocation -> {"live", "done"}]
  /\ view \in [Invocation -> Seen \cup {Nil}]
  /\ wire \in [Invocation -> {"unsent", "inflight", "applied", "refused", "lost"}]
  /\ echo \in [Invocation -> Seen \cup {Nil}]
  /\ cause \in [Invocation -> {"none", "status"}]
  /\ verdict \in [Invocation -> {"none", "refused", "unchanged", "created",
       "reconciled_create", "updated", "reconciled_update", "rejected", "ambiguous"}]
  /\ held \in [Invocation -> BOOLEAN]
  /\ raced \in BOOLEAN

-----------------------------------------------------------------------------
(* Requested state.                                                         *)

Opened == {i \in IID : mr[i] # Nil /\ mr[i].open}
Snapshot(i) == [iid |-> i, rec |-> mr[i], sha |-> head]

\* (*mrCreationMetadata).matches: no selection matches every record.
Matches(c, r) == ask[c].sel \in {NoSelection, r.meta}

Requested(c, r) == r.open /\ r.content = ask[c].content /\ Matches(c, r)

\* validateEnsureUpdateIdentity: the record found before the write, same head.
SameIdentity(seen, found) == seen.iid = found.iid /\ seen.sha = found.sha

\* What c was asked for: before and during a create, an open merge request with
\* the requested content; for an update, that of the very one it found.
Goal(c) ==
  \E i \in Opened :
    /\ Requested(c, mr[i])
    /\ view[c] # Nil => SameIdentity(Snapshot(i), view[c])

Active(c) == pc[c] \notin {"idle", "done"}

\* History: every change at the provider refreshes held.
Observed == held' = [c \in Invocation |-> held[c] \/ (Active(c) /\ Goal(c)')]

Init ==
  /\ mr \in [IID -> {r \in MR : r.open} \cup {Nil}]
  /\ head \in Sha
  /\ others = 0
  /\ ask \in [Invocation -> Ask]
  /\ pc = [c \in Invocation |-> "idle"]
  /\ ctx = [c \in Invocation |-> "live"]
  /\ view = [c \in Invocation |-> Nil]
  /\ wire = [c \in Invocation |-> "unsent"]
  /\ echo = [c \in Invocation |-> Nil]
  /\ cause = [c \in Invocation |-> "none"]
  /\ verdict = [c \in Invocation |-> "none"]
  /\ held = [c \in Invocation |-> FALSE]
  /\ raced = (Cardinality(Opened) > 1)

-----------------------------------------------------------------------------
(* The invocation.                                                          *)

Goto(c, l) == pc' = [pc EXCEPT ![c] = l]

\* The invocation ends: its context is canceled and its locals are gone.
End(c) ==
  /\ Goto(c, "done")
  /\ ctx' = [ctx EXCEPT ![c] = "done"]
  /\ cause' = [cause EXCEPT ![c] = "none"]
  /\ echo' = [echo EXCEPT ![c] = Nil]

Return(c, v) == End(c) /\ verdict' = [verdict EXCEPT ![c] = v]

\* executeMREnsure starts: content and selection are read from private files
\* and the project's identity is checked before the first lookup.
Start(c) ==
  /\ pc[c] = "idle"
  /\ Goto(c, "lookup")
  /\ held' = [held EXCEPT ![c] = Goal(c)]
  /\ raced' = (raced \/ \E d \in Invocation \ {c} : Active(d) \/ wire[d] = "inflight")
  /\ UNCHANGED <<provider, ask, ctx, view, wire, echo, cause, verdict>>

NeedsUpdate(c) ==
  /\ pc[c] = "existing"
  /\ ask[c].sel = NoSelection
  /\ ~Requested(c, view[c].rec)

\* A read before the write fails, or the private input file cannot be written:
\* an ordinary error.
Refuse(c) ==
  /\ pc[c] \in {"lookup", "recheck", "create"} \/ NeedsUpdate(c)
  /\ Return(c, "refused")
  /\ UNCHANGED <<provider, ask, view, wire, held, raced>>

\* loadEnsureMatches: the open merge requests of the branch pair.
MatchingContent(c) == {i \in Opened : Requested(c, mr[i])}   \* mutant
Matching(c) == Opened

\* One match is dealt with, none is looked up again before the create, more than
\* one is a conflict.
Lookup(c) ==
  /\ pc[c] \in {"lookup", "recheck"}
  /\ ctx[c] = "live"
  /\ \/ /\ Matching(c) = {}
        /\ Goto(c, IF pc[c] = "lookup" THEN "recheck" ELSE "create")
        /\ UNCHANGED <<ctx, view, echo, cause, verdict>>
     \/ \E i \in Matching(c) :
          /\ Matching(c) = {i}
          /\ view' = [view EXCEPT ![c] = Snapshot(i)]
          /\ Goto(c, "existing")
          /\ UNCHANGED <<ctx, echo, cause, verdict>>
     \/ /\ Cardinality(Matching(c)) > 1
        /\ Return(c, "refused")
        /\ UNCHANGED view
  /\ UNCHANGED <<provider, ask, wire, held, raced>>

\* ensureExisting up to the write: an identical record is left alone, metadata is
\* never replaced, and a selection never leads to an update.
KeepExisting(c) ==
  /\ pc[c] = "existing"
  /\ \/ Requested(c, view[c].rec) /\ Return(c, "unchanged")
     \/ /\ ~Requested(c, view[c].rec)
        /\ ask[c].sel # NoSelection
        /\ Return(c, "refused")
  /\ UNCHANGED <<provider, ask, view, wire, held, raced>>

\* The one POST, or the one PUT.  A call made after the deadline, or that
\* cannot be started, sends nothing and is a write error all the same.
Write(c) ==
  /\ \/ pc[c] = "create" /\ Goto(c, "createReply")
     \/ NeedsUpdate(c) /\ Goto(c, "updateReply")
  /\ \/ ctx[c] = "live" /\ wire' = [wire EXCEPT ![c] = "inflight"]
     \/ wire' = [wire EXCEPT ![c] = "lost"]
  /\ held' = [held EXCEPT ![c] = Goal(c)]
  /\ UNCHANGED <<provider, ask, ctx, view, echo, cause, verdict, raced>>

\* The answer is a record: accepted if it has the requested content and, for an
\* update, the identity of the record found before.
Accepted(c) ==
  /\ Requested(c, echo[c].rec)
  /\ view[c] # Nil => SameIdentity(echo[c], view[c])

BlindRetry(c, why) ==   \* mutant: the write is sent again
  /\ Goto(c, IF pc[c] = "createReply" THEN "create" ELSE "existing")
  /\ echo' = [echo EXCEPT ![c] = Nil]
  /\ UNCHANGED <<ctx, cause, verdict>>
KeepAnyStatus(c, why) ==   \* mutant: statuses NewHTTPRejection does not know are kept
  /\ Goto(c, IF pc[c] = "createReply" THEN "createReconcile" ELSE "updateReconcile")
  /\ \E w \in {why, "other"} : cause' = [cause EXCEPT ![c] = w]
  /\ echo' = [echo EXCEPT ![c] = Nil]
  /\ UNCHANGED <<ctx, verdict>>
Reconcile(c, why) ==
  /\ Goto(c, IF pc[c] = "createReply" THEN "createReconcile" ELSE "updateReconcile")
  /\ cause' = [cause EXCEPT ![c] = why]
  /\ echo' = [echo EXCEPT ![c] = Nil]
  /\ UNCHANGED <<ctx, verdict>>

Answered(c) ==
  /\ pc[c] \in Replying
  /\ ctx[c] = "live"
  /\ wire[c] = "applied"
  /\ IF Accepted(c)
       THEN Return(c, IF pc[c] = "createReply" THEN "created" ELSE "updated")
       ELSE Reconcile(c, "none")
  /\ UNCHANGED <<provider, ask, view, wire, held, raced>>

\* The provider's refusal arrives with an HTTP status uxv1.NewHTTPRejection knows.
RefusalArrives(c) ==
  /\ pc[c] \in Replying
  /\ ctx[c] = "live"
  /\ wire[c] = "refused"
  /\ Reconcile(c, "status")
  /\ UNCHANGED <<provider, ask, view, wire, held, raced>>

\* The connection breaks, the answer cannot be read, or its status is not known.
AnswerLost(c) ==
  /\ pc[c] \in Replying
  /\ Reconcile(c, "none")
  /\ UNCHANGED <<provider, ask, view, wire, held, raced>>

\* reconcileEnsure, after a create: one branch lookup.
ReconcileCreate(c) ==
  /\ pc[c] = "createReconcile"
  /\ ctx[c] = "live"
  /\ Return(c,
       CASE \E i \in IID : Matching(c) = {i} /\ Requested(c, mr[i]) -> "reconciled_create"
         [] Matching(c) = {} /\ cause[c] = "status" -> "rejected"
         [] OTHER -> "ambiguous")
  /\ UNCHANGED <<provider, ask, view, wire, held, raced>>

\* reconcileEnsureUpdate: one view of the same iid.
Updated(c) ==
  LET i == view[c].iid IN
  /\ mr[i] # Nil
  /\ Requested(c, mr[i])
  /\ SameIdentity(Snapshot(i), view[c])

ReconcileUpdate(c) ==
  /\ pc[c] = "updateReconcile"
  /\ ctx[c] = "live"
  /\ Return(c, IF Updated(c) THEN "reconciled_update" ELSE "ambiguous")
  /\ UNCHANGED <<provider, ask, view, wire, held, raced>>

\* The reconciling read fails: the outcome stays unknown.
ReconcileFails(c) ==
  /\ pc[c] \in Reconciling
  /\ Return(c, "ambiguous")
  /\ UNCHANGED <<provider, ask, view, wire, held, raced>>

\* The 45 s deadline of the operation, or an interrupt.
Expire(c) ==
  /\ Active(c)
  /\ ctx[c] = "live"
  /\ ctx' = [ctx EXCEPT ![c] = "done"]
  /\ UNCHANGED <<provider, ask, pc, view, wire, echo, cause, verdict, held, raced>>

\* The process is killed: no answer, and a request already sent lives on.
Crash(c) ==
  /\ Active(c)
  /\ End(c)
  /\ UNCHANGED <<provider, ask, view, wire, verdict, held, raced>>

-----------------------------------------------------------------------------
(* The provider and its other users (outside src/).                         *)

Answer(c, seen) ==
  echo' = IF pc[c] \in Replying THEN [echo EXCEPT ![c] = seen] ELSE echo

\* A POST is carried out: a fresh merge request.  What is stored may differ from
\* what was asked (description templates, metadata the caller may not set).
ApplyCreate(c) ==
  /\ wire[c] = "inflight"
  /\ view[c] = Nil
  /\ \E i \in IID, r \in MR :
       /\ mr[i] = Nil
       /\ r.open
       /\ ask[c].sel = NoSelection => r.meta = DefaultMeta
       /\ mr' = [mr EXCEPT ![i] = r]
       /\ Answer(c, [iid |-> i, rec |-> r, sha |-> head])
  /\ wire' = [wire EXCEPT ![c] = "applied"]
  /\ UNCHANGED <<head, others, ask, pc, ctx, view, cause, verdict, raced>>
  /\ Observed

Stored(r) == {[r EXCEPT !.content = new] : new \in Content}

\* A PUT is carried out on the addressed merge request, open or not by now.
ApplyUpdate(c) ==
  /\ wire[c] = "inflight"
  /\ view[c] # Nil
  /\ LET i == view[c].iid IN
     \E stored \in Stored(mr[i]) :
       /\ mr' = [mr EXCEPT ![i] = stored]
       /\ Answer(c, [iid |-> i, rec |-> stored, sha |-> head])
  /\ wire' = [wire EXCEPT ![c] = "applied"]
  /\ UNCHANGED <<head, others, ask, pc, ctx, view, cause, verdict, raced>>
  /\ Observed

\* A request is refused with a 4xx, or never arrives.
DropWrite(c) ==
  /\ wire[c] = "inflight"
  /\ \E e \in {"refused", "lost"} : wire' = [wire EXCEPT ![c] = e]
  /\ UNCHANGED <<provider, ask, pc, ctx, view, echo, cause, verdict, held, raced>>

\* Another user opens a merge request of the branch pair (or reopens one).
OtherOpens ==
  /\ others < MaxOther
  /\ others' = others + 1
  /\ \E i \in IID, r \in MR :
       /\ r.open
       /\ mr[i] = Nil \/ mr[i] = [r EXCEPT !.open = FALSE]
       /\ mr' = [mr EXCEPT ![i] = r]
  /\ raced' = (raced \/ Opened # {} \/ \E c \in Invocation : Active(c) \/ wire[c] = "inflight")
  /\ UNCHANGED <<head, ask, pc, ctx, view, wire, echo, cause, verdict>>
  /\ Observed

Edited(r) ==
  (Stored(r) \ {r}) \cup {[r EXCEPT !.open = FALSE]}

\* Another user edits or closes an open one, or pushes to the source branch.
OtherChanges ==
  /\ others < MaxOther
  /\ others' = others + 1
  /\ \/ /\ \E i \in Opened : \E r \in Edited(mr[i]) : mr' = [mr EXCEPT ![i] = r]
        /\ UNCHANGED head
     \/ head' \in Sha \ {head} /\ UNCHANGED mr
  /\ UNCHANGED <<ask, pc, ctx, view, wire, echo, cause, verdict, raced>>
  /\ Observed

-----------------------------------------------------------------------------
Run(c) ==
  \/ Start(c) \/ Lookup(c) \/ Refuse(c) \/ KeepExisting(c) \/ Write(c)
  \/ Answered(c) \/ RefusalArrives(c) \/ AnswerLost(c)
  \/ ReconcileCreate(c) \/ ReconcileUpdate(c) \/ ReconcileFails(c)
  \/ Expire(c) \/ Crash(c)

Provider(c) == ApplyCreate(c) \/ ApplyUpdate(c) \/ DropWrite(c)

Next ==
  \/ \E c \in Invocation : Run(c) \/ Provider(c)
  \/ OtherOpens
  \/ OtherChanges

Spec == Init /\ [][Next]_vars

-----------------------------------------------------------------------------
(* Properties.                                                              *)

Successes == {"created", "reconciled_create", "updated", "reconciled_update"}

Effect(c) ==
  IF wire[c] = "unsent" THEN "none"
  ELSE IF wire[c] \in {"refused", "lost"} THEN "dropped" ELSE wire[c]

Phase(c) ==
  IF pc[c] = "idle" THEN "idle"
  ELSE IF wire[c] = "unsent" THEN "preflight" ELSE "attempted"

Claim(c) ==
  IF verdict[c] = "unchanged" THEN "noop"
  ELSE IF verdict[c] \in Successes THEN "done" ELSE verdict[c]

GW == INSTANCE GuardedWrite WITH
        phase <- [c \in Invocation |-> Phase(c)],
        effect <- [c \in Invocation |-> Effect(c)],
        verdict <- [c \in Invocation |-> Claim(c)]

\* Every invocation keeps the promise of GuardedWrite: one request at most; an
\* ordinary error only when none was sent; created, updated and their reconciled
\* forms only when the provider really had the requested content, for an update
\* on the record and head found before the write; a rejection only when the
\* request did not and will not take effect.
ImplementsGuardedWrite == GW!Spec

\* Repeating the command is safe: as long as no invocation starts while another
\* one, or a request another one left behind, is still at work, and nobody else
\* opens a merge request meanwhile, the branch pair never has two open ones,
\* whatever answers are lost and whichever invocations are killed.
RetriesNeverDuplicate == ~raced => Cardinality(Opened) <= 1
=============================================================================
