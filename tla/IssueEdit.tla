------------------------------ MODULE IssueEdit -----------------------------
(***************************************************************************)
(* gl-axi issue edit: invocations that read an issue and the label catalog, *)
(* plan a change of the title and of some labels, read both again, send one *)
(* PUT and then always read the issue and the catalog once more             *)
(* (src/internal/product/commands_issue_edit.go, issue_edit_apply.go).      *)
(* Other users edit the issue and rename, delete or create labels meanwhile; *)
(* the request names labels by their names, not by their identities.        *)
(*                                                                          *)
(* title stands for the title and the description, which are handled alike. *)
(* rev stands for updated_at: the state of an issue does not change without *)
(* it, the names of its labels do.  The pages of the catalog are one read   *)
(* (CIVariables is about lists that move between two pages).                *)
(***************************************************************************)
EXTENDS Naturals, FiniteSets

CONSTANTS
  Invocation,    \* the runs of the command
  Title,
  Name,          \* names of labels
  Label,         \* identities of labels
  Nil,           \* no title, no label, nothing seen
  MaxOther       \* bound: changes by other actors

ASSUME EditAssumption ==
  /\ Nil \notin Title /\ Nil \notin Label
  /\ IsFiniteSet(Invocation)
  /\ MaxOther \in Nat

Rev == 0 .. (MaxOther + Cardinality(Invocation))

\* validateIssueEditParsed: something is requested, and no label both ways.
Ask == {a \in [title : Title \cup {Nil}, add : SUBSET Name, remove : SUBSET Name,
               mode : {"live", "dry_run", "delegated"}] :
          /\ a.add \cap a.remove = {}
          /\ a.title # Nil \/ a.add \cup a.remove # {}}

Issue == [title : Title, state : {"opened", "closed"}, labels : SUBSET Label, rev : Rev]

\* An issue as it is read: with the names of its labels.
Seen == [title : Title, state : {"opened", "closed"}, names : SUBSET Name, rev : Rev]

ASSUME NilAssumption == Nil \notin Seen

Aspect == {"title", "state", "names"}

VARIABLES
  issue,    \* provider: the issue
  catalog,  \* provider: catalog[n] is the label of name n
  others,   \* number of changes made by other actors
  ask,      \* ask[c]: what c was given
  expect,   \* expect[c]: the revision the caller of c reviewed
  pc,       \* pc[c]: the next call of c
  ctx,      \* ctx[c]: "live", or "done" once the deadline passed or c was interrupted
  view,     \* view[c]: the issue c planned from
  ids,      \* ids[c]: the labels c resolved the requested names to
  wire,     \* wire[c]: c's mutating request
  echo,     \* echo[c]: what the answer on its way says of the issue
  unsafe,   \* unsafe[c]: unsafeResponse, or the response verified the result
  verdict,  \* verdict[c]: what c returned
  held,     \* history: Goal(c) held at some moment since c started or attempted
  exact,    \* history: ... and the labels were those c resolved
  landed,   \* history: how c's own write left the issue
  drift,    \* history: what changed since c last read the issue before its write
  relabels  \* history: changes of the catalog since c last read it (2 is many)

provider == <<issue, catalog, others>>
local == <<view, ids, echo, unsafe>>
history == <<held, exact, landed, drift, relabels>>
vars == <<issue, catalog, others, ask, expect, pc, ctx, view, ids, wire, echo,
          unsafe, verdict, held, exact, landed, drift, relabels>>

Preflight == {"issue", "catalog", "adjacent", "recatalog", "decide", "write"}

\* The types; and every label that an edit adds or removes was found in a catalog
\* before it is looked for in the next one.
TypeOK ==
  /\ issue \in Issue
  /\ catalog \in [Name -> Label \cup {Nil}]
  /\ others \in 0..MaxOther
  /\ ask \in [Invocation -> Ask]
  /\ expect \in [Invocation -> Rev]
  /\ pc \in [Invocation -> {"idle", "reply", "canonical", "labels", "done"} \cup Preflight]
  /\ ctx \in [Invocation -> {"live", "done"}]
  /\ view \in [Invocation -> Seen \cup {Nil}]
  /\ ids \in [Invocation -> [Name -> Label \cup {Nil}]]
  /\ wire \in [Invocation -> {"unsent", "inflight", "applied", "refused", "lost"}]
  /\ echo \in [Invocation -> Seen \cup {Nil}]
  /\ unsafe \in [Invocation -> {"no", "unsafe", "verified"}]
  /\ verdict \in [Invocation -> {"none", "refused", "preview", "unchanged", "updated",
       "reconciled_update", "ambiguous"}]
  /\ held \in [Invocation -> BOOLEAN]
  /\ exact \in [Invocation -> BOOLEAN]
  /\ landed \in [Invocation -> {"not", "asked", "otherwise"}]
  /\ drift \in [Invocation -> SUBSET Aspect]
  /\ relabels \in [Invocation -> 0..2]
  /\ \A c \in Invocation : pc[c] \in {"recatalog", "labels"} =>
       \A n \in ask[c].add \cup ask[c].remove : ids[c][n] # Nil

-----------------------------------------------------------------------------
(* What is read, and what is asked for.                                     *)

Names(labels) == {n \in Name : catalog[n] \in labels}

Look == [title |-> issue.title, state |-> issue.state,
         names |-> Names(issue.labels), rev |-> issue.rev]

Requested(c) == ask[c].add \cup ask[c].remove

\* resolveIssueEditLabels: every requested name has a label.
Resolved(c) == [n \in Name |-> IF n \in Requested(c) THEN catalog[n] ELSE Nil]
UncheckedNames(c) == TRUE   \* mutant: a name may have no label
Resolvable(c) == \A n \in Requested(c) : catalog[n] # Nil

\* buildIssueEditPlan: the issue as it should be afterwards.
DesiredTitle(c) == IF ask[c].title = Nil THEN view[c].title ELSE ask[c].title
DesiredNames(c) == (view[c].names \ ask[c].remove) \cup ask[c].add
NothingToDo(c) == DesiredTitle(c) = view[c].title /\ DesiredNames(c) = view[c].names

\* validateIssueEditPoststate: what was asked for, and nothing else changed.
Poststate(c, seen) ==
  /\ seen.state = view[c].state
  /\ seen.rev >= view[c].rev
  /\ seen.title = DesiredTitle(c)
  /\ seen.names = DesiredNames(c)

Goal(c) == view[c] # Nil /\ Poststate(c, Look)

\* The requested labels on the issue are those c resolved.
SameLabels(c) ==
  /\ \A n \in ask[c].add : ids[c][n] \in issue.labels
  /\ \A n \in ask[c].remove : ids[c][n] \notin issue.labels

Active(c) == pc[c] \notin {"idle", "done"}

Init ==
  /\ issue \in {i \in Issue : i.rev = 0}
  /\ catalog \in [Name -> Label \cup {Nil}]
  /\ \A m, n \in Name : m # n /\ catalog[m] # Nil => catalog[m] # catalog[n]
  /\ issue.labels \subseteq {catalog[n] : n \in Name}
  /\ others = 0
  /\ ask \in [Invocation -> Ask]
  /\ expect = [c \in Invocation |-> 0]
  /\ pc = [c \in Invocation |-> "idle"]
  /\ ctx = [c \in Invocation |-> "live"]
  /\ view = [c \in Invocation |-> Nil]
  /\ ids = [c \in Invocation |-> [n \in Name |-> Nil]]
  /\ wire = [c \in Invocation |-> "unsent"]
  /\ echo = [c \in Invocation |-> Nil]
  /\ unsafe = [c \in Invocation |-> "no"]
  /\ verdict = [c \in Invocation |-> "none"]
  /\ held = [c \in Invocation |-> FALSE]
  /\ exact = [c \in Invocation |-> FALSE]
  /\ landed = [c \in Invocation |-> "not"]
  /\ drift = [c \in Invocation |-> {}]
  /\ relabels = [c \in Invocation |-> 0]

-----------------------------------------------------------------------------
(* The invocation.                                                          *)

Goto(c, l) == pc' = [pc EXCEPT ![c] = l]

\* The invocation ends: its context is canceled and its locals are gone, but for
\* the plan, which the request carries on.
End(c) ==
  /\ Goto(c, "done")
  /\ ctx' = [ctx EXCEPT ![c] = "done"]
  /\ ids' = [ids EXCEPT ![c] = [n \in Name |-> Nil]]
  /\ echo' = [echo EXCEPT ![c] = Nil]
  /\ unsafe' = [unsafe EXCEPT ![c] = "no"]
  /\ UNCHANGED view

Return(c, v) == End(c) /\ verdict' = [verdict EXCEPT ![c] = v]

\* c goes on to its next call; what it has read so far stays.
Advance(c, l) == Goto(c, l) /\ UNCHANGED <<ctx, ids, echo, unsafe, view, verdict>>

\* The caller has reviewed the issue at some moment; the private files were read.
Start(c) ==
  /\ pc[c] = "idle"
  /\ Goto(c, "issue")
  /\ expect' = [expect EXCEPT ![c] = issue.rev]
  /\ UNCHANGED <<provider, ask, ctx, local, wire, verdict, history>>

\* A read fails, a label has no exact name of its own, a scoped label would replace
\* another, or the context is done: an ordinary error.
Refuse(c) ==
  /\ pc[c] \in Preflight
  /\ Return(c, "refused")
  /\ UNCHANGED <<provider, ask, expect, wire, history>>

\* History: c's plan may already be met.
Planned(c) == held' = [held EXCEPT ![c] = NothingToDo(c)']

ReadIssue(c) ==
  /\ pc[c] = "issue"
  /\ ctx[c] = "live"
  /\ issue.rev = expect[c]
  /\ view' = [view EXCEPT ![c] = Look]
  /\ Goto(c, IF Requested(c) = {} THEN "adjacent" ELSE "catalog")
  /\ UNCHANGED <<provider, ask, expect, ctx, ids, echo, unsafe, wire, verdict>>
  /\ UNCHANGED <<exact, landed, drift, relabels>>
  /\ Planned(c)

ReadCatalog(c) ==
  /\ pc[c] = "catalog"
  /\ ctx[c] = "live"
  /\ Resolvable(c)
  /\ ids' = [ids EXCEPT ![c] = Resolved(c)]
  /\ Goto(c, "adjacent")
  /\ UNCHANGED <<provider, ask, expect, ctx, view, echo, unsafe, wire, verdict, history>>

\* The last look at the issue before the write: sameIssueEditSnapshot.
SameRevision(c) ==   \* mutant: updated_at stands for the whole issue
  issue.rev = expect[c]
SameSnapshot(c) == Look = view[c]

ReadAdjacent(c) ==
  /\ pc[c] = "adjacent"
  /\ ctx[c] = "live"
  /\ IF SameSnapshot(c)
       THEN Advance(c, IF Requested(c) = {} THEN "decide" ELSE "recatalog")
       ELSE Return(c, "refused")
  /\ drift' = [drift EXCEPT ![c] = {}]
  /\ UNCHANGED <<provider, ask, expect, wire, held, exact, landed, relabels>>

ReadCatalogAgain(c) ==
  /\ pc[c] = "recatalog"
  /\ ctx[c] = "live"
  /\ IF Resolvable(c) /\ Resolved(c) = ids[c]
       THEN Advance(c, "decide")
       ELSE Return(c, "refused")
  /\ relabels' = [relabels EXCEPT ![c] = 0]
  /\ UNCHANGED <<provider, ask, expect, wire, held, exact, landed, drift>>

\* A preview, nothing to do, the delegated lane (refused with a receipt), or a write.
Decide(c) ==
  /\ pc[c] = "decide"
  /\ ctx[c] = "live"
  /\ IF ask[c].mode = "dry_run" THEN Return(c, "preview")
     ELSE IF NothingToDo(c) THEN Return(c, "unchanged")
     ELSE IF ask[c].mode = "delegated" THEN Return(c, "refused")
     ELSE Advance(c, "write")
  /\ UNCHANGED <<provider, ask, expect, wire, history>>

\* The one PUT.
Write(c) ==
  /\ pc[c] = "write"
  /\ ctx[c] = "live"
  /\ \E w \in {"inflight", "lost"} : wire' = [wire EXCEPT ![c] = w]
  /\ Advance(c, "reply")
  /\ held' = [held EXCEPT ![c] = Goal(c)]
  /\ exact' = [exact EXCEPT ![c] = Goal(c) /\ SameLabels(c)]
  /\ UNCHANGED <<provider, ask, expect, landed, drift, relabels>>

\* An answer that can be read is believed, whatever is seen later.
ReadableAnswer(c) ==   \* mutant: any readable answer verifies the result
  unsafe' = [unsafe EXCEPT ![c] = "verified"]
VerifiedAnswer(c) ==
  unsafe' = [unsafe EXCEPT ![c] = IF Poststate(c, echo[c]) THEN "verified" ELSE "unsafe"]

Answered(c) ==
  /\ pc[c] = "reply"
  /\ ctx[c] = "live"
  /\ wire[c] = "applied"
  /\ Goto(c, "canonical")
  /\ VerifiedAnswer(c)
  /\ echo' = [echo EXCEPT ![c] = Nil]
  /\ UNCHANGED <<provider, ask, expect, ctx, view, ids, wire, verdict, history>>

\* The request is refused, the connection breaks, or the answer cannot be read:
\* all the same to c, which looks for itself.
NoAnswer(c) ==
  /\ pc[c] = "reply"
  /\ Goto(c, "canonical")
  /\ echo' = [echo EXCEPT ![c] = Nil]
  /\ UNCHANGED <<provider, ask, expect, ctx, view, ids, unsafe, wire, verdict, history>>

\* The requested state was seen.
Claimed(c) ==
  CASE unsafe[c] = "verified" -> "updated"
    [] unsafe[c] = "no" -> "reconciled_update"
    [] unsafe[c] = "unsafe" -> "ambiguous"

ReadCanonical(c) ==
  /\ pc[c] = "canonical"
  /\ ctx[c] = "live"
  /\ IF ~Poststate(c, Look) THEN Return(c, "ambiguous")
     ELSE IF Requested(c) = {} THEN Return(c, Claimed(c))
     ELSE Advance(c, "labels")
  /\ UNCHANGED <<provider, ask, expect, wire, history>>

\* The requested names still belong to the labels that were resolved before.
AnyLabels(c) == Resolvable(c)   \* mutant: only the names are looked up
OwnLabels(c) == Resolvable(c) /\ Resolved(c) = ids[c]

ReadLabels(c) ==
  /\ pc[c] = "labels"
  /\ ctx[c] = "live"
  /\ Return(c, IF OwnLabels(c) THEN Claimed(c) ELSE "ambiguous")
  /\ UNCHANGED <<provider, ask, expect, wire, history>>

\* A read fails, or there is no time left for it.
ReadErrorIgnored(c) ==   \* mutant: what could not be read is taken as it should be
  /\ pc[c] \in {"canonical", "labels"}
  /\ Return(c, Claimed(c))
  /\ UNCHANGED <<provider, ask, expect, wire, history>>
ReconcileFails(c) ==
  /\ pc[c] \in {"canonical", "labels"}
  /\ Return(c, "ambiguous")
  /\ UNCHANGED <<provider, ask, expect, wire, history>>

\* The deadline of the operation, or an interrupt.
Expire(c) ==
  /\ Active(c)
  /\ ctx[c] = "live"
  /\ ctx' = [ctx EXCEPT ![c] = "done"]
  /\ UNCHANGED <<provider, ask, expect, pc, local, wire, verdict, history>>

\* The process is killed: no answer, and a request already sent lives on.
Crash(c) ==
  /\ Active(c)
  /\ End(c)
  /\ UNCHANGED <<provider, ask, expect, wire, verdict, history>>

-----------------------------------------------------------------------------
(* The provider and its other users (outside src/).                         *)

\* History: the issue or the catalog has just become new; an invocation's own
\* request (that of c in Own) is no drift to it.
Changed(Own) ==
  LET turned == {a \in Aspect : Look'[a] # Look[a]} IN
  /\ held' = [c \in Invocation |-> held[c] \/ (Active(c) /\ Goal(c)')]
  /\ exact' = [c \in Invocation |->
       exact[c] \/ (Active(c) /\ Goal(c)' /\ SameLabels(c)')]
  /\ drift' = [c \in Invocation |->
       IF pc[c] \in {"recatalog", "decide", "write"} \/ wire[c] = "inflight"
         THEN drift[c] \cup (IF c \in Own THEN {} ELSE turned)
         ELSE drift[c]]
  /\ relabels' = [c \in Invocation |->
       IF c \notin Own /\ catalog' # catalog /\ relabels[c] < 2
          /\ pc[c] \in {"decide", "write", "reply", "canonical", "labels"}
         THEN relabels[c] + 1
         ELSE relabels[c]]

Free == Label \ {catalog[n] : n \in Name}

\* Catalogs in which some of these names got a label of their own.
Extended(names) ==
  {k \in [Name -> Label \cup {Nil}] :
     /\ \A n \in Name : k[n] # catalog[n] => n \in names /\ catalog[n] = Nil /\ k[n] \in Free
     /\ \A m, n \in Name : m # n /\ k[m] # Nil => k[m] # k[n]}

\* Only what differs is sent; a name without a label gets a new one, or is ignored.
Apply(c) ==
  LET adds == ask[c].add \ view[c].names
      removes == ask[c].remove \cap view[c].names
  IN /\ wire[c] = "inflight"
     /\ wire' = [wire EXCEPT ![c] = "applied"]
     /\ catalog' \in Extended(adds)
     /\ issue' = [issue EXCEPT
          !.title = IF DesiredTitle(c) = view[c].title THEN @ ELSE DesiredTitle(c),
          !.labels = (@ \cup {catalog'[n] : n \in adds})
                     \ ({catalog'[n] : n \in removes} \cup {Nil}),
          !.rev = @ + 1]
     /\ UNCHANGED <<others, ask, expect, pc, ctx, view, ids, unsafe, verdict>>
     /\ echo' = [echo EXCEPT ![c] = IF pc[c] = "reply" THEN Look' ELSE @]
     /\ landed' = [landed EXCEPT ![c] = IF Poststate(c, Look') THEN "asked" ELSE "otherwise"]
     /\ Changed({c})

\* A request is refused with a 4xx, or never arrives.
DropWrite(c) ==
  /\ wire[c] = "inflight"
  /\ \E e \in {"refused", "lost"} : wire' = [wire EXCEPT ![c] = e]
  /\ UNCHANGED <<provider, ask, expect, pc, ctx, local, verdict, history>>

ByOthers ==
  /\ others < MaxOther
  /\ others' = others + 1
  /\ UNCHANGED <<ask, expect, pc, ctx, local, wire, verdict, landed>>

\* Another user edits, closes or reopens the issue, or changes its labels.
OtherEdits ==
  /\ ByOthers
  /\ \/ \E t \in Title \ {issue.title} : issue' = [issue EXCEPT !.title = t, !.rev = @ + 1]
     \/ \E s \in {"opened", "closed"} \ {issue.state} :
          issue' = [issue EXCEPT !.state = s, !.rev = @ + 1]
     \/ \E n \in Name : \E r \in {issue.rev, issue.rev + 1} :
          /\ catalog[n] # Nil
          /\ issue' = [issue EXCEPT !.rev = r, !.labels =
               IF catalog[n] \in @ THEN @ \ {catalog[n]} ELSE @ \cup {catalog[n]}]
  /\ UNCHANGED catalog
  /\ Changed({})

\* Another user renames, deletes or creates a label; the issue follows in silence.
OtherRelabels ==
  /\ ByOthers
  /\ \/ \E m, n \in Name :
          /\ catalog[m] # Nil /\ catalog[n] = Nil
          /\ catalog' = [catalog EXCEPT ![n] = catalog[m], ![m] = Nil]
          /\ UNCHANGED issue
     \/ \E n \in Name :
          /\ catalog[n] # Nil
          /\ catalog' = [catalog EXCEPT ![n] = Nil]
          /\ issue' = [issue EXCEPT !.labels = @ \ {catalog[n]}]
     \/ \E n \in Name : \E b \in Free :
          /\ catalog[n] = Nil
          /\ catalog' = [catalog EXCEPT ![n] = b]
          /\ UNCHANGED issue
  /\ Changed({})

-----------------------------------------------------------------------------
Run(c) ==
  \/ Start(c) \/ Refuse(c) \/ ReadIssue(c) \/ ReadCatalog(c) \/ ReadAdjacent(c)
  \/ ReadCatalogAgain(c) \/ Decide(c) \/ Write(c) \/ Answered(c) \/ NoAnswer(c)
  \/ ReadCanonical(c) \/ ReadLabels(c) \/ ReconcileFails(c) \/ Expire(c) \/ Crash(c)

Provider(c) == Apply(c) \/ DropWrite(c)

Next ==
  \/ \E c \in Invocation : Run(c) \/ Provider(c)
  \/ OtherEdits \/ OtherRelabels

Spec == Init /\ [][Next]_vars

-----------------------------------------------------------------------------
(* Properties.                                                              *)

Effect(c) ==
  IF wire[c] = "unsent" THEN "none"
  ELSE IF wire[c] \in {"refused", "lost"} THEN "dropped" ELSE wire[c]

Phase(c) ==
  IF pc[c] = "idle" THEN "idle"
  ELSE IF wire[c] = "unsent" THEN "preflight" ELSE "attempted"

Successes == {"updated", "reconciled_update"}

\* A preview changes nothing and claims nothing: an orderly refusal.
Claim(c) ==
  CASE verdict[c] = "unchanged" -> "noop"
    [] verdict[c] = "preview" -> "refused"
    [] verdict[c] \in Successes -> "done"
    [] OTHER -> verdict[c]

GW == INSTANCE GuardedWrite WITH
        phase <- [c \in Invocation |-> Phase(c)],
        effect <- [c \in Invocation |-> Effect(c)],
        verdict <- [c \in Invocation |-> Claim(c)]

\* Every invocation keeps the promise of GuardedWrite: one PUT at most, none behind
\* a preview or an ordinary error; a success only when the issue really was as
\* planned, its other fields included, after the attempt.
ImplementsGuardedWrite == GW!Spec

\* A PUT changes the very issue the plan was made from, title, state and names of
\* labels, but for what others changed after c's last look at it.
EditsTheReviewed ==
  [][\A c \in Invocation :
       wire[c] = "inflight" /\ wire'[c] = "applied"
         => \A a \in Aspect : Look[a] = view[c][a] \/ a \in drift[c]]_vars

\* "updated" is more than a final state that happens to be right: c's own request
\* left the issue as planned.  And one label renamed, deleted or created while the PUT is on its way never yields
\* a success with another label of the requested name: unless the catalog changed
\* twice, the issue really was as planned with the labels that were resolved.
SuccessIsTheWholeEdit ==
  \A c \in Invocation :
    /\ verdict[c] = "updated" => landed[c] = "asked"
    /\ verdict[c] \in Successes /\ relabels[c] < 2 => exact[c]
=============================================================================
