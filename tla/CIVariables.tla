----------------------------- MODULE CIVariables ----------------------------
(***************************************************************************)
(* gl-axi secret|variable set and delete: invocations that list a project's *)
(* variables page by page, twice, compare the one of their key and scope    *)
(* with what the caller expects, change it with one POST, PUT or DELETE, and *)
(* list once more to see the outcome                                        *)
(* (src/internal/product/commands_variables.go, src/internal/civariable).   *)
(*                                                                          *)
(* An inventory is not atomic: the list may change between two pages.  Keys *)
(* stand for pairs of key and scope; the content of the variables other     *)
(* than Target matters to nobody here.  Of all metadata the model keeps     *)
(* whether the value is hidden.                                             *)
(***************************************************************************)
EXTENDS Naturals, Sequences, SequencesExt

CONSTANTS
  Invocation,    \* the runs of the command
  Key,           \* variables of the project
  Target,        \* the variable all invocations are about
  Value,
  PageSize, MaxPages,   \* 100 and 10 in the code
  Nil,           \* no variable
  MaxOther       \* bound: changes by other actors

Content == [value : Value, hidden : BOOLEAN]

\* What the provider may list.
Lists == {s \in BoundedSeq(Key, Cardinality(Key)) : IsInjective(s)}

ASSUME VariableAssumption ==
  /\ IsFiniteSet(Key)
  /\ Target \in Key
  /\ PageSize \in Nat \ {0} /\ MaxPages \in Nat \ {0}
  /\ Nil \notin Content
  /\ MaxOther \in Nat

\* validateVariableParsed: what is deleted is expected to exist, a variable stays
\* hidden or not, and hidden and readable ones have commands of their own.
Ask == {a \in [delete : BOOLEAN, expect : Content \cup {Nil}, want : Content] :
          /\ a.delete => a.expect # Nil /\ a.want = a.expect
          /\ a.expect # Nil => a.want.hidden = a.expect.hidden}

VARIABLES
  list,     \* provider: the keys in the order of the list
  target,   \* provider: the content of Target, or Nil
  others,   \* number of changes made by other actors
  ask,      \* ask[c]: what c was given
  pc,       \* pc[c]: the next call of c
  ctx,      \* ctx[c]: "live", or "done" once the deadline passed or c was interrupted
  page,     \* page[c]: the page c reads next
  keys,     \* keys[c]: the keys of the pages read
  found,    \* found[c]: what the pages read show of Target
  wire,     \* wire[c]: c's mutating request
  acked,    \* acked[c]: the answer had the expected status
  cause,    \* cause[c]: does c's write error carry a recognized HTTP status?
  verdict,  \* verdict[c]: what c returned
  held,     \* history: Goal(c) held at some moment since c started or attempted
  drift,    \* history: Target changed since c began its second inventory
  absent    \* history: Target was absent at some moment of c's last inventory

provider == <<list, target, others>>
local == <<page, keys, found, acked, cause>>
history == <<held, drift, absent>>
vars == <<list, target, others, ask, pc, ctx, page, keys, found, wire, acked,
          cause, verdict, held, drift, absent>>

Listing == {"first", "second", "after"}
Preflight == {"first", "second", "bind", "write"}

\* The types; the inventory never goes past its last page, the target is listed
\* exactly when it has a content, and a write answers with one of the documented
\* verdicts.
TypeOK ==
  /\ list \in Lists
  /\ target \in Content \cup {Nil}
  /\ (target # Nil) <=> (Target \in ToSet(list))
  /\ others \in 0..MaxOther
  /\ ask \in [Invocation -> Ask]
  /\ pc \in [Invocation -> {"idle", "reply", "done"} \cup Listing \cup Preflight]
  /\ ctx \in [Invocation -> {"live", "done"}]
  /\ page \in [Invocation -> 1..MaxPages]
  /\ keys \in [Invocation -> SUBSET Key]
  /\ found \in [Invocation -> Content \cup {Nil}]
  /\ wire \in [Invocation -> {"unsent", "inflight", "applied", "refused", "lost"}]
  /\ acked \in [Invocation -> BOOLEAN]
  /\ cause \in [Invocation -> {"none", "status"}]
  /\ verdict \in [Invocation ->
       {"none", "refused", "unchanged", "observed", "rejected", "ambiguous"}]
  /\ held \in [Invocation -> BOOLEAN]
  /\ drift \in [Invocation -> BOOLEAN]
  /\ absent \in [Invocation -> BOOLEAN]

-----------------------------------------------------------------------------
(* What an observation says.                                                *)

\* A hidden value is never shown, so two hidden contents look the same.
Looks(o, e) == o # Nil /\ o.hidden = e.hidden /\ (e.hidden \/ o.value = e.value)

\* variablePreconditionObserved.
Precondition(c, o) ==
  IF ask[c].expect = Nil THEN o = Nil ELSE Looks(o, ask[c].expect)

\* The postcondition of a delete is absence, of a set the desired metadata and,
\* if it is readable, the desired value.
Postcondition(c, o) ==
  IF ask[c].delete THEN o = Nil ELSE Looks(o, ask[c].want)

Goal(c) == Postcondition(c, target)

Active(c) == pc[c] \notin {"idle", "done"}

\* History: every change at the provider refreshes held.
Observed == held' = [c \in Invocation |-> held[c] \/ (Active(c) /\ Goal(c)')]

Init ==
  /\ list \in Lists
  /\ target \in Content \cup {Nil}
  /\ (target # Nil) <=> (Target \in ToSet(list))
  /\ others = 0
  /\ ask \in [Invocation -> Ask]
  /\ pc = [c \in Invocation |-> "idle"]
  /\ ctx = [c \in Invocation |-> "live"]
  /\ page = [c \in Invocation |-> 1]
  /\ keys = [c \in Invocation |-> {}]
  /\ found = [c \in Invocation |-> Nil]
  /\ wire = [c \in Invocation |-> "unsent"]
  /\ acked = [c \in Invocation |-> FALSE]
  /\ cause = [c \in Invocation |-> "none"]
  /\ verdict = [c \in Invocation |-> "none"]
  /\ held = [c \in Invocation |-> FALSE]
  /\ drift = [c \in Invocation |-> FALSE]
  /\ absent = [c \in Invocation |-> FALSE]

-----------------------------------------------------------------------------
(* The invocation.                                                          *)

Goto(c, l) == pc' = [pc EXCEPT ![c] = l]

\* Nothing is remembered of the pages read.
Forget(c) ==
  /\ page' = [page EXCEPT ![c] = 1]
  /\ keys' = [keys EXCEPT ![c] = {}]
  /\ found' = [found EXCEPT ![c] = Nil]

\* The invocation ends: its context is canceled and its locals are gone.
End(c) ==
  /\ Goto(c, "done")
  /\ ctx' = [ctx EXCEPT ![c] = "done"]
  /\ Forget(c)
  /\ acked' = [acked EXCEPT ![c] = FALSE]
  /\ cause' = [cause EXCEPT ![c] = "none"]

Return(c, v) == End(c) /\ verdict' = [verdict EXCEPT ![c] = v]

\* c begins its next call, for an inventory at the first page.
Advance(c, l) ==
  /\ Goto(c, l)
  /\ Forget(c)
  /\ UNCHANGED <<ctx, acked, cause, verdict>>

\* History: an inventory of c begins in this step.
BeginsInventory(c) == absent' = [absent EXCEPT ![c] = (target = Nil)]

\* The private value files were read, the version and the project were checked.
Start(c) ==
  /\ pc[c] = "idle"
  /\ Goto(c, "first")
  /\ held' = [held EXCEPT ![c] = Goal(c)]
  /\ BeginsInventory(c)
  /\ UNCHANGED <<provider, ask, ctx, local, wire, verdict, drift>>

\* A read fails or repeats a key, the list is too long to prove absence, or the
\* context is done before the request: an ordinary error.
Refuse(c) ==
  /\ pc[c] \in Preflight
  /\ Return(c, "refused")
  /\ UNCHANGED <<provider, ask, wire, history>>

\* The page c reads now: a slice of the list as it is at this moment.
Page(c) ==
  LET first == (page[c] - 1) * PageSize IN
  SubSeq(list, first + 1, Min({first + PageSize, Len(list)}))

\* Of Target, what is known once this page is read.
Shown(c) == IF Target \in ToSet(Page(c)) THEN target ELSE found[c]

\* variableInventory: no page repeats a key; a short page is the last one.
Reads(c) ==
  /\ pc[c] \in Listing
  /\ ctx[c] = "live"
  /\ ToSet(Page(c)) \cap keys[c] = {}

Complete(c) == Len(Page(c)) < PageSize

NextPageForever(c) ==   \* mutant: the page limit is gone
  /\ Reads(c)
  /\ ~Complete(c)
  /\ page' = [page EXCEPT ![c] = @ + 1]
  /\ keys' = [keys EXCEPT ![c] = @ \cup ToSet(Page(c))]
  /\ found' = [found EXCEPT ![c] = Shown(c)]
  /\ UNCHANGED <<provider, ask, pc, ctx, wire, acked, cause, verdict, history>>
NextPage(c) ==
  /\ Reads(c)
  /\ ~Complete(c)
  /\ page[c] < MaxPages
  /\ page' = [page EXCEPT ![c] = @ + 1]
  /\ keys' = [keys EXCEPT ![c] = @ \cup ToSet(Page(c))]
  /\ found' = [found EXCEPT ![c] = Shown(c)]
  /\ UNCHANGED <<provider, ask, pc, ctx, wire, acked, cause, verdict, history>>

\* The first inventory is complete: stop if it is not what is expected or already
\* what is wanted (a hidden value is always written), else begin the second.
FirstInventory(c) ==
  /\ pc[c] = "first"
  /\ Reads(c) /\ Complete(c)
  /\ LET o == Shown(c)
         same == ~ask[c].delete /\ ~ask[c].want.hidden /\ Looks(o, ask[c].want)
     IN \/ ~Precondition(c, o) /\ Return(c, "refused")
        \/ Precondition(c, o) /\ same /\ Return(c, "unchanged")
        \/ Precondition(c, o) /\ ~same /\ Advance(c, "second")
  /\ BeginsInventory(c)
  /\ drift' = [drift EXCEPT ![c] = FALSE]
  /\ UNCHANGED <<provider, ask, wire, held>>

SecondIgnored(c) ==   \* mutant: the second inventory is not compared
  /\ pc[c] = "second"
  /\ Reads(c) /\ Complete(c)
  /\ Advance(c, "bind")
  /\ UNCHANGED <<provider, ask, wire, history>>
SecondInventory(c) ==
  /\ pc[c] = "second"
  /\ Reads(c) /\ Complete(c)
  /\ IF Precondition(c, Shown(c)) THEN Advance(c, "bind") ELSE Return(c, "refused")
  /\ UNCHANGED <<provider, ask, wire, history>>

\* loadVariableProject once more: the project is still the same.
Bind(c) ==
  /\ pc[c] = "bind"
  /\ ctx[c] = "live"
  /\ Advance(c, "write")
  /\ UNCHANGED <<provider, ask, wire, history>>

\* The one request: DELETE, PUT, or POST if no variable was found.
Write(c) ==
  /\ pc[c] = "write"
  /\ ctx[c] = "live"
  /\ \E w \in {"inflight", "lost"} : wire' = [wire EXCEPT ![c] = w]
  /\ Advance(c, "reply")
  /\ held' = [held EXCEPT ![c] = Goal(c)]
  /\ UNCHANGED <<provider, ask, drift, absent>>

\* Whatever the answer was, c observes the outcome in one more inventory.
Observe(c, ack, why) ==
  /\ Goto(c, "after")
  /\ acked' = [acked EXCEPT ![c] = ack]
  /\ cause' = [cause EXCEPT ![c] = why]
  /\ BeginsInventory(c)
  /\ UNCHANGED <<provider, ask, ctx, page, keys, found, wire, verdict, held, drift>>

Answered(c) ==
  /\ pc[c] = "reply"
  /\ ctx[c] = "live"
  /\ \/ wire[c] = "applied" /\ Observe(c, TRUE, "none")
     \/ wire[c] = "refused" /\ Observe(c, FALSE, "status")

\* The connection breaks, or the answer has a status that is not known.
AnswerLost(c) ==
  /\ pc[c] = "reply"
  /\ Observe(c, FALSE, "none")

\* The last inventory and the project check are done.
UnackedOutcome(c, o) ==   \* mutant: what is observed is believed without the answer
  IF Postcondition(c, o) THEN "observed"
  ELSE IF cause[c] = "status" /\ Precondition(c, o) THEN "rejected"
  ELSE "ambiguous"
Outcome(c, o) ==
  IF acked[c] /\ Postcondition(c, o) THEN "observed"
  ELSE IF cause[c] = "status" /\ Precondition(c, o) THEN "rejected"
  ELSE "ambiguous"

LastInventory(c) ==
  /\ pc[c] = "after"
  /\ Reads(c) /\ Complete(c)
  /\ Return(c, Outcome(c, Shown(c)))
  /\ UNCHANGED <<provider, ask, wire, history>>

\* The last inventory fails, is too long or repeats a key.
ReconcileFails(c) ==
  /\ pc[c] = "after"
  /\ Return(c, "ambiguous")
  /\ UNCHANGED <<provider, ask, wire, history>>

\* The 45 s deadline of the operation, or an interrupt.
Expire(c) ==
  /\ Active(c)
  /\ ctx[c] = "live"
  /\ ctx' = [ctx EXCEPT ![c] = "done"]
  /\ UNCHANGED <<provider, ask, pc, local, wire, verdict, history>>

\* The process is killed: no answer, and a request already sent lives on.
Crash(c) ==
  /\ Active(c)
  /\ End(c)
  /\ UNCHANGED <<provider, ask, wire, verdict, history>>

-----------------------------------------------------------------------------
(* The provider and its other users (outside src/).  The list is kept in the *)
(* order of creation.                                                        *)

\* History: Target has just become new.
Changed ==
  /\ Observed
  /\ drift' = [c \in Invocation |->
       drift[c] \/ (target' # target /\ (Active(c) \/ wire[c] = "inflight"))]
  /\ absent' = [c \in Invocation |-> absent[c] \/ (pc[c] \in Listing /\ target' = Nil)]

Create(content) ==
  target = Nil /\ target' = content /\ list' = Append(list, Target)
Update(content) ==
  target # Nil /\ target' = content /\ UNCHANGED list
Delete ==
  /\ target # Nil /\ target' = Nil
  /\ \E i \in DOMAIN list : list[i] = Target /\ list' = RemoveAt(list, i)

\* A variable that exists cannot be created, one that does not cannot be changed.
Apply(c) ==
  /\ wire[c] = "inflight"
  /\ \/ ask[c].delete /\ Delete
     \/ ~ask[c].delete /\ ask[c].expect = Nil /\ Create(ask[c].want)
     \/ /\ ~ask[c].delete /\ ask[c].expect # Nil
        /\ target # Nil
        /\ Update([ask[c].want EXCEPT !.hidden = target.hidden])
  /\ wire' = [wire EXCEPT ![c] = "applied"]
  /\ UNCHANGED <<others, ask, pc, ctx, local, verdict>>
  /\ Changed

\* A request is refused with a 4xx, or never arrives.
DropWrite(c) ==
  /\ wire[c] = "inflight"
  /\ \E e \in {"refused", "lost"} : wire' = [wire EXCEPT ![c] = e]
  /\ UNCHANGED <<provider, ask, pc, ctx, local, verdict, history>>

\* Another user creates, changes or deletes Target, or another variable.
Other ==
  /\ others < MaxOther
  /\ others' = others + 1
  /\ \/ \E content \in Content \ {target} : Create(content) \/ Update(content)
     \/ Delete
     \/ \E k \in Key \ ({Target} \cup ToSet(list)) :
          list' = Append(list, k) /\ UNCHANGED target
     \/ \E i \in DOMAIN list :
          list[i] # Target /\ list' = RemoveAt(list, i) /\ UNCHANGED target
  /\ UNCHANGED <<ask, pc, ctx, local, wire, verdict>>
  /\ Changed

-----------------------------------------------------------------------------
Run(c) ==
  \/ Start(c) \/ Refuse(c) \/ NextPage(c) \/ FirstInventory(c) \/ SecondInventory(c)
  \/ Bind(c) \/ Write(c) \/ Answered(c) \/ AnswerLost(c)
  \/ LastInventory(c) \/ ReconcileFails(c) \/ Expire(c) \/ Crash(c)

Provider(c) == Apply(c) \/ DropWrite(c)

Next ==
  \/ \E c \in Invocation : Run(c) \/ Provider(c)
  \/ Other

Spec == Init /\ [][Next]_vars

-----------------------------------------------------------------------------
(* Properties.                                                              *)

Effect(c) ==
  IF wire[c] = "unsent" THEN "none"
  ELSE IF wire[c] \in {"refused", "lost"} THEN "dropped" ELSE wire[c]

Phase(c) ==
  IF pc[c] = "idle" THEN "idle"
  ELSE IF wire[c] = "unsent" THEN "preflight" ELSE "attempted"

Claim(c) ==
  CASE verdict[c] = "unchanged" -> "noop"
    [] verdict[c] = "observed" -> "done"
    [] OTHER -> verdict[c]

GW == INSTANCE GuardedWrite WITH
        phase <- [c \in Invocation |-> Phase(c)],
        effect <- [c \in Invocation |-> Effect(c)],
        verdict <- [c \in Invocation |-> Claim(c)]

\* Every invocation keeps the promise of GuardedWrite although its inventories
\* are not atomic: one request at most, none behind an ordinary error; a success
\* only when the variable really was as wanted, or gone, after the attempt; a
\* rejection only when the request did not and will not take effect.
ImplementsGuardedWrite == GW!Spec

\* A readable value is never overwritten or deleted unseen: what a request
\* replaces is what the caller expected, or it changed after c began its second
\* inventory.
ReplacesTheExpected ==
  [][\A c \in Invocation :
       wire[c] = "inflight" /\ wire'[c] = "applied"
         => Precondition(c, target) \/ drift[c]]_vars

\* docs/ci-variables.md: "Create requires proven absence in that exact scope" and
\* "Complete successful inventories [...] prove absence".  A create is then only
\* on its way when the variable was absent at some moment of the inventory.
CreatesOnlyWhatWasAbsent ==
  \A c \in Invocation :
    pc[c] \in {"bind", "write"} /\ ask[c].expect = Nil => absent[c]
=============================================================================
