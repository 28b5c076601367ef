----------------------------- MODULE LocalStack -----------------------------
(***************************************************************************)
(* gl-axi stack: invocations that inspect a registered chain of local       *)
(* branches, publish its record with a prepared Git transaction, or switch  *)
(* the working tree to one of its branches (src/internal/localstack,        *)
(* src/internal/product/stack.go), while other Git commands move, delete or *)
(* replace the branches, switch or edit the tree, and while processes die.  *)
(*                                                                          *)
(* Every read of the repository is one Git command: a pass over the chain   *)
(* is not atomic.  All records are about one chain (Chain[1] is the base);  *)
(* another chain is refused just as another binding to merge requests is,   *)
(* which is all a record says here.                                         *)
(***************************************************************************)
EXTENDS Naturals, Sequences, FiniteSets

CONSTANTS
  Invocation,    \* the runs of the command
  Together,      \* what they are asked together: [Invocation -> Kind]
  Branch,        \* local branches
  Chain,         \* the base and the members, in order
  Commit,
  Ancestor,      \* pairs of commits: the first is an ancestor of the second, or is it
  Binding,       \* ways to bind the members to merge requests
  Nil,           \* no branch, no commit, no record
  MaxOther       \* bound: changes by other actors; one less for a second invocation

\* The references the transaction guards, and all that is read.
Ref == Branch \cup {"meta"}
Item == Ref \cup {"current", "tree"}
Record == Binding \cup {"unbound"}

Kind == {"view", "register", "switch", "none"}

ASSUME StackAssumption ==
  /\ IsFiniteSet(Invocation)
  /\ Together \subseteq {k \in [Invocation -> Kind] : \E c \in Invocation : k[c] # "none"}
  /\ Chain \in Seq(Branch) /\ Len(Chain) > 1
  /\ \A b \in Branch : \E i \in DOMAIN Chain : Chain[i] = b
  /\ Ancestor \subseteq Commit \X Commit
  /\ Branch \cap {"meta", "current", "tree"} = {}
  /\ Nil \notin Branch \cup Commit \cup Record
  /\ MaxOther \in Nat

Ask == [kind : {"view", "none"}] \cup [kind : {"register"}, record : Record]
         \cup [kind : {"switch"}, to : Branch]

Asked(with) == [c \in Invocation |-> with[c].kind]

VARIABLES
  repo,     \* the repository: what each item is (a symbolic reference: resolves to)
  sym,      \* the references that are symbolic
  lock,     \* the directory glab-axi-stack.lock exists
  stale,    \* a killed Git left its reference locks behind
  others,   \* number of changes made by other actors
  ask,      \* ask[c]: what c was given
  expect,   \* expect[c]: the current branch, its head and the destination's head
            \* as the caller of c reviewed them
  pc,       \* pc[c]: the next step of c
  ctx,      \* ctx[c]: "live", or "done" once the deadline passed or c was interrupted
  got,      \* got[c]: what the pass under way has read
  snap,     \* snap[c]: what the first pass read
  wire,     \* wire[c]: c's Git transaction, or its git switch
  verdict,  \* verdict[c]: what c returned
  held,     \* history: Goal(c) held at some moment since c started or attempted
  drift,    \* history: the items others changed since c last read them
  matched,  \* history: at some moment of c's second pass all was as in snap[c]
  turns     \* history: changes by others since c's first pass began (2 is many)

world == <<repo, sym, lock, stale, others>>
history == <<held, drift, matched, turns>>
vars == <<repo, sym, lock, stale, others, ask, expect, pc, ctx, got, snap, wire,
          verdict, held, drift, matched, turns>>

Repository ==
  {r \in [Item -> Commit \cup Record \cup Branch \cup {Nil, "clean", "dirty"}] :
     /\ \A b \in Branch : r[b] \in Commit \cup {Nil}
     /\ r["meta"] \in Record \cup {Nil}
     /\ r["current"] \in Branch \cup {Nil}
     /\ r["tree"] \in {"clean", "dirty"}}

Passes == {"first", "second", "after"}
Steps == {"prepare", "guard", "commit", "ack", "unconfirmed", "aborted",
          "switch", "switching"}

\* The types; and a view or a switch reaches its second pass and its steps only
\* with a stack record that the first pass could read.
TypeOK ==
  /\ repo \in [Item -> Commit \cup Record \cup Branch \cup {Nil, "clean", "dirty"}]
  /\ \A b \in Branch : repo[b] \in Commit \cup {Nil}
  /\ repo["meta"] \in Record \cup {Nil}
  /\ repo["current"] \in Branch \cup {Nil}
  /\ sym \subseteq Ref
  /\ lock \in BOOLEAN /\ stale \in BOOLEAN
  /\ others \in 0..MaxOther
  /\ ask \in [Invocation -> Ask]
  /\ pc \in [Invocation -> {"idle", "open", "done"} \cup Passes \cup Steps]
  /\ ctx \in [Invocation -> {"live", "done"}]
  /\ \A c \in Invocation :
       /\ DOMAIN got[c] \subseteq Item
       /\ DOMAIN snap[c] \subseteq Item
       /\ pc[c] \in {"second", "after"} \cup Steps =>
            snap[c]["meta"] \in Record \/ ask[c].kind = "register"
  /\ wire \in [Invocation -> {"unsent", "prepared", "sent", "applied", "dropped"}]
  /\ verdict \in [Invocation ->
       {"none", "refused", "viewed", "unchanged", "registered", "checked_out", "uncertain"}]
  /\ held \in [Invocation -> BOOLEAN]
  /\ drift \in [Invocation -> SUBSET Item]
  /\ matched \in [Invocation -> BOOLEAN]
  /\ turns \in [Invocation -> 0..2]

-----------------------------------------------------------------------------
(* What a pass says.                                                        *)

Nothing == [x \in {} |-> Nil]
With(f, x, v) == [y \in DOMAIN f \cup {x} |-> IF y = x THEN v ELSE f[y]]

Members == {Chain[i] : i \in DOMAIN Chain}
Graph == Members \cup {"meta", "current"}

\* Inspect: every branch exists and its parent is the unique merge base of both.
Valid(seen) ==
  \A i \in 1 .. Len(Chain) - 1 :
    /\ seen[Chain[i]] # Nil /\ seen[Chain[i + 1]] # Nil
    /\ <<seen[Chain[i]], seen[Chain[i + 1]]>> \in Ancestor

\* Compatible: a chain may get bound, a binding is never replaced or removed.
Compatible(old, next) == old \in {Nil, "unbound", next}

Same(f, g, items) == \A x \in items : f[x] = g[x]

Goal(c) ==
  CASE ask[c].kind = "register" -> repo["meta"] = ask[c].record
    [] ask[c].kind = "switch" -> repo["current"] = ask[c].to
    [] OTHER -> FALSE

Active(c) == pc[c] \notin {"idle", "done"}

\* Prepared transactions hold Git's locks of all their references.
Locked == stale \/ \E c \in Invocation :
            ask[c].kind = "register" /\ wire[c] \in {"prepared", "sent"}

\* Bound: only a switch looks at the tree, and no registration depends on the branch.
Unread ==
  /\ (\A c \in Invocation : ask[c].kind # "switch") => repo["tree"] = "clean"
  /\ (\A c \in Invocation : ask[c].kind = "register") => repo["current"] = Chain[1]

Init ==
  /\ repo \in Repository
  /\ sym = {}
  /\ lock = FALSE
  /\ stale = FALSE
  /\ others = 0
  /\ ask \in {with \in [Invocation -> Ask] : Asked(with) \in Together}
  /\ Unread
  /\ expect = [c \in Invocation |-> <<>>]
  /\ pc = [c \in Invocation |-> "idle"]
  /\ ctx = [c \in Invocation |-> "live"]
  /\ got = [c \in Invocation |-> Nothing]
  /\ snap = [c \in Invocation |-> Nothing]
  /\ wire = [c \in Invocation |-> "unsent"]
  /\ verdict = [c \in Invocation |-> "none"]
  /\ held = [c \in Invocation |-> FALSE]
  /\ drift = [c \in Invocation |-> {}]
  /\ matched = [c \in Invocation |-> FALSE]
  /\ turns = [c \in Invocation |-> 0]

-----------------------------------------------------------------------------
(* The invocation.                                                          *)

Goto(c, l) == pc' = [pc EXCEPT ![c] = l]

Holding(c) == ask[c].kind # "view" /\ pc[c] \in Passes \cup Steps

\* The invocation ends: context canceled, locals gone (but for what an open
\* transaction was told to verify).
End(c) ==
  /\ Goto(c, "done")
  /\ ctx' = [ctx EXCEPT ![c] = "done"]
  /\ got' = [got EXCEPT ![c] = Nothing]
  /\ UNCHANGED snap

\* Close removes the lock directory c made, whoever owns the one that is there now.
Return(c, v) ==
  /\ End(c)
  /\ verdict' = [verdict EXCEPT ![c] = v]
  /\ lock' = (lock /\ ~Holding(c))

\* c goes on to its next step; a pass begins with nothing read.
Advance(c, l) ==
  /\ Goto(c, l)
  /\ got' = [got EXCEPT ![c] = Nothing]
  /\ UNCHANGED <<ctx, snap, verdict, lock>>

\* The caller has reviewed a view of the repository at some moment.
Start(c) ==
  /\ pc[c] = "idle"
  /\ ask[c].kind # "none"
  /\ Goto(c, "open")
  /\ expect' = [expect EXCEPT ![c] =
       IF ask[c].kind = "switch" /\ repo["current"] # Nil
         THEN <<repo["current"], repo[repo["current"]], repo[ask[c].to]>> ELSE <<>>]
  /\ held' = [held EXCEPT ![c] = Goal(c)]
  /\ UNCHANGED <<world, ask, ctx, got, snap, wire, verdict, drift, matched, turns>>

\* Open: the repository is identified and, for an action, the directory is made.
OpenLocked(c) ==
  /\ ask[c].kind # "view" => ~lock
  /\ lock' = (lock \/ ask[c].kind # "view")

Open(c) ==
  /\ pc[c] = "open"
  /\ ctx[c] = "live"
  /\ OpenLocked(c)
  /\ Goto(c, "first")
  /\ turns' = [turns EXCEPT ![c] = 0]
  /\ UNCHANGED <<repo, sym, stale, others, ask, expect, ctx, got, snap, wire, verdict>>
  /\ UNCHANGED <<held, drift, matched>>

\* A Git command fails or its output is not as it must be: an ordinary error,
\* before anything was attempted.
Refuse(c) ==
  /\ pc[c] \in {"open", "first", "second", "prepare", "switch"}
  /\ Return(c, "refused")
  /\ UNCHANGED <<repo, sym, stale, others, ask, expect, wire, history>>

\* What each pass reads, in order: Load and Inspect; Verify, or SafeTree, Inspect
\* and Load before a switch; Inspect, Load and SafeTree after it.
Order(c) ==
  CASE pc[c] = "first" -> <<"meta", "current">> \o Chain
    [] pc[c] = "second" /\ ask[c].kind = "view" -> <<"meta", "current">> \o Chain
    [] pc[c] = "second" /\ ask[c].kind = "switch" ->
         <<"tree", "current">> \o Chain \o <<"meta">>
    [] pc[c] = "after" -> <<"current">> \o Chain \o <<"meta", "tree">>

Complete(c) == Cardinality(DOMAIN got[c]) = Len(Order(c))

\* The next Git command of a pass; a symbolic reference is refused (or leaves a
\* switch unconfirmed), so no pass reads one.
Read(c) ==
  /\ pc[c] \in Passes
  /\ ctx[c] = "live"
  /\ ~Complete(c)
  /\ LET x == Order(c)[Cardinality(DOMAIN got[c]) + 1] IN
       /\ x \notin sym
       /\ got' = [got EXCEPT ![c] = With(got[c], x, repo[x])]
       /\ drift' = [drift EXCEPT ![c] = @ \ {x}]
  /\ UNCHANGED <<world, ask, expect, pc, ctx, snap, wire, verdict, held, matched, turns>>

\* checkout, up, down, ...: the destination is a member, and all is as expected.
AsExpected(c, seen) ==
  /\ seen["current"] \in Members /\ ask[c].to \in Members
  /\ expect[c] = <<seen["current"], seen[seen["current"]], seen[ask[c].to]>>

\* Where the first pass leads: a second one, a transaction, or an error.
AnyStack(c) ==   \* mutant: a stack that does not exist is not noticed
  CASE ask[c].kind = "view" -> {"second"}
    [] ask[c].kind = "register" ->
         IF Compatible(got[c]["meta"], ask[c].record) /\ Valid(got[c]) THEN {"prepare"} ELSE {}
    [] ask[c].kind = "switch" -> IF AsExpected(c, got[c]) THEN {"second"} ELSE {}
FirstNext(c) ==
  CASE ask[c].kind = "view" -> IF got[c]["meta"] # Nil THEN {"second"} ELSE {}
    [] ask[c].kind = "register" ->
         IF Compatible(got[c]["meta"], ask[c].record) /\ Valid(got[c]) THEN {"prepare"} ELSE {}
    [] ask[c].kind = "switch" ->
         IF got[c]["meta"] # Nil /\ Valid(got[c]) /\ AsExpected(c, got[c])
           THEN {"second"} ELSE {}

FirstPass(c) ==
  /\ pc[c] = "first"
  /\ Complete(c)
  /\ \E l \in FirstNext(c) : Goto(c, l)
  /\ snap' = [snap EXCEPT ![c] = got[c]]
  /\ got' = [got EXCEPT ![c] = Nothing]
  /\ matched' = [matched EXCEPT ![c] = Same(repo, got[c], Graph)]
  /\ UNCHANGED <<world, ask, expect, ctx, wire, verdict, held, drift, turns>>

\* SafeTree: local work, an unfinished Git operation, or a tree that cannot be told.
Dirty(c) == got[c]["tree"] = "dirty"

\* Verify, and the fresh look before a switch: nothing has changed.
SameRecord(c) ==   \* mutant: only the record is compared
  got[c]["meta"] = snap[c]["meta"]
SameGraph(c) == Same(got[c], snap[c], Graph)

SecondPass(c) ==
  /\ pc[c] = "second"
  /\ Complete(c)
  /\ IF ~SameGraph(c) THEN Return(c, "refused")
     ELSE IF ask[c].kind = "view" THEN Return(c, "viewed")
     ELSE IF Dirty(c) THEN Return(c, "refused")
     ELSE IF ask[c].to = snap[c]["current"] THEN Return(c, "unchanged")
     ELSE Advance(c, "switch")
  /\ UNCHANGED <<repo, sym, stale, others, ask, expect, wire, history>>

-----------------------------------------------------------------------------
(* Save: one update-ref process that verifies every head and the old record, is *)
(* told to prepare, and to commit once the locked references were looked at.    *)

\* update-ref finds what it was told to verify (a symbolic reference passes), or not.
VerifiedHeads(c) == Same(repo, snap[c], Members)   \* mutant: no compare-and-swap
Verified(c) == Same(repo, snap[c], Members \cup {"meta"})

Prepare(c) ==
  /\ pc[c] = "prepare"
  /\ ctx[c] = "live"
  /\ \/ /\ ~Locked /\ Verified(c)
        /\ wire' = [wire EXCEPT ![c] = "prepared"]
        /\ Advance(c, "guard")
     \/ /\ wire' = [wire EXCEPT ![c] = "dropped"]
        /\ Advance(c, "unconfirmed")
  /\ held' = [held EXCEPT ![c] = Goal(c)]
  /\ UNCHANGED <<repo, sym, stale, others, ask, expect, drift, matched, turns>>

\* Under the locks every reference is an ordinary one with the value inspected.
GuardOID(c) == Verified(c)   \* mutant: the kind of a reference is not looked at
GuardKind(c) == Verified(c) /\ sym = {}

Guard(c) ==
  /\ pc[c] = "guard"
  /\ ctx[c] = "live"
  /\ wire[c] = "prepared"
  /\ GuardKind(c)
  /\ Advance(c, "commit")
  /\ UNCHANGED <<repo, sym, stale, others, ask, expect, wire, history>>

\* The guard fails, or there is no time left: end of file aborts the transaction.
Abort(c) ==
  /\ pc[c] \in {"guard", "commit"}
  /\ wire' = [wire EXCEPT ![c] = "dropped"]
  /\ Advance(c, IF pc[c] = "guard" THEN "aborted" ELSE "unconfirmed")
  /\ UNCHANGED <<repo, sym, stale, others, ask, expect, history>>

SendCommit(c) ==
  /\ pc[c] = "commit"
  /\ ctx[c] = "live"
  /\ wire[c] = "prepared"
  /\ wire' = [wire EXCEPT ![c] = "sent"]
  /\ Advance(c, "ack")
  /\ UNCHANGED <<repo, sym, stale, others, ask, expect, history>>

\* The process was waited for: its acknowledgment came, or did not.
SentIsPublished(c) ==   \* mutant: an exit without an acknowledgment is a success
  /\ pc[c] = "ack"
  /\ wire[c] \in {"applied", "dropped"}
  /\ Return(c, IF snap[c]["meta"] = ask[c].record THEN "unchanged" ELSE "registered")
  /\ UNCHANGED <<repo, sym, stale, others, ask, expect, wire, history>>
Acknowledged(c) ==
  /\ pc[c] = "ack"
  /\ wire[c] \in {"applied", "dropped"}
  /\ \/ /\ wire[c] = "applied" /\ ctx[c] = "live"
        /\ Return(c, IF snap[c]["meta"] = ask[c].record THEN "unchanged" ELSE "registered")
     \/ Return(c, "uncertain")
  /\ UNCHANGED <<repo, sym, stale, others, ask, expect, wire, history>>

Aborted(c) ==
  /\ pc[c] \in {"aborted", "unconfirmed"}
  /\ Return(c, IF pc[c] = "aborted" THEN "refused" ELSE "uncertain")
  /\ UNCHANGED <<repo, sym, stale, others, ask, expect, wire, history>>

-----------------------------------------------------------------------------
(* Checkout: one git switch, then a last pass.                               *)

Switch(c) ==
  /\ pc[c] = "switch"
  /\ ctx[c] = "live"
  /\ wire' = [wire EXCEPT ![c] = "sent"]
  /\ Advance(c, "switching")
  /\ held' = [held EXCEPT ![c] = Goal(c)]
  /\ UNCHANGED <<repo, sym, stale, others, ask, expect, drift, matched, turns>>

Switched(c) ==
  /\ pc[c] = "switching"
  /\ wire[c] \in {"applied", "dropped"}
  /\ IF wire[c] = "applied" /\ ctx[c] = "live" THEN Advance(c, "after") ELSE Return(c, "uncertain")
  /\ UNCHANGED <<repo, sym, stale, others, ask, expect, wire, history>>

\* The postcondition: the destination is current and nothing else has changed.
LastPass(c) ==
  /\ pc[c] = "after"
  /\ Complete(c)
  /\ Return(c, IF /\ got[c]["current"] = ask[c].to
                  /\ Same(got[c], snap[c], Members \cup {"meta"})
                  /\ ~Dirty(c)
               THEN "checked_out" ELSE "uncertain")
  /\ UNCHANGED <<repo, sym, stale, others, ask, expect, wire, history>>

\* A read of the last pass fails.
LastFails(c) ==
  /\ pc[c] = "after"
  /\ Return(c, "uncertain")
  /\ UNCHANGED <<repo, sym, stale, others, ask, expect, wire, history>>

\* The 30 s deadline of the operation, or an interrupt.
Expire(c) ==
  /\ Active(c)
  /\ ctx[c] = "live"
  /\ ctx' = [ctx EXCEPT ![c] = "done"]
  /\ UNCHANGED <<world, ask, expect, pc, got, snap, wire, verdict, history>>

\* The process is killed: the lock directory stays, Git processes end on their own.
Crash(c) ==
  /\ Active(c)
  /\ End(c)
  /\ UNCHANGED <<world, ask, expect, wire, verdict, history>>

-----------------------------------------------------------------------------
(* Git (outside src/).                                                       *)

\* History: others (or Git for the invocations in Own) have just changed the
\* repository.
Changed(Own) ==
  LET turned == {x \in Item : repo'[x] # repo[x] \/ (x \in sym') # (x \in sym)} IN
  /\ held' = [c \in Invocation |-> held[c] \/ (Active(c) /\ Goal(c)')]
  /\ drift' = [c \in Invocation |->
       IF c \notin Own /\ (pc[c] \in {"second", "switch"} \/ wire[c] = "sent")
         THEN drift[c] \cup turned ELSE drift[c]]
  /\ matched' = [c \in Invocation |->
       matched[c] \/ (pc[c] = "second" /\ Same(repo', snap[c], Graph))]
  /\ turns' = [c \in Invocation |->
       IF c \notin Own /\ turns[c] < 2 /\ ask[c].kind = "view" /\ pc[c] \in Passes
         THEN turns[c] + 1 ELSE turns[c]]

\* The prepared transaction commits: the record is replaced, as an ordinary reference.
Publish(c) ==
  /\ ask[c].kind = "register"
  /\ wire[c] = "sent"
  /\ wire' = [wire EXCEPT ![c] = "applied"]
  /\ repo' = [repo EXCEPT !["meta"] = ask[c].record]
  /\ sym' = sym \ {"meta"}
  /\ UNCHANGED <<lock, stale, others, ask, expect, pc, ctx, got, snap, verdict>>
  /\ Changed({c})

\* git switch succeeds: the branch exists and no local change is in the way.
SwitchTree(c) ==
  /\ ask[c].kind = "switch"
  /\ wire[c] = "sent"
  /\ repo[ask[c].to] # Nil
  /\ wire' = [wire EXCEPT ![c] = "applied"]
  /\ repo' = [repo EXCEPT !["current"] = ask[c].to]
  /\ UNCHANGED <<sym, lock, stale, others, ask, expect, pc, ctx, got, snap, verdict>>
  /\ Changed({c})

\* Git refuses or dies; killed in a transaction, it leaves its locks.
GitFails(c) ==
  /\ \/ wire[c] = "sent" /\ stale' \in {stale, stale \/ ask[c].kind = "register"}
     \/ wire[c] = "prepared" /\ ctx[c] = "done" /\ stale' \in BOOLEAN /\ (stale => stale')
  /\ wire' = [wire EXCEPT ![c] = "dropped"]
  /\ UNCHANGED <<repo, sym, lock, others, ask, expect, pc, ctx, got, snap, verdict, history>>

ByOthers ==
  /\ others + Cardinality({c \in Invocation : ask[c].kind # "none"}) <= MaxOther
  /\ others' = others + 1
  /\ UNCHANGED <<stale, ask, expect, pc, ctx, got, snap, wire, verdict>>

\* Another Git command moves, creates or deletes a branch.  The locks are those of
\* the names: what a symbolic reference resolves to can change in spite of them.
OtherMoves ==
  /\ ByOthers
  /\ \E b \in Branch : \E v \in (Commit \cup {Nil}) \ {repo[b]} :
       /\ b \in sym \/ ~Locked
       /\ repo' = [repo EXCEPT ![b] = v]
  /\ UNCHANGED <<sym, lock>>
  /\ Changed({})

\* Another Git command makes a reference symbolic, with the value it had, or
\* ordinary again.
OtherReplaces ==
  /\ ByOthers
  /\ ~Locked
  /\ \E r \in Ref :
       /\ repo[r] # Nil
       /\ sym' = IF r \in sym THEN sym \ {r} ELSE sym \cup {r}
  /\ UNCHANGED <<repo, lock>>
  /\ Changed({})

\* The user switches or detaches, or works in the tree.
OtherWorks ==
  /\ ByOthers
  /\ \/ \E b \in (Branch \cup {Nil}) \ {repo["current"]} :
          repo' = [repo EXCEPT !["current"] = b]
     \/ \E t \in {"clean", "dirty"} \ {repo["tree"]} : repo' = [repo EXCEPT !["tree"] = t]
  /\ UNCHANGED <<sym, lock>>
  /\ Changed({})

\* Somebody removes the lock directory, retained or in use.
OtherUnlocks ==
  /\ ByOthers
  /\ lock
  /\ lock' = FALSE
  /\ UNCHANGED <<repo, sym, history>>

-----------------------------------------------------------------------------
Run(c) ==
  \/ Start(c) \/ Open(c) \/ Refuse(c) \/ Read(c) \/ FirstPass(c) \/ SecondPass(c)
  \/ Prepare(c) \/ Guard(c) \/ Abort(c) \/ SendCommit(c) \/ Acknowledged(c) \/ Aborted(c)
  \/ Switch(c) \/ Switched(c) \/ LastPass(c) \/ LastFails(c) \/ Expire(c) \/ Crash(c)

Git(c) == Publish(c) \/ SwitchTree(c) \/ GitFails(c)

Next ==
  \/ \E c \in Invocation : Run(c) \/ Git(c)
  \/ OtherMoves \/ OtherReplaces \/ OtherWorks \/ OtherUnlocks

Spec == Init /\ [][Next]_vars

-----------------------------------------------------------------------------
(* Properties.                                                              *)

Effect(c) ==
  CASE wire[c] = "unsent" -> "none"
    [] wire[c] \in {"prepared", "sent"} -> "inflight"
    [] OTHER -> wire[c]

Phase(c) ==
  IF pc[c] = "idle" THEN "idle"
  ELSE IF wire[c] = "unsent" THEN "preflight" ELSE "attempted"

\* A view changes nothing and claims no change.  An error after the transaction
\* began says that it was aborted.
Claim(c) ==
  CASE verdict[c] = "viewed" -> "refused"
    [] verdict[c] = "refused" /\ wire[c] # "unsent" -> "rejected"
    [] verdict[c] = "unchanged" /\ wire[c] = "unsent" -> "noop"
    [] verdict[c] = "unchanged" /\ wire[c] # "unsent" -> "done"
    [] verdict[c] \in {"registered", "checked_out"} -> "done"
    [] verdict[c] = "uncertain" -> "ambiguous"
    [] OTHER -> verdict[c]

GW == INSTANCE GuardedWrite WITH
        phase <- [c \in Invocation |-> Phase(c)],
        effect <- [c \in Invocation |-> Effect(c)],
        verdict <- [c \in Invocation |-> Claim(c)]

\* Local actions keep the same promise as provider writes: one transaction or
\* switch at most; an ordinary error means that nothing was and will be changed,
\* even when the guard fails under Git's locks; a success was true.
ImplementsGuardedWrite == GW!Spec

\* A binding to merge requests is never replaced or removed, even if the lock
\* directory is removed under a live invocation.
KeepsBindings == [][Compatible(repo["meta"], repo'["meta"])]_vars

\* What a view shows was true at one moment, unless others changed the repository
\* more than once meanwhile (and so may have changed something and back).
ViewIsASnapshot ==
  \A c \in Invocation : verdict[c] = "viewed" /\ turns[c] < 2 => matched[c]

\* A record is only ever published while every branch of its chain is an ordinary
\* reference with the head that was inspected, each the ancestor of the next:
\* whatever other Git commands do, whichever process dies or is too late.
PublishesInspected(c) == sym = {} /\ Same(repo, snap[c], Members) /\ Valid(repo)

\* A switch leaves the reviewed branch and a clean tree, and enters a member of the
\* inspected chain, but for what others changed after the last look at it.
SwitchesReviewed(c) ==
  /\ AsExpected(c, snap[c])
  /\ \A x \in Graph : repo[x] = snap[c][x] \/ x \in drift[c]
  /\ repo["tree"] = "clean" \/ "tree" \in drift[c]

\* The repository is changed as it was inspected, in both of these senses.
ChangesWhatWasInspected ==
  [][\A c \in Invocation : wire[c] = "sent" /\ wire'[c] = "applied" =>
       IF ask[c].kind = "register" THEN PublishesInspected(c) ELSE SwitchesReviewed(c)]_vars
=============================================================================
