--------------------------- MODULE LocalStackProofs --------------------------
(***************************************************************************)
(* The stack commands, for any chain, history of commits, number of runs    *)
(* and of changes by others: they keep their types, they implement          *)
(* GuardedWrite, a binding is never lost, the repository is changed as it   *)
(* was inspected, and a view is a snapshot unless two changes hid one.      *)
(*                                                                         *)
(* The argument: a pass has read a prefix of its order, so that a complete  *)
(* one has read all of it (Reads); where a run is tells what it holds, and  *)
(* what its first pass found (Stages, Plans); Git's locks belong to one     *)
(* registration (Exclusive), and under them nothing moves once no reference *)
(* is symbolic (Guarded); what a run would claim has been true (Evidence);  *)
(* what others change after the last look is noted (Window); and a pass of  *)
(* a view without a change shows the repository itself (Snapshots).         *)
(***************************************************************************)
EXTENDS LocalStack, FiniteSetTheorems, SequenceTheorems, TLAPS

\* The functions are functions; the tree is clean or dirty; somebody runs.
Shapes ==
  /\ expect = [c \in Invocation |-> expect[c]]
  /\ got = [c \in Invocation |-> got[c]]
  /\ snap = [c \in Invocation |-> snap[c]]
  /\ repo["tree"] \in {"clean", "dirty"}
  /\ \E c \in Invocation : ask[c].kind # "none"

\* A registration has Git's locks of all references.
Transacting(c) == ask[c].kind = "register" /\ wire[c] \in {"prepared", "sent"}

Exclusive == \A c, d \in Invocation : Transacting(c) /\ Transacting(d) => c = d

Registering == {"prepare", "guard", "commit", "ack", "aborted", "unconfirmed"}
Switching == {"switch", "switching", "after"}

\* Where a run is tells what it is for, what it has sent and said, and what it holds.
StageOf(c) ==
  /\ pc[c] \in {"idle", "open", "first", "second", "prepare", "switch"} => wire[c] = "unsent"
  /\ pc[c] \in {"guard", "commit"} => wire[c] \in {"prepared", "dropped"}
  /\ pc[c] \in {"ack", "switching"} => wire[c] \in {"sent", "applied", "dropped"}
  /\ pc[c] \in {"aborted", "unconfirmed"} => wire[c] = "dropped"
  /\ pc[c] = "after" => wire[c] = "applied"
  /\ pc[c] \in Registering \/ wire[c] = "prepared" => ask[c].kind = "register"
  /\ pc[c] \in Switching => ask[c].kind = "switch"
  /\ pc[c] = "second" => ask[c].kind \in {"view", "switch"}
  /\ pc[c] # "idle" => ask[c].kind # "none"
  /\ pc[c] # "done" => verdict[c] = "none"
  /\ wire[c] # "unsent" => ask[c].kind \in {"register", "switch"} /\ pc[c] # "idle"
  /\ wire[c] \in {"prepared", "sent"} => verdict[c] \in {"none", "uncertain"}
  /\ pc[c] \notin Passes => got[c] = Nothing

\* A pass under way has read a prefix of its order, and what it has read is typed.
ReadOf(c) ==
  /\ IsFiniteSet(DOMAIN got[c])
  /\ pc[c] \in Passes =>
       /\ Cardinality(DOMAIN got[c]) <= Len(Order(c))
       /\ \A i \in 1 .. Cardinality(DOMAIN got[c]) : Order(c)[i] \in DOMAIN got[c]
  /\ "meta" \in DOMAIN got[c] => got[c]["meta"] \in Record \cup {Nil}
  /\ "tree" \in DOMAIN got[c] => got[c]["tree"] \in {"clean", "dirty"}

\* What the first pass must have found.
PlanOf(c) ==
  /\ ask[c].kind = "switch" /\ (pc[c] = "second" \/ pc[c] \in Switching \/ wire[c] = "sent") =>
       AsExpected(c, snap[c])
  /\ ask[c].kind = "register"
     /\ (pc[c] \in {"prepare", "guard", "commit", "ack"} \/ wire[c] \in {"prepared", "sent"}) =>
       Valid(snap[c]) /\ Compatible(snap[c]["meta"], ask[c].record)
  /\ pc[c] \in {"second", "after"} \cup Steps =>
       snap[c]["meta"] \in Record \/ ask[c].kind = "register"

\* From the guard to the end of the transaction nothing it verified is different.
GuardedOf(c) ==
  ask[c].kind = "register" /\ (wire[c] = "sent" \/ (wire[c] = "prepared" /\ pc[c] = "commit")) =>
    sym = {} /\ Verified(c)

\* What a run would claim has been true since it began, or attempted.
EvidenceOf(c) ==
  /\ Active(c) /\ Goal(c) => held[c]
  /\ ask[c].kind = "switch" /\ pc[c] \in {"second", "after"}
     /\ "current" \in DOMAIN got[c] /\ got[c]["current"] = ask[c].to => held[c]
  /\ pc[c] = "ack" /\ wire[c] = "applied" => held[c]

\* After a switch has looked at an item for the last time, a change of it is noted.
WindowOf(c) ==
  /\ pc[c] = "second" =>
       \A x \in DOMAIN got[c] : repo[x] = got[c][x] \/ x \in drift[c]
  /\ ask[c].kind = "switch" /\ (pc[c] = "switch" \/ wire[c] = "sent") =>
       /\ \A x \in Graph : repo[x] = snap[c][x] \/ x \in drift[c]
       /\ repo["tree"] = "clean" \/ "tree" \in drift[c]

\* A pass of a view shows the repository as it is, unless a change is counted.
SnapshotOf(c) ==
  /\ ask[c].kind = "view" /\ pc[c] = "first" /\ turns[c] = 0 =>
       \A x \in DOMAIN got[c] : got[c][x] = repo[x]
  /\ ask[c].kind = "view" /\ pc[c] = "second" /\ turns[c] < 2 /\ ~matched[c] =>
       /\ turns[c] = 1
       /\ ~Same(repo, snap[c], Graph)
       /\ \A x \in DOMAIN got[c] : got[c][x] = repo[x]
  /\ verdict[c] = "viewed" /\ turns[c] < 2 => matched[c]

RunInv(c) ==
  /\ StageOf(c) /\ ReadOf(c) /\ PlanOf(c) /\ GuardedOf(c) /\ EvidenceOf(c) /\ WindowOf(c)
  /\ SnapshotOf(c)

IInv == TypeOK /\ Shapes /\ Exclusive /\ \A c \in Invocation : RunInv(c)

-----------------------------------------------------------------------------
(* What the items, the chain and a pass are.                                *)

\* The branches of the chain are references, and other items than the rest.
LEMMA Items ==
  /\ Members \subseteq Branch /\ Branch \subseteq Ref /\ Graph \subseteq Item /\ Ref \subseteq Item
  /\ {"meta", "current", "tree"} \subseteq Item /\ {"meta", "current", "tree"} \cap Branch = {}
  /\ \A i \in 1 .. Len(Chain) : Chain[i] \in Members
  /\ Chain \in Seq(Branch) /\ Len(Chain) \in Nat
BY StackAssumption DEF Members, Graph, Ref, Item

Occurs(x, s) == \E i \in 1 .. Len(s) : s[i] = x

\* What occurs in a sequence occurs in every sequence it is a part of.
LEMMA OccursConcat ==
  ASSUME NEW S, NEW s \in Seq(S), NEW t \in Seq(S)
  PROVE /\ s \o t \in Seq(S)
        /\ \A x : Occurs(x, s) \/ Occurs(x, t) => Occurs(x, s \o t)
<1>1. s \o t \in Seq(S) /\ Len(s \o t) = Len(s) + Len(t) /\ Len(s) \in Nat /\ Len(t) \in Nat
  BY ConcatProperties, LenProperties
<1>2. ASSUME NEW i \in 1 .. Len(s) PROVE i \in 1 .. Len(s \o t) /\ (s \o t)[i] = s[i]
  BY <1>1, ConcatProperties
<1>3. ASSUME NEW i \in 1 .. Len(t)
      PROVE Len(s) + i \in 1 .. Len(s \o t) /\ (s \o t)[Len(s) + i] = t[i]
  <2>1. Len(s) + i \in 1 .. Len(s \o t) /\ Len(s) + i > Len(s) /\ (Len(s) + i) - Len(s) = i
    BY <1>1
  <2>2. (s \o t)[Len(s) + i] = t[(Len(s) + i) - Len(s)]
    BY <1>1, <2>1, ConcatProperties
  <2> QED
    BY <2>1, <2>2
<1> QED
  BY <1>1, <1>2, <1>3 DEF Occurs

\* A pass reads the whole graph, and a switch's later ones the tree.
LEMMA OrderItems ==
  ASSUME NEW c \in Invocation, StageOf(c), pc[c] \in Passes
  PROVE /\ Order(c) \in Seq(Item)
        /\ \A x \in Graph : Occurs(x, Order(c))
        /\ ask[c].kind = "switch" /\ pc[c] # "first" => Occurs("tree", Order(c))
<1>1. Chain \in Seq(Item) /\ \A x \in Members : Occurs(x, Chain)
  BY Items, StackAssumption DEF Occurs, Members
<1>2. /\ <<"meta", "current">> \in Seq(Item)
      /\ Occurs("meta", <<"meta", "current">>) /\ Occurs("current", <<"meta", "current">>)
  BY Items DEF Occurs
<1>3. /\ <<"tree", "current">> \in Seq(Item)
      /\ Occurs("tree", <<"tree", "current">>) /\ Occurs("current", <<"tree", "current">>)
  BY Items DEF Occurs
<1>4. /\ <<"meta", "tree">> \in Seq(Item)
      /\ Occurs("meta", <<"meta", "tree">>) /\ Occurs("tree", <<"meta", "tree">>)
  BY Items DEF Occurs
<1>5. <<"meta">> \in Seq(Item) /\ Occurs("meta", <<"meta">>)
  BY Items DEF Occurs
<1>6. <<"current">> \in Seq(Item) /\ Occurs("current", <<"current">>)
  BY Items DEF Occurs
<1>7. CASE pc[c] = "first" \/ (pc[c] = "second" /\ ask[c].kind = "view")
  <2>1. Order(c) = <<"meta", "current">> \o Chain
    BY <1>7 DEF Order
  <2> QED
    BY <1>1, <1>2, <1>7, <2>1, OccursConcat DEF Graph
<1>8. CASE pc[c] = "second" /\ ask[c].kind = "switch"
  <2>1. Order(c) = (<<"tree", "current">> \o Chain) \o <<"meta">>
    BY <1>8 DEF Order
  <2>2. /\ <<"tree", "current">> \o Chain \in Seq(Item)
        /\ \A x \in Members \cup {"tree", "current"} : Occurs(x, <<"tree", "current">> \o Chain)
    BY <1>1, <1>3, OccursConcat
  <2> QED
    BY <1>5, <2>1, <2>2, OccursConcat DEF Graph
<1>9. CASE pc[c] = "after"
  <2>1. Order(c) = (<<"current">> \o Chain) \o <<"meta", "tree">>
    BY <1>9 DEF Order
  <2>2. /\ <<"current">> \o Chain \in Seq(Item)
        /\ \A x \in Members \cup {"current"} : Occurs(x, <<"current">> \o Chain)
    BY <1>1, <1>6, OccursConcat
  <2> QED
    BY <1>4, <2>1, <2>2, OccursConcat DEF Graph
<1> QED
  BY <1>7, <1>8, <1>9 DEF Passes, StageOf

\* So a complete pass has read all of it.
LEMMA WholePass ==
  ASSUME NEW c \in Invocation, StageOf(c), ReadOf(c), pc[c] \in Passes, Complete(c)
  PROVE /\ Graph \subseteq DOMAIN got[c]
        /\ ask[c].kind = "switch" /\ pc[c] # "first" => "tree" \in DOMAIN got[c]
<1>1. \A x : Occurs(x, Order(c)) => x \in DOMAIN got[c]
  BY DEF ReadOf, Complete, Occurs
<1> QED
  BY <1>1, OrderItems

\* One more read of a sequence of items, of which the first have been read.
LEMMA ReadPrefix ==
  ASSUME NEW f, NEW v, NEW S, NEW s \in Seq(S), IsFiniteSet(DOMAIN f),
         Cardinality(DOMAIN f) <= Len(s), Cardinality(DOMAIN f) # Len(s),
         \A i \in 1 .. Cardinality(DOMAIN f) : s[i] \in DOMAIN f,
         NEW x, x = s[Cardinality(DOMAIN f) + 1]
  PROVE LET g == With(f, x, v) IN
        /\ x \in S
        /\ IsFiniteSet(DOMAIN g) /\ Cardinality(DOMAIN g) <= Len(s)
        /\ \A i \in 1 .. Cardinality(DOMAIN g) : s[i] \in DOMAIN g
<1> DEFINE n == Cardinality(DOMAIN f)
           g == With(f, x, v)
<1>1. DOMAIN g = DOMAIN f \cup {x}
  BY DEF With
<1>2. n \in Nat /\ Len(s) \in Nat
  BY FS_CardinalityType, LenProperties
<1>3. x \in S
  <2>1. n + 1 \in 1 .. Len(s)
    BY <1>2
  <2> QED
    BY <2>1, ElementOfSeq
<1>4. IsFiniteSet(DOMAIN g) /\ (Cardinality(DOMAIN g) = n \/ Cardinality(DOMAIN g) = n + 1)
  BY <1>1, FS_AddElement
<1>5. Cardinality(DOMAIN g) <= Len(s)
  BY <1>2, <1>4
<1>6. ASSUME NEW i \in 1 .. Cardinality(DOMAIN g) PROVE s[i] \in DOMAIN g
  <2>1. i \in 1 .. n \/ i = n + 1
    BY <1>2, <1>4
  <2> QED
    BY <1>1, <2>1
<1> QED
  BY <1>3, <1>4, <1>5, <1>6

\* What is asked for is one of these, and typed.
LEMMA AskTypes ==
  ASSUME TypeOK, NEW c \in Invocation
  PROVE /\ ask[c].kind \in {"view", "none", "register", "switch"}
        /\ ask[c].kind = "register" => ask[c].record \in Record
        /\ ask[c].kind = "switch" => ask[c].to \in Branch
BY DEF TypeOK, Ask

\* What a run was asked for is true or false.
LEMMA GoalIsBoolean == ASSUME TypeOK, NEW c \in Invocation PROVE Goal(c) \in BOOLEAN
BY AskTypes DEF Goal

\* Somebody runs: Together holds no other instance.
LEMMA InitShapes == ASSUME Init PROVE Shapes
<1>1. PICK c \in Invocation : Asked(ask)[c] # "none"
  BY StackAssumption DEF Init
<1>2. ask[c].kind # "none"
  BY <1>1 DEF Asked
<1>3. repo["tree"] \in {"clean", "dirty"}
  BY DEF Init, Repository
<1> QED
  BY <1>2, <1>3 DEF Init, Shapes

\* The initial states satisfy the invariant.
LEMMA InitInv == Init => IInv
<1> SUFFICES ASSUME Init PROVE IInv
  OBVIOUS
<1>1. DOMAIN Nothing = {}
  BY DEF Nothing
<1>2. TypeOK
  <2>1. /\ repo \in [Item -> Commit \cup Record \cup Branch \cup {Nil, "clean", "dirty"}]
        /\ \A b \in Branch : repo[b] \in Commit \cup {Nil}
        /\ repo["meta"] \in Record \cup {Nil} /\ repo["current"] \in Branch \cup {Nil}
    BY DEF Init, Repository
  <2>2. sym \subseteq Ref /\ others \in 0..MaxOther /\ ask \in [Invocation -> Ask]
    BY StackAssumption DEF Init
  <2>3. \A c \in Invocation :
          /\ DOMAIN got[c] \subseteq Item /\ DOMAIN snap[c] \subseteq Item
          /\ pc[c] \notin {"second", "after"} \cup Steps
    BY <1>1 DEF Init, Steps
  <2>4. /\ pc \in [Invocation -> {"idle", "open", "done"} \cup Passes \cup Steps]
        /\ ctx \in [Invocation -> {"live", "done"}]
        /\ wire \in [Invocation -> {"unsent", "prepared", "sent", "applied", "dropped"}]
        /\ verdict \in [Invocation ->
             {"none", "refused", "viewed", "unchanged", "registered", "checked_out", "uncertain"}]
        /\ lock \in BOOLEAN /\ stale \in BOOLEAN
    BY DEF Init
  <2>5. /\ held \in [Invocation -> BOOLEAN] /\ drift \in [Invocation -> SUBSET Item]
        /\ matched \in [Invocation -> BOOLEAN] /\ turns \in [Invocation -> 0..2]
    BY DEF Init
  <2> QED
    BY <2>1, <2>2, <2>3, <2>4, <2>5 DEF TypeOK
<1>3. Exclusive
  BY DEF Init, Exclusive, Transacting
<1>4. ASSUME NEW c \in Invocation PROVE RunInv(c)
  <2>1. IsFiniteSet({})
    BY FS_EmptySet
  <2>2. /\ pc[c] = "idle" /\ wire[c] = "unsent" /\ verdict[c] = "none" /\ got[c] = Nothing
    BY DEF Init
  <2>3. StageOf(c)
    BY <2>2 DEF StageOf, Passes, Registering, Switching
  <2>4. ReadOf(c)
    BY <1>1, <2>1, <2>2 DEF ReadOf, Passes
  <2>5. PlanOf(c) /\ GuardedOf(c) /\ EvidenceOf(c)
    BY <2>2 DEF PlanOf, GuardedOf, EvidenceOf, Registering, Switching, Steps, Active
  <2>6. WindowOf(c) /\ SnapshotOf(c)
    BY <2>2 DEF WindowOf, SnapshotOf
  <2> QED
    BY <2>3, <2>4, <2>5, <2>6 DEF RunInv
<1> QED
  BY <1>2, <1>3, <1>4, InitShapes DEF IInv

-----------------------------------------------------------------------------
(* The runs.                                                                *)

\* Nothing of d, of the repository, or of the history of d changes.
Still(d) ==
  /\ UNCHANGED <<repo, sym, ask>>
  /\ expect'[d] = expect[d] /\ pc'[d] = pc[d] /\ got'[d] = got[d] /\ snap'[d] = snap[d]
  /\ wire'[d] = wire[d] /\ verdict'[d] = verdict[d]
  /\ (held'[d] <=> held[d]) /\ drift'[d] = drift[d]
  /\ (matched'[d] <=> matched[d]) /\ turns'[d] = turns[d]

\* So the invariant of d stays.
LEMMA StillStep == ASSUME NEW d \in Invocation, RunInv(d), Still(d) PROVE RunInv(d)'
<1>1. StageOf(d)'
  BY DEF Still, RunInv, StageOf
<1>2. ReadOf(d)'
  <2>1. Order(d)' = Order(d)
    BY DEF Still, Order
  <2> QED
    BY <2>1 DEF Still, RunInv, ReadOf
<1>3. PlanOf(d)'
  <2>1. AsExpected(d, snap[d])' <=> AsExpected(d, snap[d])
    BY DEF Still, AsExpected
  <2> QED
    BY <2>1 DEF Still, RunInv, PlanOf, Valid, Compatible
<1>4. GuardedOf(d)'
  BY DEF Still, RunInv, GuardedOf, Verified, Same
<1>5. EvidenceOf(d)'
  <2>1. Goal(d)' <=> Goal(d)
    BY DEF Still, Goal
  <2> QED
    BY <2>1 DEF Still, RunInv, EvidenceOf, Active
<1>6. WindowOf(d)'
  BY DEF Still, RunInv, WindowOf
<1>7. SnapshotOf(d)'
  BY DEF Still, RunInv, SnapshotOf, Same
<1> QED
  BY <1>1, <1>2, <1>3, <1>4, <1>5, <1>6, <1>7 DEF RunInv

\* A run that ends keeps what its switch was planned on, and says of the repository only
\* what it has seen.
LEMMA EndStep ==
  ASSUME NEW c \in Invocation, RunInv(c), NEW v, End(c), Shapes, TypeOK,
         UNCHANGED <<repo, sym, ask, expect, wire, held, drift, matched, turns>>,
         pc[c] \notin {"idle", "done"}, verdict'[c] = v,
         wire[c] \in {"prepared", "sent"} => v \in {"none", "uncertain"},
         v = "viewed" /\ turns[c] < 2 => matched[c]
  PROVE RunInv(c)'
<1>0. pc'[c] = "done" /\ got'[c] = Nothing /\ snap'[c] = snap[c] /\ DOMAIN Nothing = {}
  BY DEF End, Goto, Shapes, TypeOK, Nothing
<1>1. StageOf(c)'
  BY <1>0 DEF RunInv, StageOf, Passes, Registering, Switching
<1>2. ReadOf(c)'
  BY <1>0, FS_EmptySet DEF ReadOf, Passes
<1>3. PlanOf(c)'
  <2>1. AsExpected(c, snap[c])' <=> AsExpected(c, snap[c])
    BY <1>0 DEF AsExpected
  <2> QED
    BY <1>0, <2>1 DEF RunInv, PlanOf, Valid, Compatible, Registering, Switching, Steps
<1>4. GuardedOf(c)'
  BY <1>0 DEF RunInv, GuardedOf, Verified, Same
<1>5. EvidenceOf(c)'
  BY <1>0 DEF EvidenceOf, Active
<1>6. WindowOf(c)'
  BY <1>0 DEF RunInv, WindowOf
<1>7. SnapshotOf(c)'
  BY <1>0 DEF SnapshotOf
<1> QED
  BY <1>1, <1>2, <1>3, <1>4, <1>5, <1>6, <1>7 DEF RunInv

\* A pass that begins has read nothing yet.
LEMMA BeginPass ==
  ASSUME NEW c \in Invocation, StageOf(c)', pc'[c] \in Passes, got'[c] = Nothing
  PROVE ReadOf(c)'
<1>1. /\ Len(<<"meta", "current">> \o Chain) \in Nat
      /\ Len(<<"tree", "current">> \o Chain \o <<"meta">>) \in Nat
      /\ Len(<<"current">> \o Chain \o <<"meta", "tree">>) \in Nat
  <2>1. Chain \in Seq(Item) /\ "meta" \in Item /\ "current" \in Item /\ "tree" \in Item
    BY Items
  <2>2. /\ <<"meta", "current">> \o Chain \in Seq(Item)
        /\ (<<"tree", "current">> \o Chain) \o <<"meta">> \in Seq(Item)
        /\ (<<"current">> \o Chain) \o <<"meta", "tree">> \in Seq(Item)
    BY <2>1
  <2> QED
    BY <2>2, LenProperties
<1>2. Len(Order(c)') \in Nat
  BY <1>1 DEF Order, Passes, StageOf
<1>3. DOMAIN got'[c] = {} /\ IsFiniteSet({}) /\ Cardinality({}) = 0
  BY FS_EmptySet DEF Nothing
<1> QED
  BY <1>2, <1>3 DEF ReadOf

\* One Git command of a pass: what it shows is how the repository is.
LEMMA ReadStep ==
  ASSUME TypeOK, Shapes, NEW c \in Invocation, RunInv(c), Read(c) PROVE RunInv(c)'
<1> DEFINE x == Order(c)[Cardinality(DOMAIN got[c]) + 1]
           g == With(got[c], x, repo[x])
<1>1. /\ UNCHANGED <<repo, sym, ask, expect, pc, snap, wire, verdict, held, matched, turns>>
      /\ pc[c] \in Passes /\ got'[c] = g
      /\ drift'[c] = drift[c] \ {x}
  BY DEF Read, Shapes, TypeOK, world
<1>2. Order(c)' = Order(c) /\ Order(c) \in Seq(Item)
  BY <1>1, OrderItems DEF Order, RunInv
<1>3. /\ x \in Item
      /\ IsFiniteSet(DOMAIN g) /\ Cardinality(DOMAIN g) <= Len(Order(c))
      /\ \A i \in 1 .. Cardinality(DOMAIN g) : Order(c)[i] \in DOMAIN g
  <2>1. /\ IsFiniteSet(DOMAIN got[c]) /\ Cardinality(DOMAIN got[c]) <= Len(Order(c))
        /\ Cardinality(DOMAIN got[c]) # Len(Order(c))
        /\ \A i \in 1 .. Cardinality(DOMAIN got[c]) : Order(c)[i] \in DOMAIN got[c]
    BY <1>1 DEF Read, Complete, RunInv, ReadOf
  <2> QED
    BY <1>2, <2>1, ReadPrefix
<1>4. /\ DOMAIN g = DOMAIN got[c] \cup {x} /\ g[x] = repo[x]
      /\ \A y \in DOMAIN got[c] : y # x => g[y] = got[c][y]
  BY DEF With
<1> HIDE DEF x, g
<1>5. StageOf(c)'
  BY <1>1 DEF RunInv, StageOf
<1>6. ReadOf(c)'
  <2>1. "meta" \in DOMAIN g => g["meta"] \in Record \cup {Nil}
    BY <1>4 DEF RunInv, ReadOf, TypeOK
  <2>2. "tree" \in DOMAIN g => g["tree"] \in {"clean", "dirty"}
    BY <1>4 DEF RunInv, ReadOf, Shapes
  <2> QED
    BY <1>1, <1>2, <1>3, <2>1, <2>2 DEF ReadOf
<1>7. PlanOf(c)' /\ GuardedOf(c)'
  <2>1. AsExpected(c, snap[c])' <=> AsExpected(c, snap[c])
    BY <1>1 DEF AsExpected
  <2>2. PlanOf(c)'
    BY <1>1, <2>1 DEF RunInv, PlanOf, Valid, Compatible
  <2>3. GuardedOf(c)'
    BY <1>1 DEF RunInv, GuardedOf, Verified, Same
  <2> QED
    BY <2>2, <2>3
<1>8. EvidenceOf(c)'
  <2>1. Goal(c)' <=> Goal(c)
    BY <1>1 DEF Goal
  <2>2. /\ Active(c) /\ Goal(c) => held[c]
        /\ Active(c) /\ (Active(c)' <=> Active(c))
    BY <1>1 DEF RunInv, EvidenceOf, Active, Passes
  <2>3. ASSUME ask[c].kind = "switch", pc[c] \in {"second", "after"},
               "current" \in DOMAIN g, g["current"] = ask[c].to
        PROVE held[c]
    <3>1. CASE x = "current"
      BY <1>4, <2>2, <2>3, <3>1 DEF Goal
    <3>2. CASE x # "current"
      BY <1>4, <2>3, <3>2 DEF RunInv, EvidenceOf
    <3> QED
      BY <3>1, <3>2
  <2> QED
    BY <1>1, <2>1, <2>2, <2>3 DEF EvidenceOf, Passes
<1>9. WindowOf(c)'
  <2>1. ASSUME pc[c] = "second", NEW y \in DOMAIN g PROVE repo[y] = g[y] \/ y \in drift'[c]
    BY <1>1, <1>4, <2>1 DEF RunInv, WindowOf
  <2>2. ~(ask[c].kind = "switch" /\ (pc[c] = "switch" \/ wire[c] = "sent"))
    BY <1>1 DEF RunInv, StageOf, Passes
  <2> QED
    BY <1>1, <2>1, <2>2 DEF WindowOf
<1>10. SnapshotOf(c)'
  <2>1. ASSUME ask[c].kind = "view", pc[c] = "first", turns[c] = 0, NEW y \in DOMAIN g
        PROVE g[y] = repo[y]
    BY <1>4, <2>1 DEF RunInv, SnapshotOf
  <2>2. ASSUME ask[c].kind = "view", pc[c] = "second", turns[c] < 2, ~matched[c]
        PROVE /\ turns[c] = 1 /\ ~Same(repo, snap[c], Graph)
              /\ \A y \in DOMAIN g : g[y] = repo[y]
    BY <1>4, <2>2 DEF RunInv, SnapshotOf
  <2>3. Same(repo, snap[c], Graph)' <=> Same(repo, snap[c], Graph)
    BY <1>1 DEF Same
  <2> QED
    BY <1>1, <2>1, <2>2, <2>3 DEF RunInv, SnapshotOf
<1> QED
  BY <1>5, <1>6, <1>7, <1>8, <1>9, <1>10 DEF RunInv

\* The first pass leads on only with a chain that is as it must be; a view whose pass
\* nobody disturbed has just seen the repository as it is.
LEMMA FirstPassStep ==
  ASSUME TypeOK, Shapes, NEW c \in Invocation, RunInv(c), FirstPass(c) PROVE RunInv(c)'
<1>1. PICK l \in FirstNext(c) : Goto(c, l)
  BY DEF FirstPass
<1>2. /\ UNCHANGED <<repo, sym, ask, expect, wire, verdict, held, drift, turns>>
      /\ pc[c] = "first" /\ Complete(c) /\ pc'[c] = l
      /\ snap'[c] = got[c] /\ got'[c] = Nothing
      /\ matched'[c] <=> Same(repo, got[c], Graph)
  BY <1>1 DEF FirstPass, Goto, TypeOK, Shapes, world
<1>3. \/ /\ l = "second" /\ ask[c].kind \in {"view", "switch"} /\ got[c]["meta"] # Nil
         /\ ask[c].kind = "switch" => AsExpected(c, got[c])
      \/ /\ l = "prepare" /\ ask[c].kind = "register"
         /\ Compatible(got[c]["meta"], ask[c].record) /\ Valid(got[c])
  BY <1>2, AskTypes DEF FirstNext, RunInv, StageOf
<1>4. Graph \subseteq DOMAIN got[c]
  BY <1>2, WholePass DEF RunInv, Passes
<1>5. wire[c] = "unsent" /\ verdict[c] = "none"
  BY <1>2 DEF RunInv, StageOf
<1>6. StageOf(c)'
  BY <1>2, <1>3, <1>5 DEF StageOf, Registering, Switching, Passes
<1>7. ReadOf(c)'
  <2>1. CASE l = "second"
    BY <1>2, <1>6, <2>1, BeginPass DEF Passes
  <2>2. CASE l # "second"
    <3>1. DOMAIN Nothing = {}
      BY DEF Nothing
    <3> QED
      BY <1>2, <1>3, <2>2, <3>1, FS_EmptySet DEF ReadOf, Passes
  <2> QED
    BY <2>1, <2>2
<1>8. PlanOf(c)'
  <2>1. AsExpected(c, snap[c])' <=> AsExpected(c, got[c])
    BY <1>2 DEF AsExpected
  <2>2. Valid(snap[c])' <=> Valid(got[c])
    BY <1>2 DEF Valid
  <2>3. got[c]["meta"] \in Record \cup {Nil}
    BY <1>4 DEF Graph, RunInv, ReadOf
  <2> QED
    BY <1>2, <1>3, <1>5, <2>1, <2>2, <2>3 DEF PlanOf, Compatible, Switching, Steps
<1>9. GuardedOf(c)'
  BY <1>2, <1>5 DEF GuardedOf
<1>10. EvidenceOf(c)'
  <2>1. (Goal(c)' <=> Goal(c)) /\ DOMAIN Nothing = {}
    BY <1>2 DEF Goal, Nothing
  <2> QED
    BY <1>2, <1>3, <2>1 DEF RunInv, EvidenceOf, Active
<1>11. WindowOf(c)'
  <2>1. DOMAIN Nothing = {}
    BY DEF Nothing
  <2> QED
    BY <1>2, <1>3, <1>5, <2>1 DEF WindowOf
<1>12. SnapshotOf(c)'
  <2>1. DOMAIN Nothing = {} /\ turns[c] \in 0..2
    BY DEF Nothing, TypeOK
  <2>2. Same(repo, snap[c], Graph)' <=> Same(repo, got[c], Graph)
    BY <1>2 DEF Same
  <2>3. ask[c].kind = "view" /\ turns[c] = 0 => matched'[c]
    <3>1. ask[c].kind = "view" /\ turns[c] = 0 => \A x \in DOMAIN got[c] : got[c][x] = repo[x]
      BY <1>2 DEF RunInv, SnapshotOf
    <3> QED
      BY <1>2, <1>4, <3>1 DEF Same
  <2>4. turns[c] < 2 /\ turns[c] # 0 => turns[c] = 1
    BY <2>1
  <2> QED
    BY <1>2, <1>3, <1>5, <2>1, <2>2, <2>3, <2>4 DEF SnapshotOf
<1> QED
  BY <1>6, <1>7, <1>8, <1>9, <1>10, <1>11, <1>12 DEF RunInv

\* A run that begins has asked for nothing yet.
LEMMA OpenStep ==
  ASSUME TypeOK, Shapes, NEW c \in Invocation, RunInv(c), Start(c) \/ Open(c) PROVE RunInv(c)'
<1>1. /\ UNCHANGED <<repo, sym, ask, got, snap, wire, verdict, drift, matched>>
      /\ pc[c] \in {"idle", "open"} /\ pc'[c] \in {"open", "first"}
      /\ pc'[c] = "first" => turns'[c] = 0
      /\ ask[c].kind # "none"
  BY DEF Start, Open, Goto, RunInv, StageOf, TypeOK, world
<1>2. /\ got'[c] = Nothing /\ wire[c] = "unsent" /\ verdict[c] = "none" /\ DOMAIN Nothing = {}
  BY <1>1 DEF RunInv, StageOf, Passes, Nothing
<1>3. StageOf(c)'
  BY <1>1, <1>2 DEF StageOf, Registering, Switching
<1>4. ReadOf(c)'
  <2>1. CASE pc'[c] \in Passes
    BY <1>2, <1>3, <2>1, BeginPass
  <2>2. CASE pc'[c] \notin Passes
    BY <1>2, <2>2, FS_EmptySet DEF ReadOf
  <2> QED
    BY <2>1, <2>2
<1>5. PlanOf(c)' /\ GuardedOf(c)' /\ WindowOf(c)'
  BY <1>1, <1>2 DEF PlanOf, GuardedOf, WindowOf, Switching, Steps
<1>6. EvidenceOf(c)'
  <2>1. Goal(c)' <=> Goal(c)
    BY <1>1 DEF Goal
  <2>2. CASE Start(c)
    BY <1>1, <1>2, <2>1, <2>2 DEF Start, Goto, EvidenceOf, TypeOK
  <2>3. CASE Open(c)
    BY <1>1, <1>2, <2>1, <2>3 DEF Open, RunInv, EvidenceOf, Active
  <2> QED
    BY <2>2, <2>3
<1>7. SnapshotOf(c)'
  BY <1>1, <1>2 DEF SnapshotOf
<1> QED
  BY <1>3, <1>4, <1>5, <1>6, <1>7 DEF RunInv

\* The second pass: a view is a snapshot; a switch goes on with a clean tree and the
\* reviewed graph, but for what was noted since.
LEMMA SecondPassStep ==
  ASSUME TypeOK, Shapes, NEW c \in Invocation, RunInv(c), SecondPass(c) PROVE RunInv(c)'
<1>1. /\ UNCHANGED <<repo, sym, ask, expect, wire, held, drift, matched, turns, snap>>
      /\ pc[c] = "second" /\ Complete(c) /\ wire[c] = "unsent" /\ verdict[c] = "none"
      /\ ask[c].kind \in {"view", "switch"}
  BY DEF SecondPass, Return, End, Advance, history, RunInv, StageOf
<1>2. /\ Graph \subseteq DOMAIN got[c]
      /\ ask[c].kind = "switch" => "tree" \in DOMAIN got[c]
  BY <1>1, WholePass DEF RunInv, Passes
<1>3. ASSUME NEW v, Return(c, v), v = "viewed" => ask[c].kind = "view" /\ SameGraph(c)
      PROVE RunInv(c)'
  <2>1. End(c) /\ verdict'[c] = v
    BY <1>3 DEF Return, TypeOK
  <2>2. v = "viewed" /\ turns[c] < 2 => matched[c]
    BY <1>1, <1>2, <1>3 DEF SameGraph, Same, RunInv, SnapshotOf
  <2> QED
    BY <1>1, <2>1, <2>2, EndStep
<1>4. ASSUME Advance(c, "switch"), SameGraph(c), ask[c].kind = "switch", ~Dirty(c)
      PROVE RunInv(c)'
  <2>1. pc'[c] = "switch" /\ got'[c] = Nothing /\ verdict'[c] = "none"
    BY <1>1, <1>4 DEF Advance, Goto, TypeOK, Shapes
  <2>2. StageOf(c)'
    BY <1>1, <1>4, <2>1 DEF StageOf, Registering, Switching, Passes
  <2>3. ReadOf(c)'
    <3>1. DOMAIN Nothing = {}
      BY DEF Nothing
    <3> QED
      BY <2>1, <3>1, FS_EmptySet DEF ReadOf, Passes
  <2>4. PlanOf(c)'
    <3>1. AsExpected(c, snap[c])' <=> AsExpected(c, snap[c])
      BY <1>1 DEF AsExpected
    <3> QED
      BY <1>1, <1>4, <2>1, <3>1 DEF RunInv, PlanOf, Steps, Switching
  <2>5. GuardedOf(c)' /\ SnapshotOf(c)'
    BY <1>1, <1>4, <2>1 DEF GuardedOf, SnapshotOf
  <2>6. EvidenceOf(c)'
    <3>1. Goal(c)' <=> Goal(c)
      BY <1>1 DEF Goal
    <3> QED
      BY <1>1, <2>1, <3>1 DEF RunInv, EvidenceOf, Active
  <2>7. WindowOf(c)'
    <3>1. \A x \in Graph : repo[x] = snap[c][x] \/ x \in drift[c]
      BY <1>1, <1>2, <1>4 DEF SameGraph, Same, RunInv, WindowOf
    <3>2. repo["tree"] = "clean" \/ "tree" \in drift[c]
      BY <1>1, <1>2, <1>4 DEF Dirty, RunInv, WindowOf, ReadOf
    <3> QED
      BY <1>1, <2>1, <3>1, <3>2 DEF WindowOf
  <2> QED
    BY <2>2, <2>3, <2>4, <2>5, <2>6, <2>7 DEF RunInv
<1>5. \/ Return(c, "refused")
      \/ Return(c, "unchanged")
      \/ Return(c, "viewed") /\ ask[c].kind = "view" /\ SameGraph(c)
      \/ Advance(c, "switch") /\ SameGraph(c) /\ ask[c].kind = "switch" /\ ~Dirty(c)
  BY <1>1 DEF SecondPass
<1> QED
  BY <1>3, <1>4, <1>5

\* Every step that only ends the run.
LEMMA LeaveStep ==
  ASSUME TypeOK, Shapes, NEW c \in Invocation, RunInv(c),
         \/ Refuse(c) \/ Acknowledged(c) \/ Aborted(c) \/ LastPass(c) \/ LastFails(c) \/ Crash(c)
         \/ Switched(c) /\ pc'[c] = "done"
  PROVE RunInv(c)'
<1>1. /\ UNCHANGED <<repo, sym, ask, expect, wire, held, drift, matched, turns>>
      /\ pc[c] \notin {"idle", "done"} /\ verdict[c] = "none"
  BY DEF Refuse, Acknowledged, Aborted, LastPass, LastFails, Crash, Switched, history, world,
         Active, RunInv, StageOf
<1>2. PICK v \in {"none", "refused", "unchanged", "registered", "checked_out", "uncertain"} :
        End(c) /\ verdict'[c] = v /\ (v \notin {"none", "uncertain"} => wire[c] \notin {"prepared", "sent"})
  <2>1. CASE Crash(c)
    BY <1>1, <2>1 DEF Crash
  <2>2. CASE Refuse(c)
    BY <2>2 DEF Refuse, Return, TypeOK, RunInv, StageOf
  <2>3. CASE Acknowledged(c)
    BY <2>3 DEF Acknowledged, Return, TypeOK
  <2>4. CASE Aborted(c)
    BY <2>4 DEF Aborted, Return, TypeOK, RunInv, StageOf
  <2>5. CASE LastPass(c) \/ LastFails(c)
    BY <2>5 DEF LastPass, LastFails, Return, TypeOK, RunInv, StageOf
  <2>6. CASE Switched(c) /\ pc'[c] = "done"
    BY <2>6 DEF Switched, Return, Advance, Goto, TypeOK
  <2> QED
    BY <2>1, <2>2, <2>3, <2>4, <2>5, <2>6
<1> QED
  BY <1>1, <1>2, EndStep

\* Every step of a run that goes on with its transaction or its switch: the guard looks
\* at all the references, and a commit is only sent after it.
LEMMA GoStep ==
  ASSUME TypeOK, Shapes, NEW c \in Invocation, RunInv(c),
         \/ Prepare(c) \/ Guard(c) \/ Abort(c) \/ SendCommit(c) \/ Switch(c)
         \/ Switched(c) /\ pc'[c] # "done"
  PROVE RunInv(c)'
<1>1. /\ UNCHANGED <<repo, sym, ask, expect, snap, drift, matched, turns, verdict>>
      /\ got'[c] = Nothing /\ verdict[c] = "none"
      /\ held' = held \/ held'[c] = Goal(c)
  BY DEF Prepare, Guard, Abort, SendCommit, Switch, Switched, Advance, Goto, Return, End, history,
         TypeOK, Shapes, RunInv, StageOf
<1>2. \/ pc[c] = "prepare" /\ wire[c] = "unsent" /\ pc'[c] = "guard" /\ wire'[c] = "prepared"
      \/ pc[c] = "prepare" /\ wire[c] = "unsent" /\ pc'[c] = "unconfirmed" /\ wire'[c] = "dropped"
      \/ /\ pc[c] = "guard" /\ wire[c] = "prepared" /\ pc'[c] = "commit" /\ wire'[c] = "prepared"
         /\ sym = {} /\ Verified(c)
      \/ pc[c] = "guard" /\ pc'[c] = "aborted" /\ wire'[c] = "dropped"
      \/ pc[c] = "commit" /\ pc'[c] = "unconfirmed" /\ wire'[c] = "dropped"
      \/ pc[c] = "commit" /\ wire[c] = "prepared" /\ pc'[c] = "ack" /\ wire'[c] = "sent"
      \/ pc[c] = "switch" /\ wire[c] = "unsent" /\ pc'[c] = "switching" /\ wire'[c] = "sent"
      \/ pc[c] = "switching" /\ wire[c] = "applied" /\ pc'[c] = "after" /\ wire'[c] = "applied"
  <2>1. CASE Prepare(c)
    BY <2>1 DEF Prepare, Advance, Goto, TypeOK, RunInv, StageOf
  <2>2. CASE Guard(c)
    BY <2>2 DEF Guard, GuardKind, Advance, Goto, TypeOK
  <2>3. CASE Abort(c)
    BY <2>3 DEF Abort, Advance, Goto, TypeOK
  <2>4. CASE SendCommit(c)
    BY <2>4 DEF SendCommit, Advance, Goto, TypeOK
  <2>5. CASE Switch(c)
    BY <2>5 DEF Switch, Advance, Goto, TypeOK, RunInv, StageOf
  <2>6. CASE Switched(c) /\ pc'[c] # "done"
    BY <2>6 DEF Switched, Advance, Return, End, Goto, TypeOK
  <2> QED
    BY <2>1, <2>2, <2>3, <2>4, <2>5, <2>6
<1>3. pc[c] \in Registering => ask[c].kind = "register"
  BY DEF RunInv, StageOf
<1>4. pc[c] \in Switching => ask[c].kind = "switch"
  BY DEF RunInv, StageOf
<1>5. StageOf(c)'
  BY <1>1, <1>2, <1>3, <1>4 DEF StageOf, Registering, Switching, Passes
<1>6. ReadOf(c)'
  <2>1. CASE pc'[c] \in Passes
    BY <1>1, <1>5, <2>1, BeginPass
  <2>2. CASE pc'[c] \notin Passes
    BY <1>1, <2>2, FS_EmptySet DEF ReadOf, Nothing
  <2> QED
    BY <2>1, <2>2
<1>7. PlanOf(c)'
  <2>1. /\ AsExpected(c, snap[c])' <=> AsExpected(c, snap[c])
        /\ Valid(snap[c])' <=> Valid(snap[c])
    BY <1>1 DEF AsExpected, Valid
  <2>2. CASE ask[c].kind = "register"
    BY <1>1, <1>2, <2>1, <2>2 DEF RunInv, PlanOf, StageOf, Compatible, Registering, Switching
  <2>3. CASE ask[c].kind = "switch"
    BY <1>1, <1>2, <1>3, <2>1, <2>3 DEF RunInv, PlanOf, Registering, Switching, Steps
  <2> QED
    BY <1>2, <1>3, <1>4, <2>2, <2>3 DEF Registering, Switching
<1>8. GuardedOf(c)'
  <2>1. Verified(c)' <=> Verified(c)
    BY <1>1 DEF Verified, Same
  <2> QED
    BY <1>1, <1>2, <1>4, <2>1 DEF RunInv, GuardedOf, Switching
<1>9. EvidenceOf(c)'
  <2>1. (Goal(c)' <=> Goal(c)) /\ DOMAIN Nothing = {}
    BY <1>1 DEF Goal, Nothing
  <2> QED
    BY <1>1, <1>2, <2>1 DEF RunInv, EvidenceOf, Active
<1>10. WindowOf(c)'
  BY <1>1, <1>2, <1>3 DEF RunInv, WindowOf, Registering
<1>11. SnapshotOf(c)'
  BY <1>1, <1>2, <1>3, <1>4 DEF SnapshotOf, Registering, Switching
<1> QED
  BY <1>5, <1>6, <1>7, <1>8, <1>9, <1>10, <1>11 DEF RunInv

\* What a run does changes nothing of another.
LEMMA OtherStill ==
  ASSUME TypeOK, Shapes, NEW c \in Invocation, NEW d \in Invocation, d # c, Run(c)
  PROVE Still(d)
<1> USE DEF Still, TypeOK, Shapes, world, history, Goto
<1>1. CASE Start(c) \/ Open(c) \/ Expire(c)
  BY <1>1 DEF Start, Open, Expire
<1>2. CASE Refuse(c) \/ Acknowledged(c) \/ Aborted(c) \/ LastPass(c) \/ LastFails(c) \/ Crash(c)
  BY <1>2 DEF Refuse, Acknowledged, Aborted, LastPass, LastFails, Crash, Return, End
<1>3. CASE Read(c)
  BY <1>3 DEF Read
<1>4. CASE FirstPass(c)
  BY <1>4 DEF FirstPass
<1>5. CASE SecondPass(c)
  <2>1. Advance(c, "switch") \/ \E v : Return(c, v)
    BY <1>5 DEF SecondPass
  <2> QED
    BY <1>5, <2>1 DEF SecondPass, Advance, Return, End
<1>6. CASE Prepare(c) \/ Switch(c)
  BY <1>6 DEF Prepare, Switch, Advance
<1>7. CASE Guard(c) \/ Abort(c) \/ SendCommit(c) \/ Switched(c)
  BY <1>7 DEF Guard, Abort, SendCommit, Switched, Advance, Return, End
<1> QED
  BY <1>1, <1>2, <1>3, <1>4, <1>5, <1>6, <1>7 DEF Run

\* So every run keeps the invariant of every other, and its own.
LEMMA RunStep ==
  ASSUME TypeOK, Shapes, NEW c \in Invocation, NEW d \in Invocation, RunInv(d), Run(c)
  PROVE RunInv(d)'
<1>1. CASE d # c
  BY <1>1, OtherStill, StillStep
<1>2. CASE d = c
  <2>1. CASE Expire(c)
    <3>1. Still(c)
      BY <2>1 DEF Expire, Still, world, history
    <3> QED
      BY <1>2, <3>1, StillStep
  <2>2. CASE Start(c) \/ Open(c)
    BY <1>2, <2>2, OpenStep
  <2>3. CASE Read(c)
    BY <1>2, <2>3, ReadStep
  <2>4. CASE FirstPass(c)
    BY <1>2, <2>4, FirstPassStep
  <2>5. CASE SecondPass(c)
    BY <1>2, <2>5, SecondPassStep
  <2>6. CASE Switched(c)
    BY <1>2, <2>6, LeaveStep, GoStep
  <2>7. CASE Refuse(c) \/ Acknowledged(c) \/ Aborted(c) \/ LastPass(c) \/ LastFails(c) \/ Crash(c)
    BY <1>2, <2>7, LeaveStep
  <2>8. CASE Prepare(c) \/ Guard(c) \/ Abort(c) \/ SendCommit(c) \/ Switch(c)
    BY <1>2, <2>8, GoStep
  <2> QED
    BY <2>1, <2>2, <2>3, <2>4, <2>5, <2>6, <2>7, <2>8 DEF Run
<1> QED
  BY <1>1, <1>2

-----------------------------------------------------------------------------
(* Git and the others.                                                      *)

Turned == {x \in Item : repo'[x] # repo[x] \/ (x \in sym') # (x \in sym)}

\* What a change of the repository does to the history of a run.
LEMMA Noted ==
  ASSUME TypeOK, NEW Own, Changed(Own), NEW d \in Invocation
  PROVE /\ held'[d] <=> held[d] \/ (Active(d) /\ Goal(d)')
        /\ drift'[d] = IF d \notin Own /\ (pc[d] \in {"second", "switch"} \/ wire[d] = "sent")
                         THEN drift[d] \cup Turned ELSE drift[d]
        /\ matched'[d] <=> matched[d] \/ (pc[d] = "second" /\ Same(repo', snap[d], Graph))
        /\ turns'[d] = IF d \notin Own /\ turns[d] < 2 /\ ask[d].kind = "view" /\ pc[d] \in Passes
                         THEN turns[d] + 1 ELSE turns[d]
BY DEF Changed, Turned

\* A change by others, or for another run: what d has looked at for the last time is
\* noted, and a view counts it.
LEMMA NoteStep ==
  ASSUME TypeOK, NEW Own, NEW d \in Invocation, d \notin Own, RunInv(d), Changed(Own),
         UNCHANGED <<ask, expect, pc, got, snap, verdict>>, wire'[d] = wire[d],
         GuardedOf(d)'
  PROVE RunInv(d)'
<1>1. StageOf(d)'
  BY DEF RunInv, StageOf
<1>2. ReadOf(d)'
  <2>1. Order(d)' = Order(d)
    BY DEF Order
  <2> QED
    BY <2>1 DEF RunInv, ReadOf
<1>3. PlanOf(d)'
  <2>1. AsExpected(d, snap[d])' <=> AsExpected(d, snap[d])
    BY DEF AsExpected
  <2> QED
    BY <2>1 DEF RunInv, PlanOf, Valid, Compatible
<1>4. EvidenceOf(d)'
  <2>1. held'[d] <=> held[d] \/ (Active(d) /\ Goal(d)')
    BY Noted
  <2> QED
    BY <2>1 DEF RunInv, EvidenceOf, Active
<1>5. WindowOf(d)'
  <2>0. drift'[d] = IF d \notin Own /\ (pc[d] \in {"second", "switch"} \/ wire[d] = "sent")
                      THEN drift[d] \cup Turned ELSE drift[d]
    BY Noted
  <2>1. ASSUME pc[d] \in {"second", "switch"} \/ wire[d] = "sent", NEW x \in Item,
               repo'[x] # repo[x]
        PROVE x \in drift'[d]
    BY <2>0, <2>1 DEF Turned
  <2>2. pc[d] \in {"second", "switch"} \/ wire[d] = "sent" => drift[d] \subseteq drift'[d]
    BY <2>0
  <2>3. DOMAIN got[d] \subseteq Item /\ Graph \subseteq Item /\ "tree" \in Item
    BY Items DEF TypeOK
  <2>4. ASSUME pc[d] = "second", NEW x \in DOMAIN got[d]
        PROVE repo'[x] = got[d][x] \/ x \in drift'[d]
    BY <2>1, <2>2, <2>3, <2>4 DEF RunInv, WindowOf
  <2>5. ASSUME ask[d].kind = "switch", pc[d] = "switch" \/ wire[d] = "sent", NEW x \in Graph
        PROVE repo'[x] = snap[d][x] \/ x \in drift'[d]
    BY <2>1, <2>2, <2>3, <2>5 DEF RunInv, WindowOf
  <2>6. ASSUME ask[d].kind = "switch", pc[d] = "switch" \/ wire[d] = "sent"
        PROVE repo'["tree"] = "clean" \/ "tree" \in drift'[d]
    BY <2>1, <2>2, <2>3, <2>6 DEF RunInv, WindowOf
  <2> QED
    BY <2>4, <2>5, <2>6 DEF WindowOf
<1>6. SnapshotOf(d)'
  <2>1. turns[d] \in 0..2
    BY DEF TypeOK
  <2>2. CASE ask[d].kind = "view" /\ pc[d] \in Passes
    <3>1. turns'[d] = IF turns[d] < 2 THEN turns[d] + 1 ELSE turns[d]
      BY <2>2, Noted
    <3>2. turns'[d] # 0 /\ (turns'[d] < 2 => turns[d] = 0)
      BY <2>1, <3>1
    <3>3. matched[d] => matched'[d]
      BY Noted
    <3>4. pc[d] = "second" /\ turns[d] = 0 => matched[d]
      BY <2>2 DEF RunInv, SnapshotOf
    <3>5. verdict[d] = "none"
      BY <2>2 DEF RunInv, StageOf, Passes
    <3> QED
      BY <3>2, <3>3, <3>4, <3>5 DEF SnapshotOf
  <2>3. CASE ~(ask[d].kind = "view" /\ pc[d] \in Passes)
    <3>1. turns'[d] = turns[d] /\ (matched[d] => matched'[d])
      BY <2>3, Noted
    <3> QED
      BY <2>3, <3>1 DEF RunInv, SnapshotOf, Passes
  <2> QED
    BY <2>2, <2>3
<1> QED
  BY <1>1, <1>2, <1>3, <1>4, <1>5, <1>6 DEF RunInv

\* Under the locks of a guarded transaction nothing it verified moves: the locks are of
\* the names, and no reference is symbolic.
LEMMA GuardHolds ==
  ASSUME TypeOK, Exclusive, NEW d \in Invocation, RunInv(d),
         \/ OtherMoves \/ OtherReplaces \/ OtherWorks
         \/ \E c \in Invocation : c # d /\ (Publish(c) \/ SwitchTree(c))
  PROVE GuardedOf(d)'
<1>1. UNCHANGED <<ask, pc, snap>> /\ wire'[d] = wire[d]
  BY DEF OtherMoves, OtherReplaces, OtherWorks, ByOthers, Publish, SwitchTree, TypeOK
<1> SUFFICES ASSUME ask[d].kind = "register",
                    wire[d] = "sent" \/ (wire[d] = "prepared" /\ pc[d] = "commit")
             PROVE sym' = {} /\ Verified(d)'
  BY <1>1 DEF GuardedOf
<1>2. sym = {} /\ Verified(d) /\ Transacting(d)
  BY DEF RunInv, GuardedOf, Transacting
<1>3. Locked
  BY <1>2 DEF Locked, Transacting
<1>4. ASSUME sym' = sym, \A x \in Members \cup {"meta"} : repo'[x] = repo[x]
      PROVE sym' = {} /\ Verified(d)'
  BY <1>1, <1>2, <1>4 DEF Verified, Same
<1>5. \A x \in Members \cup {"meta"} : x \notin {"current", "tree"}
  BY Items
<1>6. ~OtherMoves /\ ~OtherReplaces
  BY <1>2, <1>3 DEF OtherMoves, OtherReplaces
<1>7. CASE OtherWorks
  <2>1. sym' = sym
    BY <1>7 DEF OtherWorks
  <2>2. \E y \in {"current", "tree"} : \E v : repo' = [repo EXCEPT ![y] = v]
    BY <1>7 DEF OtherWorks
  <2>3. \A x \in Members \cup {"meta"} : repo'[x] = repo[x]
    BY <1>5, <2>2, Items DEF TypeOK
  <2> QED
    BY <1>4, <2>1, <2>3
<1>8. ASSUME NEW c \in Invocation, c # d, Publish(c) PROVE FALSE
  BY <1>2, <1>8 DEF Publish, Exclusive, Transacting
<1>9. ASSUME NEW c \in Invocation, SwitchTree(c) PROVE sym' = {} /\ Verified(d)'
  <2>1. \A x \in Members \cup {"meta"} : repo'[x] = repo[x]
    BY <1>5, <1>9, Items DEF SwitchTree, TypeOK
  <2> QED
    BY <1>4, <1>9, <2>1 DEF SwitchTree
<1> QED
  BY <1>6, <1>7, <1>8, <1>9

\* The transaction is carried out: what it guarded becomes what it claims.
LEMMA OwnStep ==
  ASSUME TypeOK, NEW c \in Invocation, RunInv(c), Git(c) PROVE RunInv(c)'
<1>1. /\ UNCHANGED <<ask, expect, pc, got, snap, verdict>>
      /\ wire[c] \in {"prepared", "sent"} /\ wire'[c] \in {"applied", "dropped"}
      /\ wire[c] = "prepared" => wire'[c] = "dropped"
  BY DEF Git, Publish, SwitchTree, GitFails, TypeOK
<1>2. pc[c] \in {"guard", "commit", "ack", "switching", "done"}
      /\ (wire[c] = "sent" => pc[c] \in {"ack", "switching", "done"})
      /\ ask[c].kind \in {"register", "switch"} /\ got[c] = Nothing
  BY <1>1 DEF RunInv, StageOf, TypeOK, Passes, Steps
<1>3. StageOf(c)'
  BY <1>1, <1>2 DEF RunInv, StageOf, Registering, Switching
<1>4. ReadOf(c)'
  BY <1>1, <1>2 DEF RunInv, ReadOf, Passes
<1>5. PlanOf(c)'
  <2>1. AsExpected(c, snap[c])' <=> AsExpected(c, snap[c])
    BY <1>1 DEF AsExpected
  <2> QED
    BY <1>1, <1>2, <2>1 DEF RunInv, PlanOf, Valid, Compatible
<1>6. GuardedOf(c)'
  BY <1>1 DEF GuardedOf
<1>7. EvidenceOf(c)'
  <2>1. CASE Publish(c) \/ SwitchTree(c)
    <3>1. held'[c] <=> held[c] \/ (Active(c) /\ Goal(c)')
      BY <2>1, Noted DEF Publish, SwitchTree
    <3>2. Publish(c) => Goal(c)'
      BY Items DEF Publish, Goal, TypeOK
    <3>3. pc[c] = "ack" => Publish(c) /\ Active(c)
      BY <2>1 DEF Active, SwitchTree, RunInv, StageOf, Registering
    <3> QED
      BY <1>1, <1>2, <3>1, <3>2, <3>3 DEF EvidenceOf, Active
  <2>2. CASE GitFails(c)
    <3>1. UNCHANGED <<repo, ask, held>> /\ wire'[c] = "dropped"
      BY <2>2 DEF GitFails, history, TypeOK
    <3>2. Goal(c)' <=> Goal(c)
      BY <3>1 DEF Goal
    <3> QED
      BY <1>1, <1>2, <3>1, <3>2 DEF RunInv, EvidenceOf, Active
  <2> QED
    BY <2>1, <2>2 DEF Git
<1>8. WindowOf(c)' /\ SnapshotOf(c)'
  <2>1. verdict[c] # "viewed"
    BY <1>1 DEF RunInv, StageOf
  <2> QED
    BY <1>1, <1>2, <2>1 DEF WindowOf, SnapshotOf
<1> QED
  BY <1>3, <1>4, <1>5, <1>6, <1>7, <1>8 DEF RunInv

\* Every step keeps what is known of every run.
LEMMA AllStep ==
  ASSUME TypeOK, Shapes, Exclusive, NEW d \in Invocation, RunInv(d), [Next]_vars
  PROVE RunInv(d)'
<1>1. ASSUME NEW c \in Invocation, Run(c) PROVE RunInv(d)'
  BY <1>1, RunStep
<1>2. ASSUME NEW c \in Invocation, Git(c) PROVE RunInv(d)'
  <2>1. CASE d = c
    BY <1>2, <2>1, OwnStep
  <2>2. CASE d # c /\ GitFails(c)
    <3>1. Still(d)
      BY <2>2 DEF GitFails, Still, history, TypeOK
    <3> QED
      BY <3>1, StillStep
  <2>3. CASE d # c /\ (Publish(c) \/ SwitchTree(c))
    <3>1. GuardedOf(d)'
      BY <2>3, GuardHolds
    <3>2. /\ Changed({c}) /\ d \notin {c} /\ wire'[d] = wire[d]
          /\ UNCHANGED <<ask, expect, pc, got, snap, verdict>>
      BY <2>3 DEF Publish, SwitchTree, TypeOK
    <3> QED
      BY <3>1, <3>2, NoteStep
  <2> QED
    BY <1>2, <2>1, <2>2, <2>3 DEF Git
<1>3. CASE OtherMoves \/ OtherReplaces \/ OtherWorks
  <2>1. GuardedOf(d)'
    BY <1>3, GuardHolds
  <2>2. /\ Changed({}) /\ d \notin {} /\ wire'[d] = wire[d]
        /\ UNCHANGED <<ask, expect, pc, got, snap, verdict>>
    BY <1>3 DEF OtherMoves, OtherReplaces, OtherWorks, ByOthers
  <2> QED
    BY <2>1, <2>2, NoteStep
<1>4. CASE OtherUnlocks \/ UNCHANGED vars
  <2>1. Still(d)
    BY <1>4 DEF OtherUnlocks, ByOthers, vars, Still, history
  <2> QED
    BY <2>1, StillStep
<1> QED
  BY <1>1, <1>2, <1>3, <1>4 DEF Next

\* A transaction is only prepared while no other has the locks.
LEMMA ExclusiveStep ==
  ASSUME TypeOK, Exclusive, \A c \in Invocation : RunInv(c), [Next]_vars PROVE Exclusive'
<1>1. UNCHANGED ask
  BY DEF Next, Run, Git, vars, Start, Open, Refuse, Read, FirstPass, SecondPass, Prepare, Guard,
         Abort, SendCommit, Acknowledged, Aborted, Switch, Switched, LastPass, LastFails, Expire,
         Crash, Publish, SwitchTree, GitFails, OtherMoves, OtherReplaces, OtherWorks,
         OtherUnlocks, ByOthers
<1>2. ASSUME \A c \in Invocation : Transacting(c)' => Transacting(c) PROVE Exclusive'
  BY <1>2 DEF Exclusive
<1>3. ASSUME NEW c \in Invocation, Prepare(c) PROVE Exclusive'
  <2>1. CASE wire' = [wire EXCEPT ![c] = "dropped"]
    <3>1. \A d \in Invocation : Transacting(d)' => Transacting(d)
      BY <1>1, <2>1 DEF Transacting, TypeOK
    <3> QED
      BY <1>2, <3>1
  <2>2. CASE ~Locked /\ wire' = [wire EXCEPT ![c] = "prepared"]
    <3>1. \A d \in Invocation : ~Transacting(d)
      BY <2>2 DEF Locked, Transacting
    <3>2. \A d \in Invocation : Transacting(d)' => d = c
      BY <1>1, <2>2, <3>1 DEF Transacting, TypeOK
    <3> QED
      BY <3>2 DEF Exclusive
  <2> QED
    BY <1>3, <2>1, <2>2 DEF Prepare
<1>4. ASSUME NEW c \in Invocation, Run(c), ~Prepare(c) PROVE Exclusive'
  <2>1. \/ UNCHANGED wire
        \/ wire' = [wire EXCEPT ![c] = "dropped"]
        \/ wire[c] = "prepared" /\ wire' = [wire EXCEPT ![c] = "sent"]
        \/ ask[c].kind = "switch" /\ wire' = [wire EXCEPT ![c] = "sent"]
    BY <1>4 DEF Run, Start, Open, Refuse, Read, FirstPass, SecondPass, Guard, Abort, SendCommit,
                Acknowledged, Aborted, Switch, Switched, LastPass, LastFails, Expire, Crash,
                RunInv, StageOf, Switching
  <2>2. \A d \in Invocation : Transacting(d)' => Transacting(d)
    BY <1>1, <2>1 DEF Transacting, TypeOK
  <2> QED
    BY <1>2, <2>2
<1>5. ASSUME NEW c \in Invocation, Git(c) PROVE Exclusive'
  <2>1. \E w \in {"applied", "dropped"} : wire' = [wire EXCEPT ![c] = w]
    BY <1>5 DEF Git, Publish, SwitchTree, GitFails
  <2>2. \A d \in Invocation : Transacting(d)' => Transacting(d)
    BY <1>1, <2>1 DEF Transacting, TypeOK
  <2> QED
    BY <1>2, <2>2
<1>6. CASE OtherMoves \/ OtherReplaces \/ OtherWorks \/ OtherUnlocks \/ UNCHANGED vars
  <2>1. UNCHANGED wire
    BY <1>6 DEF OtherMoves, OtherReplaces, OtherWorks, OtherUnlocks, ByOthers, vars
  <2>2. \A d \in Invocation : Transacting(d)' => Transacting(d)
    BY <1>1, <2>1 DEF Transacting
  <2> QED
    BY <1>2, <2>2
<1> QED
  BY <1>3, <1>4, <1>5, <1>6 DEF Next

-----------------------------------------------------------------------------
(* The types, in four parts.                                                *)

Worlds ==
  /\ repo \in [Item -> Commit \cup Record \cup Branch \cup {Nil, "clean", "dirty"}]
  /\ \A b \in Branch : repo[b] \in Commit \cup {Nil}
  /\ repo["meta"] \in Record \cup {Nil}
  /\ repo["current"] \in Branch \cup {Nil}
  /\ repo["tree"] \in {"clean", "dirty"}
  /\ sym \subseteq Ref

Locals ==
  /\ pc \in [Invocation -> {"idle", "open", "done"} \cup Passes \cup Steps]
  /\ ctx \in [Invocation -> {"live", "done"}]
  /\ got = [c \in Invocation |-> got[c]]
  /\ snap = [c \in Invocation |-> snap[c]]
  /\ \A c \in Invocation : DOMAIN got[c] \subseteq Item /\ DOMAIN snap[c] \subseteq Item
  /\ verdict \in [Invocation ->
       {"none", "refused", "viewed", "unchanged", "registered", "checked_out", "uncertain"}]
  /\ lock \in BOOLEAN

Transactions ==
  /\ wire \in [Invocation -> {"unsent", "prepared", "sent", "applied", "dropped"}]
  /\ stale \in BOOLEAN

Histories ==
  /\ held \in [Invocation -> BOOLEAN]
  /\ drift \in [Invocation -> SUBSET Item]
  /\ matched \in [Invocation -> BOOLEAN]
  /\ turns \in [Invocation -> 0..2]

\* What is asked for stays.
LEMMA AskStays == [Next]_vars => UNCHANGED ask
BY DEF Next, Run, Git, vars, Start, Open, Refuse, Read, FirstPass, SecondPass, Prepare, Guard,
       Abort, SendCommit, Acknowledged, Aborted, Switch, Switched, LastPass, LastFails, Expire,
       Crash, Publish, SwitchTree, GitFails, OtherMoves, OtherReplaces, OtherWorks,
       OtherUnlocks, ByOthers

\* The repository's items keep their types, whoever changes them.
LEMMA WorldStep == TypeOK /\ Shapes /\ [Next]_vars => Worlds'
<1> SUFFICES ASSUME TypeOK, Shapes, [Next]_vars PROVE Worlds'
  OBVIOUS
<1>0. Worlds
  BY DEF Worlds, TypeOK, Shapes
<1>1. CASE UNCHANGED <<repo, sym>>
  BY <1>0, <1>1 DEF Worlds
<1>2. ASSUME NEW b \in Branch, NEW v \in Commit \cup {Nil},
             repo' = [repo EXCEPT ![b] = v], UNCHANGED sym
      PROVE Worlds'
  BY <1>0, <1>2, Items DEF Worlds
<1>3. ASSUME NEW v \in Branch \cup {Nil}, repo' = [repo EXCEPT !["current"] = v], UNCHANGED sym
      PROVE Worlds'
  BY <1>0, <1>3, Items DEF Worlds
<1>4. ASSUME NEW c \in Invocation, Publish(c) PROVE Worlds'
  <2>1. ask[c].record \in Record
    BY <1>4, AskTypes DEF Publish
  <2> QED
    BY <1>0, <1>4, <2>1, Items DEF Publish, Worlds
<1>5. ASSUME NEW c \in Invocation, SwitchTree(c) PROVE Worlds'
  <2>1. ask[c].to \in Branch
    BY <1>5, AskTypes DEF SwitchTree
  <2> QED
    BY <1>3, <1>5, <2>1 DEF SwitchTree
<1>6. CASE OtherMoves
  BY <1>2, <1>6 DEF OtherMoves
<1>7. CASE OtherReplaces
  BY <1>0, <1>7 DEF OtherReplaces, Worlds
<1>8. CASE OtherWorks
  <2>1. CASE \E t \in {"clean", "dirty"} : repo' = [repo EXCEPT !["tree"] = t]
    BY <1>0, <1>8, <2>1, Items DEF OtherWorks, Worlds
  <2>2. CASE \E b \in Branch \cup {Nil} : repo' = [repo EXCEPT !["current"] = b]
    BY <1>3, <1>8, <2>2 DEF OtherWorks
  <2> QED
    BY <1>8, <2>1, <2>2 DEF OtherWorks
<1>9. ASSUME NEW c \in Invocation, Run(c) PROVE UNCHANGED <<repo, sym>>
  BY <1>9 DEF Run, Start, Open, Refuse, Read, FirstPass, SecondPass, Prepare, Guard,
              Abort, SendCommit, Acknowledged, Aborted, Switch, Switched, LastPass, LastFails,
              Expire, Crash, world
<1>10. ASSUME NEW c \in Invocation, GitFails(c) PROVE UNCHANGED <<repo, sym>>
  BY <1>10 DEF GitFails
<1>11. CASE OtherUnlocks \/ UNCHANGED vars
  BY <1>1, <1>11 DEF OtherUnlocks, vars
<1> QED
  BY <1>1, <1>4, <1>5, <1>6, <1>7, <1>8, <1>9, <1>10, <1>11 DEF Next, Git

\* At least one run counts towards the bound of the others' changes.
LEMMA OthersStep == TypeOK /\ Shapes /\ [Next]_vars => others' \in 0..MaxOther
<1> SUFFICES ASSUME TypeOK, Shapes, [Next]_vars PROVE others' \in 0..MaxOther
  OBVIOUS
<1>1. CASE UNCHANGED others
  BY <1>1 DEF TypeOK
<1>2. CASE ByOthers
  <2> DEFINE R == {c \in Invocation : ask[c].kind # "none"}
  <2>1. IsFiniteSet(R) /\ R # {}
    BY StackAssumption, FS_Subset DEF Shapes
  <2>2. Cardinality(R) \in Nat /\ Cardinality(R) # 0
    BY <2>1, FS_CardinalityType, FS_EmptySet
  <2>3. others + Cardinality(R) <= MaxOther /\ others' = others + 1
    BY <1>2 DEF ByOthers
  <2> HIDE DEF R
  <2> QED
    BY <2>2, <2>3, StackAssumption DEF TypeOK
<1>3. ByOthers \/ UNCHANGED others
  BY DEF Next, Run, Git, vars, Start, Open, Refuse, Read, FirstPass, SecondPass, Prepare, Guard,
         Abort, SendCommit, Acknowledged, Aborted, Switch, Switched, LastPass, LastFails, Expire,
         Crash, Publish, SwitchTree, GitFails, OtherMoves, OtherReplaces, OtherWorks,
         OtherUnlocks, world
<1> QED
  BY <1>1, <1>2, <1>3

\* What a run keeps for itself when it ends or goes on.
LEMMA LocalTypes ==
  ASSUME TypeOK, Shapes, NEW c \in Invocation,
         \/ End(c) /\ UNCHANGED <<verdict, lock>>
         \/ \E v \in {"refused", "viewed", "unchanged", "registered", "checked_out", "uncertain"} :
              Return(c, v)
         \/ \E l \in Steps \cup Passes : Advance(c, l)
  PROVE Locals'
<1>1. pc' \in [Invocation -> {"idle", "open", "done"} \cup Passes \cup Steps]
  <2>1. \E l \in {"done"} \cup Passes \cup Steps : pc' = [pc EXCEPT ![c] = l]
    BY DEF Return, End, Advance, Goto
  <2> QED
    BY <2>1 DEF TypeOK
<1>2. ctx' \in [Invocation -> {"live", "done"}]
  <2>1. ctx' = ctx \/ ctx' = [ctx EXCEPT ![c] = "done"]
    BY DEF Return, End, Advance
  <2> QED
    BY <2>1 DEF TypeOK
<1>3. /\ got' = [d \in Invocation |-> got'[d]] /\ snap' = [d \in Invocation |-> snap'[d]]
      /\ \A d \in Invocation : DOMAIN got'[d] \subseteq Item /\ DOMAIN snap'[d] \subseteq Item
  <2>1. got' = [got EXCEPT ![c] = Nothing] /\ snap' = snap /\ DOMAIN Nothing = {}
    BY DEF Return, End, Advance, Nothing
  <2> QED
    BY <2>1 DEF TypeOK, Shapes
<1>4. verdict' \in [Invocation ->
       {"none", "refused", "viewed", "unchanged", "registered", "checked_out", "uncertain"}]
  <2>1. \/ verdict' = verdict
        \/ \E v \in {"refused", "viewed", "unchanged", "registered", "checked_out", "uncertain"} :
             verdict' = [verdict EXCEPT ![c] = v]
    BY DEF Return, Advance
  <2> QED
    BY <2>1 DEF TypeOK
<1>5. lock' \in BOOLEAN
  <2>1. lock' = lock \/ lock' = (lock /\ ~Holding(c))
    BY DEF Return, Advance
  <2> QED
    BY <2>1 DEF TypeOK
<1> QED
  BY <1>1, <1>2, <1>3, <1>4, <1>5 DEF Locals

\* So every step of a run keeps these types,
LEMMA LocalStep ==
  ASSUME TypeOK, Shapes, NEW c \in Invocation, RunInv(c), Run(c) PROVE Locals'
<1> USE DEF TypeOK, Shapes
<1>1. CASE Refuse(c) \/ Acknowledged(c) \/ Aborted(c) \/ LastPass(c) \/ LastFails(c)
  <2>1. \E v \in {"refused", "unchanged", "registered", "checked_out", "uncertain"} : Return(c, v)
    BY <1>1 DEF Refuse, Acknowledged, Aborted, LastPass, LastFails
  <2> QED
    BY <2>1, LocalTypes
<1>2. CASE Crash(c)
  BY <1>2, LocalTypes DEF Crash, world
<1>3. CASE SecondPass(c) \/ Switched(c)
  <2>1. \/ \E v \in {"refused", "viewed", "unchanged", "uncertain"} : Return(c, v)
        \/ \E l \in {"switch", "after"} : Advance(c, l)
    BY <1>3 DEF SecondPass, Switched
  <2> QED
    BY <2>1, LocalTypes DEF Steps, Passes
<1>4. CASE Prepare(c) \/ Guard(c) \/ Abort(c) \/ SendCommit(c) \/ Switch(c)
  <2>1. \E l \in Steps : Advance(c, l)
    BY <1>4 DEF Prepare, Guard, Abort, SendCommit, Switch, Steps
  <2> QED
    BY <2>1, LocalTypes
<1>5. CASE Start(c)
  BY <1>5 DEF Start, Goto, world, Locals
<1>6. CASE Open(c)
  BY <1>6 DEF Open, OpenLocked, Goto, Passes, Locals
<1>7. CASE Expire(c)
  BY <1>7 DEF Expire, world, Locals
<1>8. CASE FirstPass(c)
  <2>1. PICK l \in FirstNext(c) : Goto(c, l)
    BY <1>8 DEF FirstPass
  <2>2. l \in Passes \cup Steps
    BY <1>8, AskTypes DEF FirstPass, FirstNext, Passes, Steps, RunInv, StageOf
  <2>3. pc' \in [Invocation -> {"idle", "open", "done"} \cup Passes \cup Steps]
    BY <2>1, <2>2 DEF Goto
  <2>4. DOMAIN Nothing = {}
    BY DEF Nothing
  <2> QED
    BY <1>8, <2>3, <2>4 DEF FirstPass, world, Locals
<1>9. CASE Read(c)
  <2>1. PICK x \in Item : got' = [got EXCEPT ![c] = With(got[c], x, repo[x])]
    <3>1. Order(c)[Cardinality(DOMAIN got[c]) + 1] \in Item
      <4>1. Order(c) \in Seq(Item)
        BY <1>9, OrderItems DEF Read, RunInv
      <4>2. /\ IsFiniteSet(DOMAIN got[c]) /\ Cardinality(DOMAIN got[c]) <= Len(Order(c))
            /\ Cardinality(DOMAIN got[c]) # Len(Order(c))
        BY <1>9 DEF Read, Complete, RunInv, ReadOf
      <4>3. Cardinality(DOMAIN got[c]) + 1 \in 1 .. Len(Order(c))
        <5>1. Cardinality(DOMAIN got[c]) \in Nat /\ Len(Order(c)) \in Nat
          BY <4>1, <4>2, FS_CardinalityType, LenProperties
        <5> QED
          BY <4>2, <5>1
      <4> QED
        BY <4>1, <4>3, ElementOfSeq
    <3> QED
      BY <1>9, <3>1 DEF Read
  <2>2. DOMAIN With(got[c], x, repo[x]) \subseteq Item
    BY DEF With
  <2>3. /\ got' = [d \in Invocation |-> got'[d]]
        /\ \A d \in Invocation : DOMAIN got'[d] \subseteq Item
    BY <2>1, <2>2
  <2> QED
    BY <1>9, <2>3 DEF Read, world, Locals
<1> QED
  BY <1>1, <1>2, <1>3, <1>4, <1>5, <1>6, <1>7, <1>8, <1>9 DEF Run

\* ... and of its transaction and of the history.
LEMMA RunTypes ==
  ASSUME TypeOK, Shapes, NEW c \in Invocation, RunInv(c), Run(c)
  PROVE Transactions' /\ Histories' /\ expect' = [d \in Invocation |-> expect'[d]]
<1>1. Transactions'
  <2>1. /\ stale' = stale
        /\ wire' = wire \/ \E w \in {"prepared", "sent", "dropped"} : wire' = [wire EXCEPT ![c] = w]
    BY DEF Run, Start, Open, Refuse, Read, FirstPass, SecondPass, Prepare, Guard, Abort,
           SendCommit, Acknowledged, Aborted, Switch, Switched, LastPass, LastFails, Expire,
           Crash, world
  <2> QED
    BY <2>1 DEF Transactions, TypeOK
<1>2. held' \in [Invocation -> BOOLEAN]
  <2>1. held' = held \/ held' = [held EXCEPT ![c] = Goal(c)]
    BY DEF Run, Start, Open, Refuse, Read, FirstPass, SecondPass, Prepare, Guard, Abort,
           SendCommit, Acknowledged, Aborted, Switch, Switched, LastPass, LastFails, Expire,
           Crash, history
  <2> QED
    BY <2>1, GoalIsBoolean DEF TypeOK
<1>3. drift' \in [Invocation -> SUBSET Item]
  <2>1. drift' = drift \/ \E x : drift' = [drift EXCEPT ![c] = drift[c] \ {x}]
    BY DEF Run, Start, Open, Refuse, Read, FirstPass, SecondPass, Prepare, Guard, Abort,
           SendCommit, Acknowledged, Aborted, Switch, Switched, LastPass, LastFails, Expire,
           Crash, history
  <2> QED
    BY <2>1 DEF TypeOK
<1>4. matched' \in [Invocation -> BOOLEAN]
  <2>1. Same(repo, got[c], Graph) \in BOOLEAN
    BY DEF Same
  <2>2. matched' = matched \/ matched' = [matched EXCEPT ![c] = Same(repo, got[c], Graph)]
    BY DEF Run, Start, Open, Refuse, Read, FirstPass, SecondPass, Prepare, Guard, Abort,
           SendCommit, Acknowledged, Aborted, Switch, Switched, LastPass, LastFails, Expire,
           Crash, history
  <2> QED
    BY <2>1, <2>2 DEF TypeOK
<1>5. turns' \in [Invocation -> 0..2]
  <2>1. turns' = turns \/ turns' = [turns EXCEPT ![c] = 0]
    BY DEF Run, Start, Open, Refuse, Read, FirstPass, SecondPass, Prepare, Guard, Abort,
           SendCommit, Acknowledged, Aborted, Switch, Switched, LastPass, LastFails, Expire,
           Crash, history
  <2> QED
    BY <2>1 DEF TypeOK
<1>6. expect' = [d \in Invocation |-> expect'[d]]
  <2>1. expect' = expect \/ \E e : expect' = [expect EXCEPT ![c] = e]
    BY DEF Run, Start, Open, Refuse, Read, FirstPass, SecondPass, Prepare, Guard, Abort,
           SendCommit, Acknowledged, Aborted, Switch, Switched, LastPass, LastFails, Expire,
           Crash, world
  <2> QED
    BY <2>1 DEF Shapes
<1> QED
  BY <1>1, <1>2, <1>3, <1>4, <1>5, <1>6 DEF Histories

\* A change of the repository keeps the history's types.
LEMMA HistoryTypes == ASSUME TypeOK, UNCHANGED ask, NEW Own, Changed(Own) PROVE Histories'
<1>1. held' \in [Invocation -> BOOLEAN]
  <2>1. \A d \in Invocation : (held[d] \/ (Active(d) /\ Goal(d)')) \in BOOLEAN
    BY Zenon
  <2> QED
    BY <2>1 DEF Changed
<1>2. drift' \in [Invocation -> SUBSET Item]
  <2>1. drift' = [d \in Invocation |->
          IF d \notin Own /\ (pc[d] \in {"second", "switch"} \/ wire[d] = "sent")
            THEN drift[d] \cup Turned ELSE drift[d]]
    BY DEF Changed, Turned
  <2>2. Turned \subseteq Item
    BY DEF Turned
  <2> QED
    BY <2>1, <2>2 DEF TypeOK
<1>3. matched' \in [Invocation -> BOOLEAN]
  <2>1. \A d \in Invocation :
          (matched[d] \/ (pc[d] = "second" /\ Same(repo', snap[d], Graph))) \in BOOLEAN
    BY Zenon
  <2> QED
    BY <2>1 DEF Changed
<1>4. turns' \in [Invocation -> 0..2]
  <2>1. turns' = [d \in Invocation |-> turns'[d]]
    BY DEF Changed
  <2>2. ASSUME NEW d \in Invocation PROVE turns'[d] \in 0..2
    <3>1. turns[d] \in 0..2
      BY DEF TypeOK
    <3>2. turns'[d] = turns[d] \/ (turns[d] < 2 /\ turns'[d] = turns[d] + 1)
      BY DEF Changed
    <3> QED
      BY <3>1, <3>2
  <2> QED
    BY <2>1, <2>2
<1> QED
  BY <1>1, <1>2, <1>3, <1>4 DEF Histories

\* The types, with what the first pass of a view or a switch must have found.
LEMMA TypeStep ==
  ASSUME TypeOK, Shapes, \A c \in Invocation : RunInv(c), [Next]_vars,
         \A c \in Invocation : RunInv(c)'
  PROVE TypeOK' /\ Shapes'
<1>1. Worlds' /\ others' \in 0..MaxOther /\ ask' = ask
  BY WorldStep, OthersStep, AskStays
<1>2. ASSUME Locals', Transactions', Histories', expect' = [d \in Invocation |-> expect'[d]]
      PROVE TypeOK' /\ Shapes'
  <2>1. ask' \in [Invocation -> Ask] /\ \E c \in Invocation : ask'[c].kind # "none"
    BY <1>1 DEF TypeOK, Shapes
  <2>2. Shapes'
    BY <1>1, <1>2, <2>1 DEF Worlds, Locals, Shapes
  <2>3. \A c \in Invocation :
          (pc[c] \in {"second", "after"} \cup Steps)' =>
             (snap[c]["meta"] \in Record \/ ask[c].kind = "register")'
    BY DEF RunInv, PlanOf
  <2>4. TypeOK'
    BY <1>1, <1>2, <2>1, <2>3 DEF Worlds, Locals, Transactions, Histories, TypeOK
  <2> QED
    BY <2>2, <2>4
<1>3. ASSUME NEW c \in Invocation, Run(c) PROVE TypeOK' /\ Shapes'
  BY <1>2, <1>3, LocalStep, RunTypes
<1>4. ASSUME UNCHANGED <<pc, ctx, got, snap, verdict>>, lock' \in BOOLEAN PROVE Locals'
  BY <1>4 DEF Locals, TypeOK, Shapes
<1>5. UNCHANGED history => Histories'
  BY DEF Histories, TypeOK, history
<1>6. UNCHANGED <<wire, stale>> => Transactions'
  BY DEF Transactions, TypeOK
<1>7. UNCHANGED expect => expect' = [d \in Invocation |-> expect'[d]]
  BY DEF Shapes
<1>8. lock \in BOOLEAN /\ stale \in BOOLEAN
  BY DEF TypeOK
<1>9. ASSUME NEW c \in Invocation, Git(c) PROVE TypeOK' /\ Shapes'
  <2>1. Transactions'
    <3>1. \E w \in {"applied", "dropped"} : wire' = [wire EXCEPT ![c] = w]
      BY <1>9 DEF Git, Publish, SwitchTree, GitFails
    <3>2. stale' \in BOOLEAN
      BY <1>8, <1>9 DEF Git, Publish, SwitchTree, GitFails
    <3> QED
      BY <3>1, <3>2 DEF Transactions, TypeOK
  <2>2. Histories'
    BY <1>1, <1>5, <1>9, HistoryTypes DEF Git, Publish, SwitchTree, GitFails
  <2>3. UNCHANGED <<pc, ctx, got, snap, verdict, expect, lock>>
    BY <1>9 DEF Git, Publish, SwitchTree, GitFails
  <2> QED
    BY <1>2, <1>4, <1>7, <1>8, <2>1, <2>2, <2>3
<1>10. CASE OtherMoves \/ OtherReplaces \/ OtherWorks \/ OtherUnlocks
  <2>1. Histories'
    BY <1>1, <1>5, <1>10, HistoryTypes DEF OtherMoves, OtherReplaces, OtherWorks, OtherUnlocks
  <2>2. UNCHANGED <<pc, ctx, got, snap, verdict, expect, wire, stale>> /\ lock' \in BOOLEAN
    BY <1>8, <1>10 DEF OtherMoves, OtherReplaces, OtherWorks, OtherUnlocks, ByOthers
  <2> QED
    BY <1>2, <1>4, <1>6, <1>7, <2>1, <2>2
<1>11. CASE UNCHANGED vars
  BY <1>2, <1>4, <1>5, <1>6, <1>7, <1>8, <1>11 DEF vars, history
<1> QED
  BY <1>3, <1>9, <1>10, <1>11 DEF Next

-----------------------------------------------------------------------------
(* The theorems.                                                            *)

\* What holds of every run holds in every reachable state.
THEOREM Invariance == Spec => []IInv
<1>1. IInv /\ [Next]_vars => IInv'
  <2> SUFFICES ASSUME IInv, [Next]_vars PROVE IInv'
    OBVIOUS
  <2>1. ASSUME NEW d \in Invocation PROVE RunInv(d)'
    BY AllStep DEF IInv
  <2>2. TypeOK' /\ Shapes'
    BY <2>1, TypeStep DEF IInv
  <2>3. Exclusive'
    BY ExclusiveStep DEF IInv
  <2> QED
    BY <2>1, <2>2, <2>3 DEF IInv
<1> QED
  BY <1>1, InitInv, PTL DEF Spec

\* Every variable keeps its type, and no view or switch goes on without a stack record,
\* however long the chain, however many runs and changes by others.
THEOREM TypeCorrect == Spec => []TypeOK
BY Invariance, PTL DEF IInv

\* What a view shows was true at one moment, unless two changes of the repository fell
\* into its two passes.
THEOREM Snapshot == Spec => []ViewIsASnapshot
<1>1. IInv => ViewIsASnapshot
  BY DEF IInv, RunInv, SnapshotOf, ViewIsASnapshot
<1> QED
  BY <1>1, Invariance, PTL

\* No step but a registration's writes the record, and that one bound the old record by
\* its transaction.
LEMMA RecordStep ==
  ASSUME TypeOK, [Next]_vars
  PROVE repo'["meta"] = repo["meta"] \/ \E c \in Invocation : Publish(c)
<1>0. "meta" \notin Branch \cup {"current", "tree"}
  BY Items
<1>1. ASSUME NEW y, y # "meta", \E v : repo' = [repo EXCEPT ![y] = v] PROVE repo'["meta"] = repo["meta"]
  BY <1>1, Items DEF TypeOK
<1>2. ASSUME NEW c \in Invocation, Run(c) \/ GitFails(c) PROVE repo' = repo
  BY <1>2 DEF Run, Start, Open, Refuse, Read, FirstPass, SecondPass, Prepare, Guard,
              Abort, SendCommit, Acknowledged, Aborted, Switch, Switched, LastPass, LastFails,
              Expire, Crash, GitFails, world
<1>3. ASSUME NEW c \in Invocation, SwitchTree(c) PROVE repo'["meta"] = repo["meta"]
  BY <1>1, <1>3 DEF SwitchTree
<1>4. CASE OtherMoves
  BY <1>0, <1>1, <1>4 DEF OtherMoves
<1>5. CASE OtherWorks
  BY <1>1, <1>5 DEF OtherWorks
<1>6. CASE OtherReplaces \/ OtherUnlocks \/ UNCHANGED vars
  BY <1>6 DEF OtherReplaces, OtherUnlocks, vars
<1> QED
  BY <1>2, <1>3, <1>4, <1>5, <1>6 DEF Next, Git

\* A binding to merge requests is never replaced or removed: not by two registrations at
\* once, not with the lock directory removed under them, not by one that was killed.
THEOREM Keeps == Spec => KeepsBindings
<1>1. IInv /\ [Next]_vars => Compatible(repo["meta"], repo'["meta"])
  <2> SUFFICES ASSUME IInv, [Next]_vars PROVE Compatible(repo["meta"], repo'["meta"])
    OBVIOUS
  <2>1. CASE repo'["meta"] = repo["meta"]
    BY <2>1 DEF Compatible
  <2>2. ASSUME NEW c \in Invocation, Publish(c) PROVE Compatible(repo["meta"], repo'["meta"])
    <3>1. Verified(c) /\ Compatible(snap[c]["meta"], ask[c].record)
      BY <2>2 DEF IInv, RunInv, GuardedOf, PlanOf, Publish
    <3>2. repo'["meta"] = ask[c].record /\ repo["meta"] = snap[c]["meta"]
      BY <2>2, <3>1, Items DEF Publish, Verified, Same, IInv, TypeOK
    <3> QED
      BY <3>1, <3>2
  <2> QED
    BY <2>1, <2>2, RecordStep DEF IInv
<1> QED
  BY <1>1, Invariance, PTL DEF Spec, KeepsBindings

\* A record is published only over the graph that was inspected, of ordinary references; a
\* switch only leaves the reviewed branch and a clean tree, but for what is noted.
THEOREM AsInspected == Spec => ChangesWhatWasInspected
<1>1. IInv /\ [Next]_vars =>
        \A c \in Invocation : wire[c] = "sent" /\ wire'[c] = "applied" =>
          IF ask[c].kind = "register" THEN PublishesInspected(c) ELSE SwitchesReviewed(c)
  <2> SUFFICES ASSUME IInv, NEW c \in Invocation, wire[c] = "sent"
               PROVE IF ask[c].kind = "register" THEN PublishesInspected(c) ELSE SwitchesReviewed(c)
    OBVIOUS
  <2>1. CASE ask[c].kind = "register"
    <3>1. sym = {} /\ Verified(c) /\ Valid(snap[c])
      BY <2>1 DEF IInv, RunInv, GuardedOf, PlanOf
    <3>2. Same(repo, snap[c], Members)
      BY <3>1 DEF Verified, Same
    <3>3. Valid(repo)
      <4>1. \A i \in 1 .. Len(Chain) - 1 : i \in 1 .. Len(Chain) /\ i + 1 \in 1 .. Len(Chain)
        BY Items
      <4>2. \A i \in 1 .. Len(Chain) - 1 :
              repo[Chain[i]] = snap[c][Chain[i]] /\ repo[Chain[i + 1]] = snap[c][Chain[i + 1]]
        BY <3>2, <4>1, Items DEF Same
      <4> QED
        BY <3>1, <4>2 DEF Valid
    <3> QED
      BY <2>1, <3>1, <3>2, <3>3 DEF PublishesInspected
  <2>2. CASE ask[c].kind # "register"
    <3>1. ask[c].kind = "switch"
      BY <2>2 DEF IInv, RunInv, StageOf
    <3>2. AsExpected(c, snap[c])
      BY <3>1 DEF IInv, RunInv, PlanOf
    <3> QED
      BY <2>2, <3>1, <3>2 DEF IInv, RunInv, WindowOf, SwitchesReviewed
  <2> QED
    BY <2>1, <2>2
<1> QED
  BY <1>1, Invariance, PTL DEF Spec, ChangesWhatWasInspected

-----------------------------------------------------------------------------
(* Each step is a step of GuardedWrite, or leaves its variables alone.      *)

AbstractPhase == [c \in Invocation |-> Phase(c)]
AbstractEffect == [c \in Invocation |-> Effect(c)]
AbstractVerdict == [c \in Invocation |-> Claim(c)]

\* Nothing the caller or Git's repository could notice; a commit may be sent to the
\* prepared transaction.
Silent ==
  /\ UNCHANGED <<held, verdict>>
  /\ \A d \in Invocation :
       /\ pc'[d] = "idle" <=> pc[d] = "idle"
       /\ wire'[d] = wire[d] \/ (wire[d] = "prepared" /\ wire'[d] = "sent")

\* Such a step changes nothing that GuardedWrite speaks of.
LEMMA SilentStep == ASSUME Silent PROVE UNCHANGED GW!vars
<1>1. \A d \in Invocation : Phase(d)' = Phase(d) /\ Effect(d)' = Effect(d) /\ Claim(d)' = Claim(d)
  BY DEF Silent, Phase, Effect, Claim
<1>2. UNCHANGED <<AbstractPhase, AbstractEffect, AbstractVerdict, held>>
  BY <1>1 DEF AbstractPhase, AbstractEffect, AbstractVerdict, Silent
<1> QED
  BY <1>2 DEF GW!vars, AbstractPhase, AbstractEffect, AbstractVerdict

\* A run says v to its caller, and does nothing else.
Says(c, v) ==
  /\ UNCHANGED <<wire, held>>
  /\ pc[c] # "idle"
  /\ verdict[c] = "none"
  /\ pc' = [pc EXCEPT ![c] = "done"]
  /\ verdict' = [verdict EXCEPT ![c] = v]

ClaimOf(v, w) ==
  CASE v = "viewed" -> "refused"
    [] v = "refused" /\ w # "unsent" -> "rejected"
    [] v = "unchanged" /\ w = "unsent" -> "noop"
    [] v = "unchanged" /\ w # "unsent" -> "done"
    [] v \in {"registered", "checked_out"} -> "done"
    [] v = "uncertain" -> "ambiguous"
    [] OTHER -> v

\* In GuardedWrite's variables that changes the verdict of one run.
LEMMA SaysStep ==
  ASSUME TypeOK, NEW c \in Invocation, NEW v, Says(c, v)
  PROVE /\ UNCHANGED <<AbstractPhase, AbstractEffect, held>>
        /\ AbstractVerdict' = [AbstractVerdict EXCEPT ![c] = ClaimOf(v, wire[c])]
        /\ Claim(c) = "none"
<1>1. \A d \in Invocation : Phase(d)' = Phase(d) /\ Effect(d)' = Effect(d)
  BY DEF Says, Phase, Effect, TypeOK
<1>2. \A d \in Invocation : Claim(d)' = IF d = c THEN ClaimOf(v, wire[c]) ELSE Claim(d)
  BY DEF Says, Claim, ClaimOf, TypeOK
<1>3. Claim(c) = "none"
  BY DEF Says, Claim
<1> QED
  BY <1>1, <1>2, <1>3 DEF AbstractPhase, AbstractEffect, AbstractVerdict, Says

\* An answer before anything was attempted is GuardedWrite's Decline; that the branch was
\* the current one already has been true.
LEMMA DeclineStep ==
  ASSUME TypeOK, NEW c \in Invocation, NEW v \in {"refused", "viewed", "unchanged"},
         Says(c, v), wire[c] = "unsent", v = "unchanged" => held[c]
  PROVE GW!Decline(c)
<1>1. Phase(c) = "preflight"
  BY DEF Phase, Says
<1>2. ClaimOf(v, wire[c]) = IF v = "unchanged" THEN "noop" ELSE "refused"
  BY DEF ClaimOf
<1>3. /\ UNCHANGED <<AbstractPhase, AbstractEffect, held>>
      /\ AbstractVerdict' = [AbstractVerdict EXCEPT ![c] = ClaimOf(v, wire[c])]
      /\ Claim(c) = "none"
  BY SaysStep
<1> QED
  BY <1>1, <1>2, <1>3 DEF GW!Decline, AbstractPhase, AbstractEffect, AbstractVerdict

\* An answer after an attempt is GuardedWrite's Conclude, if a success has evidence and
\* an ordinary error is of a transaction that was dropped.
LEMMA ConcludeStep ==
  ASSUME TypeOK, NEW c \in Invocation, NEW v, Says(c, v), wire[c] # "unsent",
         \/ v \in {"unchanged", "registered", "checked_out"} /\ held[c]
         \/ v = "refused" /\ wire[c] = "dropped"
         \/ v = "uncertain"
  PROVE GW!Conclude(c)
<1>1. Phase(c) = "attempted" /\ (wire[c] = "dropped" => Effect(c) = "dropped")
  BY DEF Phase, Effect, Says
<1>2. /\ v \in {"unchanged", "registered", "checked_out"} => ClaimOf(v, wire[c]) = "done"
      /\ v = "refused" => ClaimOf(v, wire[c]) = "rejected"
      /\ v = "uncertain" => ClaimOf(v, wire[c]) = "ambiguous"
  BY DEF ClaimOf
<1>3. /\ UNCHANGED <<AbstractPhase, AbstractEffect, held>>
      /\ AbstractVerdict' = [AbstractVerdict EXCEPT ![c] = ClaimOf(v, wire[c])]
      /\ Claim(c) = "none"
  BY SaysStep
<1> QED
  BY <1>1, <1>2, <1>3 DEF GW!Conclude, AbstractPhase, AbstractEffect, AbstractVerdict

\* The one attempt: the transaction, or the switch, is under way or failed at once.
LEMMA AttemptStep ==
  ASSUME TypeOK, NEW c \in Invocation, NEW w \in {"prepared", "sent", "dropped"}, NEW l \in Steps,
         wire[c] = "unsent", verdict[c] = "none", pc[c] # "idle",
         wire' = [wire EXCEPT ![c] = w], pc' = [pc EXCEPT ![c] = l], UNCHANGED verdict,
         held' = [held EXCEPT ![c] = Goal(c)]
  PROVE GW!Attempt(c)
<1>1. /\ AbstractPhase' = [AbstractPhase EXCEPT ![c] = "attempted"]
      /\ AbstractPhase[c] = "preflight"
  BY DEF AbstractPhase, Phase, TypeOK, Steps
<1>2. AbstractEffect' = [AbstractEffect EXCEPT ![c] = IF w = "dropped" THEN w ELSE "inflight"]
  BY DEF AbstractEffect, Effect, TypeOK
<1>3. AbstractVerdict' = AbstractVerdict /\ AbstractVerdict[c] = "none"
  BY DEF AbstractVerdict, Claim, TypeOK
<1>4. \E h \in BOOLEAN : held' = [held EXCEPT ![c] = h]
  BY GoalIsBoolean
<1> QED
  BY <1>1, <1>2, <1>3, <1>4 DEF GW!Attempt, AbstractPhase, AbstractEffect, AbstractVerdict

\* A change of the repository is noted by every run under way or by none.
LEMMA ObserveStep == ASSUME TypeOK, UNCHANGED ask, NEW Own, Changed(Own) \/ UNCHANGED held PROVE GW!Observe
<1>1. CASE Changed(Own)
  <2>1. \A d \in Invocation : held'[d] <=> held[d] \/ (Active(d) /\ Goal(d)')
    BY <1>1, Noted
  <2>2. held' \in [Invocation -> BOOLEAN]
    BY <1>1, HistoryTypes DEF Histories
  <2> QED
    BY <2>1, <2>2 DEF GW!Observe, TypeOK
<1>2. CASE UNCHANGED held
  BY <1>2 DEF GW!Observe, TypeOK
<1> QED
  BY <1>1, <1>2

\* The transaction, or the switch, is carried out or is not, for good.
LEMMA SettleStep ==
  ASSUME TypeOK, NEW c \in Invocation, NEW w \in {"applied", "dropped"},
         wire[c] \in {"prepared", "sent"}, wire' = [wire EXCEPT ![c] = w],
         UNCHANGED verdict, \A d \in Invocation : pc'[d] = "idle" <=> pc[d] = "idle",
         GW!Observe
  PROVE GW!Settle(c)
<1>1. UNCHANGED <<AbstractPhase, AbstractVerdict>>
  BY DEF AbstractPhase, AbstractVerdict, Phase, Claim, TypeOK
<1>2. AbstractEffect[c] = "inflight" /\ AbstractEffect' = [AbstractEffect EXCEPT ![c] = w]
  BY DEF AbstractEffect, Effect, TypeOK
<1> QED
  BY <1>1, <1>2 DEF GW!Settle, AbstractPhase, AbstractEffect, AbstractVerdict

\* What a run says after its last pass, or of its switch, it has seen.
LEMMA Claims ==
  ASSUME TypeOK, NEW c \in Invocation, RunInv(c),
         Acknowledged(c) \/ LastPass(c) \/ LastFails(c) \/ Aborted(c)
  PROVE \E v \in {"unchanged", "registered", "checked_out", "refused", "uncertain"} :
          /\ Says(c, v) /\ wire[c] # "unsent"
          /\ \/ v \in {"unchanged", "registered", "checked_out"} /\ held[c]
             \/ v = "refused" /\ wire[c] = "dropped"
             \/ v = "uncertain"
<1>1. /\ UNCHANGED <<wire, held>> /\ verdict[c] = "none" /\ wire[c] # "unsent"
      /\ pc[c] \in {"ack", "after", "aborted", "unconfirmed"}
  BY DEF Acknowledged, LastPass, LastFails, Aborted, history, RunInv, StageOf
<1>2. \A v : Return(c, v) => Says(c, v)
  BY <1>1 DEF Return, End, Goto, Says
<1>3. CASE Acknowledged(c)
  BY <1>1, <1>2, <1>3 DEF Acknowledged, RunInv, EvidenceOf
<1>4. CASE LastPass(c)
  <2>1. "current" \in DOMAIN got[c] /\ ask[c].kind = "switch" /\ pc[c] = "after"
    BY <1>4, WholePass DEF LastPass, RunInv, StageOf, Switching, Passes, Graph
  <2>2. got[c]["current"] = ask[c].to => held[c]
    BY <2>1 DEF RunInv, EvidenceOf
  <2>3. \/ Return(c, "checked_out") /\ got[c]["current"] = ask[c].to
        \/ Return(c, "uncertain")
    BY <1>4 DEF LastPass
  <2> QED
    BY <1>1, <1>2, <2>2, <2>3
<1>5. CASE LastFails(c)
  BY <1>1, <1>2, <1>5 DEF LastFails
<1>6. CASE Aborted(c)
  BY <1>1, <1>2, <1>6 DEF Aborted, RunInv, StageOf
<1> QED
  BY <1>3, <1>4, <1>5, <1>6

\* Every step is a step of GuardedWrite or leaves its variables alone.
LEMMA RefinementStep == IInv /\ [Next]_vars => [GW!Next]_(GW!vars)
<1> SUFFICES ASSUME IInv, [Next]_vars PROVE [GW!Next]_(GW!vars)
  OBVIOUS
<1> USE DEF IInv, history
<1>1. ASSUME NEW c \in Invocation,
             \/ Open(c) \/ Read(c) \/ FirstPass(c) \/ Guard(c) \/ SendCommit(c) \/ Expire(c) \/ Crash(c)
      PROVE UNCHANGED GW!vars
  <2>1. UNCHANGED <<held, verdict>>
    BY <1>1 DEF Open, Read, FirstPass, Guard, SendCommit, Expire, Crash, Advance, world
  <2>2. pc[c] # "idle" /\ pc'[c] # "idle" /\ \A d \in Invocation : d # c => pc'[d] = pc[d]
    <3>1. CASE FirstPass(c)
      <4>1. "idle" \notin FirstNext(c)
        BY <3>1, AskTypes DEF FirstPass, FirstNext, RunInv, StageOf
      <4> QED
        BY <3>1, <4>1 DEF FirstPass, Goto, TypeOK
    <3>2. CASE ~FirstPass(c)
      BY <1>1, <3>2 DEF Open, Read, Guard, SendCommit, Expire, Crash, Advance, End, Goto, Active,
                        Passes, TypeOK
    <3> QED
      BY <3>1, <3>2
  <2>3. \A d \in Invocation : wire'[d] = wire[d] \/ (wire[d] = "prepared" /\ wire'[d] = "sent")
    BY <1>1 DEF Open, Read, FirstPass, Guard, SendCommit, Expire, Crash, world, TypeOK
  <2>4. Silent
    BY <2>1, <2>2, <2>3 DEF Silent
  <2> QED
    BY <2>4, SilentStep
<1>2. CASE UNCHANGED vars
  <2>1. Silent
    BY <1>2 DEF Silent, vars
  <2> QED
    BY <2>1, SilentStep
<1>3. ASSUME NEW c \in Invocation, Refuse(c) PROVE GW!Decline(c)
  <2>1. Says(c, "refused") /\ wire[c] = "unsent"
    BY <1>3 DEF Refuse, Says, Return, End, Goto, RunInv, StageOf
  <2> QED
    BY <2>1, DeclineStep
<1>4. ASSUME NEW c \in Invocation, SecondPass(c) PROVE UNCHANGED GW!vars \/ GW!Decline(c)
  <2>1. /\ UNCHANGED <<wire, held>> /\ wire[c] = "unsent" /\ verdict[c] = "none" /\ pc[c] = "second"
    BY <1>4 DEF SecondPass, RunInv, StageOf
  <2>2. CASE Advance(c, "switch")
    <3>1. Silent
      BY <2>1, <2>2 DEF Silent, Advance, Goto, TypeOK
    <3> QED
      BY <3>1, SilentStep
  <2>3. ASSUME NEW v \in {"refused", "viewed", "unchanged"}, Return(c, v),
               v = "unchanged" => held[c]
        PROVE GW!Decline(c)
    <3>1. Says(c, v)
      BY <2>1, <2>3 DEF Says, Return, End, Goto
    <3> QED
      BY <2>1, <2>3, <3>1, DeclineStep
  <2>4. CASE Return(c, "unchanged") /\ SameGraph(c) /\ ask[c].kind # "view" /\ ask[c].to = snap[c]["current"]
    <3>1. ask[c].kind = "switch" /\ "current" \in Graph
      BY <2>1, <2>4 DEF RunInv, StageOf, Graph
    <3>2. "current" \in DOMAIN got[c]
      BY <1>4, <2>1, <3>1, WholePass DEF SecondPass, RunInv, Passes
    <3>3. got[c]["current"] = ask[c].to
      BY <2>4, <3>1 DEF SameGraph, Same
    <3> QED
      BY <2>1, <2>3, <2>4, <3>1, <3>2, <3>3 DEF RunInv, EvidenceOf
  <2>5. \/ Return(c, "refused") \/ Return(c, "viewed") \/ Advance(c, "switch")
        \/ Return(c, "unchanged") /\ SameGraph(c) /\ ask[c].kind # "view" /\ ask[c].to = snap[c]["current"]
    BY <1>4 DEF SecondPass
  <2> QED
    BY <2>2, <2>3, <2>4, <2>5
<1>5. ASSUME NEW c \in Invocation, Acknowledged(c) \/ LastPass(c) \/ LastFails(c) \/ Aborted(c)
      PROVE GW!Conclude(c)
  <2>1. PICK v \in {"unchanged", "registered", "checked_out", "refused", "uncertain"} :
          /\ Says(c, v) /\ wire[c] # "unsent"
          /\ \/ v \in {"unchanged", "registered", "checked_out"} /\ held[c]
             \/ v = "refused" /\ wire[c] = "dropped"
             \/ v = "uncertain"
    BY <1>5, Claims
  <2> QED
    BY <2>1, ConcludeStep
<1>6. ASSUME NEW c \in Invocation, Switched(c) PROVE UNCHANGED GW!vars \/ GW!Conclude(c)
  <2>1. /\ UNCHANGED <<wire, held>> /\ wire[c] # "unsent" /\ verdict[c] = "none"
        /\ pc[c] = "switching"
    BY <1>6 DEF Switched, RunInv, StageOf
  <2>2. CASE Advance(c, "after")
    <3>1. Silent
      BY <2>1, <2>2 DEF Silent, Advance, Goto, TypeOK
    <3> QED
      BY <3>1, SilentStep
  <2>3. CASE Return(c, "uncertain")
    <3>1. Says(c, "uncertain")
      BY <2>1, <2>3 DEF Says, Return, End, Goto
    <3> QED
      BY <2>1, <3>1, ConcludeStep
  <2> QED
    BY <1>6, <2>2, <2>3 DEF Switched
<1>7. ASSUME NEW c \in Invocation, Start(c) PROVE GW!Begin(c)
  <2>1. wire[c] = "unsent" /\ pc[c] = "idle" /\ pc' = [pc EXCEPT ![c] = "open"]
    BY <1>7 DEF Start, Goto, RunInv, StageOf
  <2>2. /\ AbstractPhase' = [AbstractPhase EXCEPT ![c] = "preflight"]
        /\ AbstractPhase[c] = "idle"
    BY <1>7, <2>1 DEF Start, AbstractPhase, Phase, TypeOK
  <2>3. UNCHANGED <<AbstractEffect, AbstractVerdict>>
    BY <1>7 DEF Start, AbstractEffect, AbstractVerdict, Effect, Claim
  <2>4. \E h \in BOOLEAN : held' = [held EXCEPT ![c] = h]
    BY <1>7, GoalIsBoolean DEF Start
  <2> QED
    BY <2>2, <2>3, <2>4 DEF GW!Begin, AbstractPhase, AbstractEffect, AbstractVerdict
<1>8. ASSUME NEW c \in Invocation, Prepare(c) \/ Switch(c) PROVE GW!Attempt(c)
  <2>1. wire[c] = "unsent" /\ verdict[c] = "none" /\ pc[c] # "idle"
    BY <1>8 DEF Prepare, Switch, RunInv, StageOf
  <2>2. PICK w \in {"prepared", "sent", "dropped"}, l \in Steps :
          wire' = [wire EXCEPT ![c] = w] /\ Advance(c, l)
    BY <1>8 DEF Prepare, Switch, Steps
  <2>3. held' = [held EXCEPT ![c] = Goal(c)]
    BY <1>8 DEF Prepare, Switch
  <2> QED
    BY <2>1, <2>2, <2>3, AttemptStep DEF Advance, Goto
<1>9. ASSUME NEW c \in Invocation, Abort(c) PROVE UNCHANGED GW!vars \/ GW!Settle(c)
  <2>1. /\ wire' = [wire EXCEPT ![c] = "dropped"] /\ UNCHANGED <<held, verdict, ask>>
        /\ wire[c] \in {"prepared", "dropped"}
        /\ \A d \in Invocation : pc'[d] = "idle" <=> pc[d] = "idle"
    BY <1>9 DEF Abort, Advance, Goto, RunInv, StageOf, TypeOK
  <2>2. CASE wire[c] = "dropped"
    <3>1. Silent
      BY <2>1, <2>2 DEF Silent, TypeOK
    <3> QED
      BY <3>1, SilentStep
  <2>3. CASE wire[c] = "prepared"
    <3>1. GW!Observe
      BY <2>1 DEF GW!Observe, TypeOK
    <3> QED
      BY <2>1, <2>3, <3>1, SettleStep
  <2> QED
    BY <2>1, <2>2, <2>3
<1>10. ASSUME NEW c \in Invocation, Git(c) PROVE GW!Settle(c)
  <2>1. PICK w \in {"applied", "dropped"} : wire' = [wire EXCEPT ![c] = w]
    BY <1>10 DEF Git, Publish, SwitchTree, GitFails
  <2>2. wire[c] \in {"prepared", "sent"} /\ UNCHANGED <<pc, verdict, ask>>
    BY <1>10 DEF Git, Publish, SwitchTree, GitFails
  <2>3. GW!Observe
    BY <1>10, <2>2, ObserveStep DEF Git, Publish, SwitchTree, GitFails
  <2> QED
    BY <2>1, <2>2, <2>3, SettleStep
<1>11. CASE OtherMoves \/ OtherReplaces \/ OtherWorks \/ OtherUnlocks
  <2>1. UNCHANGED <<pc, wire, verdict, ask>>
    BY <1>11 DEF OtherMoves, OtherReplaces, OtherWorks, OtherUnlocks, ByOthers
  <2>2. UNCHANGED <<AbstractPhase, AbstractEffect, AbstractVerdict>>
    BY <2>1 DEF AbstractPhase, AbstractEffect, AbstractVerdict, Phase, Effect, Claim
  <2>3. GW!Observe
    BY <1>11, <2>1, ObserveStep DEF OtherMoves, OtherReplaces, OtherWorks, OtherUnlocks
  <2> QED
    BY <2>2, <2>3 DEF GW!Next, GW!World, AbstractPhase, AbstractEffect, AbstractVerdict
<1> QED
  BY <1>1, <1>2, <1>3, <1>4, <1>5, <1>6, <1>7, <1>8, <1>9, <1>10, <1>11 DEF Next, Run, GW!Next

\* The stack commands keep GuardedWrite's promise for any number of runs and others: one
\* transaction or switch at most, an ordinary error only when nothing was and will be
\* changed, though the guard failed under Git's locks, and a success only of what was.
THEOREM Refinement == Spec => ImplementsGuardedWrite
<1>1. Init => GW!Init
  BY DEF Init, GW!Init, Phase, Effect, Claim
<1>2. IInv /\ [Next]_vars => [GW!Next]_(GW!vars)
  BY RefinementStep
<1> QED
  BY <1>1, <1>2, Invariance, PTL DEF Spec, ImplementsGuardedWrite, GW!Spec
=============================================================================
