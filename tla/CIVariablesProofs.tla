-------------------------- MODULE CIVariablesProofs --------------------------
(***************************************************************************)
(* Setting and deleting a variable, for any set of keys and values, any     *)
(* page size, number of runs and of changes by others: every list stays a   *)
(* list, the variables keep their types, a readable value is only replaced  *)
(* as expected, and the commands implement GuardedWrite.                    *)
(*                                                                         *)
(* The argument: what an inventory found of Target was there when its page  *)
(* was read (EvidenceOf); what the second one found is still there unless a *)
(* change is noted, page for page and then until the request is carried out *)
(* (WindowOf); an acknowledgment is of a request carried out and a status   *)
(* of a refused one (StageOf).                                              *)
(***************************************************************************)
EXTENDS CIVariables, FiniteSetTheorems, SequenceTheorems, TLAPS

\* Where a run is tells what it has sent, read, heard and said.
StageOf(c) ==
  /\ pc[c] \in {"idle"} \cup Preflight => wire[c] = "unsent"
  /\ pc[c] \in {"reply", "after"} => wire[c] # "unsent"
  /\ pc[c] # "done" => verdict[c] = "none"
  /\ pc[c] \notin Listing => found[c] = Nil
  /\ acked[c] => wire[c] = "applied"
  /\ cause[c] = "status" => wire[c] = "refused"

\* What a run has read, or its answer tells, has been true since it began or attempted.
EvidenceOf(c) ==
  /\ Active(c) /\ Goal(c) => held[c]
  /\ found[c] # Nil /\ Postcondition(c, found[c]) => held[c]
  /\ wire[c] = "applied" /\ ask[c].delete /\ pc[c] \in {"reply", "after"} => held[c]

\* From the page of the second inventory that shows Target to the end of the request,
\* Target is what was seen and expected, or it has changed since and that is noted.
WindowOf(c) ==
  /\ pc[c] = "second" /\ found[c] # Nil => found[c] = target \/ drift[c]
  /\ pc[c] \in {"bind", "write"} \/ wire[c] = "inflight" =>
       ask[c].expect = Nil \/ Precondition(c, target) \/ drift[c]

RunInv(c) == StageOf(c) /\ EvidenceOf(c) /\ WindowOf(c)

IInv == TypeOK /\ \A c \in Invocation : RunInv(c)

-----------------------------------------------------------------------------
(* Lists, and what creating and deleting makes of them.                     *)

\* A list is a sequence that shows no key twice; it cannot be longer than the set of keys.
LEMMA ListsAre == Lists = {s \in Seq(Key) : IsInjective(s)}
<1>1. ASSUME NEW s \in Lists PROVE s \in Seq(Key) /\ IsInjective(s)
  <2>1. PICK m \in 0 .. Cardinality(Key) : s \in [1..m -> Key]
    BY DEF Lists, BoundedSeq, SeqOf
  <2>2. m \in Nat
    BY VariableAssumption, FS_CardinalityType
  <2> QED
    BY <2>1, <2>2 DEF Lists
<1>2. ASSUME NEW s \in Seq(Key), IsInjective(s) PROVE s \in Lists
  <2>1. s \in Injection(1 .. Len(s), Key)
    BY <1>2 DEF Injection
  <2>2. Cardinality(1 .. Len(s)) <= Cardinality(Key)
    BY <2>1, FS_Injection, VariableAssumption
  <2>3. Cardinality(1 .. Len(s)) = Len(s) /\ Cardinality(Key) \in Nat
    <3>1. Len(s) \in Nat /\ 1 \in Int
      OBVIOUS
    <3>2. Cardinality(1 .. Len(s)) = IF 1 > Len(s) THEN 0 ELSE Len(s) - 1 + 1
      BY <3>1, FS_Interval
    <3>3. Cardinality(Key) \in Nat
      BY FS_CardinalityType, VariableAssumption
    <3> QED
      BY <3>1, <3>2, <3>3
  <2>4. Len(s) \in 0 .. Cardinality(Key)
    BY <2>2, <2>3
  <2>5. s \in [1 .. Len(s) -> Key]
    OBVIOUS
  <2>6. s \in SeqOf(Key, Cardinality(Key))
    BY <2>4, <2>5 DEF SeqOf
  <2> QED
    BY <1>2, <2>6 DEF Lists, BoundedSeq
<1> QED
  BY <1>1, <1>2

\* A new key goes to the end.
LEMMA AppendNew ==
  ASSUME NEW s \in Lists, NEW k \in Key, k \notin ToSet(s)
  PROVE /\ Append(s, k) \in Lists
        /\ ToSet(Append(s, k)) = ToSet(s) \cup {k}
<1>1. s \in Seq(Key) /\ IsInjective(s)
  BY ListsAre
<1> DEFINE t == Append(s, k)
<1>2. /\ t \in Seq(Key) /\ Len(t) = Len(s) + 1 /\ t[Len(s) + 1] = k
      /\ \A i \in 1 .. Len(s) : t[i] = s[i]
  BY <1>1, AppendProperties
<1>3. DOMAIN s = 1 .. Len(s) /\ DOMAIN t = 1 .. Len(s) + 1 /\ Len(s) \in Nat
  BY <1>1, <1>2
<1> HIDE DEF t
<1>4. \A i \in DOMAIN t : (i \in DOMAIN s /\ t[i] = s[i]) \/ (i = Len(s) + 1 /\ t[i] = k)
  <2> TAKE i \in DOMAIN t
  <2>1. i \in 1 .. Len(s) \/ i = Len(s) + 1
    BY <1>3
  <2> QED
    BY <1>2, <1>3, <2>1
<1>5. \A i \in DOMAIN s : s[i] # k
  BY DEF ToSet
<1>6. IsInjective(t)
  BY <1>1, <1>4, <1>5 DEF IsInjective
<1>7. ToSet(t) = ToSet(s) \cup {k}
  <2>1. \A i \in DOMAIN s : i \in DOMAIN t /\ t[i] = s[i]
    BY <1>2, <1>3
  <2>2. Len(s) + 1 \in DOMAIN t /\ t[Len(s) + 1] = k
    BY <1>2, <1>3
  <2> QED
    BY <1>4, <2>1, <2>2 DEF ToSet
<1> QED
  BY <1>2, <1>6, <1>7, ListsAre DEF t

\* A deleted key is gone, as it was listed once, and the rest keeps its order.
LEMMA RemoveOne ==
  ASSUME NEW s \in Lists, NEW i \in DOMAIN s
  PROVE /\ RemoveAt(s, i) \in Lists
        /\ ToSet(RemoveAt(s, i)) = ToSet(s) \ {s[i]}
<1>1. s \in Seq(Key) /\ IsInjective(s)
  BY ListsAre
<1>2. Len(s) \in Nat /\ i \in 1 .. Len(s) /\ \A j \in 1 .. Len(s) : s[j] \in Key
  BY <1>1
<1> DEFINE a == SubSeq(s, 1, i - 1)
           b == SubSeq(s, i + 1, Len(s))
           t == a \o b
<1>3. a \in Seq(Key) /\ Len(a) = i - 1 /\ \A j \in 1 .. i - 1 : a[j] = s[j]
  <2>1. \A j \in 1 .. i - 1 : s[j] \in Key
    BY <1>2
  <2>2. 1 \in Int /\ i - 1 \in Int
    BY <1>2
  <2>3. /\ a \in Seq(Key)
        /\ Len(a) = IF 1 <= i - 1 THEN i - 1 - 1 + 1 ELSE 0
        /\ \A j \in 1 .. i - 1 - 1 + 1 : a[j] = s[1 + j - 1]
    BY <2>1, <2>2, SubSeqProperties
  <2> QED
    BY <1>2, <2>3
<1>4. b \in Seq(Key) /\ Len(b) = Len(s) - i /\ \A j \in 1 .. Len(s) - i : b[j] = s[i + j]
  <2>1. \A j \in i + 1 .. Len(s) : s[j] \in Key
    BY <1>2
  <2>2. i + 1 \in Int /\ Len(s) \in Int
    BY <1>2
  <2>3. /\ b \in Seq(Key)
        /\ Len(b) = IF i + 1 <= Len(s) THEN Len(s) - (i + 1) + 1 ELSE 0
        /\ \A j \in 1 .. Len(s) - (i + 1) + 1 : b[j] = s[i + 1 + j - 1]
    BY <2>1, <2>2, SubSeqProperties
  <2> QED
    BY <1>2, <2>3
<1> HIDE DEF a, b
<1>5. /\ t \in Seq(Key) /\ Len(t) = Len(a) + Len(b)
      /\ \A j \in 1 .. Len(a) + Len(b) : t[j] = IF j <= Len(a) THEN a[j] ELSE b[j - Len(a)]
  BY <1>3, <1>4, ConcatProperties
<1> HIDE DEF t
<1>6. Len(t) = Len(s) - 1 /\ DOMAIN t = 1 .. Len(s) - 1 /\ DOMAIN s = 1 .. Len(s)
  BY <1>1, <1>2, <1>3, <1>4, <1>5
<1> DEFINE From(j) == IF j < i THEN j ELSE j + 1
<1>7. \A j \in DOMAIN t : From(j) \in DOMAIN s /\ From(j) # i /\ t[j] = s[From(j)]
  <2> TAKE j \in DOMAIN t
  <2>1. CASE j < i
    BY <1>2, <1>3, <1>4, <1>5, <1>6, <2>1
  <2>2. CASE ~(j < i)
    <3>0. j \in Nat /\ j >= i /\ j <= Len(s) - 1 /\ j > Len(a) /\ j \in 1 .. Len(a) + Len(b)
      BY <1>2, <1>3, <1>4, <1>6, <2>2
    <3>1. t[j] = b[j - Len(a)] /\ j - Len(a) \in 1 .. Len(s) - i /\ j - Len(a) = j - i + 1
      <4>1. t[j] = b[j - Len(a)]
        BY <1>5, <3>0, <1>2, <1>3
      <4> QED
        BY <1>2, <1>3, <3>0, <4>1
    <3>2. b[j - Len(a)] = s[i + (j - Len(a))] /\ i + (j - Len(a)) = j + 1
      BY <1>2, <1>4, <1>6, <3>1
    <3>3. From(j) = j + 1 /\ j + 1 \in 1 .. Len(s) /\ j + 1 # i
      BY <1>2, <1>6, <2>2
    <3> QED
      BY <1>6, <3>1, <3>2, <3>3
  <2> QED
    BY <2>1, <2>2
<1>8. \A j, k \in DOMAIN t : From(j) = From(k) => j = k
  BY <1>2, <1>6
<1>9. IsInjective(t)
  BY <1>1, <1>7, <1>8 DEF IsInjective
<1>10. \A j \in DOMAIN s : j # i => \E k \in DOMAIN t : From(k) = j
  <2> SUFFICES ASSUME NEW j \in DOMAIN s, j # i PROVE \E k \in DOMAIN t : From(k) = j
    OBVIOUS
  <2>1. CASE j < i
    <3>1. j \in DOMAIN t /\ From(j) = j
      BY <1>2, <1>6, <2>1
    <3> QED
      BY <3>1
  <2>2. CASE j > i
    <3>1. j - 1 \in DOMAIN t /\ From(j - 1) = j
      BY <1>2, <1>6, <2>2
    <3> QED
      BY <3>1
  <2> QED
    BY <1>2, <1>6, <2>1, <2>2
<1> HIDE DEF From
<1>11. ToSet(t) = ToSet(s) \ {s[i]}
  <2>1. \A j \in DOMAIN t : t[j] \in ToSet(s) \ {s[i]}
    BY <1>1, <1>7 DEF ToSet, IsInjective
  <2>2. ASSUME NEW x \in ToSet(s) \ {s[i]} PROVE x \in ToSet(t)
    <3>1. PICK j \in DOMAIN s : x = s[j] /\ j # i
      BY DEF ToSet
    <3>2. PICK k \in DOMAIN t : From(k) = j
      BY <1>10, <3>1
    <3>3. t[k] = x
      BY <1>7, <3>1, <3>2
    <3> QED
      BY <3>3 DEF ToSet
  <2> QED
    BY <2>1, <2>2 DEF ToSet
<1> QED
  BY <1>5, <1>9, <1>11, ListsAre DEF RemoveAt, t, a, b

\* A page shows keys of the list.
LEMMA PageOf == ASSUME TypeOK, NEW c \in Invocation PROVE ToSet(Page(c)) \subseteq Key
<1> DEFINE first == (page[c] - 1) * PageSize
           last == Min({first + PageSize, Len(list)})
<1>1. list \in Seq(Key) /\ Len(list) \in Nat
  BY ListsAre DEF TypeOK
<1>2. first \in Nat /\ first + PageSize \in Nat
  <2>1. page[c] - 1 \in Nat /\ PageSize \in Nat
    BY VariableAssumption DEF TypeOK
  <2> QED
    BY <2>1
<1> HIDE DEF first
<1>3. last \in Nat /\ last <= Len(list)
  <2>1. PICK m \in {first + PageSize, Len(list)} : \A y \in {first + PageSize, Len(list)} : m <= y
    BY <1>1, <1>2
  <2>2. /\ last \in {first + PageSize, Len(list)}
        /\ \A y \in {first + PageSize, Len(list)} : last <= y
    BY <2>1 DEF Min
  <2> QED
    BY <1>1, <1>2, <2>2
<1> HIDE DEF last
<1>4. \A j \in first + 1 .. last : list[j] \in Key
  BY <1>1, <1>2, <1>3
<1>5. SubSeq(list, first + 1, last) \in Seq(Key)
  BY <1>2, <1>3, <1>4, SubSeqProperties
<1>6. Page(c) \in Seq(Key)
  BY <1>5 DEF Page, first, last
<1> QED
  BY <1>6 DEF ToSet

-----------------------------------------------------------------------------
(* What a step may do to the list and to the other variables.               *)

\* The list stays one, and shows Target exactly when it has a content.
ListTyped ==
  /\ list \in Lists
  /\ target \in Content \cup {Nil}
  /\ (target # Nil) <=> (Target \in ToSet(list))

\* A change at the provider is of Target, or of some other key.
Edits ==
  \/ \E content \in Content : Create(content) \/ Update(content)
  \/ Delete
  \/ \E k \in Key \ ({Target} \cup ToSet(list)) : list' = Append(list, k) /\ UNCHANGED target
  \/ \E i \in DOMAIN list :
       list[i] # Target /\ list' = RemoveAt(list, i) /\ UNCHANGED target

\* Every such change keeps the list a list.
LEMMA EditStep == ASSUME ListTyped, Edits PROVE ListTyped'
<1>1. ASSUME NEW content \in Content, Create(content) PROVE ListTyped'
  <2>1. Target \in Key /\ Target \notin ToSet(list) /\ list \in Lists
    BY <1>1, VariableAssumption DEF Create, ListTyped
  <2>2. Append(list, Target) \in Lists /\ ToSet(Append(list, Target)) = ToSet(list) \cup {Target}
    BY <2>1, AppendNew
  <2>3. list' = Append(list, Target) /\ target' = content /\ content # Nil
    BY <1>1, VariableAssumption DEF Create
  <2> QED
    BY <2>2, <2>3 DEF ListTyped
<1>2. ASSUME NEW content \in Content, Update(content) PROVE ListTyped'
  <2>1. list' = list /\ target # Nil /\ target' = content /\ content # Nil
    BY <1>2, VariableAssumption DEF Update
  <2> QED
    BY <2>1 DEF ListTyped
<1>3. CASE Delete
  <2>1. PICK i \in DOMAIN list : list[i] = Target /\ list' = RemoveAt(list, i)
    BY <1>3 DEF Delete
  <2>2. list \in Lists /\ target' = Nil
    BY <1>3 DEF Delete, ListTyped
  <2>3. list' \in Lists /\ ToSet(list') = ToSet(list) \ {Target}
    BY <2>1, <2>2, RemoveOne
  <2> QED
    BY <2>2, <2>3 DEF ListTyped
<1>4. ASSUME NEW k \in Key \ ({Target} \cup ToSet(list)),
             list' = Append(list, k) /\ UNCHANGED target
      PROVE ListTyped'
  <2>1. list \in Lists
    BY DEF ListTyped
  <2>2. list' \in Lists /\ ToSet(list') = ToSet(list) \cup {k}
    BY <1>4, <2>1, AppendNew
  <2> QED
    BY <1>4, <2>2 DEF ListTyped
<1>5. ASSUME NEW i \in DOMAIN list,
             list[i] # Target /\ list' = RemoveAt(list, i) /\ UNCHANGED target
      PROVE ListTyped'
  <2>1. list \in Lists
    BY DEF ListTyped
  <2>2. list' \in Lists /\ ToSet(list') = ToSet(list) \ {list[i]}
    BY <1>5, <2>1, RemoveOne
  <2> QED
    BY <1>5, <2>2 DEF ListTyped
<1> QED
  BY <1>1, <1>2, <1>3, <1>4, <1>5 DEF Edits

\* What a request asks for is the content of a variable.
LEMMA Asked ==
  ASSUME TypeOK, NEW c \in Invocation
  PROVE /\ ask[c].delete \in BOOLEAN
        /\ ask[c].expect \in Content \cup {Nil}
        /\ ask[c].want \in Content
        /\ ask[c].delete => ask[c].expect # Nil
<1>1. ask[c] \in Ask
  BY DEF TypeOK
<1> QED
  BY <1>1 DEF Ask

\* A request carried out, or another user, makes one of those changes.
LEMMA Editing ==
  ASSUME TypeOK
  PROVE /\ \A c \in Invocation : Apply(c) => Edits
        /\ Other => Edits
<1>1. ASSUME NEW c \in Invocation, Apply(c) PROVE Edits
  <2>1. CASE ask[c].delete /\ Delete
    BY <2>1 DEF Edits
  <2>2. CASE Create(ask[c].want)
    BY <2>2, Asked DEF Edits
  <2>3. CASE target # Nil /\ Update([ask[c].want EXCEPT !.hidden = target.hidden])
    <3>1. ask[c].want \in Content /\ target \in Content
      BY <2>3, Asked DEF TypeOK
    <3>2. [ask[c].want EXCEPT !.hidden = target.hidden] \in Content
      BY <3>1 DEF Content
    <3> QED
      BY <2>3, <3>2 DEF Edits
  <2> QED
    BY <1>1, <2>1, <2>2, <2>3 DEF Apply
<1>2. Other => Edits
  BY DEF Other, Edits
<1> QED
  BY <1>1, <1>2

\* The types of what is not at the provider.
LocalTyped ==
  /\ ask \in [Invocation -> Ask]
  /\ pc \in [Invocation -> {"idle", "reply", "done"} \cup Listing \cup Preflight]
  /\ ctx \in [Invocation -> {"live", "done"}]
  /\ page \in [Invocation -> 1..MaxPages]
  /\ keys \in [Invocation -> SUBSET Key]
  /\ found \in [Invocation -> Content \cup {Nil}]
  /\ wire \in [Invocation -> {"unsent", "inflight", "applied", "refused", "lost"}]
  /\ acked \in [Invocation -> BOOLEAN]
  /\ cause \in [Invocation -> {"none", "status"}]
  /\ verdict \in [Invocation ->
       {"none", "refused", "unchanged", "observed", "rejected", "ambiguous"}]

HistoryTyped ==
  /\ held \in [Invocation -> BOOLEAN]
  /\ drift \in [Invocation -> BOOLEAN]
  /\ absent \in [Invocation -> BOOLEAN]

\* The three parts of the types.
LEMMA Typed == TypeOK <=> ListTyped /\ others \in 0..MaxOther /\ LocalTyped /\ HistoryTyped
BY DEF TypeOK, ListTyped, LocalTyped, HistoryTyped

\* What is observed agrees with what is expected, or does not.
LEMMA Truths ==
  ASSUME TypeOK, NEW c \in Invocation
  PROVE /\ Goal(c) \in BOOLEAN /\ Goal(c)' \in BOOLEAN
        /\ (target = Nil) \in BOOLEAN
<1>1. Goal(c) \in BOOLEAN
  BY DEF Goal, Postcondition, Looks
<1>2. Goal(c)' \in BOOLEAN
  BY DEF Goal, Postcondition, Looks
<1> QED
  BY <1>1, <1>2

-----------------------------------------------------------------------------
(* Types.                                                                   *)

\* A run that ends, goes on or observes keeps its locals typed.
LEMMA LocalTypes ==
  ASSUME LocalTyped, NEW c \in Invocation, UNCHANGED <<ask, wire>>
  PROVE /\ End(c) /\ UNCHANGED verdict => LocalTyped'
        /\ \A v \in {"refused", "unchanged", "observed", "rejected", "ambiguous"} :
             Return(c, v) => LocalTyped'
        /\ \A l \in {"second", "bind", "write"} : Advance(c, l) => LocalTyped'
<1> USE DEF Goto, Forget, Listing, Preflight
<1>1. 1 \in 1..MaxPages
  BY VariableAssumption
<1>2. ASSUME End(c) PROVE
        /\ pc' \in [Invocation -> {"idle", "reply", "done"} \cup Listing \cup Preflight]
        /\ ctx' \in [Invocation -> {"live", "done"}]
        /\ page' \in [Invocation -> 1..MaxPages]
        /\ keys' \in [Invocation -> SUBSET Key]
        /\ found' \in [Invocation -> Content \cup {Nil}]
        /\ acked' \in [Invocation -> BOOLEAN]
        /\ cause' \in [Invocation -> {"none", "status"}]
  BY <1>1, <1>2 DEF End, LocalTyped
<1>3. End(c) /\ UNCHANGED verdict => LocalTyped'
  BY <1>2 DEF LocalTyped
<1>4. ASSUME NEW v \in {"refused", "unchanged", "observed", "rejected", "ambiguous"},
             Return(c, v)
      PROVE LocalTyped'
  BY <1>2, <1>4 DEF LocalTyped, Return
<1>5. ASSUME NEW l \in {"second", "bind", "write"}, Advance(c, l) PROVE LocalTyped'
  BY <1>1, <1>5 DEF LocalTyped, Advance
<1> QED
  BY <1>3, <1>4, <1>5

\* Only a step of one run, a change at the provider, or the end of a request.
LEMMA LocalTypeStep == ASSUME TypeOK, [Next]_vars PROVE LocalTyped'
<1> USE DEF Goto, Listing, Preflight, provider, local, history
<1>1. LocalTyped
  BY Typed
<1>2. ASSUME NEW c \in Invocation, Start(c) PROVE LocalTyped'
  BY <1>1, <1>2 DEF Start, LocalTyped
<1>3. ASSUME NEW c \in Invocation, Refuse(c) PROVE LocalTyped'
  <2>1. Return(c, "refused") /\ UNCHANGED <<ask, wire>>
    BY <1>3 DEF Refuse
  <2> QED
    BY <1>1, <2>1, LocalTypes
<1>4. ASSUME NEW c \in Invocation, NextPage(c) PROVE LocalTyped'
  <2>1. page[c] + 1 \in 1..MaxPages
    BY <1>1, <1>4, VariableAssumption DEF NextPage, LocalTyped
  <2>2. keys[c] \cup ToSet(Page(c)) \in SUBSET Key
    BY <1>1, PageOf DEF LocalTyped
  <2>3. Shown(c) \in Content \cup {Nil}
    BY <1>1, Typed DEF Shown, LocalTyped, ListTyped
  <2>4. /\ page' = [page EXCEPT ![c] = page[c] + 1]
        /\ keys' = [keys EXCEPT ![c] = keys[c] \cup ToSet(Page(c))]
        /\ found' = [found EXCEPT ![c] = Shown(c)]
        /\ UNCHANGED <<ask, pc, ctx, wire, acked, cause, verdict>>
    BY <1>4 DEF NextPage
  <2> QED
    BY <1>1, <2>1, <2>2, <2>3, <2>4 DEF LocalTyped
<1>5. ASSUME NEW c \in Invocation, FirstInventory(c) PROVE LocalTyped'
  <2>1. /\ Return(c, "refused") \/ Return(c, "unchanged") \/ Advance(c, "second")
        /\ UNCHANGED <<ask, wire>>
    BY <1>5 DEF FirstInventory
  <2> QED
    BY <1>1, <2>1, LocalTypes
<1>6. ASSUME NEW c \in Invocation, SecondInventory(c) PROVE LocalTyped'
  <2>1. /\ Return(c, "refused") \/ Advance(c, "bind")
        /\ UNCHANGED <<ask, wire>>
    BY <1>6 DEF SecondInventory
  <2> QED
    BY <1>1, <2>1, LocalTypes
<1>7. ASSUME NEW c \in Invocation, Bind(c) PROVE LocalTyped'
  <2>1. Advance(c, "write") /\ UNCHANGED <<ask, wire>>
    BY <1>7 DEF Bind
  <2> QED
    BY <1>1, <2>1, LocalTypes
<1>8. ASSUME NEW c \in Invocation, Write(c) PROVE LocalTyped'
  <2>1. 1 \in 1..MaxPages
    BY VariableAssumption
  <2> QED
    BY <1>1, <1>8, <2>1 DEF Write, Advance, Forget, LocalTyped
<1>9. ASSUME NEW c \in Invocation, Answered(c) PROVE LocalTyped'
  BY <1>1, <1>9 DEF Answered, Observe, LocalTyped
<1>10. ASSUME NEW c \in Invocation, AnswerLost(c) PROVE LocalTyped'
  BY <1>1, <1>10 DEF AnswerLost, Observe, LocalTyped
<1>11. ASSUME NEW c \in Invocation, LastInventory(c) PROVE LocalTyped'
  <2>1. Outcome(c, Shown(c)) \in {"observed", "rejected", "ambiguous"}
    BY DEF Outcome
  <2>2. Return(c, Outcome(c, Shown(c))) /\ UNCHANGED <<ask, wire>>
    BY <1>11 DEF LastInventory
  <2> QED
    BY <1>1, <2>1, <2>2, LocalTypes
<1>12. ASSUME NEW c \in Invocation, ReconcileFails(c) PROVE LocalTyped'
  <2>1. Return(c, "ambiguous") /\ UNCHANGED <<ask, wire>>
    BY <1>12 DEF ReconcileFails
  <2> QED
    BY <1>1, <2>1, LocalTypes
<1>13. ASSUME NEW c \in Invocation, Expire(c) PROVE LocalTyped'
  BY <1>1, <1>13 DEF Expire, LocalTyped
<1>14. ASSUME NEW c \in Invocation, Crash(c) PROVE LocalTyped'
  <2>1. End(c) /\ UNCHANGED verdict /\ UNCHANGED <<ask, wire>>
    BY <1>14 DEF Crash
  <2> QED
    BY <1>1, <2>1, LocalTypes
<1>15. ASSUME NEW c \in Invocation, Apply(c) PROVE LocalTyped'
  BY <1>1, <1>15 DEF Apply, LocalTyped
<1>16. ASSUME NEW c \in Invocation, DropWrite(c) PROVE LocalTyped'
  BY <1>1, <1>16 DEF DropWrite, LocalTyped
<1>17. CASE Other
  BY <1>1, <1>17 DEF Other, LocalTyped
<1>18. CASE UNCHANGED vars
  BY <1>1, <1>18 DEF vars, LocalTyped
<1> QED
  BY <1>2, <1>3, <1>4, <1>5, <1>6, <1>7, <1>8, <1>9, <1>10, <1>11, <1>12, <1>13, <1>14, <1>15,
     <1>16, <1>17, <1>18 DEF Next, Run, Provider

\* The steps that are not of the provider: it and what was asked stay as they are.
Local(c) ==
  \/ Start(c) \/ Refuse(c) \/ NextPage(c) \/ FirstInventory(c) \/ SecondInventory(c)
  \/ Bind(c) \/ Write(c) \/ Answered(c) \/ AnswerLost(c) \/ LastInventory(c)
  \/ ReconcileFails(c) \/ Expire(c) \/ Crash(c) \/ DropWrite(c)

\* Three kinds of step.
LEMMA Kinds ==
  [Next]_vars <=> \/ \E c \in Invocation : Local(c) \/ Apply(c)
                  \/ Other
                  \/ UNCHANGED vars
BY DEF Next, Run, Provider, Local

\* No run changes the provider itself, and none what it was asked for.
LEMMA LocalStep ==
  ASSUME NEW c \in Invocation, Local(c)
  PROVE UNCHANGED <<list, target, others, ask>>
BY DEF Local, Start, Refuse, NextPage, FirstInventory, SecondInventory, Bind, Write,
       Answered, AnswerLost, Observe, LastInventory, ReconcileFails, Expire, Crash, DropWrite,
       provider

\* The histories are kept per run.
LEMMA HistoryTypeStep == ASSUME TypeOK, [Next]_vars PROVE HistoryTyped'
<1>1. HistoryTyped
  BY Typed
<1>2. ASSUME NEW c \in Invocation, Local(c) PROVE HistoryTyped'
  <2>1. Goal(c) \in BOOLEAN /\ (target = Nil) \in BOOLEAN
    BY Truths
  <2>2. held' = held \/ held' = [held EXCEPT ![c] = Goal(c)]
    BY <1>2 DEF Local, Start, Refuse, NextPage, FirstInventory, SecondInventory, Bind, Write,
       Answered, AnswerLost, Observe, LastInventory, ReconcileFails, Expire, Crash, DropWrite,
       history
  <2>3. drift' = drift \/ drift' = [drift EXCEPT ![c] = FALSE]
    BY <1>2 DEF Local, Start, Refuse, NextPage, FirstInventory, SecondInventory, Bind, Write,
       Answered, AnswerLost, Observe, LastInventory, ReconcileFails, Expire, Crash, DropWrite,
       history
  <2>4. absent' = absent \/ absent' = [absent EXCEPT ![c] = (target = Nil)]
    BY <1>2 DEF Local, Start, Refuse, NextPage, FirstInventory, SecondInventory, Bind, Write,
       Answered, AnswerLost, Observe, LastInventory, ReconcileFails, Expire, Crash, DropWrite,
       BeginsInventory, history
  <2> QED
    BY <1>1, <2>1, <2>2, <2>3, <2>4 DEF HistoryTyped
<1>3. ASSUME Changed PROVE HistoryTyped'
  <2>1. /\ held' = [d \in Invocation |-> held[d] \/ (Active(d) /\ Goal(d)')]
        /\ drift' = [d \in Invocation |->
             drift[d] \/ (target' # target /\ (Active(d) \/ wire[d] = "inflight"))]
        /\ absent' = [d \in Invocation |-> absent[d] \/ (pc[d] \in Listing /\ target' = Nil)]
    BY <1>3 DEF Changed, Observed
  <2>2. \A d \in Invocation : (held[d] \/ (Active(d) /\ Goal(d)')) \in BOOLEAN
    OBVIOUS
  <2>3. \A d \in Invocation :
          /\ (drift[d] \/ (target' # target /\ (Active(d) \/ wire[d] = "inflight"))) \in BOOLEAN
          /\ (absent[d] \/ (pc[d] \in Listing /\ target' = Nil)) \in BOOLEAN
    OBVIOUS
  <2>4. held' \in [Invocation -> BOOLEAN]
    BY <2>1, <2>2
  <2>5. drift' \in [Invocation -> BOOLEAN] /\ absent' \in [Invocation -> BOOLEAN]
    BY <2>1, <2>3
  <2> QED
    BY <2>4, <2>5 DEF HistoryTyped
<1>4. CASE UNCHANGED vars
  BY <1>1, <1>4 DEF vars, HistoryTyped
<1>5. \A c \in Invocation : Apply(c) => Changed
  BY DEF Apply
<1>6. Other => Changed
  BY DEF Other
<1> QED
  BY <1>2, <1>3, <1>4, <1>5, <1>6, Kinds

\* The types are inductive: the list stays a list, and an inventory within its pages.
LEMMA TypeStep == ASSUME TypeOK, [Next]_vars PROVE TypeOK'
<1>1. ListTyped /\ others \in 0..MaxOther
  BY Typed
<1>2. ASSUME NEW c \in Invocation, Local(c) PROVE ListTyped' /\ others' \in 0..MaxOther
  BY <1>1, <1>2, LocalStep DEF ListTyped
<1>3. ASSUME NEW c \in Invocation, Apply(c) PROVE ListTyped' /\ others' \in 0..MaxOther
  <2>1. Edits /\ others' = others
    BY <1>3, Editing DEF Apply
  <2> QED
    BY <1>1, <2>1, EditStep
<1>4. ASSUME Other PROVE ListTyped' /\ others' \in 0..MaxOther
  <2>1. Edits /\ others < MaxOther /\ others' = others + 1
    BY <1>4, Editing DEF Other
  <2>2. others' \in 0..MaxOther
    BY <1>1, <2>1, VariableAssumption
  <2> QED
    BY <1>1, <2>1, <2>2, EditStep
<1>5. ASSUME UNCHANGED vars PROVE ListTyped' /\ others' \in 0..MaxOther
  BY <1>1, <1>5 DEF vars, ListTyped
<1>6. ListTyped' /\ others' \in 0..MaxOther
  BY <1>2, <1>3, <1>4, <1>5, Kinds
<1>7. LocalTyped' /\ HistoryTyped'
  BY LocalTypeStep, HistoryTypeStep
<1>8. ListTyped' /\ others' \in 0..MaxOther /\ LocalTyped' /\ HistoryTyped' => TypeOK'
  BY DEF TypeOK, ListTyped, LocalTyped, HistoryTyped
<1> QED
  BY <1>6, <1>7, <1>8

-----------------------------------------------------------------------------
(* The invariant is inductive.                                              *)

\* The initial states satisfy it.
LEMMA InitInv == Init => IInv
<1> SUFFICES ASSUME Init PROVE IInv
  OBVIOUS
<1>1. TypeOK
  <2>1. 0 \in 0..MaxOther /\ 1 \in 1..MaxPages
    BY VariableAssumption
  <2>2. ListTyped /\ others \in 0..MaxOther
    BY <2>1 DEF Init, ListTyped
  <2>3. LocalTyped /\ HistoryTyped
    BY <2>1 DEF Init, LocalTyped, HistoryTyped
  <2> QED
    BY <2>2, <2>3, Typed
<1>2. ASSUME NEW c \in Invocation PROVE RunInv(c)
  BY DEF Init, RunInv, StageOf, EvidenceOf, WindowOf, Listing, Preflight, Active
<1> QED
  BY <1>1, <1>2 DEF IInv

\* Nothing of run d, of Target or of what d was asked changes.
Still(d) ==
  /\ UNCHANGED <<target, ask>>
  /\ pc'[d] = pc[d] /\ found'[d] = found[d] /\ wire'[d] = wire[d] /\ acked'[d] = acked[d]
  /\ cause'[d] = cause[d] /\ verdict'[d] = verdict[d] /\ held'[d] = held[d]
  /\ drift'[d] = drift[d]

\* Then all that is known of it stays true.
LEMMA StillStep ==
  ASSUME NEW d \in Invocation, RunInv(d), Still(d)
  PROVE RunInv(d)'
<1>1. /\ Goal(d)' <=> Goal(d)
      /\ Precondition(d, target)' <=> Precondition(d, target)
      /\ Postcondition(d, found[d])' <=> Postcondition(d, found[d])
      /\ Active(d)' <=> Active(d)
  BY DEF Still, Goal, Precondition, Postcondition, Looks, Active
<1>2. StageOf(d)'
  BY DEF RunInv, StageOf, Still
<1>3. EvidenceOf(d)'
  BY <1>1 DEF RunInv, EvidenceOf, Still
<1>4. WindowOf(d)'
  BY <1>1 DEF RunInv, WindowOf, Still
<1> QED
  BY <1>2, <1>3, <1>4 DEF RunInv

\* A step of one run leaves the others as they are.
LEMMA OthersStill ==
  ASSUME TypeOK, NEW c \in Invocation, Local(c), NEW d \in Invocation, d # c
  PROVE Still(d)
<1>1. UNCHANGED <<target, ask>>
  BY LocalStep
<1>2. LocalTyped /\ HistoryTyped
  BY Typed
<1>3. pc'[d] = pc[d] /\ verdict'[d] = verdict[d]
  BY <1>2 DEF Local, LocalTyped, Start, Refuse, NextPage, FirstInventory, SecondInventory, Bind,
     Write, Answered, AnswerLost, Observe, LastInventory, ReconcileFails, Expire, Crash, DropWrite,
     Return, End, Advance, Goto
<1>4. found'[d] = found[d]
  BY <1>2 DEF Local, LocalTyped, Start, Refuse, NextPage, FirstInventory, SecondInventory, Bind,
     Write, Answered, AnswerLost, Observe, LastInventory, ReconcileFails, Expire, Crash, DropWrite,
     Return, End, Advance, Forget, local
<1>5. acked'[d] = acked[d] /\ cause'[d] = cause[d]
  BY <1>2 DEF Local, LocalTyped, Start, Refuse, NextPage, FirstInventory, SecondInventory, Bind,
     Write, Answered, AnswerLost, Observe, LastInventory, ReconcileFails, Expire, Crash, DropWrite,
     Return, End, Advance, local
<1>6. wire'[d] = wire[d]
  BY <1>2 DEF Local, LocalTyped, Start, Refuse, NextPage, FirstInventory, SecondInventory, Bind,
     Write, Answered, AnswerLost, Observe, LastInventory, ReconcileFails, Expire, Crash, DropWrite
<1>7. held'[d] = held[d] /\ drift'[d] = drift[d]
  BY <1>2 DEF Local, HistoryTyped, Start, Refuse, NextPage, FirstInventory, SecondInventory, Bind,
     Write, Answered, AnswerLost, Observe, LastInventory, ReconcileFails, Expire, Crash, DropWrite,
     history
<1> QED
  BY <1>1, <1>3, <1>4, <1>5, <1>6, <1>7 DEF Still

\* A run that ends holds nothing any more; its request may still be carried out.
LEMMA EndStep ==
  ASSUME TypeOK, NEW c \in Invocation, RunInv(c), End(c),
         UNCHANGED <<target, ask, wire, held>>,
         UNCHANGED drift \/ wire[c] = "unsent"
  PROVE RunInv(c)'
<1>1. LocalTyped
  BY Typed
<1>2. pc'[c] = "done" /\ found'[c] = Nil /\ acked'[c] = FALSE /\ cause'[c] = "none"
  BY <1>1 DEF End, Goto, Forget, LocalTyped
<1>3. wire'[c] = wire[c] /\ Precondition(c, target)' = Precondition(c, target)
  BY DEF Precondition, Looks
<1>4. StageOf(c)'
  BY <1>2 DEF StageOf, Preflight, Listing
<1>5. EvidenceOf(c)'
  BY <1>2 DEF EvidenceOf, Active
<1>6. WindowOf(c)'
  BY <1>2, <1>3 DEF RunInv, WindowOf
<1> QED
  BY <1>4, <1>5, <1>6 DEF RunInv

\* What a page and the pages before it show of Target: it as it is now, or what they
\* had shown.
LEMMA ShownIs == ASSUME NEW c \in Invocation PROVE Shown(c) \in {target, found[c]}
BY DEF Shown

\* A step of run c keeps what is known of c.
LEMMA OwnStep ==
  ASSUME TypeOK, NEW c \in Invocation, RunInv(c), Local(c)
  PROVE RunInv(c)'
<1>1. LocalTyped /\ HistoryTyped
  BY Typed
<1>2. UNCHANGED <<target, ask>>
  BY LocalStep
<1>3. /\ Goal(c)' <=> Goal(c)
      /\ Precondition(c, target)' <=> Precondition(c, target)
  BY <1>2 DEF Goal, Postcondition, Precondition, Looks
<1>4. CASE Start(c)
  <2>1. pc[c] = "idle" /\ wire[c] = "unsent" /\ found[c] = Nil /\ verdict[c] = "none"
    BY <1>4 DEF Start, RunInv, StageOf, Listing
  <2>2. /\ pc'[c] = "first" /\ wire'[c] = wire[c] /\ found'[c] = Nil /\ verdict'[c] = verdict[c]
        /\ acked'[c] = acked[c] /\ cause'[c] = cause[c]
    BY <1>1, <1>4, <2>1 DEF Start, Goto, LocalTyped, local
  <2>3. held'[c] = Goal(c)
    BY <1>1, <1>4 DEF Start, HistoryTyped
  <2>4. StageOf(c)'
    BY <2>1, <2>2 DEF RunInv, StageOf, Preflight, Listing
  <2>5. EvidenceOf(c)'
    BY <1>3, <2>1, <2>2, <2>3 DEF EvidenceOf
  <2>6. WindowOf(c)'
    BY <2>1, <2>2 DEF WindowOf
  <2> QED
    BY <2>4, <2>5, <2>6 DEF RunInv
<1>5. CASE Refuse(c)
  <2>1. End(c) /\ UNCHANGED <<target, ask, wire, held, drift>>
    BY <1>5 DEF Refuse, Return, provider, history
  <2> QED
    BY <2>1, EndStep
<1>6. CASE NextPage(c)
  <2>1. /\ pc[c] \in Listing /\ found'[c] = Shown(c)
        /\ UNCHANGED <<pc, wire, acked, cause, verdict, held, drift>>
    BY <1>1, <1>6 DEF NextPage, Reads, LocalTyped, history
  <2>2. Shown(c) \in {target, found[c]}
    BY ShownIs
  <2>3. StageOf(c)'
    BY <2>1 DEF RunInv, StageOf
  <2>4. Postcondition(c, found[c])' <=> Postcondition(c, Shown(c))
    BY <1>2, <2>1 DEF Postcondition, Looks
  <2>5. EvidenceOf(c)'
    <3>1. Active(c)' <=> Active(c)
      BY <2>1 DEF Active
    <3>2. Active(c)
      BY <2>1 DEF Active, Listing
    <3>3. Shown(c) = target => Postcondition(c, Shown(c)) = Goal(c)
      BY DEF Goal
    <3>4. Shown(c) # Nil /\ Postcondition(c, Shown(c)) => held[c]
      BY <2>2, <3>2, <3>3 DEF RunInv, EvidenceOf
    <3> QED
      BY <1>2, <1>3, <2>1, <2>4, <3>1, <3>4 DEF RunInv, EvidenceOf
  <2>6. WindowOf(c)'
    BY <1>2, <1>3, <2>1, <2>2 DEF RunInv, WindowOf
  <2> QED
    BY <2>3, <2>5, <2>6 DEF RunInv
<1>7. CASE FirstInventory(c)
  <2>1. pc[c] = "first" /\ wire[c] = "unsent" /\ UNCHANGED <<wire, held>>
    BY <1>7 DEF FirstInventory, RunInv, StageOf, Preflight
  <2>2. CASE End(c)
    BY <1>2, <2>1, <2>2, EndStep
  <2>3. CASE Advance(c, "second")
    <3>1. pc'[c] = "second" /\ found'[c] = Nil /\ UNCHANGED <<acked, cause, verdict>>
      BY <1>1, <2>3 DEF Advance, Goto, Forget, LocalTyped
    <3>2. StageOf(c)'
      BY <2>1, <3>1 DEF RunInv, StageOf, Preflight, Listing
    <3>3. EvidenceOf(c)'
      BY <1>3, <2>1, <3>1 DEF RunInv, EvidenceOf, Active
    <3>4. WindowOf(c)'
      BY <2>1, <3>1 DEF WindowOf
    <3> QED
      BY <3>2, <3>3, <3>4 DEF RunInv
  <2> QED
    BY <1>7, <2>2, <2>3 DEF FirstInventory, Return
<1>8. CASE SecondInventory(c)
  <2>1. /\ pc[c] = "second" /\ wire[c] = "unsent" /\ UNCHANGED <<wire, held, drift>>
    BY <1>8 DEF SecondInventory, RunInv, StageOf, Preflight, history
  <2>2. CASE End(c)
    BY <1>2, <2>1, <2>2, EndStep
  <2>3. CASE Precondition(c, Shown(c)) /\ Advance(c, "bind")
    <3>1. pc'[c] = "bind" /\ found'[c] = Nil /\ UNCHANGED <<acked, cause, verdict>>
      BY <1>1, <2>3 DEF Advance, Goto, Forget, LocalTyped
    <3>2. StageOf(c)'
      BY <2>1, <3>1 DEF RunInv, StageOf, Preflight, Listing
    <3>3. EvidenceOf(c)'
      BY <1>3, <2>1, <3>1 DEF RunInv, EvidenceOf, Active
    <3>4. ask[c].expect = Nil \/ Shown(c) # Nil
      BY <2>3 DEF Precondition, Looks
    <3>5. ask[c].expect = Nil \/ Precondition(c, target) \/ drift[c]
      <4>1. CASE ask[c].expect = Nil
        BY <4>1
      <4>2. CASE Shown(c) = target
        BY <2>3, <4>2
      <4>3. CASE Shown(c) = found[c] /\ Shown(c) # Nil
        <5>1. found[c] = target \/ drift[c]
          BY <2>1, <4>3 DEF RunInv, WindowOf
        <5> QED
          BY <2>3, <4>3, <5>1
      <4> QED
        BY <3>4, <4>1, <4>2, <4>3, ShownIs
    <3>6. WindowOf(c)'
      BY <1>2, <1>3, <2>1, <3>1, <3>5 DEF WindowOf
    <3> QED
      BY <3>2, <3>3, <3>6 DEF RunInv
  <2> QED
    BY <1>8, <2>2, <2>3 DEF SecondInventory, Return
<1>9. CASE Bind(c)
  <2>1. pc[c] = "bind" /\ wire[c] = "unsent" /\ UNCHANGED <<wire, held, drift>>
    BY <1>9 DEF Bind, RunInv, StageOf, Preflight, history
  <2>2. pc'[c] = "write" /\ found'[c] = Nil /\ UNCHANGED <<acked, cause, verdict>>
    BY <1>1, <1>9 DEF Bind, Advance, Goto, Forget, LocalTyped
  <2>3. StageOf(c)'
    BY <2>1, <2>2 DEF RunInv, StageOf, Preflight, Listing
  <2>4. EvidenceOf(c)'
    BY <1>3, <2>1, <2>2 DEF RunInv, EvidenceOf, Active
  <2>5. WindowOf(c)'
    BY <1>2, <1>3, <2>1, <2>2 DEF RunInv, WindowOf
  <2> QED
    BY <2>3, <2>4, <2>5 DEF RunInv
<1>10. CASE Write(c)
  <2>1. pc[c] = "write" /\ wire[c] = "unsent" /\ UNCHANGED drift
    BY <1>10 DEF Write, RunInv, StageOf, Preflight
  <2>2. /\ pc'[c] = "reply" /\ found'[c] = Nil /\ wire'[c] \in {"inflight", "lost"}
        /\ UNCHANGED <<acked, cause, verdict>>
    BY <1>1, <1>10 DEF Write, Advance, Goto, Forget, LocalTyped
  <2>3. held'[c] = Goal(c)
    BY <1>1, <1>10 DEF Write, HistoryTyped
  <2>4. StageOf(c)'
    BY <2>1, <2>2 DEF RunInv, StageOf, Preflight, Listing
  <2>5. EvidenceOf(c)'
    BY <1>3, <2>2, <2>3 DEF EvidenceOf
  <2>6. WindowOf(c)'
    BY <1>2, <1>3, <2>1, <2>2 DEF RunInv, WindowOf
  <2> QED
    BY <2>4, <2>5, <2>6 DEF RunInv
<1>11. CASE Answered(c) \/ AnswerLost(c)
  <2>1. PICK ack \in BOOLEAN, why \in {"none", "status"} :
          /\ Observe(c, ack, why)
          /\ ack => wire[c] = "applied"
          /\ why = "status" => wire[c] = "refused"
    BY <1>11 DEF Answered, AnswerLost
  <2>2. pc[c] = "reply" /\ found[c] = Nil
    BY <1>11 DEF Answered, AnswerLost, RunInv, StageOf, Listing
  <2>3. /\ pc'[c] = "after" /\ acked'[c] = ack /\ cause'[c] = why
        /\ UNCHANGED <<found, wire, verdict, held, drift>>
    BY <1>1, <2>1 DEF Observe, Goto, LocalTyped
  <2>4. StageOf(c)'
    BY <2>1, <2>2, <2>3 DEF RunInv, StageOf, Preflight, Listing
  <2>5. EvidenceOf(c)'
    BY <1>2, <1>3, <2>2, <2>3 DEF RunInv, EvidenceOf, Active
  <2>6. WindowOf(c)'
    BY <1>2, <1>3, <2>2, <2>3 DEF RunInv, WindowOf
  <2> QED
    BY <2>4, <2>5, <2>6 DEF RunInv
<1>12. CASE LastInventory(c) \/ ReconcileFails(c) \/ Crash(c)
  <2>1. End(c) /\ UNCHANGED <<target, ask, wire, held, drift>>
    BY <1>12 DEF LastInventory, ReconcileFails, Crash, Return, provider, history
  <2> QED
    BY <2>1, EndStep
<1>13. CASE Expire(c)
  <2>1. Still(c)
    BY <1>2, <1>13 DEF Expire, Still, local, history
  <2> QED
    BY <2>1, StillStep
<1>14. CASE DropWrite(c)
  <2>1. /\ wire[c] = "inflight" /\ wire'[c] \in {"refused", "lost"}
        /\ UNCHANGED <<pc, found, acked, cause, verdict, held, drift>>
    BY <1>1, <1>14 DEF DropWrite, LocalTyped, local, history
  <2>2. Postcondition(c, found[c])' <=> Postcondition(c, found[c])
    BY <1>2, <2>1 DEF Postcondition, Looks
  <2>3. StageOf(c)'
    BY <2>1 DEF RunInv, StageOf
  <2>4. EvidenceOf(c)'
    BY <1>2, <1>3, <2>1, <2>2 DEF RunInv, EvidenceOf, Active
  <2>5. WindowOf(c)'
    BY <1>2, <1>3, <2>1 DEF RunInv, WindowOf
  <2> QED
    BY <2>3, <2>4, <2>5 DEF RunInv
<1> QED
  BY <1>4, <1>5, <1>6, <1>7, <1>8, <1>9, <1>10, <1>11, <1>12, <1>13, <1>14 DEF Local

\* A change at the provider, by a request of run d itself or by anybody: what d holds it
\* to be is noted as changed, and what d wants is noted as true.
LEMMA ChangedStep ==
  ASSUME TypeOK, NEW d \in Invocation, RunInv(d), Changed,
         UNCHANGED <<ask, pc, found, acked, cause, verdict>>,
         \/ wire'[d] = wire[d]
         \/ wire[d] = "inflight" /\ wire'[d] = "applied" /\ (ask[d].delete => target' = Nil)
  PROVE RunInv(d)'
<1>1. held'[d] <=> held[d] \/ (Active(d) /\ Goal(d)')
  BY DEF Changed, Observed
<1>2. drift'[d] <=> drift[d] \/ (target' # target /\ (Active(d) \/ wire[d] = "inflight"))
  BY DEF Changed
<1>3. Postcondition(d, found[d])' <=> Postcondition(d, found[d])
  BY DEF Postcondition, Looks
<1>4. target' = target => (Precondition(d, target)' <=> Precondition(d, target))
  BY DEF Precondition, Looks
<1>5. StageOf(d)'
  BY DEF RunInv, StageOf
<1>6. EvidenceOf(d)'
  <2>1. Active(d)' <=> Active(d)
    BY DEF Active
  <2>2. pc[d] \in {"reply", "after"} => Active(d)
    BY DEF Active
  <2>3. ask[d].delete /\ target' = Nil => Goal(d)'
    BY DEF Goal, Postcondition
  <2> QED
    BY <1>1, <1>3, <2>1, <2>2, <2>3 DEF RunInv, EvidenceOf
<1>7. WindowOf(d)'
  <2>1. pc[d] \in {"second", "bind", "write"} => Active(d)
    BY DEF Active
  <2> QED
    BY <1>2, <1>4, <2>1 DEF RunInv, WindowOf
<1> QED
  BY <1>5, <1>6, <1>7 DEF RunInv

\* Every step keeps everything that is known of every run.
LEMMA InvStep == IInv /\ [Next]_vars => IInv'
<1> SUFFICES ASSUME IInv, [Next]_vars PROVE IInv'
  OBVIOUS
<1>1. TypeOK /\ TypeOK'
  BY TypeStep DEF IInv
<1>2. SUFFICES ASSUME NEW d \in Invocation PROVE RunInv(d)'
  BY <1>1 DEF IInv
<1>3. RunInv(d)
  BY DEF IInv
<1>4. ASSUME NEW c \in Invocation, Local(c) PROVE RunInv(d)'
  <2>1. CASE c = d
    BY <1>1, <1>3, <1>4, <2>1, OwnStep
  <2>2. CASE c # d
    BY <1>1, <1>3, <1>4, <2>2, OthersStill, StillStep
  <2> QED
    BY <2>1, <2>2
<1>5. ASSUME NEW c \in Invocation, Apply(c) PROVE RunInv(d)'
  <2>1. Changed /\ UNCHANGED <<ask, pc, found, acked, cause, verdict>>
    BY <1>5 DEF Apply, local
  <2>2. wire[c] = "inflight" /\ wire' = [wire EXCEPT ![c] = "applied"]
    BY <1>5 DEF Apply
  <2>3. ask[c].delete => target' = Nil
    BY <1>5 DEF Apply, Delete
  <2>4. \/ wire'[d] = wire[d]
        \/ wire[d] = "inflight" /\ wire'[d] = "applied" /\ (ask[d].delete => target' = Nil)
    BY <1>1, <2>2, <2>3, Typed DEF LocalTyped
  <2> QED
    BY <1>1, <1>3, <2>1, <2>4, ChangedStep
<1>6. CASE Other
  <2>1. Changed /\ UNCHANGED <<ask, pc, found, acked, cause, verdict>> /\ wire'[d] = wire[d]
    BY <1>6 DEF Other, local
  <2> QED
    BY <1>1, <1>3, <2>1, ChangedStep
<1>7. CASE UNCHANGED vars
  <2>1. Still(d)
    BY <1>7 DEF vars, Still
  <2> QED
    BY <1>3, <2>1, StillStep
<1> QED
  BY <1>4, <1>5, <1>6, <1>7, Kinds

\* The strengthened invariant holds in every reachable state.
THEOREM Invariance == Spec => []IInv
BY InitInv, InvStep, PTL DEF Spec

\* Every variable keeps its type: in particular what the provider lists is a list, shows
\* Target exactly when it has a content, and no inventory goes past its last page.
THEOREM TypeCorrect == Spec => []TypeOK
BY Invariance, PTL DEF IInv

\* A variable is never overwritten or deleted unseen, for any page size and any changes
\* between the pages: it is as the caller expected, or changed after the second inventory
\* of c began.
THEOREM Replaces == Spec => ReplacesTheExpected
<1> DEFINE Expected(c) ==
      wire[c] = "inflight" /\ wire'[c] = "applied" => Precondition(c, target) \/ drift[c]
<1>1. ASSUME IInv, [Next]_vars, NEW c \in Invocation, wire[c] = "inflight", wire'[c] = "applied"
      PROVE Precondition(c, target) \/ drift[c]
  <2>1. TypeOK /\ LocalTyped /\ RunInv(c)
    BY <1>1, Typed DEF IInv
  <2>2. CASE ask[c].expect # Nil
    BY <1>1, <2>1, <2>2 DEF RunInv, WindowOf
  <2>3. CASE ask[c].expect = Nil
    <3>1. ~ask[c].delete
      BY <2>1, <2>3, Asked
    <3>2. ASSUME NEW d \in Invocation, Local(d) PROVE FALSE
      <4>1. wire'[c] = wire[c] \/ wire'[c] \in {"inflight", "lost", "refused"}
        BY <2>1, <3>2 DEF Local, LocalTyped, Start, Refuse, NextPage, FirstInventory,
           SecondInventory, Bind, Write, Answered, AnswerLost, Observe, LastInventory,
           ReconcileFails, Expire, Crash, DropWrite
      <4> QED
        BY <1>1, <4>1
    <3>3. Apply(c)
      <4>1. wire' # wire
        BY <1>1
      <4>2. PICK d \in Invocation : Apply(d)
        BY <1>1, <3>2, <4>1, Kinds DEF Other, vars
      <4>3. wire' = [wire EXCEPT ![d] = "applied"]
        BY <4>2 DEF Apply
      <4>4. c = d
        BY <1>1, <2>1, <4>3 DEF LocalTyped
      <4> QED
        BY <4>2, <4>4
    <3>4. target = Nil
      BY <2>3, <3>1, <3>3 DEF Apply, Create
    <3> QED
      BY <2>3, <3>4 DEF Precondition
  <2> QED
    BY <2>2, <2>3
<1>2. IInv /\ [Next]_vars => \A c \in Invocation : Expected(c)
  BY <1>1
<1>3. IInv /\ [Next]_vars => [\A c \in Invocation : Expected(c)]_vars
  BY <1>2
<1> QED
  BY <1>3, Invariance, PTL DEF Spec, ReplacesTheExpected

-----------------------------------------------------------------------------
(* Each step is a step of GuardedWrite, or leaves its variables alone.      *)

AbstractPhase == [c \in Invocation |-> Phase(c)]
AbstractEffect == [c \in Invocation |-> Effect(c)]
AbstractVerdict == [c \in Invocation |-> Claim(c)]

\* Nothing the caller or the provider could notice.
Silent ==
  /\ UNCHANGED <<wire, held, verdict>>
  /\ \A d \in Invocation : pc'[d] = "idle" <=> pc[d] = "idle"

\* Such a step changes nothing that GuardedWrite speaks of.
LEMMA SilentStep == ASSUME Silent PROVE UNCHANGED GW!vars
<1>1. \A d \in Invocation : Phase(d)' = Phase(d) /\ Effect(d)' = Effect(d) /\ Claim(d)' = Claim(d)
  BY DEF Silent, Phase, Effect, Claim
<1>2. UNCHANGED <<AbstractPhase, AbstractEffect, AbstractVerdict, held>>
  BY <1>1 DEF AbstractPhase, AbstractEffect, AbstractVerdict, Silent
<1> QED
  BY <1>2 DEF GW!vars, AbstractPhase, AbstractEffect, AbstractVerdict

\* A run says v to its caller, and does nothing else.
Says(c, v) ==
  /\ UNCHANGED <<wire, held>>
  /\ pc[c] # "idle"
  /\ verdict[c] = "none"
  /\ pc' = [pc EXCEPT ![c] = "done"]
  /\ verdict' = [verdict EXCEPT ![c] = v]

ClaimOf(v) == CASE v = "unchanged" -> "noop" [] v = "observed" -> "done" [] OTHER -> v

\* In GuardedWrite's variables that changes the verdict of one run.
LEMMA SaysStep ==
  ASSUME TypeOK, NEW c \in Invocation, NEW v, Says(c, v)
  PROVE /\ UNCHANGED <<AbstractPhase, AbstractEffect, held>>
        /\ AbstractVerdict' = [AbstractVerdict EXCEPT ![c] = ClaimOf(v)]
        /\ Claim(c) = "none"
<1>1. \A d \in Invocation : Phase(d)' = Phase(d) /\ Effect(d)' = Effect(d)
  BY DEF Says, Phase, Effect, TypeOK
<1>2. \A d \in Invocation : Claim(d)' = IF d = c THEN ClaimOf(v) ELSE Claim(d)
  BY DEF Says, Claim, ClaimOf, TypeOK
<1>3. Claim(c) = "none"
  BY DEF Says, Claim
<1> QED
  BY <1>1, <1>2, <1>3 DEF AbstractPhase, AbstractEffect, AbstractVerdict, Says

\* An answer before a request is sent is GuardedWrite's Decline, if unchanged has evidence.
LEMMA DeclineStep ==
  ASSUME TypeOK, NEW c \in Invocation, NEW v \in {"refused", "unchanged"},
         Says(c, v), wire[c] = "unsent", v = "unchanged" => held[c]
  PROVE GW!Decline(c)
<1>1. Phase(c) = "preflight"
  BY DEF Phase, Says
<1>2. ClaimOf(v) = IF v = "unchanged" THEN "noop" ELSE "refused"
  BY DEF ClaimOf
<1>3. /\ UNCHANGED <<AbstractPhase, AbstractEffect, held>>
      /\ AbstractVerdict' = [AbstractVerdict EXCEPT ![c] = ClaimOf(v)]
      /\ Claim(c) = "none"
  BY SaysStep
<1> QED
  BY <1>1, <1>2, <1>3 DEF GW!Decline, AbstractPhase, AbstractEffect, AbstractVerdict

\* An answer after a request was sent is GuardedWrite's Conclude, if observed has
\* evidence and rejected a refused request.
LEMMA ConcludeStep ==
  ASSUME TypeOK, NEW c \in Invocation, NEW v, Says(c, v), wire[c] # "unsent",
         \/ v = "observed" /\ held[c]
         \/ v = "rejected" /\ wire[c] = "refused"
         \/ v = "ambiguous"
  PROVE GW!Conclude(c)
<1>1. Phase(c) = "attempted" /\ (v = "rejected" => Effect(c) = "dropped")
  BY DEF Phase, Says, Effect
<1>2. /\ v = "observed" => ClaimOf(v) = "done"
      /\ v \in {"rejected", "ambiguous"} => ClaimOf(v) = v
  BY DEF ClaimOf
<1>3. /\ UNCHANGED <<AbstractPhase, AbstractEffect, held>>
      /\ AbstractVerdict' = [AbstractVerdict EXCEPT ![c] = ClaimOf(v)]
      /\ Claim(c) = "none"
  BY SaysStep
<1> QED
  BY <1>1, <1>2, <1>3 DEF GW!Conclude, AbstractPhase, AbstractEffect, AbstractVerdict

\* A change at the provider is noted by every run under way or by none.
LEMMA ObserveStep == ASSUME TypeOK, Changed \/ UNCHANGED held PROVE GW!Observe
<1>1. HistoryTyped
  BY Typed
<1>2. CASE Changed
  <2>1. held' = [d \in Invocation |-> held[d] \/ (Active(d) /\ Goal(d)')]
    BY <1>2 DEF Changed, Observed
  <2>2. \A d \in Invocation : (held[d] \/ (Active(d) /\ Goal(d)')) \in BOOLEAN
    OBVIOUS
  <2>3. held' \in [Invocation -> BOOLEAN]
    BY <2>1, <2>2
  <2>4. \A d \in Invocation : held[d] => held'[d]
    BY <2>1
  <2> QED
    BY <2>3, <2>4 DEF GW!Observe
<1>3. CASE UNCHANGED held
  BY <1>1, <1>3 DEF GW!Observe, HistoryTyped
<1> QED
  BY <1>2, <1>3

\* Reads, waiting and dying show nothing outside; the answers, the request and the
\* changes at the provider are the steps of GuardedWrite.
LEMMA RefinementStep == IInv /\ [Next]_vars => [GW!Next]_(GW!vars)
<1> SUFFICES ASSUME IInv, [Next]_vars PROVE [GW!Next]_(GW!vars)
  OBVIOUS
<1>1. TypeOK /\ LocalTyped /\ HistoryTyped /\ \A c \in Invocation : RunInv(c)
  BY Typed DEF IInv
<1>2. ASSUME NEW c \in Invocation,
             NextPage(c) \/ Bind(c) \/ Answered(c) \/ AnswerLost(c) \/ Expire(c) \/ Crash(c)
      PROVE UNCHANGED GW!vars
  <2>1. UNCHANGED <<wire, held, verdict>>
    BY <1>2 DEF NextPage, Bind, Answered, AnswerLost, Observe, Expire, Crash, Advance, local, history
  <2>2. \A d \in Invocation : pc'[d] = "idle" <=> pc[d] = "idle"
    BY <1>1, <1>2 DEF LocalTyped, NextPage, Bind, Answered, AnswerLost, Observe, Expire, Crash, End,
       Advance, Goto, Active
  <2> QED
    BY <2>1, <2>2, SilentStep DEF Silent
<1>3. CASE UNCHANGED vars
  <2>1. Silent
    BY <1>3 DEF Silent, vars
  <2> QED
    BY <2>1, SilentStep
<1>4. ASSUME NEW c \in Invocation, Refuse(c) PROVE GW!Decline(c)
  <2>1. Says(c, "refused") /\ wire[c] = "unsent"
    BY <1>1, <1>4 DEF Refuse, Says, Return, End, Goto, Preflight, RunInv, StageOf, history
  <2> QED
    BY <1>1, <2>1, DeclineStep
<1>5. ASSUME NEW c \in Invocation, FirstInventory(c) PROVE UNCHANGED GW!vars \/ GW!Decline(c)
  <2>1. /\ wire[c] = "unsent" /\ verdict[c] = "none" /\ pc[c] = "first"
        /\ UNCHANGED <<wire, held>>
    BY <1>1, <1>5 DEF FirstInventory, RunInv, StageOf, Preflight
  <2>2. CASE Return(c, "refused")
    <3>1. Says(c, "refused")
      BY <2>1, <2>2 DEF Says, Return, End, Goto
    <3> QED
      BY <1>1, <2>1, <3>1, DeclineStep
  <2>3. CASE ~ask[c].delete /\ Looks(Shown(c), ask[c].want) /\ Return(c, "unchanged")
    <3>1. Postcondition(c, Shown(c)) /\ Shown(c) # Nil
      BY <2>3 DEF Postcondition, Looks
    <3>2. Says(c, "unchanged")
      BY <2>1, <2>3 DEF Says, Return, End, Goto
    <3>3. held[c]
      <4>1. Shown(c) = target => held[c]
        BY <1>1, <2>1, <3>1 DEF RunInv, EvidenceOf, Goal, Active
      <4>2. Shown(c) = found[c] => held[c]
        BY <1>1, <3>1 DEF RunInv, EvidenceOf
      <4> QED
        BY <4>1, <4>2, ShownIs
    <3> QED
      BY <1>1, <2>1, <3>2, <3>3, DeclineStep
  <2>4. CASE Advance(c, "second")
    <3>1. Silent
      BY <1>1, <2>1, <2>4 DEF Silent, Advance, Goto, LocalTyped
    <3> QED
      BY <3>1, SilentStep
  <2> QED
    BY <1>5, <2>2, <2>3, <2>4 DEF FirstInventory
<1>6. ASSUME NEW c \in Invocation, SecondInventory(c) PROVE UNCHANGED GW!vars \/ GW!Decline(c)
  <2>1. /\ wire[c] = "unsent" /\ verdict[c] = "none" /\ pc[c] = "second"
        /\ UNCHANGED <<wire, held>>
    BY <1>1, <1>6 DEF SecondInventory, RunInv, StageOf, Preflight, history
  <2>2. CASE Return(c, "refused")
    <3>1. Says(c, "refused")
      BY <2>1, <2>2 DEF Says, Return, End, Goto
    <3> QED
      BY <1>1, <2>1, <3>1, DeclineStep
  <2>3. CASE Advance(c, "bind")
    <3>1. Silent
      BY <1>1, <2>1, <2>3 DEF Silent, Advance, Goto, LocalTyped
    <3> QED
      BY <3>1, SilentStep
  <2> QED
    BY <1>6, <2>2, <2>3 DEF SecondInventory
<1>7. ASSUME NEW c \in Invocation, LastInventory(c) PROVE GW!Conclude(c)
  <2>1. /\ wire[c] # "unsent" /\ verdict[c] = "none" /\ pc[c] = "after"
        /\ UNCHANGED <<wire, held>>
    BY <1>1, <1>7 DEF LastInventory, RunInv, StageOf, history
  <2> DEFINE v == Outcome(c, Shown(c))
  <2>2. Says(c, v)
    BY <1>7, <2>1 DEF LastInventory, Says, Return, End, Goto
  <2>3. v = "rejected" => wire[c] = "refused"
    BY <1>1 DEF Outcome, RunInv, StageOf
  <2>4. v = "observed" => held[c]
    <3>1. SUFFICES ASSUME acked[c], Postcondition(c, Shown(c)) PROVE held[c]
      BY DEF Outcome
    <3>2. CASE ask[c].delete
      BY <1>1, <2>1, <3>1, <3>2 DEF RunInv, StageOf, EvidenceOf
    <3>3. CASE ~ask[c].delete
      <4>1. Shown(c) # Nil
        BY <3>1, <3>3 DEF Postcondition, Looks
      <4>2. Shown(c) = target => held[c]
        BY <1>1, <2>1, <3>1 DEF RunInv, EvidenceOf, Goal, Active
      <4>3. Shown(c) = found[c] => held[c]
        BY <1>1, <3>1, <4>1 DEF RunInv, EvidenceOf
      <4> QED
        BY <4>2, <4>3, ShownIs
    <3> QED
      BY <3>2, <3>3
  <2>5. v \in {"observed", "rejected", "ambiguous"}
    BY DEF Outcome
  <2> HIDE DEF v
  <2> QED
    BY <1>1, <2>1, <2>2, <2>3, <2>4, <2>5, ConcludeStep
<1>8. ASSUME NEW c \in Invocation, ReconcileFails(c) PROVE GW!Conclude(c)
  <2>1. Says(c, "ambiguous") /\ wire[c] # "unsent"
    BY <1>1, <1>8 DEF ReconcileFails, Says, Return, End, Goto, RunInv, StageOf, history
  <2> QED
    BY <1>1, <2>1, ConcludeStep
<1>9. ASSUME NEW c \in Invocation, Start(c) PROVE GW!Begin(c)
  <2>1. pc[c] = "idle" /\ wire[c] = "unsent" /\ pc' = [pc EXCEPT ![c] = "first"]
        /\ UNCHANGED <<wire, verdict>>
    BY <1>1, <1>9 DEF Start, Goto, RunInv, StageOf
  <2>2. /\ AbstractPhase' = [AbstractPhase EXCEPT ![c] = "preflight"]
        /\ AbstractPhase[c] = "idle"
    BY <1>1, <2>1 DEF AbstractPhase, Phase, LocalTyped
  <2>3. UNCHANGED <<AbstractEffect, AbstractVerdict>>
    BY <2>1 DEF AbstractEffect, AbstractVerdict, Effect, Claim
  <2>4. \E h \in BOOLEAN : held' = [held EXCEPT ![c] = h]
    <3>1. Goal(c) \in BOOLEAN /\ held' = [held EXCEPT ![c] = Goal(c)]
      BY <1>1, <1>9, Truths DEF Start
    <3> QED
      BY <3>1
  <2> QED
    BY <2>2, <2>3, <2>4 DEF GW!Begin, AbstractPhase, AbstractEffect, AbstractVerdict
<1>10. ASSUME NEW c \in Invocation, Write(c) PROVE GW!Attempt(c)
  <2>1. wire[c] = "unsent" /\ verdict[c] = "none" /\ pc[c] = "write" /\ UNCHANGED verdict
    BY <1>1, <1>10 DEF Write, Advance, RunInv, StageOf, Preflight
  <2>2. PICK w \in {"inflight", "lost"} :
          wire' = [wire EXCEPT ![c] = w] /\ pc' = [pc EXCEPT ![c] = "reply"]
    BY <1>10 DEF Write, Advance, Goto
  <2>3. /\ AbstractPhase' = [AbstractPhase EXCEPT ![c] = "attempted"]
        /\ AbstractPhase[c] = "preflight"
    BY <1>1, <2>1, <2>2 DEF AbstractPhase, Phase, LocalTyped
  <2>4. AbstractEffect' = [AbstractEffect EXCEPT ![c] = IF w = "lost" THEN "dropped" ELSE "inflight"]
    BY <1>1, <2>1, <2>2 DEF AbstractEffect, Effect, LocalTyped
  <2>5. AbstractVerdict' = AbstractVerdict /\ AbstractVerdict[c] = "none"
    BY <2>1 DEF AbstractVerdict, Claim
  <2>6. \E h \in BOOLEAN : held' = [held EXCEPT ![c] = h]
    <3>1. Goal(c) \in BOOLEAN /\ held' = [held EXCEPT ![c] = Goal(c)]
      BY <1>1, <1>10, Truths DEF Write
    <3> QED
      BY <3>1
  <2> QED
    BY <2>3, <2>4, <2>5, <2>6 DEF GW!Attempt, AbstractPhase, AbstractEffect, AbstractVerdict
<1>11. ASSUME NEW c \in Invocation, Provider(c) PROVE GW!Settle(c)
  <2>1. PICK w \in {"applied", "refused", "lost"} :
          wire[c] = "inflight" /\ wire' = [wire EXCEPT ![c] = w] /\ UNCHANGED <<pc, verdict>>
    BY <1>11 DEF Provider, Apply, DropWrite
  <2>2. GW!Observe
    BY <1>1, <1>11, ObserveStep DEF Provider, Apply, DropWrite, history
  <2>3. UNCHANGED <<AbstractPhase, AbstractVerdict>>
    BY <1>1, <2>1 DEF AbstractPhase, AbstractVerdict, Phase, Claim, LocalTyped
  <2>4. /\ AbstractEffect[c] = "inflight"
        /\ AbstractEffect' = [AbstractEffect EXCEPT ![c] = IF w = "applied" THEN w ELSE "dropped"]
    BY <1>1, <2>1 DEF AbstractEffect, Effect, LocalTyped
  <2> QED
    BY <2>2, <2>3, <2>4 DEF GW!Settle, AbstractPhase, AbstractEffect, AbstractVerdict
<1>12. CASE Other
  <2>1. UNCHANGED <<AbstractPhase, AbstractEffect, AbstractVerdict>>
    BY <1>12 DEF Other, AbstractPhase, AbstractEffect, AbstractVerdict, Phase, Effect, Claim
  <2>2. GW!Observe
    BY <1>1, <1>12, ObserveStep DEF Other
  <2> QED
    BY <2>1, <2>2 DEF GW!Next, GW!World, AbstractPhase, AbstractEffect, AbstractVerdict
<1> QED
  BY <1>2, <1>3, <1>4, <1>5, <1>6, <1>7, <1>8, <1>9, <1>10, <1>11, <1>12
     DEF Next, Run, Provider, GW!Next

\* Setting and deleting a variable keep GuardedWrite's promise although no inventory is
\* atomic: one request at most, none behind an ordinary error, observed and unchanged only
\* of what really was so, rejected only of a refused request.
THEOREM Refinement == Spec => ImplementsGuardedWrite
<1>1. Init => GW!Init
  BY DEF Init, GW!Init, Phase, Effect, Claim
<1>2. IInv /\ [Next]_vars => [GW!Next]_(GW!vars)
  BY RefinementStep
<1> QED
  BY <1>1, <1>2, Invariance, PTL DEF Spec, ImplementsGuardedWrite, GW!Spec
=============================================================================
