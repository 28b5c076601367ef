--------------------------- MODULE IssueEditProofs ---------------------------
(***************************************************************************)
(* issue edit, for any number of runs, titles, names and labels and of      *)
(* changes by others: it keeps its types, it implements GuardedWrite, its   *)
(* PUT changes the issue that was reviewed, and updated means the whole     *)
(* edit, with the labels that were resolved.                                *)
(*                                                                         *)
(* The argument: the revision stays below its bound because every change is *)
(* one of an other actor's or the one PUT of a run (Bounds); where a run is *)
(* tells what it has planned, resolved, sent and heard (Stages); what it is *)
(* about to claim has been true (Evidence); a verified answer is one that   *)
(* its own PUT left (Answers); a name that was resolved before the PUT has  *)
(* the same label unless a change of the catalog is counted (Labels); and   *)
(* from the last look to the end of the PUT a change of the issue is noted  *)
(* (Window).                                                                *)
(***************************************************************************)
EXTENDS IssueEdit, FiniteSetTheorems, TLAPS

Attempted == {"reply", "canonical", "labels"}
Planning == {"catalog", "adjacent", "recatalog", "decide", "write"}
Carried == {c \in Invocation : wire[c] = "applied"}

\* What the provider counts: others' changes, and one PUT of each run.
Bounds ==
  /\ issue.rev \in Nat /\ others \in 0..MaxOther
  /\ issue.rev <= others + Cardinality(Carried)

\* Where a run is tells what it has read, resolved, sent, heard and said.
StageOf(c) ==
  /\ pc[c] \in {"idle"} \cup Preflight => wire[c] = "unsent"
  /\ pc[c] \in Attempted => wire[c] # "unsent"
  /\ pc[c] # "done" => verdict[c] = "none"
  /\ pc[c] \in {"idle", "issue"} => view[c] = Nil /\ ~held[c]
  /\ pc[c] \in Planning \cup Attempted \/ wire[c] # "unsent" => view[c] # Nil
  /\ pc[c] \in (Planning \ {"catalog"}) \cup Attempted =>
       \A n \in Requested(c) : ids[c][n] # Nil
  /\ pc[c] # "reply" => echo[c] = Nil
  /\ pc[c] = "reply" /\ wire[c] = "applied" => echo[c] # Nil
  /\ pc[c] \notin {"canonical", "labels"} => unsafe[c] = "no"

\* What a run would claim has been true at the provider since it began, or attempted.
EvidenceOf(c) ==
  /\ Active(c) /\ Goal(c) => held[c]
  /\ pc[c] \in Planning /\ NothingToDo(c) => held[c]
  /\ pc[c] = "labels" => held[c]

\* What a run has heard of its own PUT is how that left the issue.
AnswerOf(c) ==
  /\ echo[c] # Nil => wire[c] = "applied" /\ (Poststate(c, echo[c]) => landed[c] = "asked")
  /\ unsafe[c] = "verified" => wire[c] = "applied" /\ landed[c] = "asked"
  /\ verdict[c] = "updated" => wire[c] = "applied" /\ landed[c] = "asked"

\* A requested name has another label than the resolved one, and c's own PUT would not
\* give it that one back.
Misnamed(c) ==
  \E n \in Requested(c) :
    catalog[n] # ids[c][n] /\ (n \in ask[c].remove \/ catalog[n] # Nil)

\* The resolved labels keep their names, unless that is counted, and what is claimed
\* of the names was once true of the labels.
LabelsOf(c) ==
  /\ pc[c] \in {"decide", "write"} \cup Attempted /\ relabels[c] = 0 =>
       \A n \in Requested(c) : catalog[n] = ids[c][n]
  /\ pc[c] \in Attempted /\ Goal(c) /\ SameLabels(c) => exact[c]
  /\ pc[c] = "labels" =>
       exact[c] \/ relabels[c] = 2 \/ (relabels[c] = 1 /\ Misnamed(c))
  /\ verdict[c] \in Successes /\ relabels[c] < 2 => exact[c]

\* From the last look at the issue to the end of the PUT, what changes is noted.
WindowOf(c) ==
  pc[c] \in {"recatalog", "decide", "write"} \/ wire[c] = "inflight" =>
    \A a \in Aspect : Look[a] = view[c][a] \/ a \in drift[c]

RunInv(c) == StageOf(c) /\ EvidenceOf(c) /\ AnswerOf(c) /\ LabelsOf(c) /\ WindowOf(c)

IInv == Bounds /\ TypeOK /\ \A c \in Invocation : RunInv(c)

\* Any runs are finitely many, at most all.
LEMMA AtMostAll ==
  ASSUME NEW R \in SUBSET Invocation
  PROVE /\ IsFiniteSet(R) /\ Cardinality(R) \in Nat
        /\ Cardinality(Invocation) \in Nat /\ Cardinality(R) <= Cardinality(Invocation)
BY EditAssumption, FS_Subset, FS_CardinalityType

\* So the revision is within the bound of the types.
LEMMA WithinBounds ==
  ASSUME NEW n \in Nat, NEW o \in 0..MaxOther, NEW R \in SUBSET Invocation,
         n <= o + Cardinality(R)
  PROVE n \in Rev
BY AtMostAll, EditAssumption DEF Rev

\* What is asked for is of names and titles.
LEMMA AskTypes ==
  ASSUME TypeOK, NEW c \in Invocation
  PROVE /\ ask[c].add \in SUBSET Name /\ ask[c].remove \in SUBSET Name
        /\ ask[c].add \cap ask[c].remove = {}
        /\ ask[c].title \in Title \cup {Nil}
        /\ Requested(c) \in SUBSET Name
BY DEF TypeOK, Ask, Requested

\* What is read of the issue is typed, and something.
LEMMA LookTypes == ASSUME TypeOK PROVE Look \in Seen /\ Look # Nil
<1>1. Names(issue.labels) \in SUBSET Name
  BY DEF Names
<1>2. Look \in Seen
  BY <1>1 DEF Look, Seen, TypeOK, Issue
<1> QED
  BY <1>2, NilAssumption

\* What a run was asked for is true or false.
LEMMA GoalIsBoolean == ASSUME NEW c PROVE Goal(c) \in BOOLEAN /\ (Goal(c) /\ SameLabels(c)) \in BOOLEAN
BY DEF Goal

\* The initial states satisfy the invariant.
LEMMA InitInv == Init => IInv
<1> SUFFICES ASSUME Init PROVE IInv
  OBVIOUS
<1>1. Bounds
  <2>1. Carried = {}
    BY DEF Init, Carried
  <2> QED
    BY <2>1, FS_EmptySet, EditAssumption DEF Init, Bounds
<1>2. TypeOK
  <2>1. 0 \in 0..MaxOther /\ 0 \in Rev
    BY AtMostAll, EditAssumption DEF Rev
  <2> QED
    BY <2>1 DEF Init, TypeOK, Preflight
<1>3. ASSUME NEW c \in Invocation PROVE RunInv(c)
  BY <1>3 DEF Init, RunInv, StageOf, EvidenceOf, AnswerOf, LabelsOf, WindowOf, Preflight, Planning,
              Attempted, Active, Successes
<1> QED
  BY <1>1, <1>2, <1>3 DEF IInv

-----------------------------------------------------------------------------
(* The runs.                                                                *)

\* Nothing of d, of what it looks at, or of the history of d changes.
Same(d) ==
  /\ UNCHANGED <<issue, catalog, ask>>
  /\ pc'[d] = pc[d] /\ view'[d] = view[d] /\ ids'[d] = ids[d] /\ wire'[d] = wire[d]
  /\ echo'[d] = echo[d] /\ unsafe'[d] = unsafe[d] /\ verdict'[d] = verdict[d]
  /\ (held'[d] <=> held[d]) /\ (exact'[d] <=> exact[d]) /\ landed'[d] = landed[d]
  /\ drift'[d] = drift[d] /\ relabels'[d] = relabels[d]

\* What is asked of the provider is the same as before, if it and the plan are.
LEMMA SameGoal ==
  ASSUME NEW d, UNCHANGED <<issue, catalog, ask>>, view'[d] = view[d]
  PROVE /\ Look' = Look
        /\ Requested(d)' = Requested(d)
        /\ Goal(d)' <=> Goal(d)
        /\ NothingToDo(d)' <=> NothingToDo(d)
        /\ \A s : Poststate(d, s)' <=> Poststate(d, s)
        /\ ids'[d] = ids[d] => /\ SameLabels(d)' <=> SameLabels(d)
                               /\ Misnamed(d)' <=> Misnamed(d)
<1>1. Look' = Look /\ Requested(d)' = Requested(d)
  BY DEF Look, Names, Requested
<1>2. DesiredTitle(d)' = DesiredTitle(d) /\ DesiredNames(d)' = DesiredNames(d)
  BY DEF DesiredTitle, DesiredNames
<1>3. \A s : Poststate(d, s)' <=> Poststate(d, s)
  BY <1>2 DEF Poststate
<1>4. NothingToDo(d)' <=> NothingToDo(d)
  BY <1>2 DEF NothingToDo
<1>5. Goal(d)' <=> Goal(d)
  BY <1>1, <1>2 DEF Goal, Poststate
<1>6. ASSUME ids'[d] = ids[d] PROVE (SameLabels(d)' <=> SameLabels(d)) /\ (Misnamed(d)' <=> Misnamed(d))
  BY <1>1, <1>6 DEF SameLabels, Misnamed
<1> QED
  BY <1>1, <1>3, <1>4, <1>5, <1>6

\* So the invariant of d stays.
LEMMA SameStep ==
  ASSUME NEW d \in Invocation, RunInv(d), Same(d) PROVE RunInv(d)'
<1>1. /\ Look' = Look
      /\ Requested(d)' = Requested(d)
      /\ Goal(d)' <=> Goal(d)
      /\ NothingToDo(d)' <=> NothingToDo(d)
      /\ \A s : Poststate(d, s)' <=> Poststate(d, s)
      /\ SameLabels(d)' <=> SameLabels(d)
      /\ Misnamed(d)' <=> Misnamed(d)
  BY SameGoal DEF Same
<1>2. StageOf(d)'
  BY <1>1 DEF Same, RunInv, StageOf
<1>3. EvidenceOf(d)'
  BY <1>1 DEF Same, RunInv, EvidenceOf, Active
<1>4. AnswerOf(d)'
  <2>1. Poststate(d, echo[d])' <=> Poststate(d, echo[d])
    BY <1>1 DEF Same, Poststate, DesiredTitle, DesiredNames
  <2> QED
    BY <2>1 DEF Same, RunInv, AnswerOf
<1>5. LabelsOf(d)'
  BY <1>1 DEF Same, RunInv, LabelsOf
<1>6. WindowOf(d)'
  BY <1>1 DEF Same, RunInv, WindowOf
<1> QED
  BY <1>2, <1>3, <1>4, <1>5, <1>6 DEF RunInv

\* If the names are as planned then the labels are as resolved, or a requested name is
\* another label's.
LEMMA NamedAsPlanned ==
  ASSUME TypeOK, NEW c \in Invocation, Goal(c) PROVE SameLabels(c) \/ Misnamed(c)
<1>1. /\ \A n \in ask[c].add : n \in Name /\ catalog[n] \in issue.labels /\ catalog[n] # Nil
      /\ \A n \in ask[c].remove : n \in Name /\ catalog[n] \notin issue.labels
  <2>1. Names(issue.labels) = (view[c].names \ ask[c].remove) \cup ask[c].add
    BY DEF Goal, Poststate, Look, DesiredNames
  <2>2. issue.labels \subseteq Label
    BY DEF TypeOK, Issue
  <2> QED
    BY <2>1, <2>2, AskTypes, EditAssumption DEF Names
<1> QED
  BY <1>1 DEF SameLabels, Misnamed, Requested

\* A run that ends says only what it has the evidence for.
LEMMA EndStep ==
  ASSUME NEW c \in Invocation, RunInv(c), NEW v,
         UNCHANGED <<issue, catalog, ask, wire, landed>>, pc[c] # "done",
         pc'[c] = "done", view'[c] = view[c], echo'[c] = Nil, unsafe'[c] = "no", verdict'[c] = v,
         exact'[c] <=> exact[c],
         wire[c] = "inflight" => drift'[c] = drift[c],
         v = "updated" => wire[c] = "applied" /\ landed[c] = "asked",
         v \in Successes /\ relabels'[c] < 2 => exact[c]
  PROVE RunInv(c)'
<1>1. Look' = Look
  BY SameGoal
<1>2. StageOf(c)'
  BY DEF RunInv, StageOf, Preflight, Planning, Attempted
<1>3. EvidenceOf(c)'
  BY DEF EvidenceOf, Active, Planning
<1>4. AnswerOf(c)'
  BY DEF AnswerOf
<1>5. LabelsOf(c)'
  BY DEF LabelsOf, Attempted
<1>6. WindowOf(c)'
  BY <1>1 DEF RunInv, WindowOf
<1> QED
  BY <1>2, <1>3, <1>4, <1>5, <1>6 DEF RunInv

\* A run that goes on without a look at the provider.
LEMMA OnStep ==
  ASSUME TypeOK, NEW c \in Invocation, RunInv(c),
         Start(c) \/ ReadCatalog(c) \/ Write(c) \/ Answered(c) \/ NoAnswer(c) \/ Expire(c)
  PROVE RunInv(c)'
<1> USE DEF TypeOK, provider, local, history, Goto, Advance
<1>0. UNCHANGED <<issue, catalog, ask>> /\ view'[c] = view[c]
  BY DEF Start, ReadCatalog, Write, Answered, NoAnswer, Expire
<1>1. /\ Look' = Look
      /\ Requested(c)' = Requested(c)
      /\ Goal(c)' <=> Goal(c)
      /\ NothingToDo(c)' <=> NothingToDo(c)
      /\ \A s : Poststate(c, s)' <=> Poststate(c, s)
      /\ ids'[c] = ids[c] => /\ SameLabels(c)' <=> SameLabels(c)
                             /\ Misnamed(c)' <=> Misnamed(c)
  BY <1>0, SameGoal
<1>2. CASE Start(c)
  <2>1. StageOf(c)'
    BY <1>1, <1>2 DEF Start, RunInv, StageOf, Preflight, Planning, Attempted
  <2>2. EvidenceOf(c)'
    BY <1>1, <1>2 DEF Start, RunInv, StageOf, EvidenceOf, Planning, Goal
  <2>3. AnswerOf(c)'
    BY <1>1, <1>2 DEF Start, RunInv, StageOf, AnswerOf
  <2>4. LabelsOf(c)'
    BY <1>1, <1>2 DEF Start, RunInv, LabelsOf, Attempted
  <2>5. WindowOf(c)'
    BY <1>1, <1>2 DEF Start, RunInv, WindowOf
  <2> QED
    BY <2>1, <2>2, <2>3, <2>4, <2>5 DEF RunInv
<1>3. CASE ReadCatalog(c)
  <2>1. StageOf(c)'
    <3>1. \A n \in Requested(c) : ids'[c][n] # Nil
      BY <1>3, AskTypes DEF ReadCatalog, Resolved, Resolvable
    <3> QED
      BY <1>1, <1>3, <3>1 DEF ReadCatalog, RunInv, StageOf, Preflight, Planning, Attempted
  <2>2. EvidenceOf(c)'
    BY <1>1, <1>3 DEF ReadCatalog, RunInv, EvidenceOf, Planning, Active
  <2>3. AnswerOf(c)'
    BY <1>1, <1>3 DEF ReadCatalog, RunInv, StageOf, AnswerOf
  <2>4. LabelsOf(c)'
    BY <1>1, <1>3 DEF ReadCatalog, RunInv, LabelsOf, Attempted
  <2>5. WindowOf(c)'
    BY <1>1, <1>3 DEF ReadCatalog, RunInv, WindowOf
  <2> QED
    BY <2>1, <2>2, <2>3, <2>4, <2>5 DEF RunInv
<1>4. CASE Write(c)
  <2>0. PICK w \in {"inflight", "lost"} :
          /\ wire' = [wire EXCEPT ![c] = w] /\ pc' = [pc EXCEPT ![c] = "reply"] /\ pc[c] = "write"
          /\ UNCHANGED <<ids, echo, unsafe, view, verdict, landed, drift, relabels>>
    BY <1>4 DEF Write
  <2>1. StageOf(c)'
    BY <1>1, <2>0 DEF RunInv, StageOf, Preflight, Planning, Attempted
  <2>2. EvidenceOf(c)'
    <3>1. held'[c] <=> Goal(c)
      BY <1>4, GoalIsBoolean DEF Write
    <3> QED
      BY <1>1, <2>0, <3>1 DEF EvidenceOf, Planning
  <2>3. AnswerOf(c)'
    BY <1>1, <2>0 DEF RunInv, StageOf, AnswerOf, Preflight
  <2>4. LabelsOf(c)'
    <3>1. exact'[c] <=> Goal(c) /\ SameLabels(c)
      BY <1>4, GoalIsBoolean DEF Write
    <3>2. /\ SameLabels(c)' <=> SameLabels(c)
          /\ catalog' = catalog /\ ids'[c] = ids[c] /\ relabels'[c] = relabels[c]
          /\ pc'[c] = "reply" /\ pc[c] = "write" /\ verdict'[c] = "none"
      BY <1>0, <1>1, <2>0 DEF RunInv, StageOf
    <3>3. relabels[c] = 0 => \A n \in Requested(c) : catalog[n] = ids[c][n]
      BY <3>2 DEF RunInv, LabelsOf
    <3> QED
      BY <1>1, <3>1, <3>2, <3>3 DEF LabelsOf, Successes
  <2>5. WindowOf(c)'
    BY <1>1, <2>0 DEF RunInv, WindowOf
  <2> QED
    BY <2>1, <2>2, <2>3, <2>4, <2>5 DEF RunInv
<1>5. CASE Answered(c)
  <2>1. StageOf(c)'
    BY <1>1, <1>5 DEF Answered, RunInv, StageOf, Preflight, Planning, Attempted
  <2>2. EvidenceOf(c)'
    BY <1>1, <1>5 DEF Answered, RunInv, EvidenceOf, Planning, Active
  <2>3. AnswerOf(c)'
    BY <1>1, <1>5 DEF Answered, VerifiedAnswer, RunInv, StageOf, AnswerOf
  <2>4. LabelsOf(c)'
    BY <1>1, <1>5 DEF Answered, RunInv, LabelsOf, Attempted
  <2>5. WindowOf(c)'
    BY <1>1, <1>5 DEF Answered, RunInv, WindowOf
  <2> QED
    BY <2>1, <2>2, <2>3, <2>4, <2>5 DEF RunInv
<1>6. CASE NoAnswer(c)
  <2>1. StageOf(c)'
    BY <1>1, <1>6 DEF NoAnswer, RunInv, StageOf, Preflight, Planning, Attempted
  <2>2. EvidenceOf(c)'
    BY <1>1, <1>6 DEF NoAnswer, RunInv, EvidenceOf, Planning, Active
  <2>3. AnswerOf(c)'
    BY <1>1, <1>6 DEF NoAnswer, RunInv, StageOf, AnswerOf
  <2>4. LabelsOf(c)'
    BY <1>1, <1>6 DEF NoAnswer, RunInv, LabelsOf, Attempted
  <2>5. WindowOf(c)'
    BY <1>1, <1>6 DEF NoAnswer, RunInv, WindowOf
  <2> QED
    BY <2>1, <2>2, <2>3, <2>4, <2>5 DEF RunInv
<1>7. CASE Expire(c)
  <2>1. Same(c)
    BY <1>7 DEF Expire, Same
  <2> QED
    BY <2>1, SameStep
<1> QED
  BY <1>2, <1>3, <1>4, <1>5, <1>6, <1>7

\* The first look at the issue, from which the plan is made.
LEMMA ReadIssueStep ==
  ASSUME TypeOK, NEW c \in Invocation, RunInv(c), ReadIssue(c) PROVE RunInv(c)'
<1>1. /\ UNCHANGED <<issue, catalog, ask>> /\ wire'[c] = "unsent" /\ wire[c] = "unsent"
      /\ pc'[c] \in {"catalog", "adjacent"}
      /\ Requested(c) # {} => pc'[c] = "catalog"
      /\ verdict'[c] = "none" /\ echo'[c] = Nil /\ unsafe'[c] = "no" /\ ids'[c] = ids[c]
      /\ view'[c] = Look /\ (held'[c] <=> NothingToDo(c)')
      /\ (exact'[c] <=> exact[c]) /\ relabels'[c] = relabels[c]
  <2>1. NothingToDo(c)' \in BOOLEAN
    BY DEF NothingToDo
  <2> QED
    BY <2>1 DEF ReadIssue, Planned, Goto, RunInv, StageOf, provider, Preflight, TypeOK
<1>2. Look' = Look /\ Look # Nil /\ Requested(c)' = Requested(c)
  BY <1>1, LookTypes DEF Look, Names, Requested
<1>3. StageOf(c)'
  BY <1>1, <1>2 DEF StageOf, Preflight, Planning, Attempted
<1>4. EvidenceOf(c)'
  <2>1. Goal(c)' => NothingToDo(c)'
    <3>1. Goal(c)' => Look'.title = DesiredTitle(c)' /\ Look'.names = DesiredNames(c)'
      BY DEF Goal, Poststate
    <3> QED
      BY <3>1, <1>1, <1>2 DEF NothingToDo
  <2> QED
    BY <1>1, <2>1 DEF EvidenceOf
<1>5. AnswerOf(c)'
  BY <1>1 DEF AnswerOf
<1>6. LabelsOf(c)'
  BY <1>1 DEF LabelsOf, Attempted, Successes
<1>7. WindowOf(c)'
  BY <1>1 DEF WindowOf
<1> QED
  BY <1>3, <1>4, <1>5, <1>6, <1>7 DEF RunInv

\* The later looks before the write; from here on changes are noted.
LEMMA ReadAgainStep ==
  ASSUME TypeOK, NEW c \in Invocation, RunInv(c), ReadAdjacent(c) \/ ReadCatalogAgain(c) \/ Decide(c),
         pc'[c] # "done"
  PROVE RunInv(c)'
<1>1. /\ UNCHANGED <<issue, catalog, ask, wire>> /\ wire[c] = "unsent"
      /\ pc'[c] \in {"recatalog", "decide", "write"} /\ pc[c] \in {"adjacent", "recatalog", "decide"}
      /\ verdict'[c] = "none" /\ echo'[c] = Nil /\ unsafe'[c] = "no" /\ ids'[c] = ids[c]
      /\ view'[c] = view[c] /\ view[c] # Nil
      /\ (held'[c] <=> held[c]) /\ (exact'[c] <=> exact[c])
  BY DEF ReadAdjacent, ReadCatalogAgain, Decide, Advance, Return, End, Goto, RunInv, StageOf,
         provider, history, Preflight, Planning, TypeOK
<1>2. /\ Look' = Look
      /\ Requested(c)' = Requested(c)
      /\ Goal(c)' <=> Goal(c)
      /\ NothingToDo(c)' <=> NothingToDo(c)
  BY <1>1, SameGoal
<1>3. StageOf(c)'
  BY <1>1, <1>2 DEF RunInv, StageOf, Preflight, Planning, Attempted
<1>4. EvidenceOf(c)'
  BY <1>1, <1>2 DEF RunInv, EvidenceOf, Active, Planning
<1>5. AnswerOf(c)'
  BY <1>1 DEF AnswerOf
<1>6. LabelsOf(c)'
  <2>1. pc'[c] \in {"decide", "write"} /\ relabels'[c] = 0 =>
          \A n \in Requested(c) : catalog[n] = ids[c][n]
    <3>1. CASE ReadAdjacent(c)
      <4>1. pc'[c] = "decide" => Requested(c) = {}
        BY <1>1, <3>1 DEF ReadAdjacent, Advance, Return, End, Goto, TypeOK
      <4>2. pc'[c] # "write"
        BY <1>1, <3>1 DEF ReadAdjacent, Advance, Return, End, Goto, TypeOK
      <4> QED
        BY <4>1, <4>2
    <3>2. CASE ReadCatalogAgain(c)
      <4>1. Resolved(c) = ids[c]
        BY <1>1, <3>2 DEF ReadCatalogAgain, Return, End, Goto, TypeOK
      <4> QED
        BY <4>1, AskTypes DEF Resolved
    <3>3. CASE Decide(c)
      BY <1>1, <3>3 DEF Decide, RunInv, LabelsOf, history
    <3> QED
      BY <3>1, <3>2, <3>3
  <2> QED
    BY <1>1, <1>2, <2>1 DEF LabelsOf, Attempted, Successes
<1>7. WindowOf(c)'
  <2>1. CASE ReadAdjacent(c)
    <3>1. Look = view[c]
      BY <1>1, <2>1 DEF ReadAdjacent, SameSnapshot, Return, End, Goto, TypeOK
    <3> QED
      BY <1>1, <1>2, <3>1 DEF WindowOf
  <2>2. CASE ReadCatalogAgain(c) \/ Decide(c)
    <3>1. drift' = drift /\ pc[c] \in {"recatalog", "decide"}
      BY <2>2 DEF ReadCatalogAgain, Decide, history
    <3> QED
      BY <1>1, <1>2, <3>1 DEF RunInv, WindowOf
  <2> QED
    BY <2>1, <2>2
<1> QED
  BY <1>3, <1>4, <1>5, <1>6, <1>7 DEF RunInv

\* The look at the issue after the write, when that is as planned and names labels.
LEMMA ReadCanonicalStep ==
  ASSUME TypeOK, NEW c \in Invocation, RunInv(c), ReadCanonical(c), pc'[c] # "done"
  PROVE RunInv(c)'
<1>1. /\ UNCHANGED <<issue, catalog, ask>> /\ wire'[c] = wire[c] /\ wire[c] # "unsent"
      /\ pc'[c] = "labels" /\ pc[c] = "canonical" /\ Poststate(c, Look)
      /\ verdict'[c] = "none" /\ echo'[c] = Nil /\ unsafe'[c] = unsafe[c] /\ ids'[c] = ids[c]
      /\ view'[c] = view[c] /\ view[c] # Nil
      /\ (held'[c] <=> held[c]) /\ (exact'[c] <=> exact[c]) /\ landed'[c] = landed[c]
      /\ drift'[c] = drift[c] /\ relabels'[c] = relabels[c]
  BY DEF ReadCanonical, Advance, Return, End, Goto, RunInv, StageOf,
         provider, history, Attempted, TypeOK
<1>2. /\ Look' = Look
      /\ Requested(c)' = Requested(c)
      /\ Goal(c)' <=> Goal(c)
      /\ SameLabels(c)' <=> SameLabels(c)
      /\ Misnamed(c)' <=> Misnamed(c)
  BY <1>1, SameGoal
<1>3. Goal(c)
  BY <1>1 DEF Goal
<1>4. StageOf(c)'
  BY <1>1, <1>2 DEF RunInv, StageOf, Preflight, Planning, Attempted
<1>5. EvidenceOf(c)'
  BY <1>1, <1>2, <1>3 DEF RunInv, EvidenceOf, Active, Planning
<1>6. AnswerOf(c)'
  BY <1>1 DEF RunInv, AnswerOf
<1>7. LabelsOf(c)'
  <2>1. /\ relabels[c] = 0 => \A n \in Requested(c) : catalog[n] = ids[c][n]
        /\ SameLabels(c) => exact[c]
    BY <1>1, <1>3 DEF RunInv, LabelsOf, Attempted
  <2>2. SameLabels(c) \/ Misnamed(c)
    BY <1>3, NamedAsPlanned
  <2>3. relabels[c] = 0 => ~Misnamed(c)
    BY <2>1 DEF Misnamed
  <2>4. relabels[c] \in 0..2
    BY DEF TypeOK
  <2>5. exact[c] \/ relabels[c] = 2 \/ (relabels[c] = 1 /\ Misnamed(c))
    BY <2>1, <2>2, <2>3, <2>4
  <2> QED
    BY <1>1, <1>2, <2>1, <2>5 DEF LabelsOf, Successes
<1>8. WindowOf(c)'
  BY <1>1, <1>2 DEF RunInv, WindowOf
<1> QED
  BY <1>4, <1>5, <1>6, <1>7, <1>8 DEF RunInv

\* A run that claims to have changed the issue has the evidence; and it says what it has
\* heard.
LEMMA Claims ==
  ASSUME TypeOK, NEW c \in Invocation, RunInv(c),
         \/ ReadCanonical(c) /\ pc'[c] = "done"
         \/ ReadLabels(c)
  PROVE \E v \in Successes \cup {"ambiguous"} :
          /\ Return(c, v)
          /\ v = "updated" => wire[c] = "applied" /\ landed[c] = "asked"
          /\ v \in Successes => held[c] /\ (relabels[c] < 2 => exact[c])
<1>1. /\ pc[c] \in {"canonical", "labels"} /\ view[c] # Nil
      /\ Claimed(c) \in Successes \cup {"ambiguous"}
      /\ Claimed(c) = "updated" => wire[c] = "applied" /\ landed[c] = "asked"
  BY DEF ReadCanonical, ReadLabels, RunInv, StageOf, AnswerOf, Claimed, Successes, Attempted, TypeOK
<1>2. CASE ReadCanonical(c) /\ pc'[c] = "done"
  <2>1. \/ Return(c, "ambiguous")
        \/ Return(c, Claimed(c)) /\ Poststate(c, Look) /\ Requested(c) = {}
    BY <1>2 DEF ReadCanonical, Advance, Goto, TypeOK
  <2>2. Poststate(c, Look) /\ Requested(c) = {} => held[c] /\ exact[c]
    <3>1. SUFFICES ASSUME Poststate(c, Look), Requested(c) = {} PROVE held[c] /\ exact[c]
      OBVIOUS
    <3>2. Goal(c) /\ SameLabels(c)
      BY <1>1, <3>1 DEF Goal, SameLabels, Requested
    <3> QED
      BY <1>1, <3>2 DEF RunInv, EvidenceOf, LabelsOf, Active, Attempted
  <2> QED
    BY <1>1, <2>1, <2>2 DEF Successes
<1>3. CASE ReadLabels(c)
  <2>1. \/ Return(c, "ambiguous")
        \/ Return(c, Claimed(c)) /\ OwnLabels(c)
    BY <1>3 DEF ReadLabels
  <2>2. OwnLabels(c) => ~Misnamed(c)
    BY AskTypes DEF OwnLabels, Resolved, Misnamed
  <2>3. pc[c] = "labels" /\ relabels[c] \in 0..2
    BY <1>3 DEF ReadLabels, TypeOK
  <2>4. OwnLabels(c) => held[c] /\ (relabels[c] < 2 => exact[c])
    BY <2>2, <2>3 DEF RunInv, EvidenceOf, LabelsOf
  <2> QED
    BY <1>1, <2>1, <2>4 DEF Successes
<1> QED
  BY <1>2, <1>3

\* What a run does leaves its own invariant.
LEMMA OwnStep ==
  ASSUME TypeOK, NEW c \in Invocation, RunInv(c), Run(c) PROVE RunInv(c)'
<1> USE DEF TypeOK, provider, history
<1>1. ASSUME Refuse(c) \/ ReconcileFails(c) PROVE RunInv(c)'
  <2>1. PICK v \in {"refused", "ambiguous"} : Return(c, v)
    BY <1>1 DEF Refuse, ReconcileFails
  <2>2. /\ UNCHANGED <<issue, catalog, ask, wire, landed, exact, drift>> /\ pc[c] # "done"
    BY <1>1 DEF Refuse, ReconcileFails, Preflight
  <2>3. /\ pc'[c] = "done" /\ view'[c] = view[c] /\ echo'[c] = Nil /\ unsafe'[c] = "no"
        /\ verdict'[c] = v
    BY <2>1 DEF Return, End, Goto
  <2> QED
    BY <2>1, <2>2, <2>3, EndStep DEF Successes
<1>2. ASSUME ReadAdjacent(c) \/ ReadCatalogAgain(c) \/ Decide(c), pc'[c] = "done" PROVE RunInv(c)'
  <2>1. PICK v \in {"refused", "preview", "unchanged"} : Return(c, v)
    BY <1>2 DEF ReadAdjacent, ReadCatalogAgain, Decide, Advance, Goto
  <2>2. UNCHANGED <<issue, catalog, ask, wire, landed, exact>> /\ pc[c] # "done" /\ wire[c] = "unsent"
    BY <1>2 DEF ReadAdjacent, ReadCatalogAgain, Decide, RunInv, StageOf, Preflight
  <2>3. /\ pc'[c] = "done" /\ view'[c] = view[c] /\ echo'[c] = Nil /\ unsafe'[c] = "no"
        /\ verdict'[c] = v
    BY <2>1 DEF Return, End, Goto
  <2> QED
    BY <2>1, <2>2, <2>3, EndStep DEF Successes
<1>3. ASSUME \/ ReadCanonical(c) /\ pc'[c] = "done"
             \/ ReadLabels(c)
      PROVE RunInv(c)'
  <2>1. PICK v \in Successes \cup {"ambiguous"} :
          /\ Return(c, v)
          /\ v = "updated" => wire[c] = "applied" /\ landed[c] = "asked"
          /\ v \in Successes => held[c] /\ (relabels[c] < 2 => exact[c])
    BY <1>3, Claims
  <2>2. UNCHANGED <<issue, catalog, ask, wire, landed, exact, drift, relabels>> /\ pc[c] # "done"
    BY <1>3 DEF ReadCanonical, ReadLabels
  <2>3. /\ pc'[c] = "done" /\ view'[c] = view[c] /\ echo'[c] = Nil /\ unsafe'[c] = "no"
        /\ verdict'[c] = v
    BY <2>1 DEF Return, End, Goto
  <2> QED
    BY <2>1, <2>2, <2>3, EndStep
<1>4. ASSUME Crash(c) PROVE RunInv(c)'
  <2>1. UNCHANGED <<issue, catalog, ask, wire, landed, exact, drift, relabels, verdict>>
        /\ pc[c] # "done"
    BY <1>4 DEF Crash, Active
  <2>2. /\ pc'[c] = "done" /\ view'[c] = view[c] /\ echo'[c] = Nil /\ unsafe'[c] = "no"
        /\ verdict[c] = "none"
    BY <1>4, <2>1 DEF Crash, End, Goto, RunInv, StageOf
  <2> QED
    BY <2>1, <2>2, EndStep DEF Successes
<1> QED
  BY <1>1, <1>2, <1>3, <1>4, OnStep, ReadIssueStep, ReadAgainStep, ReadCanonicalStep DEF Run

\* And that of every other run.
LEMMA RunStep ==
  ASSUME TypeOK, NEW c \in Invocation, NEW d \in Invocation, RunInv(c), RunInv(d), Run(c)
  PROVE RunInv(d)'
<1>1. CASE d = c
  BY <1>1, OwnStep
<1>2. CASE d # c
  <2> USE DEF TypeOK, Same, provider, local, history, Goto, Advance, Return, End
  <2>1. CASE Start(c) \/ Refuse(c)
    <3>1. Same(d)
      BY <1>2, <2>1 DEF Start, Refuse
    <3> QED
      BY <3>1, SameStep
  <2>2. CASE ReadIssue(c)
    <3>1. NothingToDo(c)' \in BOOLEAN
      BY DEF NothingToDo
    <3>2. Same(d)
      BY <1>2, <2>2, <3>1 DEF ReadIssue, Planned
    <3> QED
      BY <3>2, SameStep
  <2>3. CASE ReadCatalog(c) \/ ReadAdjacent(c) \/ ReadCatalogAgain(c) \/ Decide(c)
    <3>1. Same(d)
      BY <1>2, <2>3 DEF ReadCatalog, ReadAdjacent, ReadCatalogAgain, Decide
    <3> QED
      BY <3>1, SameStep
  <2>4. CASE Write(c)
    <3>1. Same(d)
      BY <1>2, <2>4, GoalIsBoolean DEF Write
    <3> QED
      BY <3>1, SameStep
  <2>5. CASE Answered(c) \/ NoAnswer(c) \/ ReadCanonical(c) \/ ReadLabels(c)
    <3>1. Same(d)
      BY <1>2, <2>5 DEF Answered, VerifiedAnswer, NoAnswer, ReadCanonical, ReadLabels
    <3> QED
      BY <3>1, SameStep
  <2>6. CASE ReconcileFails(c) \/ Expire(c) \/ Crash(c)
    <3>1. Same(d)
      BY <1>2, <2>6 DEF ReconcileFails, Expire, Crash
    <3> QED
      BY <3>1, SameStep
  <2> QED
    BY <2>1, <2>2, <2>3, <2>4, <2>5, <2>6 DEF Run
<1> QED
  BY <1>1, <1>2

-----------------------------------------------------------------------------
(* The provider.                                                            *)

\* What is read of the issue stays typed, and something.
LEMMA NextLook == ASSUME issue' \in Issue PROVE Look' \in Seen /\ Look' # Nil
<1>1. Names(issue.labels)' \in SUBSET Name
  BY DEF Names
<1>2. Look' \in Seen
  BY <1>1 DEF Look, Seen, Issue
<1> QED
  BY <1>2, NilAssumption

\* What the history notes of a change of the issue or of the catalog, run by run.
LEMMA Noted ==
  ASSUME TypeOK, NEW d \in Invocation, NEW Own, Changed(Own)
  PROVE /\ held'[d] <=> held[d] \/ (Active(d) /\ Goal(d)')
        /\ exact'[d] <=> exact[d] \/ (Active(d) /\ Goal(d)' /\ SameLabels(d)')
        /\ drift[d] \subseteq drift'[d]
        /\ d \notin Own /\ (pc[d] \in {"recatalog", "decide", "write"} \/ wire[d] = "inflight") =>
             \A a \in Aspect : Look'[a] = Look[a] \/ a \in drift'[d]
        /\ relabels'[d] =
             IF d \notin Own /\ catalog' # catalog /\ relabels[d] < 2
                /\ pc[d] \in {"decide", "write", "reply", "canonical", "labels"}
               THEN relabels[d] + 1
               ELSE relabels[d]
BY DEF Changed, TypeOK

\* A change that is not a run's own leaves its invariant.
LEMMA ChangeStep ==
  ASSUME TypeOK, NEW d \in Invocation, RunInv(d), NEW Own, d \notin Own, Changed(Own),
         UNCHANGED ask, pc'[d] = pc[d], view'[d] = view[d], ids'[d] = ids[d], wire'[d] = wire[d],
         echo'[d] = echo[d], unsafe'[d] = unsafe[d], verdict'[d] = verdict[d], landed'[d] = landed[d]
  PROVE RunInv(d)'
<1>1. /\ held'[d] <=> held[d] \/ (Active(d) /\ Goal(d)')
      /\ exact'[d] <=> exact[d] \/ (Active(d) /\ Goal(d)' /\ SameLabels(d)')
      /\ drift[d] \subseteq drift'[d]
      /\ pc[d] \in {"recatalog", "decide", "write"} \/ wire[d] = "inflight" =>
           \A a \in Aspect : Look'[a] = Look[a] \/ a \in drift'[d]
      /\ relabels'[d] =
           IF catalog' # catalog /\ relabels[d] < 2
              /\ pc[d] \in {"decide", "write", "reply", "canonical", "labels"}
             THEN relabels[d] + 1
             ELSE relabels[d]
  BY Noted
<1>2. /\ Requested(d)' = Requested(d)
      /\ DesiredTitle(d)' = DesiredTitle(d) /\ DesiredNames(d)' = DesiredNames(d)
  BY DEF Requested, DesiredTitle, DesiredNames
<1>3. /\ NothingToDo(d)' <=> NothingToDo(d)
      /\ \A s : Poststate(d, s)' <=> Poststate(d, s)
  BY <1>2 DEF NothingToDo, Poststate
<1>4. StageOf(d)'
  <2>1. pc[d] \in {"idle", "issue"} => ~held'[d]
    BY <1>1 DEF RunInv, StageOf, Goal
  <2> QED
    BY <1>2, <2>1 DEF RunInv, StageOf
<1>5. EvidenceOf(d)'
  BY <1>1, <1>3 DEF RunInv, EvidenceOf, Active
<1>6. AnswerOf(d)'
  <2>1. Poststate(d, echo[d])' <=> Poststate(d, echo[d])
    BY <1>2 DEF Poststate
  <2> QED
    BY <2>1 DEF RunInv, AnswerOf
<1>7. LabelsOf(d)'
  <2>1. relabels[d] \in 0..2
    BY DEF TypeOK
  <2>2. CASE catalog' = catalog
    <3>1. relabels'[d] = relabels[d] /\ (Misnamed(d)' <=> Misnamed(d))
      BY <1>1, <1>2, <2>2 DEF Misnamed
    <3> QED
      BY <1>1, <1>2, <2>2, <3>1 DEF RunInv, LabelsOf, Active, Attempted
  <2>3. CASE catalog' # catalog /\ pc[d] \in {"decide", "write", "reply", "canonical", "labels"}
    <3>1. relabels'[d] = IF relabels[d] < 2 THEN relabels[d] + 1 ELSE relabels[d]
      BY <1>1, <2>3
    <3>2. relabels'[d] # 0 /\ (relabels[d] # 0 => relabels'[d] = 2)
      BY <2>1, <3>1
    <3>3. pc[d] = "labels" => exact[d] \/ relabels[d] # 0
      BY DEF RunInv, LabelsOf
    <3>4. verdict[d] = "none"
      BY <2>3 DEF RunInv, StageOf
    <3> QED
      BY <1>1, <3>2, <3>3, <3>4 DEF LabelsOf, Active, Attempted, Successes
  <2>4. CASE catalog' # catalog /\ pc[d] \notin {"decide", "write", "reply", "canonical", "labels"}
    <3>1. relabels'[d] = relabels[d]
      BY <1>1, <2>4
    <3> QED
      BY <1>1, <2>4, <3>1 DEF RunInv, LabelsOf, Attempted
  <2> QED
    BY <2>2, <2>3, <2>4
<1>8. WindowOf(d)'
  <2>1. ASSUME pc[d] \in {"recatalog", "decide", "write"} \/ wire[d] = "inflight", NEW a \in Aspect
        PROVE Look'[a] = view[d][a] \/ a \in drift'[d]
    BY <1>1, <2>1 DEF RunInv, WindowOf
  <2> QED
    BY <2>1 DEF WindowOf
<1> QED
  BY <1>4, <1>5, <1>6, <1>7, <1>8 DEF RunInv

\* A run's own PUT leaves its invariant: it moves no label from one name to another.
LEMMA ApplyStep ==
  ASSUME TypeOK, NEW d \in Invocation, RunInv(d), Apply(d), issue' \in Issue PROVE RunInv(d)'
<1>1. /\ held'[d] <=> held[d] \/ (Active(d) /\ Goal(d)')
      /\ exact'[d] <=> exact[d] \/ (Active(d) /\ Goal(d)' /\ SameLabels(d)')
      /\ relabels'[d] = relabels[d]
  BY Noted DEF Apply
<1>2. /\ wire[d] = "inflight" /\ wire'[d] = "applied"
      /\ UNCHANGED <<ask, pc, view, ids, unsafe, verdict>>
      /\ echo'[d] = IF pc[d] = "reply" THEN Look' ELSE echo[d]
      /\ landed'[d] = IF Poststate(d, Look') THEN "asked" ELSE "otherwise"
  BY DEF Apply, TypeOK
<1>3. /\ Requested(d)' = Requested(d)
      /\ DesiredTitle(d)' = DesiredTitle(d) /\ DesiredNames(d)' = DesiredNames(d)
  BY <1>2 DEF Requested, DesiredTitle, DesiredNames
<1>4. \A n \in Requested(d) : catalog'[n] # catalog[n] => n \notin ask[d].remove /\ catalog[n] = Nil
  <2>1. \A n \in Name : catalog'[n] # catalog[n] =>
          n \in ask[d].add \ view[d].names /\ catalog[n] = Nil
    BY DEF Apply, Extended
  <2> QED
    BY <2>1, AskTypes
<1>5. StageOf(d)'
  BY <1>2, <1>3, NextLook DEF RunInv, StageOf, Preflight, Planning, Attempted
<1>6. EvidenceOf(d)'
  <2>1. NothingToDo(d)' <=> NothingToDo(d)
    BY <1>2, <1>3 DEF NothingToDo
  <2> QED
    BY <1>1, <1>2, <2>1 DEF RunInv, EvidenceOf, Active
<1>7. AnswerOf(d)'
  <2>1. Poststate(d, echo[d])' => Poststate(d, echo'[d])
    BY <1>2, <1>3 DEF Poststate
  <2> QED
    BY <1>2, <2>1 DEF RunInv, StageOf, AnswerOf
<1>8. LabelsOf(d)'
  <2>1. Misnamed(d) => Misnamed(d)'
    BY <1>2, <1>3, <1>4 DEF Misnamed
  <2>2. pc[d] \in {"decide", "write"} \cup Attempted =>
          \A n \in Requested(d) : catalog[n] = ids[d][n] => catalog'[n] = ids[d][n]
    BY <1>4 DEF RunInv, StageOf, Planning
  <2> QED
    BY <1>1, <1>2, <1>3, <2>1, <2>2 DEF RunInv, LabelsOf, Active, Attempted
<1>9. WindowOf(d)'
  BY <1>2 DEF RunInv, StageOf, WindowOf, Preflight
<1> QED
  BY <1>5, <1>6, <1>7, <1>8, <1>9 DEF RunInv

\* So does a PUT that is not carried out.
LEMMA DropStep ==
  ASSUME TypeOK, NEW c \in Invocation, NEW d \in Invocation, RunInv(d), DropWrite(c) PROVE RunInv(d)'
<1>1. CASE d # c
  <2>1. Same(d)
    BY <1>1 DEF DropWrite, Same, provider, local, history, TypeOK
  <2> QED
    BY <2>1, SameStep
<1>2. CASE d = c
  <2>1. PICK e \in {"refused", "lost"} : wire[d] = "inflight" /\ wire' = [wire EXCEPT ![d] = e]
    BY <1>2 DEF DropWrite
  <2>2. /\ UNCHANGED <<issue, catalog, ask, pc, view, ids, echo, unsafe, verdict, held, exact, landed,
                       drift, relabels>>
        /\ wire'[d] \in {"refused", "lost"}
    BY <1>2, <2>1 DEF DropWrite, provider, local, history, TypeOK
  <2>3. /\ Look' = Look
        /\ Requested(d)' = Requested(d)
        /\ Goal(d)' <=> Goal(d)
        /\ NothingToDo(d)' <=> NothingToDo(d)
        /\ SameLabels(d)' <=> SameLabels(d)
        /\ Misnamed(d)' <=> Misnamed(d)
    BY <2>2, SameGoal
  <2>4. StageOf(d)'
    BY <2>1, <2>2, <2>3 DEF RunInv, StageOf, Preflight
  <2>5. EvidenceOf(d)'
    BY <2>2, <2>3 DEF RunInv, EvidenceOf, Active
  <2>6. AnswerOf(d)'
    BY <2>1, <2>2 DEF RunInv, AnswerOf
  <2>7. LabelsOf(d)'
    BY <2>2, <2>3 DEF RunInv, LabelsOf
  <2>8. WindowOf(d)'
    BY <2>2, <2>3 DEF RunInv, WindowOf
  <2> QED
    BY <2>4, <2>5, <2>6, <2>7, <2>8 DEF RunInv
<1> QED
  BY <1>1, <1>2

\* Whoever changes the provider, a run's invariant stays.
LEMMA AllStep ==
  ASSUME TypeOK, NEW d \in Invocation, \A c \in Invocation : RunInv(c), [Next]_vars, issue' \in Issue
  PROVE RunInv(d)'
<1>1. ASSUME NEW c \in Invocation, Run(c) PROVE RunInv(d)'
  BY <1>1, RunStep
<1>2. ASSUME NEW c \in Invocation, Apply(c) PROVE RunInv(d)'
  <2>1. CASE d = c
    BY <1>2, <2>1, ApplyStep
  <2>2. CASE d # c
    <3>1. /\ Changed({c}) /\ UNCHANGED ask
          /\ pc'[d] = pc[d] /\ view'[d] = view[d] /\ ids'[d] = ids[d] /\ wire'[d] = wire[d]
          /\ echo'[d] = echo[d] /\ unsafe'[d] = unsafe[d] /\ verdict'[d] = verdict[d]
          /\ landed'[d] = landed[d]
      BY <1>2, <2>2 DEF Apply, TypeOK
    <3> QED
      BY <2>2, <3>1, ChangeStep
  <2> QED
    BY <2>1, <2>2
<1>3. ASSUME NEW c \in Invocation, DropWrite(c) PROVE RunInv(d)'
  BY <1>3, DropStep
<1>4. CASE OtherEdits \/ OtherRelabels
  <2>1. Changed({}) /\ UNCHANGED <<ask, pc, view, ids, wire, echo, unsafe, verdict, landed>>
    BY <1>4 DEF OtherEdits, OtherRelabels, ByOthers, local
  <2> QED
    BY <2>1, ChangeStep
<1>5. CASE UNCHANGED vars
  BY <1>5, SameStep DEF vars, Same
<1> QED
  BY <1>1, <1>2, <1>3, <1>4, <1>5 DEF Next, Provider

-----------------------------------------------------------------------------
(* The bounds and the types.                                                *)

\* Every PUT and every change by others is counted once.
LEMMA BoundStep ==
  ASSUME TypeOK, Bounds, \A c \in Invocation : RunInv(c), [Next]_vars PROVE Bounds'
<1>1. ASSUME NEW c \in Invocation, Run(c) PROVE Bounds'
  <2>1. UNCHANGED provider
    BY <1>1 DEF Run, Start, Refuse, ReadIssue, ReadCatalog, ReadAdjacent, ReadCatalogAgain, Decide,
                Write, Answered, NoAnswer, ReadCanonical, ReadLabels, ReconcileFails, Expire, Crash
  <2>2. \/ wire' = wire
        \/ wire[c] = "unsent" /\ \E w \in {"inflight", "lost"} : wire' = [wire EXCEPT ![c] = w]
    BY <1>1 DEF Run, Start, Refuse, ReadIssue, ReadCatalog, ReadAdjacent, ReadCatalogAgain, Decide,
                Write, Answered, NoAnswer, ReadCanonical, ReadLabels, ReconcileFails, Expire, Crash,
                RunInv, StageOf, Preflight
  <2>3. UNCHANGED Carried
    BY <2>2 DEF Carried, TypeOK
  <2> QED
    BY <2>1, <2>3 DEF Bounds, provider
<1>2. ASSUME NEW c \in Invocation, Apply(c) PROVE Bounds'
  <2>1. c \notin Carried /\ Carried' = Carried \cup {c}
    BY <1>2 DEF Apply, Carried, TypeOK
  <2>2. Carried \in SUBSET Invocation /\ IsFiniteSet(Carried) /\ Cardinality(Carried) \in Nat
    BY AtMostAll DEF Carried
  <2>3. Cardinality(Carried') = Cardinality(Carried) + 1
    BY <2>1, <2>2, FS_AddElement
  <2>4. issue'.rev = issue.rev + 1 /\ others' = others
    BY <1>2 DEF Apply, TypeOK, Issue
  <2> QED
    BY <2>2, <2>3, <2>4, EditAssumption DEF Bounds
<1>3. ASSUME NEW c \in Invocation, DropWrite(c) PROVE Bounds'
  <2>1. UNCHANGED Carried
    BY <1>3 DEF DropWrite, Carried, TypeOK
  <2> QED
    BY <1>3, <2>1 DEF DropWrite, Bounds, provider
<1>4. CASE OtherEdits \/ OtherRelabels
  <2>1. UNCHANGED Carried /\ others < MaxOther /\ others' = others + 1
    BY <1>4 DEF OtherEdits, OtherRelabels, ByOthers, Carried
  <2>2. issue'.rev \in {issue.rev, issue.rev + 1}
    BY <1>4 DEF OtherEdits, OtherRelabels, TypeOK, Issue
  <2>3. Cardinality(Carried) \in Nat
    BY AtMostAll DEF Carried
  <2> QED
    BY <2>1, <2>2, <2>3, EditAssumption DEF Bounds
<1>5. CASE UNCHANGED vars
  <2>1. UNCHANGED <<issue, others, Carried>>
    BY <1>5 DEF vars, Carried
  <2> QED
    BY <2>1 DEF Bounds
<1> QED
  BY <1>1, <1>2, <1>3, <1>4, <1>5 DEF Next, Provider

\* An issue is made of a title, a state, labels and a revision.
LEMMA IssueTypes ==
  ASSUME NEW t \in Title, NEW s \in {"opened", "closed"}, NEW L \in SUBSET Label, NEW r \in Rev,
         NEW i, i = [title |-> t, state |-> s, labels |-> L, rev |-> r]
  PROVE i \in Issue
BY DEF Issue

\* Whoever changes them, the issue and the catalog keep their types.
LEMMA ProviderTypes ==
  ASSUME TypeOK, Bounds', \A c \in Invocation : RunInv(c), [Next]_vars
  PROVE issue' \in Issue /\ catalog' \in [Name -> Label \cup {Nil}] /\ others' \in 0..MaxOther
<1>0. Carried' \in SUBSET Invocation /\ others' \in 0..MaxOther
  BY DEF Bounds, Carried
<1>1. issue'.rev \in Rev
  BY <1>0, WithinBounds DEF Bounds
<1>2. /\ issue.title \in Title /\ issue.state \in {"opened", "closed"}
      /\ issue.labels \in SUBSET Label
      /\ issue = [title |-> issue.title, state |-> issue.state, labels |-> issue.labels,
                  rev |-> issue.rev]
  BY DEF TypeOK, Issue
<1>3. ASSUME NEW c \in Invocation, Run(c)
      PROVE UNCHANGED provider
  BY <1>3 DEF Run, Start, Refuse, ReadIssue, ReadCatalog, ReadAdjacent, ReadCatalogAgain, Decide,
              Write, Answered, NoAnswer, ReadCanonical, ReadLabels, ReconcileFails, Expire, Crash
<1>4. ASSUME NEW c \in Invocation, DropWrite(c) PROVE UNCHANGED provider
  BY <1>4 DEF DropWrite
<1>5. ASSUME NEW c \in Invocation, Apply(c)
      PROVE issue' \in Issue /\ catalog' \in [Name -> Label \cup {Nil}]
  <2>1. catalog' \in [Name -> Label \cup {Nil}]
    BY <1>5 DEF Apply, Extended
  <2>2. PICK t, L : /\ issue' = [issue EXCEPT !.title = t, !.labels = L, !.rev = @ + 1]
                    /\ t = IF DesiredTitle(c) = view[c].title THEN issue.title ELSE DesiredTitle(c)
                    /\ L = (issue.labels \cup {catalog'[n] : n \in ask[c].add \ view[c].names})
                           \ ({catalog'[n] : n \in ask[c].remove \cap view[c].names} \cup {Nil})
    BY <1>5 DEF Apply
  <2>3. issue' = [title |-> t, state |-> issue.state, labels |-> L, rev |-> issue'.rev]
    BY <1>2, <2>2
  <2>4. t \in Title
    BY <1>2, <2>2, AskTypes DEF DesiredTitle
  <2>5. L \in SUBSET Label
    BY <1>2, <2>1, <2>2, AskTypes
  <2> QED
    BY <1>1, <1>2, <2>1, <2>3, <2>4, <2>5, IssueTypes
<1>6. CASE OtherEdits
  <2>1. catalog' = catalog
    BY <1>6 DEF OtherEdits
  <2>2. \E t \in Title, s \in {"opened", "closed"}, L \in SUBSET Label, r \in {issue.rev, issue.rev + 1} :
          issue' = [title |-> t, state |-> s, labels |-> L, rev |-> r]
    <3>1. ASSUME NEW t \in Title, issue' = [issue EXCEPT !.title = t, !.rev = @ + 1]
          PROVE issue' = [title |-> t, state |-> issue.state, labels |-> issue.labels,
                          rev |-> issue.rev + 1]
      BY <1>2, <3>1
    <3>2. ASSUME NEW s \in {"opened", "closed"}, issue' = [issue EXCEPT !.state = s, !.rev = @ + 1]
          PROVE issue' = [title |-> issue.title, state |-> s, labels |-> issue.labels,
                          rev |-> issue.rev + 1]
      BY <1>2, <3>2
    <3>3. ASSUME NEW n \in Name, NEW r \in {issue.rev, issue.rev + 1}, catalog[n] # Nil,
                 issue' = [issue EXCEPT !.rev = r, !.labels =
                    IF catalog[n] \in @ THEN @ \ {catalog[n]} ELSE @ \cup {catalog[n]}]
          PROVE \E L \in SUBSET Label :
                  issue' = [title |-> issue.title, state |-> issue.state, labels |-> L, rev |-> r]
      <4>1. catalog[n] \in Label
        BY <3>3 DEF TypeOK
      <4>2. PICK L : /\ issue' = [issue EXCEPT !.rev = r, !.labels = L]
                     /\ L = IF catalog[n] \in issue.labels THEN issue.labels \ {catalog[n]}
                            ELSE issue.labels \cup {catalog[n]}
        BY <3>3
      <4>3. L \in SUBSET Label
        BY <1>2, <4>1, <4>2
      <4> QED
        BY <1>2, <4>2, <4>3
    <3>4. \/ \E t \in Title : issue' = [issue EXCEPT !.title = t, !.rev = @ + 1]
          \/ \E s \in {"opened", "closed"} : issue' = [issue EXCEPT !.state = s, !.rev = @ + 1]
          \/ \E n \in Name : \E r \in {issue.rev, issue.rev + 1} :
               /\ catalog[n] # Nil
               /\ issue' = [issue EXCEPT !.rev = r, !.labels =
                    IF catalog[n] \in @ THEN @ \ {catalog[n]} ELSE @ \cup {catalog[n]}]
      BY <1>6 DEF OtherEdits
    <3> QED
      BY <1>2, <3>1, <3>2, <3>3, <3>4
  <2>3. PICK t \in Title, s \in {"opened", "closed"}, L \in SUBSET Label, r \in {issue.rev, issue.rev + 1} :
          issue' = [title |-> t, state |-> s, labels |-> L, rev |-> r]
    BY <2>2
  <2>4. issue'.rev = r
    BY <2>3
  <2>5. issue' \in Issue
    BY <1>1, <2>3, <2>4, IssueTypes
  <2> QED
    BY <1>0, <2>1, <2>5 DEF TypeOK
<1>7. CASE OtherRelabels
  <2>1. ASSUME NEW n \in Name, issue' = [issue EXCEPT !.labels = @ \ {catalog[n]}]
        PROVE issue' \in Issue
    <3>1. issue' = [title |-> issue.title, state |-> issue.state,
                    labels |-> issue.labels \ {catalog[n]}, rev |-> issue.rev]
      BY <1>2, <2>1
    <3>2. issue.labels \ {catalog[n]} \in SUBSET Label /\ issue.rev \in Rev
      BY <1>2 DEF TypeOK, Issue
    <3> QED
      BY <1>2, <3>1, <3>2, IssueTypes
  <2>2. issue' \in Issue
    BY <1>7, <2>1 DEF OtherRelabels, TypeOK
  <2>3. catalog' \in [Name -> Label \cup {Nil}]
    BY <1>7 DEF OtherRelabels, TypeOK, Free
  <2> QED
    BY <1>0, <2>2, <2>3
<1>8. CASE UNCHANGED vars
  BY <1>8 DEF vars, TypeOK
<1> QED
  BY <1>0, <1>3, <1>4, <1>5, <1>6, <1>7, <1>8 DEF Next, Provider, provider, TypeOK

\* What a run keeps for itself, and what it says.
Locals ==
  /\ pc \in [Invocation -> {"idle", "reply", "canonical", "labels", "done"} \cup Preflight]
  /\ ctx \in [Invocation -> {"live", "done"}]
  /\ view \in [Invocation -> Seen \cup {Nil}]
  /\ ids \in [Invocation -> [Name -> Label \cup {Nil}]]
  /\ echo \in [Invocation -> Seen \cup {Nil}]
  /\ unsafe \in [Invocation -> {"no", "unsafe", "verified"}]
  /\ verdict \in [Invocation -> {"none", "refused", "preview", "unchanged", "updated",
       "reconciled_update", "ambiguous"}]

\* It keeps its types when the run goes on or ends.
LEMMA LocalTypes ==
  ASSUME TypeOK, NEW c \in Invocation
  PROVE /\ End(c) /\ UNCHANGED verdict => Locals'
        /\ \A v \in {"refused", "preview", "unchanged", "updated", "reconciled_update", "ambiguous"} :
             Return(c, v) => Locals'
        /\ \A l \in {"reply", "labels"} \cup Preflight : Advance(c, l) => Locals'
<1>1. [n \in Name |-> Nil] \in [Name -> Label \cup {Nil}]
  OBVIOUS
<1>2. ASSUME End(c)
      PROVE /\ pc' \in [Invocation -> {"idle", "reply", "canonical", "labels", "done"} \cup Preflight]
            /\ ctx' \in [Invocation -> {"live", "done"}]
            /\ view' \in [Invocation -> Seen \cup {Nil}]
            /\ ids' \in [Invocation -> [Name -> Label \cup {Nil}]]
            /\ echo' \in [Invocation -> Seen \cup {Nil}]
            /\ unsafe' \in [Invocation -> {"no", "unsafe", "verified"}]
  BY <1>1, <1>2 DEF End, Goto, TypeOK
<1>3. ASSUME NEW l \in {"reply", "labels"} \cup Preflight, Advance(c, l) PROVE Locals'
  BY <1>3 DEF Advance, Goto, TypeOK, Locals
<1>4. End(c) /\ UNCHANGED verdict => Locals'
  BY <1>2 DEF Locals, TypeOK
<1>5. ASSUME NEW v \in {"refused", "preview", "unchanged", "updated", "reconciled_update", "ambiguous"},
             Return(c, v)
      PROVE Locals'
  BY <1>2, <1>5 DEF Return, Locals, TypeOK
<1> QED
  BY <1>3, <1>4, <1>5

\* Every step keeps the types, given those of the provider and the invariant of the runs.
LEMMA TypeStep ==
  ASSUME TypeOK, [Next]_vars, \A c \in Invocation : RunInv(c), \A c \in Invocation : RunInv(c)',
         issue' \in Issue /\ catalog' \in [Name -> Label \cup {Nil}] /\ others' \in 0..MaxOther
  PROVE TypeOK'
<1>0. \A c \in Invocation : pc'[c] \in {"recatalog", "labels"} =>
        \A n \in (ask[c].add \cup ask[c].remove)' : ids'[c][n] # Nil
  BY DEF RunInv, StageOf, Requested, Planning, Attempted
<1>1. ASSUME Locals', UNCHANGED <<ask, expect, wire, held, exact, landed>>,
             drift' \in [Invocation -> SUBSET Aspect], relabels' \in [Invocation -> 0..2]
      PROVE TypeOK'
  BY <1>0, <1>1 DEF TypeOK, Locals
<1>2. ASSUME NEW c \in Invocation, Refuse(c) \/ ReconcileFails(c) \/ Crash(c) PROVE TypeOK'
  <2>1. \/ End(c) /\ UNCHANGED verdict
        \/ \E v \in {"refused", "ambiguous"} : Return(c, v)
    BY <1>2 DEF Refuse, ReconcileFails, Crash
  <2>2. Locals'
    BY <2>1, LocalTypes
  <2> QED
    BY <1>1, <1>2, <2>2 DEF Refuse, ReconcileFails, Crash, history, TypeOK
<1>3. ASSUME NEW c \in Invocation, ReadAdjacent(c) \/ ReadCatalogAgain(c) \/ Decide(c) PROVE TypeOK'
  <2>1. \/ \E l \in Preflight : Advance(c, l)
        \/ \E v \in {"refused", "preview", "unchanged"} : Return(c, v)
    BY <1>3 DEF ReadAdjacent, ReadCatalogAgain, Decide, Preflight
  <2>2. Locals'
    BY <2>1, LocalTypes
  <2>3. drift' \in [Invocation -> SUBSET Aspect] /\ relabels' \in [Invocation -> 0..2]
    <3>1. drift' = drift \/ drift' = [drift EXCEPT ![c] = {}]
      BY <1>3 DEF ReadAdjacent, ReadCatalogAgain, Decide, history
    <3>2. relabels' = relabels \/ relabels' = [relabels EXCEPT ![c] = 0]
      BY <1>3 DEF ReadAdjacent, ReadCatalogAgain, Decide, history
    <3>3. drift \in [Invocation -> SUBSET Aspect] /\ relabels \in [Invocation -> 0..2]
      BY DEF TypeOK
    <3>4. drift' \in [Invocation -> SUBSET Aspect]
      BY <3>1, <3>3
    <3>5. relabels' \in [Invocation -> 0..2]
      BY <3>2, <3>3
    <3> QED
      BY <3>4, <3>5
  <2>4. UNCHANGED <<ask, expect, wire, held, exact, landed>>
    BY <1>3 DEF ReadAdjacent, ReadCatalogAgain, Decide, history
  <2> QED
    BY <1>1, <2>2, <2>3, <2>4
<1>4. ASSUME NEW c \in Invocation, ReadCanonical(c) \/ ReadLabels(c) PROVE TypeOK'
  <2>1. Claimed(c) \in {"updated", "reconciled_update", "ambiguous"}
    BY DEF Claimed, TypeOK
  <2>2. \/ Advance(c, "labels")
        \/ \E v \in {"updated", "reconciled_update", "ambiguous"} : Return(c, v)
    BY <1>4, <2>1 DEF ReadCanonical, ReadLabels
  <2>3. Locals'
    BY <2>2, LocalTypes
  <2> QED
    BY <1>1, <1>4, <2>3 DEF ReadCanonical, ReadLabels, history, TypeOK
<1> USE <1>0 DEF TypeOK, provider, local, history, Goto, Preflight
<1>5. ASSUME NEW c \in Invocation, Start(c) PROVE TypeOK'
  BY <1>5 DEF Start, Issue
<1>6. ASSUME NEW c \in Invocation, ReadIssue(c) PROVE TypeOK'
  <2>1. NothingToDo(c)' \in BOOLEAN
    BY DEF NothingToDo
  <2> QED
    BY <1>6, <2>1, LookTypes DEF ReadIssue, Planned
<1>7. ASSUME NEW c \in Invocation, ReadCatalog(c) PROVE TypeOK'
  <2>1. Resolved(c) \in [Name -> Label \cup {Nil}]
    BY DEF Resolved
  <2> QED
    BY <1>7, <2>1 DEF ReadCatalog
<1>8. ASSUME NEW c \in Invocation, Write(c) PROVE TypeOK'
  BY <1>8, GoalIsBoolean DEF Write, Advance
<1>9. ASSUME NEW c \in Invocation, Answered(c) \/ NoAnswer(c) PROVE TypeOK'
  <2>1. unsafe' \in [Invocation -> {"no", "unsafe", "verified"}]
    BY <1>9 DEF Answered, VerifiedAnswer, NoAnswer
  <2>2. echo' \in [Invocation -> Seen \cup {Nil}]
    BY <1>9 DEF Answered, NoAnswer
  <2>3. pc' = [pc EXCEPT ![c] = "canonical"] /\ UNCHANGED <<ctx, view, ids, verdict>>
    BY <1>9 DEF Answered, NoAnswer
  <2>4. Locals'
    BY <2>1, <2>2, <2>3 DEF Locals
  <2> QED
    BY <1>1, <1>9, <2>4 DEF Answered, NoAnswer
<1>10. ASSUME NEW c \in Invocation, Expire(c) PROVE TypeOK'
  BY <1>10 DEF Expire
<1>11. ASSUME NEW Own, Changed(Own)
       PROVE /\ held' \in [Invocation -> BOOLEAN] /\ exact' \in [Invocation -> BOOLEAN]
             /\ drift' \in [Invocation -> SUBSET Aspect] /\ relabels' \in [Invocation -> 0..2]
  <2>1. \A d \in Invocation :
          /\ (held[d] \/ (Active(d) /\ Goal(d)')) \in BOOLEAN
          /\ (exact[d] \/ (Active(d) /\ Goal(d)' /\ SameLabels(d)')) \in BOOLEAN
    BY Zenon
  <2>2. \A d \in Invocation : relabels'[d] \in {relabels[d], relabels[d] + 1}
          /\ (relabels'[d] = relabels[d] \/ relabels[d] < 2)
    BY <1>11 DEF Changed
  <2>3. relabels' \in [Invocation -> 0..2]
    <3>1. relabels' = [d \in Invocation |-> relabels'[d]]
      BY <1>11 DEF Changed
    <3>2. \A d \in Invocation : relabels'[d] \in 0..2
      <4>1. \A d \in Invocation : relabels[d] \in 0..2
        OBVIOUS
      <4>2. \A n \in 0..2 : \A m \in {n, n + 1} : m = n \/ n < 2 => m \in 0..2
        BY SMT
      <4> QED
        BY <2>2, <4>1, <4>2
    <3> QED
      BY <3>1, <3>2
  <2> QED
    BY <1>11, <2>1, <2>3 DEF Changed
<1>12. ASSUME NEW c \in Invocation, Apply(c) PROVE TypeOK'
  <2>1. /\ held' \in [Invocation -> BOOLEAN] /\ exact' \in [Invocation -> BOOLEAN]
        /\ drift' \in [Invocation -> SUBSET Aspect] /\ relabels' \in [Invocation -> 0..2]
    BY <1>11, <1>12 DEF Apply
  <2>2. echo' \in [Invocation -> Seen \cup {Nil}]
    BY <1>12, NextLook DEF Apply
  <2> QED
    BY <1>12, <2>1, <2>2 DEF Apply
<1>13. ASSUME NEW c \in Invocation, DropWrite(c) PROVE TypeOK'
  BY <1>13 DEF DropWrite
<1>14. CASE OtherEdits \/ OtherRelabels
  <2>1. /\ held' \in [Invocation -> BOOLEAN] /\ exact' \in [Invocation -> BOOLEAN]
        /\ drift' \in [Invocation -> SUBSET Aspect] /\ relabels' \in [Invocation -> 0..2]
    BY <1>11, <1>14 DEF OtherEdits, OtherRelabels
  <2>2. ByOthers
    BY <1>14 DEF OtherEdits, OtherRelabels
  <2> QED
    BY <2>1, <2>2 DEF ByOthers
<1>15. CASE UNCHANGED vars
  BY <1>15 DEF vars
<1> QED
  BY <1>2, <1>3, <1>4, <1>5, <1>6, <1>7, <1>8, <1>9, <1>10, <1>12, <1>13, <1>14, <1>15
     DEF Next, Run, Provider

\* The strengthened invariant holds in every reachable state: bounds, types, and for each
\* run its stages, evidence, answers, labels and window.
THEOREM Invariance == Spec => []IInv
<1>1. IInv /\ [Next]_vars => IInv'
  <2> SUFFICES ASSUME IInv, [Next]_vars PROVE IInv'
    OBVIOUS
  <2>1. Bounds'
    BY BoundStep DEF IInv
  <2>2. issue' \in Issue /\ catalog' \in [Name -> Label \cup {Nil}] /\ others' \in 0..MaxOther
    BY <2>1, ProviderTypes DEF IInv
  <2>3. ASSUME NEW d \in Invocation PROVE RunInv(d)'
    BY <2>2, AllStep DEF IInv
  <2>4. TypeOK'
    BY <2>2, <2>3, TypeStep DEF IInv
  <2> QED
    BY <2>1, <2>3, <2>4 DEF IInv
<1> QED
  BY <1>1, InitInv, PTL DEF Spec

\* Every variable keeps its type, the revision its bound, no answer outlives its run, and
\* every label an edit adds or removes was found, however many runs, names and labels.
THEOREM TypeCorrect == Spec => []TypeOK
BY Invariance, PTL DEF IInv

\* updated: the run's own PUT left the issue as planned.  And no single rename, deletion
\* or creation of a label yields a success with another label of the requested name.
THEOREM WholeEdit == Spec => []SuccessIsTheWholeEdit
<1>1. IInv => SuccessIsTheWholeEdit
  BY DEF IInv, RunInv, AnswerOf, LabelsOf, SuccessIsTheWholeEdit
<1> QED
  BY <1>1, Invariance, PTL

\* However late the PUT is carried out: it changes the issue the plan was made from, but
\* for what others changed after the run's last look at it.
THEOREM Reviewed == Spec => EditsTheReviewed
<1>1. IInv =>
        [\A c \in Invocation :
           wire[c] = "inflight" /\ wire'[c] = "applied"
             => \A a \in Aspect : Look[a] = view[c][a] \/ a \in drift[c]]_vars
  BY DEF IInv, RunInv, WindowOf
<1> QED
  BY <1>1, Invariance, PTL DEF EditsTheReviewed

-----------------------------------------------------------------------------
(* Each step is a step of GuardedWrite, or leaves its variables alone.      *)

AbstractPhase == [c \in Invocation |-> Phase(c)]
AbstractEffect == [c \in Invocation |-> Effect(c)]
AbstractVerdict == [c \in Invocation |-> Claim(c)]

\* Nothing the caller or the provider could notice.
Silent ==
  /\ UNCHANGED <<wire, held, verdict>>
  /\ \A d \in Invocation : pc'[d] = "idle" <=> pc[d] = "idle"

\* Such a step changes nothing that GuardedWrite speaks of.
LEMMA SilentStep == ASSUME Silent PROVE UNCHANGED GW!vars
<1>1. \A d \in Invocation : Phase(d)' = Phase(d) /\ Effect(d)' = Effect(d) /\ Claim(d)' = Claim(d)
  BY DEF Silent, Phase, Effect, Claim
<1>2. UNCHANGED <<AbstractPhase, AbstractEffect, AbstractVerdict, held>>
  BY <1>1 DEF AbstractPhase, AbstractEffect, AbstractVerdict, Silent
<1> QED
  BY <1>2 DEF GW!vars, AbstractPhase, AbstractEffect, AbstractVerdict

\* A run says v to its caller, and does nothing else.
Says(c, v) ==
  /\ UNCHANGED <<wire, held>>
  /\ pc[c] # "idle"
  /\ verdict[c] = "none"
  /\ pc' = [pc EXCEPT ![c] = "done"]
  /\ verdict' = [verdict EXCEPT ![c] = v]

ClaimOf(v) == 
  CASE v = "unchanged" -> "noop"
    [] v = "preview" -> "refused"
    [] v \in Successes -> "done"
    [] OTHER -> v

\* In GuardedWrite's variables that changes the verdict of one run.
LEMMA SaysStep ==
  ASSUME TypeOK, NEW c \in Invocation, NEW v, Says(c, v)
  PROVE /\ UNCHANGED <<AbstractPhase, AbstractEffect, held>>
        /\ AbstractVerdict' = [AbstractVerdict EXCEPT ![c] = ClaimOf(v)]
        /\ Claim(c) = "none"
<1>1. \A d \in Invocation : Phase(d)' = Phase(d) /\ Effect(d)' = Effect(d)
  BY DEF Says, Phase, Effect, TypeOK
<1>2. \A d \in Invocation : Claim(d)' = IF d = c THEN ClaimOf(v) ELSE Claim(d)
  BY DEF Says, Claim, ClaimOf, TypeOK, Successes
<1>3. Claim(c) = "none"
  BY DEF Says, Claim, Successes
<1> QED
  BY <1>1, <1>2, <1>3 DEF AbstractPhase, AbstractEffect, AbstractVerdict, Says

\* An answer before a request is sent is GuardedWrite's Decline; that nothing was to be
\* done has been true.
LEMMA DeclineStep ==
  ASSUME TypeOK, NEW c \in Invocation, NEW v \in {"refused", "preview", "unchanged"},
         Says(c, v), wire[c] = "unsent", v = "unchanged" => held[c]
  PROVE GW!Decline(c)
<1>1. Phase(c) = "preflight"
  BY DEF Phase, Says
<1>2. ClaimOf(v) = IF v = "unchanged" THEN "noop" ELSE "refused"
  BY DEF ClaimOf, Successes
<1>3. /\ UNCHANGED <<AbstractPhase, AbstractEffect, held>>
      /\ AbstractVerdict' = [AbstractVerdict EXCEPT ![c] = ClaimOf(v)]
      /\ Claim(c) = "none"
  BY SaysStep
<1> QED
  BY <1>1, <1>2, <1>3 DEF GW!Decline, AbstractPhase, AbstractEffect, AbstractVerdict

\* An answer after a request was sent is GuardedWrite's Conclude, if a success has
\* evidence.
LEMMA ConcludeStep ==
  ASSUME TypeOK, NEW c \in Invocation, NEW v, Says(c, v), wire[c] # "unsent",
         (v \in Successes /\ held[c]) \/ v = "ambiguous"
  PROVE GW!Conclude(c)
<1>1. Phase(c) = "attempted"
  BY DEF Phase, Says
<1>2. (v \in Successes => ClaimOf(v) = "done") /\ (v = "ambiguous" => ClaimOf(v) = v)
  BY DEF ClaimOf, Successes
<1>3. /\ UNCHANGED <<AbstractPhase, AbstractEffect, held>>
      /\ AbstractVerdict' = [AbstractVerdict EXCEPT ![c] = ClaimOf(v)]
      /\ Claim(c) = "none"
  BY SaysStep
<1> QED
  BY <1>1, <1>2, <1>3 DEF GW!Conclude, AbstractPhase, AbstractEffect, AbstractVerdict

\* A change at the provider is noted by every run under way or by none.
LEMMA ObserveStep == ASSUME TypeOK, NEW Own, Changed(Own) \/ UNCHANGED held PROVE GW!Observe
<1>1. CASE Changed(Own)
  <2>1. \A d \in Invocation : held'[d] <=> held[d] \/ (Active(d) /\ Goal(d)')
    BY <1>1, Noted
  <2>2. \A d \in Invocation : (held[d] \/ (Active(d) /\ Goal(d)')) \in BOOLEAN
    BY DEF TypeOK
  <2>3. held' \in [Invocation -> BOOLEAN]
    BY <1>1, <2>2 DEF Changed
  <2> QED
    BY <2>1, <2>3 DEF GW!Observe, TypeOK
<1>2. CASE UNCHANGED held
  BY <1>2 DEF GW!Observe, TypeOK
<1> QED
  BY <1>1, <1>2

\* Every step is a step of GuardedWrite or leaves its variables alone.
LEMMA RefinementStep == IInv /\ [Next]_vars => [GW!Next]_(GW!vars)
<1> SUFFICES ASSUME IInv, [Next]_vars PROVE [GW!Next]_(GW!vars)
  OBVIOUS
<1> USE DEF IInv, history
<1>1. ASSUME NEW c \in Invocation, ReadCatalog(c) \/ Answered(c) \/ NoAnswer(c) \/ Expire(c) \/ Crash(c)
      PROVE UNCHANGED GW!vars
  <2>1. Silent
    BY <1>1 DEF Silent, ReadCatalog, Answered, NoAnswer, Expire, Crash, End, Goto, Active, TypeOK
  <2> QED
    BY <2>1, SilentStep
<1>2. CASE UNCHANGED vars
  <2>1. Silent
    BY <1>2 DEF Silent, vars
  <2> QED
    BY <2>1, SilentStep
<1>3. ASSUME NEW c \in Invocation, Refuse(c) PROVE GW!Decline(c)
  <2>1. Says(c, "refused") /\ wire[c] = "unsent"
    BY <1>3 DEF Refuse, Says, Return, End, Goto, Preflight, RunInv, StageOf
  <2> QED
    BY <2>1, DeclineStep
<1>4. ASSUME NEW c \in Invocation, ReadAdjacent(c) \/ ReadCatalogAgain(c) \/ Decide(c)
      PROVE UNCHANGED GW!vars \/ GW!Decline(c)
  <2>1. /\ wire[c] = "unsent" /\ verdict[c] = "none" /\ pc[c] \in {"adjacent", "recatalog", "decide"}
        /\ NothingToDo(c) => held[c]
        /\ UNCHANGED <<wire, held>>
    BY <1>4 DEF ReadAdjacent, ReadCatalogAgain, Decide, RunInv, StageOf, EvidenceOf, Preflight, Planning
  <2>2. \/ \E l \in Preflight : Advance(c, l)
        \/ \E v \in {"refused", "preview", "unchanged"} :
             Return(c, v) /\ (v = "unchanged" => NothingToDo(c))
    BY <1>4 DEF ReadAdjacent, ReadCatalogAgain, Decide, Preflight
  <2>3. CASE \E l \in Preflight : Advance(c, l)
    <3>1. Silent
      BY <2>1, <2>3 DEF Silent, Advance, Goto, Preflight, TypeOK
    <3> QED
      BY <3>1, SilentStep
  <2>4. CASE \E v \in {"refused", "preview", "unchanged"} :
               Return(c, v) /\ (v = "unchanged" => NothingToDo(c))
    <3>1. PICK v \in {"refused", "preview", "unchanged"} :
            Return(c, v) /\ (v = "unchanged" => NothingToDo(c))
      BY <2>4
    <3>2. Says(c, v)
      BY <2>1, <3>1 DEF Says, Return, End, Goto
    <3> QED
      BY <2>1, <3>1, <3>2, DeclineStep
  <2> QED
    BY <2>2, <2>3, <2>4
<1>5. ASSUME NEW c \in Invocation, ReadCanonical(c) \/ ReadLabels(c)
      PROVE UNCHANGED GW!vars \/ GW!Conclude(c)
  <2>1. /\ wire[c] # "unsent" /\ verdict[c] = "none" /\ pc[c] \in {"canonical", "labels"}
        /\ UNCHANGED <<wire, held>>
    BY <1>5 DEF ReadCanonical, ReadLabels, RunInv, StageOf, Attempted
  <2>2. CASE ReadCanonical(c) /\ pc'[c] # "done"
    <3>1. Silent
      BY <2>1, <2>2 DEF Silent, ReadCanonical, Advance, Return, End, Goto, TypeOK
    <3> QED
      BY <3>1, SilentStep
  <2>3. CASE \/ ReadCanonical(c) /\ pc'[c] = "done"
             \/ ReadLabels(c)
    <3>1. PICK v \in Successes \cup {"ambiguous"} : Return(c, v) /\ (v \in Successes => held[c])
      BY <2>3, Claims
    <3>2. Says(c, v)
      BY <2>1, <3>1 DEF Says, Return, End, Goto
    <3> QED
      BY <2>1, <3>1, <3>2, ConcludeStep
  <2> QED
    BY <1>5, <2>2, <2>3
<1>6. ASSUME NEW c \in Invocation, ReconcileFails(c) PROVE GW!Conclude(c)
  <2>1. Says(c, "ambiguous") /\ wire[c] # "unsent"
    BY <1>6 DEF ReconcileFails, Says, Return, End, Goto, RunInv, StageOf, Attempted
  <2> QED
    BY <2>1, ConcludeStep
<1>7. ASSUME NEW c \in Invocation, Start(c) PROVE GW!Begin(c)
  <2>1. /\ AbstractPhase' = [AbstractPhase EXCEPT ![c] = "preflight"]
        /\ AbstractPhase[c] = "idle"
    BY <1>7 DEF Start, Goto, AbstractPhase, Phase, TypeOK, RunInv, StageOf
  <2>2. UNCHANGED <<AbstractEffect, AbstractVerdict, held>>
    BY <1>7 DEF Start, AbstractEffect, AbstractVerdict, Effect, Claim
  <2>3. held' = [held EXCEPT ![c] = held[c]] /\ held[c] \in BOOLEAN
    BY <2>2 DEF TypeOK
  <2> QED
    BY <2>1, <2>2, <2>3 DEF GW!Begin, AbstractPhase, AbstractEffect, AbstractVerdict
<1>8. ASSUME NEW c \in Invocation, ReadIssue(c) PROVE GW!World
  <2>1. NothingToDo(c)' \in BOOLEAN
    BY DEF NothingToDo
  <2>2. UNCHANGED <<AbstractPhase, AbstractEffect, AbstractVerdict>>
    BY <1>8 DEF ReadIssue, Goto, AbstractPhase, AbstractEffect, AbstractVerdict, Phase, Effect,
                Claim, TypeOK
  <2>3. GW!Observe
    <3>1. ~held[c]
      BY <1>8 DEF ReadIssue, RunInv, StageOf
    <3> QED
      BY <1>8, <2>1, <3>1 DEF ReadIssue, Planned, GW!Observe, TypeOK
  <2> QED
    BY <2>2, <2>3 DEF GW!World, AbstractPhase, AbstractEffect, AbstractVerdict
<1>9. ASSUME NEW c \in Invocation, Write(c) PROVE GW!Attempt(c)
  <2>1. wire[c] = "unsent" /\ verdict[c] = "none" /\ pc[c] # "idle"
    BY <1>9 DEF Write, RunInv, StageOf, Preflight
  <2>2. PICK w \in {"inflight", "lost"} :
          wire' = [wire EXCEPT ![c] = w] /\ pc' = [pc EXCEPT ![c] = "reply"]
    BY <1>9 DEF Write, Advance, Goto
  <2>3. /\ AbstractPhase' = [AbstractPhase EXCEPT ![c] = "attempted"]
        /\ AbstractPhase[c] = "preflight"
    BY <2>1, <2>2 DEF AbstractPhase, Phase, TypeOK
  <2>4. AbstractEffect' = [AbstractEffect EXCEPT ![c] = IF w = "lost" THEN "dropped" ELSE "inflight"]
    BY <2>1, <2>2 DEF AbstractEffect, Effect, TypeOK
  <2>5. AbstractVerdict' = AbstractVerdict /\ AbstractVerdict[c] = "none"
    BY <1>9, <2>1 DEF Write, Advance, AbstractVerdict, Claim, Successes
  <2>6. \E h \in BOOLEAN : held' = [held EXCEPT ![c] = h]
    BY <1>9, GoalIsBoolean DEF Write
  <2> QED
    BY <2>3, <2>4, <2>5, <2>6 DEF GW!Attempt, AbstractPhase, AbstractEffect, AbstractVerdict
<1>10. ASSUME NEW c \in Invocation, Provider(c) PROVE GW!Settle(c)
  <2>1. PICK w \in {"applied", "refused", "lost"} :
          wire[c] = "inflight" /\ wire' = [wire EXCEPT ![c] = w] /\ UNCHANGED <<pc, verdict>>
    BY <1>10 DEF Provider, Apply, DropWrite
  <2>2. GW!Observe
    BY <1>10, ObserveStep DEF Provider, Apply, DropWrite
  <2>3. UNCHANGED <<AbstractPhase, AbstractVerdict>>
    BY <2>1 DEF AbstractPhase, AbstractVerdict, Phase, Claim, TypeOK
  <2>4. /\ AbstractEffect[c] = "inflight"
        /\ AbstractEffect' = [AbstractEffect EXCEPT ![c] = IF w = "applied" THEN w ELSE "dropped"]
    BY <2>1 DEF AbstractEffect, Effect, TypeOK
  <2> QED
    BY <2>2, <2>3, <2>4 DEF GW!Settle, AbstractPhase, AbstractEffect, AbstractVerdict
<1>11. CASE OtherEdits \/ OtherRelabels
  <2>1. UNCHANGED <<pc, wire, verdict>>
    BY <1>11 DEF OtherEdits, OtherRelabels, ByOthers
  <2>2. UNCHANGED <<AbstractPhase, AbstractEffect, AbstractVerdict>>
    BY <2>1 DEF AbstractPhase, AbstractEffect, AbstractVerdict, Phase, Effect, Claim, Successes
  <2>3. GW!Observe
    BY <1>11, ObserveStep DEF OtherEdits, OtherRelabels
  <2> QED
    BY <2>2, <2>3 DEF GW!Next, GW!World, AbstractPhase, AbstractEffect, AbstractVerdict
<1> QED
  BY <1>1, <1>2, <1>3, <1>4, <1>5, <1>6, <1>7, <1>8, <1>9, <1>10, <1>11
     DEF Next, Run, Provider, GW!Next

\* An issue edit keeps GuardedWrite's promise for any number of runs and others: one PUT
\* at most, none behind a preview or an ordinary error, and a success only when the issue
\* really was as planned.
THEOREM Refinement == Spec => ImplementsGuardedWrite
<1>1. Init => GW!Init
  BY DEF Init, GW!Init, Phase, Effect, Claim, Successes
<1>2. IInv /\ [Next]_vars => [GW!Next]_(GW!vars)
  BY RefinementStep
<1> QED
  BY <1>1, <1>2, Invariance, PTL DEF Spec, ImplementsGuardedWrite, GW!Spec
=============================================================================
