------------------------- MODULE NoteAndDeleteProofs ------------------------
(***************************************************************************)
(* Two commands that review an item, write once and reconcile, for any      *)
(* number of runs and of changes by others.                                 *)
(*                                                                         *)
(* The note, comment, create, close and reopen commands (NoteWrite) keep    *)
(* their types, implement GuardedWrite, and land a note on the subject both *)
(* looks showed.  The argument: the counters stay below their bounds        *)
(* because every change of the subject is one of an other actor's or the    *)
(* one note of a run (Bounds); an answer tells what became of the POST      *)
(* (Stages); what a run is about to claim has been true (Evidence); and     *)
(* from the second look to the end of the request a change of the subject   *)
(* is noted (Window).                                                       *)
(*                                                                         *)
(* The delete commands (ResourceDelete, with its invariant in               *)
(* DeletionInvariant) keep their types, implement GuardedWrite, and delete  *)
(* what was reviewed.  The argument: an answer tells what became of the     *)
(* request (Answers), an acknowledgment is only remembered of a request     *)
(* carried out while its run could notice (Stages), and what a request that *)
(* may still be carried out will remove is the reviewed revision unless it  *)
(* changed after the second look (Window).                                  *)
(*                                                                         *)
(* The two share the names of what every guarded write has (pc, wire, held, *)
(* drift, ...) and nothing else: a theorem about Delete!Spec is about       *)
(* behaviours of ResourceDelete alone, under the assumption ResourceDelete  *)
(* makes of its constants, which an instance has to repeat.                 *)
(***************************************************************************)
EXTENDS NoteWrite, FiniteSetTheorems, TLAPS

\* What deletes have and notes do not.
CONSTANTS Rev, Nil
VARIABLES kind, res, used, tag, access, ask, acked, took

Delete == INSTANCE DeletionInvariant

Waiting == {"reply", "relook", "readnote"}
Carried == {c \in Invocation : wire[c] = "applied"}

\* What the provider counts: others' changes, and one note of each run.
Bounds ==
  /\ head \in Nat /\ rev \in Nat /\ others \in 0..MaxOther
  /\ head <= others
  /\ rev <= others + Cardinality(Carried)

\* Where a run is tells what it has sent, heard and said.
StageOf(c) ==
  /\ pc[c] \in {"idle"} \cup Preflight => wire[c] = "unsent"
  /\ pc[c] \in Waiting => wire[c] # "unsent" /\ ~Transitions(c)
  /\ pc[c] = "decide" => Transitions(c)
  /\ pc[c] = "write" => ~Transitions(c)
  /\ pc[c] # "done" => verdict[c] = "none"
  /\ reply[c] = "exact" => wire[c] = "applied"
  /\ reply[c] = "status" => wire[c] = "refused"
  /\ c \in posted \cup altered => wire[c] = "applied"

\* What a run would claim has been true at the provider since it began, or attempted.
EvidenceOf(c) ==
  /\ Active(c) /\ Goal(c) => held[c]
  /\ pc[c] \in {"adjacent", "bind", "decide"} /\ Transitions(c) /\ seen[c].state = wants[c] =>
       held[c]
  /\ reply[c] = "exact" => held[c]

\* What the first look let pass is what the caller expected; from the second look to
\* the end of the request, a change of the subject is noted.
ReviewedOf(c) ==
  /\ pc[c] \in {"adjacent", "bind", "decide", "write"} \/ wire[c] = "inflight"
  /\ action[c] # "create"
  => seen[c].head = 0 /\ (action[c] # "comment" => seen[c].state = expects[c])

WindowOf(c) ==
  /\ pc[c] \in {"bind", "decide", "write"} \/ wire[c] = "inflight"
  /\ action[c] # "create"
  => Subject = seen[c] \/ drift[c]

Stages == \A c \in Invocation : StageOf(c)
Evidence == \A c \in Invocation : EvidenceOf(c)
Window == \A c \in Invocation : WindowOf(c) /\ ReviewedOf(c)

IInv == Bounds /\ TypeOK /\ Stages /\ Evidence /\ Window

\* Any runs are finitely many, at most all.
LEMMA AtMostAll ==
  ASSUME NEW R \in SUBSET Invocation
  PROVE /\ IsFiniteSet(R) /\ Cardinality(R) \in Nat
        /\ Cardinality(Invocation) \in Nat /\ Cardinality(R) <= Cardinality(Invocation)
BY NoteAssumption, FS_Subset, FS_CardinalityType

\* So the counters are within the bounds of the types.
LEMMA WithinBounds ==
  ASSUME NEW n \in Nat, NEW o \in 0..MaxOther, NEW R \in SUBSET Invocation,
         n <= o + Cardinality(R)
  PROVE n \in 0..MaxRev
BY AtMostAll, NoteAssumption DEF MaxRev

\* What a run was asked for is true or false.
LEMMA GoalIsBoolean == ASSUME NEW c PROVE Goal(c) \in BOOLEAN
<1>1. CASE Transitions(c)
  BY <1>1 DEF Goal
<1>2. CASE ~Transitions(c)
  BY <1>2 DEF Goal
<1> QED
  BY <1>1, <1>2

\* The initial states satisfy the invariant.
LEMMA InitInv == Init => IInv
<1> SUFFICES ASSUME Init PROVE IInv
  OBVIOUS
<1>1. Bounds
  <2>1. Carried = {}
    BY DEF Init, Carried
  <2> QED
    BY <2>1, FS_EmptySet, NoteAssumption DEF Init, Bounds
<1>2. TypeOK
  <2>1. 0 \in 0..MaxOther /\ 0 \in 0..MaxRev
    BY AtMostAll, NoteAssumption DEF MaxRev
  <2> QED
    BY <2>1 DEF Init, TypeOK, State, Subject, Preflight
<1>3. Stages /\ Evidence /\ Window
  BY DEF Init, Stages, StageOf, Evidence, EvidenceOf, Window, WindowOf, ReviewedOf, Preflight, Waiting,
     Active
<1> QED
  BY <1>1, <1>2, <1>3 DEF IInv

\* A step that neither counts a change nor ends a request leaves the counters below
\* their bounds.
LEMMA Uncounted ==
  ASSUME Bounds, UNCHANGED <<head, rev, others, Carried>> PROVE Bounds'
BY DEF Bounds

\* Every note and every change by others is counted once.
LEMMA BoundStep == TypeOK /\ Bounds /\ Stages /\ [Next]_vars => Bounds'
<1> SUFFICES ASSUME TypeOK, Bounds, Stages, [Next]_vars PROVE Bounds'
  OBVIOUS
<1>1. ASSUME NEW c \in Invocation, Run(c) PROVE Bounds'
  <2>1. \/ wire' = wire
        \/ pc[c] = "write" /\ (\E w \in {"inflight", "lost"} : wire' = [wire EXCEPT ![c] = w])
    BY <1>1 DEF Run, Start, Stop, Identify, Review, Adjacent, Bind, Decide, Write, IssueAnswered,
       IssueAnswerLost, MRAnswered, Relook, ReadNote, ReadFails, Expire, Crash, Reads, Return, Goto
  <2>2. UNCHANGED Carried
    BY <2>1 DEF Carried, TypeOK, Stages, StageOf, Preflight
  <2>3. UNCHANGED <<head, rev, others>>
    BY <1>1 DEF Run, provider, Start, Stop, Identify, Review, Adjacent, Bind, Decide, Write,
       IssueAnswered, IssueAnswerLost, MRAnswered, Relook, ReadNote, ReadFails, Expire, Crash,
       Reads, Return, Goto
  <2> QED
    BY <2>2, <2>3, Uncounted
<1>2. ASSUME NEW c \in Invocation, ApplyPost(c) PROVE Bounds'
  <2>1. Carried' = Carried \cup {c} /\ c \notin Carried
    BY <1>2 DEF ApplyPost, Carried, TypeOK
  <2>2. Cardinality(Carried') = Cardinality(Carried) + 1
    BY <2>1, AtMostAll, FS_AddElement DEF Carried
  <2>3. head' = head /\ others' = others /\ rev' \in {rev, rev + 1}
    BY <1>2 DEF ApplyPost
  <2> QED
    BY <2>2, <2>3, AtMostAll, NoteAssumption DEF Bounds, Carried
<1>3. ASSUME NEW c \in Invocation, DropPost(c) PROVE Bounds'
  <2>1. UNCHANGED Carried
    BY <1>3 DEF DropPost, Carried, TypeOK
  <2> QED
    BY <1>3, <2>1, Uncounted DEF DropPost, provider
<1>4. CASE OtherChanges \/ OtherPosts \/ OtherLocksOut
  <2>1. UNCHANGED Carried
    BY <1>4 DEF OtherChanges, OtherPosts, OtherLocksOut, Disturb, Carried
  <2>2. /\ others' = others + 1 /\ others < MaxOther
        /\ head' \in {head, head + 1} /\ rev' \in {rev, rev + 1}
    BY <1>4 DEF OtherChanges, OtherPosts, OtherLocksOut, Disturb
  <2> QED
    BY <2>1, <2>2, AtMostAll, NoteAssumption DEF Bounds, Carried
<1>5. CASE UNCHANGED vars
  BY <1>5, Uncounted DEF vars, provider, Carried
<1> QED
  BY <1>1, <1>2, <1>3, <1>4, <1>5 DEF Next, Provider

\* What a run keeps for itself keeps its types when the run returns or goes on.
LEMMA LocalTypes ==
  ASSUME TypeOK, NEW c \in Invocation,
         UNCHANGED <<provider, request, seen, wire, held>>, drift' \in [Invocation -> BOOLEAN],
         \/ \E v \in {"none", "error", "unchanged", "refused", "created", "rejected", "ambiguous"} :
              Return(c, v)
         \/ /\ \E l \in Preflight : Goto(c, l)
            /\ reply[c] = "none"
            /\ UNCHANGED <<ctx, reply, verdict>>
         \/ /\ \E l \in {"relook", "readnote"} : Goto(c, l)
            /\ reply' \in {reply, [reply EXCEPT ![c] = "unproved"]}
            /\ UNCHANGED <<ctx, verdict>>
  PROVE TypeOK'
<1>1. /\ pc' \in [Invocation -> {"idle", "reply", "relook", "readnote", "done"} \cup Preflight]
      /\ ctx' \in [Invocation -> {"live", "done"}]
  <2>1. \E l \in {"relook", "readnote", "done"} \cup Preflight : pc' = [pc EXCEPT ![c] = l]
    BY DEF Return, Goto
  <2>2. ctx' = ctx \/ ctx' = [ctx EXCEPT ![c] = "done"]
    BY DEF Return
  <2> QED
    BY <2>1, <2>2 DEF TypeOK
<1>2. reply' \in [Invocation -> {"none", "exact", "unproved", "status"}]
  <2>1. \/ reply' = reply
        \/ \E r \in {"none", "unproved"} : reply' = [reply EXCEPT ![c] = r]
    BY DEF Return
  <2> QED
    BY <2>1 DEF TypeOK
<1>3. verdict' \in [Invocation -> {"none", "error", "unchanged", "refused", "created",
                                   "rejected", "ambiguous"}]
  BY DEF TypeOK, Return
<1>4. ASSUME NEW d \in Invocation, pc'[d] \in {"idle", "done"} \cup Preflight
      PROVE reply'[d] = "none"
  <2>1. CASE d # c
    BY <1>4, <2>1 DEF TypeOK, Return, Goto
  <2>2. CASE d = c
    BY <1>4, <2>2 DEF TypeOK, Return, Goto, Preflight
  <2> QED
    BY <2>1, <2>2
<1>5. MaxRev' = MaxRev
  BY DEF MaxRev
<1> QED
  BY <1>1, <1>2, <1>3, <1>4, <1>5 DEF TypeOK, provider, request

\* The types: what remains once the counters are within their bounds.
LEMMA TypeStep == TypeOK /\ Stages /\ Bounds /\ Bounds' /\ [Next]_vars => TypeOK'
<1> SUFFICES ASSUME TypeOK, Stages, Bounds, Bounds', [Next]_vars PROVE TypeOK'
  OBVIOUS
<1> USE NoteAssumption DEF TypeOK, State, Stages, StageOf, provider, request, history,
       Goto, Return, Preflight
<1>0. head' \in 0..MaxOther /\ rev' \in 0..MaxRev
  <2>1. Carried' \subseteq Invocation
    BY DEF Carried
  <2> QED
    BY <2>1, WithinBounds, NoteAssumption DEF Bounds
<1>1. ASSUME NEW c \in Invocation, Start(c) PROVE TypeOK'
  BY <1>1, GoalIsBoolean DEF Start
<1>2. ASSUME NEW c \in Invocation, Stop(c) PROVE TypeOK'
  BY <1>2, LocalTypes DEF Stop
<1>3. ASSUME NEW c \in Invocation, Identify(c) PROVE TypeOK'
  BY <1>3, LocalTypes DEF Identify, Reads
<1>4. ASSUME NEW c \in Invocation, Review(c) PROVE TypeOK'
  BY <1>4 DEF Review, Reads, Subject
<1>5. ASSUME NEW c \in Invocation, Adjacent(c) PROVE TypeOK'
  <2>1. drift' \in [Invocation -> BOOLEAN]
    BY <1>5 DEF Adjacent
  <2>2. \E l \in Preflight : Goto(c, l)
    BY <1>5 DEF Adjacent, AfterLooks
  <2> QED
    BY <1>5, <2>1, <2>2, LocalTypes DEF Adjacent, Reads
<1>6. ASSUME NEW c \in Invocation, Bind(c) PROVE TypeOK'
  <2>1. \E l \in Preflight : Goto(c, l)
    BY <1>6 DEF Bind
  <2> QED
    BY <1>6, <2>1, LocalTypes DEF Bind, Reads
<1>7. ASSUME NEW c \in Invocation, Decide(c) PROVE TypeOK'
  BY <1>7, LocalTypes DEF Decide
<1>8. ASSUME NEW c \in Invocation, Write(c) PROVE TypeOK'
  BY <1>8, GoalIsBoolean DEF Write
<1>9. ASSUME NEW c \in Invocation, IssueAnswered(c) PROVE TypeOK'
  <2>1. \E v \in {"created", "rejected", "ambiguous"} : Return(c, v)
    BY <1>9 DEF IssueAnswered
  <2> QED
    BY <1>9, <2>1, LocalTypes DEF IssueAnswered
<1>10. ASSUME NEW c \in Invocation, IssueAnswerLost(c) PROVE TypeOK'
  BY <1>10, LocalTypes DEF IssueAnswerLost
<1>11. ASSUME NEW c \in Invocation, MRAnswered(c) PROVE TypeOK'
  BY <1>11, LocalTypes DEF MRAnswered
<1>12. ASSUME NEW c \in Invocation, Relook(c) PROVE TypeOK'
  <2>1. \/ Goto(c, "readnote") /\ UNCHANGED <<ctx, reply, verdict>>
        \/ \E v \in {"rejected", "ambiguous"} : Return(c, v)
    BY <1>12 DEF Relook
  <2> QED
    BY <1>12, <2>1, LocalTypes DEF Relook
<1>13. ASSUME NEW c \in Invocation, ReadNote(c) PROVE TypeOK'
  BY <1>13, LocalTypes DEF ReadNote
<1>14. ASSUME NEW c \in Invocation, ReadFails(c) PROVE TypeOK'
  BY <1>14, LocalTypes DEF ReadFails
<1>15. ASSUME NEW c \in Invocation, Expire(c) PROVE TypeOK'
  BY <1>15 DEF Expire
<1>16. ASSUME NEW c \in Invocation, Crash(c) PROVE TypeOK'
  BY <1>16, LocalTypes DEF Crash
<1>17. ASSUME NEW c \in Invocation, ApplyPost(c) PROVE TypeOK'
  <2>1. posted' \subseteq Invocation /\ altered' \subseteq Invocation \ posted'
    BY <1>17 DEF ApplyPost
  <2>2. reply' \in [Invocation -> {"none", "exact", "unproved", "status"}]
    BY <1>17 DEF ApplyPost, Answer
  <2>3. \A d \in Invocation : pc'[d] \in {"idle", "done"} \cup Preflight => reply'[d] = "none"
    BY <1>17 DEF ApplyPost, Answer
  <2>4. held' \in [Invocation -> BOOLEAN] /\ drift' \in [Invocation -> BOOLEAN]
    <3>1. \A d \in Invocation : (held[d] \/ (Active(d) /\ Goal(d)')) \in BOOLEAN
      OBVIOUS
    <3>2. held' \in [Invocation -> BOOLEAN]
      BY <1>17, <3>1 DEF ApplyPost, Observed
    <3>3. drift' \in [Invocation -> BOOLEAN]
      <4>1. drift' = drift \/ drift' = [d \in Invocation |-> drift[d] \/ d # c]
        BY <1>17 DEF ApplyPost
      <4>2. [d \in Invocation |-> drift[d] \/ d # c] \in [Invocation -> BOOLEAN]
        BY Zenon
      <4> QED
        BY <4>1, <4>2
    <3> QED
      BY <3>2, <3>3
  <2>5. wire' \in [Invocation -> {"unsent", "inflight", "applied", "refused", "lost"}]
    BY <1>17 DEF ApplyPost
  <2> QED
    BY <1>17, <1>0, <2>1, <2>2, <2>3, <2>4, <2>5 DEF ApplyPost
<1>18. ASSUME NEW c \in Invocation, DropPost(c) PROVE TypeOK'
  <2>1. reply' \in [Invocation -> {"none", "exact", "unproved", "status"}]
    BY <1>18 DEF DropPost, Answer
  <2>2. \A d \in Invocation : pc'[d] \in {"idle", "done"} \cup Preflight => reply'[d] = "none"
    BY <1>18 DEF DropPost, Answer
  <2>3. wire' \in [Invocation -> {"unsent", "inflight", "applied", "refused", "lost"}]
    BY <1>18 DEF DropPost
  <2> QED
    BY <1>18, <2>1, <2>2, <2>3 DEF DropPost
<1>19. CASE OtherChanges
  <2>1. others' \in 0..MaxOther
    BY <1>19 DEF OtherChanges, Disturb
  <2>2. held' \in [Invocation -> BOOLEAN] /\ drift' \in [Invocation -> BOOLEAN]
    BY <1>19 DEF OtherChanges, Observed, Changed
  <2>3. state' \in State
    BY <1>19 DEF OtherChanges
  <2> QED
    BY <1>19, <1>0, <2>1, <2>2, <2>3 DEF OtherChanges, Disturb
<1>20. CASE OtherPosts
  <2>1. others' \in 0..MaxOther
    BY <1>20 DEF OtherPosts, Disturb
  <2>2. drift' \in [Invocation -> BOOLEAN] /\ strangers' \in BOOLEAN
    BY <1>20 DEF OtherPosts, Changed
  <2>3. posted' \subseteq Invocation /\ altered' \subseteq Invocation \ posted'
    BY <1>20 DEF OtherPosts
  <2> QED
    BY <1>20, <1>0, <2>1, <2>2, <2>3 DEF OtherPosts, Disturb
<1>21. CASE OtherLocksOut
  BY <1>21 DEF OtherLocksOut, Disturb
<1>22. CASE UNCHANGED vars
  BY <1>22 DEF vars
<1> QED
  BY <1>1, <1>2, <1>3, <1>4, <1>5, <1>6, <1>7, <1>8, <1>9, <1>10, <1>11, <1>12, <1>13, <1>14,
     <1>15, <1>16, <1>17, <1>18, <1>19, <1>20, <1>21, <1>22 DEF Next, Run, Provider

\* Every step leaves a run's request, answer and item as its new place has them.
LEMMA StageStep == TypeOK /\ Stages /\ [Next]_vars => Stages'
<1> SUFFICES ASSUME TypeOK, Stages, [Next]_vars, NEW d \in Invocation
             PROVE StageOf(d)'
  BY DEF Stages
<1> USE DEF TypeOK, Stages, StageOf, provider, request, history, Goto, Return, Preflight, Waiting,
       Transitions, OnIssue
<1>1. ASSUME NEW c \in Invocation, Start(c) PROVE StageOf(d)'
  BY <1>1 DEF Start
<1>2. ASSUME NEW c \in Invocation, Stop(c) PROVE StageOf(d)'
  BY <1>2 DEF Stop
<1>3. ASSUME NEW c \in Invocation, Identify(c) PROVE StageOf(d)'
  BY <1>3 DEF Identify, Reads
<1>4. ASSUME NEW c \in Invocation, Review(c) PROVE StageOf(d)'
  BY <1>4 DEF Review, Reads, Subject
<1>5. ASSUME NEW c \in Invocation, Adjacent(c) PROVE StageOf(d)'
  BY <1>5 DEF Adjacent, Reads, AfterLooks
<1>6. ASSUME NEW c \in Invocation, Bind(c) PROVE StageOf(d)'
  BY <1>6 DEF Bind, Reads
<1>7. ASSUME NEW c \in Invocation, Decide(c) PROVE StageOf(d)'
  BY <1>7 DEF Decide
<1>8. ASSUME NEW c \in Invocation, Write(c) PROVE StageOf(d)'
  BY <1>8 DEF Write
<1>9. ASSUME NEW c \in Invocation, IssueAnswered(c) PROVE StageOf(d)'
  BY <1>9 DEF IssueAnswered
<1>10. ASSUME NEW c \in Invocation, IssueAnswerLost(c) PROVE StageOf(d)'
  BY <1>10 DEF IssueAnswerLost
<1>11. ASSUME NEW c \in Invocation, MRAnswered(c) PROVE StageOf(d)'
  BY <1>11 DEF MRAnswered
<1>12. ASSUME NEW c \in Invocation, Relook(c) PROVE StageOf(d)'
  BY <1>12 DEF Relook, Reads
<1>13. ASSUME NEW c \in Invocation, ReadNote(c) PROVE StageOf(d)'
  BY <1>13 DEF ReadNote, Reads
<1>14. ASSUME NEW c \in Invocation, ReadFails(c) PROVE StageOf(d)'
  BY <1>14 DEF ReadFails
<1>15. ASSUME NEW c \in Invocation, Expire(c) PROVE StageOf(d)'
  BY <1>15 DEF Expire
<1>16. ASSUME NEW c \in Invocation, Crash(c) PROVE StageOf(d)'
  BY <1>16 DEF Crash
<1>17. ASSUME NEW c \in Invocation, ApplyPost(c) PROVE StageOf(d)'
  BY <1>17 DEF ApplyPost, Answer
<1>18. ASSUME NEW c \in Invocation, DropPost(c) PROVE StageOf(d)'
  BY <1>18 DEF DropPost, Answer
<1>19. CASE OtherChanges
  BY <1>19 DEF OtherChanges, Disturb, Changed
<1>20. CASE OtherPosts
  BY <1>20 DEF OtherPosts, Disturb, Changed
<1>21. CASE OtherLocksOut
  BY <1>21 DEF OtherLocksOut, Disturb
<1>22. CASE UNCHANGED vars
  BY <1>22 DEF vars
<1> QED
  BY <1>1, <1>2, <1>3, <1>4, <1>5, <1>6, <1>7, <1>8, <1>9, <1>10, <1>11, <1>12, <1>13, <1>14,
     <1>15, <1>16, <1>17, <1>18, <1>19, <1>20, <1>21, <1>22 DEF Next, Run, Provider

\* Whatever a run would claim stays true of what it has seen.
LEMMA EvidenceStep == TypeOK /\ Stages /\ Evidence /\ [Next]_vars => Evidence'
<1> SUFFICES ASSUME TypeOK, Stages, Evidence, [Next]_vars, NEW d \in Invocation
             PROVE EvidenceOf(d)'
  BY DEF Evidence
<1> USE DEF TypeOK, Stages, StageOf, Evidence, EvidenceOf, provider, request, history, Goto, Return,
       Preflight, Waiting, Transitions, OnIssue, Active, Goal
<1>1. ASSUME NEW c \in Invocation, Start(c) PROVE EvidenceOf(d)'
  <2>1. (d = c => (held'[d] <=> Goal(d))) /\ (d # c => held'[d] = held[d])
    BY <1>1, GoalIsBoolean DEF Start
  <2>2. Goal(d)' <=> Goal(d)
    BY <1>1 DEF Start
  <2>3. pc' = [pc EXCEPT ![c] = "identify"] /\ UNCHANGED <<action, wants, seen, reply>>
    BY <1>1 DEF Start
  <2>4. CASE d = c
    BY <2>1, <2>2, <2>3, <2>4, <1>1 DEF Start
  <2>5. CASE d # c
    BY <2>1, <2>2, <2>3, <2>5
  <2> QED
    BY <2>4, <2>5
<1>2. ASSUME NEW c \in Invocation, Stop(c) PROVE EvidenceOf(d)'
  BY <1>2 DEF Stop
<1>3. ASSUME NEW c \in Invocation, Identify(c) PROVE EvidenceOf(d)'
  BY <1>3 DEF Identify, Reads
<1>4. ASSUME NEW c \in Invocation, Review(c) PROVE EvidenceOf(d)'
  BY <1>4 DEF Review, Reads, Subject
<1>5. ASSUME NEW c \in Invocation, Adjacent(c) PROVE EvidenceOf(d)'
  BY <1>5 DEF Adjacent, Reads, AfterLooks
<1>6. ASSUME NEW c \in Invocation, Bind(c) PROVE EvidenceOf(d)'
  BY <1>6 DEF Bind, Reads
<1>7. ASSUME NEW c \in Invocation, Decide(c) PROVE EvidenceOf(d)'
  BY <1>7 DEF Decide
<1>8. ASSUME NEW c \in Invocation, Write(c) PROVE EvidenceOf(d)'
  BY <1>8 DEF Write
<1>9. ASSUME NEW c \in Invocation, IssueAnswered(c) PROVE EvidenceOf(d)'
  BY <1>9 DEF IssueAnswered
<1>10. ASSUME NEW c \in Invocation, IssueAnswerLost(c) PROVE EvidenceOf(d)'
  BY <1>10 DEF IssueAnswerLost
<1>11. ASSUME NEW c \in Invocation, MRAnswered(c) PROVE EvidenceOf(d)'
  BY <1>11 DEF MRAnswered
<1>12. ASSUME NEW c \in Invocation, Relook(c) PROVE EvidenceOf(d)'
  BY <1>12 DEF Relook, Reads
<1>13. ASSUME NEW c \in Invocation, ReadNote(c) PROVE EvidenceOf(d)'
  BY <1>13 DEF ReadNote, Reads
<1>14. ASSUME NEW c \in Invocation, ReadFails(c) PROVE EvidenceOf(d)'
  BY <1>14 DEF ReadFails
<1>15. ASSUME NEW c \in Invocation, Expire(c) PROVE EvidenceOf(d)'
  BY <1>15 DEF Expire
<1>16. ASSUME NEW c \in Invocation, Crash(c) PROVE EvidenceOf(d)'
  BY <1>16 DEF Crash
<1>17. ASSUME NEW c \in Invocation, ApplyPost(c) PROVE EvidenceOf(d)'
  <2>1. held'[d] <=> held[d] \/ (Active(d) /\ Goal(d)')
    BY <1>17 DEF ApplyPost, Observed
  <2>2. UNCHANGED <<action, wants, pc, seen, state>>
    BY <1>17 DEF ApplyPost
  <2>3. reply'[d] = "exact" => reply[d] = "exact" \/ (pc[d] = "reply" /\ d \in posted')
    BY <1>17 DEF ApplyPost, Answer
  <2> QED
    BY <2>1, <2>2, <2>3
<1>18. ASSUME NEW c \in Invocation, DropPost(c) PROVE EvidenceOf(d)'
  BY <1>18 DEF DropPost, Answer
<1>19. CASE OtherChanges
  <2>1. held'[d] <=> held[d] \/ (Active(d) /\ Goal(d)')
    BY <1>19 DEF OtherChanges, Observed
  <2>2. UNCHANGED <<action, wants, pc, seen, reply, posted>>
    BY <1>19 DEF OtherChanges, Disturb
  <2> QED
    BY <2>1, <2>2
<1>20. CASE OtherPosts
  BY <1>20 DEF OtherPosts, Disturb, Changed
<1>21. CASE OtherLocksOut
  BY <1>21 DEF OtherLocksOut, Disturb
<1>22. CASE UNCHANGED vars
  BY <1>22 DEF vars
<1> QED
  BY <1>1, <1>2, <1>3, <1>4, <1>5, <1>6, <1>7, <1>8, <1>9, <1>10, <1>11, <1>12, <1>13, <1>14,
     <1>15, <1>16, <1>17, <1>18, <1>19, <1>20, <1>21, <1>22 DEF Next, Run, Provider

\* From the second look on, only a noted change can come between.
LEMMA WindowStep == TypeOK /\ Stages /\ Window /\ [Next]_vars => Window'
<1> SUFFICES ASSUME TypeOK, Stages, Window, [Next]_vars, NEW d \in Invocation
             PROVE (WindowOf(d) /\ ReviewedOf(d))'
  BY DEF Window
<1> USE DEF TypeOK, Stages, StageOf, Window, WindowOf, ReviewedOf, provider, request, history, Goto, Return,
       Preflight, Waiting, Subject, Active, OnIssue, Transitions
<1>1. ASSUME NEW c \in Invocation, Start(c) PROVE (WindowOf(d) /\ ReviewedOf(d))'
  BY <1>1 DEF Start
<1>2. ASSUME NEW c \in Invocation, Stop(c) PROVE (WindowOf(d) /\ ReviewedOf(d))'
  BY <1>2 DEF Stop
<1>3. ASSUME NEW c \in Invocation, Identify(c) PROVE (WindowOf(d) /\ ReviewedOf(d))'
  BY <1>3 DEF Identify, Reads
<1>4. ASSUME NEW c \in Invocation, Review(c) PROVE (WindowOf(d) /\ ReviewedOf(d))'
  BY <1>4 DEF Review, Reads, Subject, Expected
<1>5. ASSUME NEW c \in Invocation, Adjacent(c) PROVE (WindowOf(d) /\ ReviewedOf(d))'
  BY <1>5 DEF Adjacent, Reads, AfterLooks, SameSubject
<1>6. ASSUME NEW c \in Invocation, Bind(c) PROVE (WindowOf(d) /\ ReviewedOf(d))'
  BY <1>6 DEF Bind, Reads
<1>7. ASSUME NEW c \in Invocation, Decide(c) PROVE (WindowOf(d) /\ ReviewedOf(d))'
  BY <1>7 DEF Decide
<1>8. ASSUME NEW c \in Invocation, Write(c) PROVE (WindowOf(d) /\ ReviewedOf(d))'
  BY <1>8 DEF Write
<1>9. ASSUME NEW c \in Invocation, IssueAnswered(c) PROVE (WindowOf(d) /\ ReviewedOf(d))'
  BY <1>9 DEF IssueAnswered
<1>10. ASSUME NEW c \in Invocation, IssueAnswerLost(c) PROVE (WindowOf(d) /\ ReviewedOf(d))'
  BY <1>10 DEF IssueAnswerLost
<1>11. ASSUME NEW c \in Invocation, MRAnswered(c) PROVE (WindowOf(d) /\ ReviewedOf(d))'
  BY <1>11 DEF MRAnswered
<1>12. ASSUME NEW c \in Invocation, Relook(c) PROVE (WindowOf(d) /\ ReviewedOf(d))'
  BY <1>12 DEF Relook, Reads
<1>13. ASSUME NEW c \in Invocation, ReadNote(c) PROVE (WindowOf(d) /\ ReviewedOf(d))'
  BY <1>13 DEF ReadNote, Reads
<1>14. ASSUME NEW c \in Invocation, ReadFails(c) PROVE (WindowOf(d) /\ ReviewedOf(d))'
  BY <1>14 DEF ReadFails
<1>15. ASSUME NEW c \in Invocation, Expire(c) PROVE (WindowOf(d) /\ ReviewedOf(d))'
  BY <1>15 DEF Expire
<1>16. ASSUME NEW c \in Invocation, Crash(c) PROVE (WindowOf(d) /\ ReviewedOf(d))'
  BY <1>16 DEF Crash
<1>17. ASSUME NEW c \in Invocation, ApplyPost(c) PROVE (WindowOf(d) /\ ReviewedOf(d))'
  <2>1. CASE d = c
    BY <1>17, <2>1 DEF ApplyPost
  <2>2. CASE d # c /\ action[c] = "create"
    BY <1>17, <2>2 DEF ApplyPost
  <2>3. CASE d # c /\ action[c] # "create"
    <3>1. drift' = [e \in Invocation |-> drift[e] \/ e # c]
      BY <1>17, <2>3 DEF ApplyPost
    <3>2. wire'[d] = wire[d] /\ UNCHANGED <<pc, seen, action, expects>>
      BY <1>17, <2>3 DEF ApplyPost
    <3>3. ReviewedOf(d)'
      BY <3>2
    <3>4. WindowOf(d)'
      BY <2>3, <3>1
    <3> QED
      BY <3>3, <3>4
  <2> QED
    BY <2>1, <2>2, <2>3
<1>18. ASSUME NEW c \in Invocation, DropPost(c) PROVE (WindowOf(d) /\ ReviewedOf(d))'
  BY <1>18 DEF DropPost, Answer
<1>19. CASE OtherChanges
  BY <1>19 DEF OtherChanges, Disturb, Changed
<1>20. CASE OtherPosts
  BY <1>20 DEF OtherPosts, Disturb, Changed
<1>21. CASE OtherLocksOut
  BY <1>21 DEF OtherLocksOut, Disturb
<1>22. CASE UNCHANGED vars
  BY <1>22 DEF vars
<1> QED
  BY <1>1, <1>2, <1>3, <1>4, <1>5, <1>6, <1>7, <1>8, <1>9, <1>10, <1>11, <1>12, <1>13, <1>14,
     <1>15, <1>16, <1>17, <1>18, <1>19, <1>20, <1>21, <1>22 DEF Next, Run, Provider

\* The strengthened invariant holds in every reachable state: bounds, types, stages,
\* evidence, and the window after the second look.
THEOREM Invariance == Spec => []IInv
<1>1. IInv /\ [Next]_vars => IInv'
  BY BoundStep, TypeStep, StageStep, EvidenceStep, WindowStep DEF IInv
<1> QED
  BY <1>1, InitInv, PTL DEF Spec

\* Every variable keeps its type, the counters their bounds, and no answer outlives its
\* run, however many runs there are.
THEOREM TypeCorrect == Spec => []TypeOK
BY Invariance, PTL DEF IInv

\* However late the POST is carried out: the note lands on the subject as both looks
\* showed it and the caller expected it, or that changed after the second look.
THEOREM Reviewed == Spec => NotesWhatWasReviewed
<1>1. IInv =>
        [\A c \in Invocation :
           wire[c] = "inflight" /\ wire'[c] = "applied" /\ action[c] # "create" =>
             /\ Subject = seen[c] \/ drift[c]
             /\ seen[c].head = 0
             /\ action[c] # "comment" => seen[c].state = expects[c]]_vars
  BY DEF IInv, Window, WindowOf, ReviewedOf
<1> QED
  BY <1>1, Invariance, PTL DEF NotesWhatWasReviewed

-----------------------------------------------------------------------------
(* Each step is a step of GuardedWrite, or leaves its variables alone.      *)

AbstractPhase == [c \in Invocation |-> Phase(c)]
AbstractEffect == [c \in Invocation |-> Effect(c)]
AbstractVerdict == [c \in Invocation |-> Claim(c)]

\* Nothing the caller or the provider could notice.
Silent ==
  /\ UNCHANGED <<wire, held, verdict>>
  /\ \A d \in Invocation : pc'[d] = "idle" <=> pc[d] = "idle"

\* Such a step changes nothing that GuardedWrite speaks of.
LEMMA SilentStep == ASSUME Silent PROVE UNCHANGED GW!vars
<1>1. \A d \in Invocation : Phase(d)' = Phase(d) /\ Effect(d)' = Effect(d) /\ Claim(d)' = Claim(d)
  BY DEF Silent, Phase, Effect, Claim
<1>2. UNCHANGED <<AbstractPhase, AbstractEffect, AbstractVerdict, held>>
  BY <1>1 DEF AbstractPhase, AbstractEffect, AbstractVerdict, Silent
<1> QED
  BY <1>2 DEF GW!vars, AbstractPhase, AbstractEffect, AbstractVerdict

\* A run says v to its caller, and does nothing else.
Says(c, v) ==
  /\ UNCHANGED <<wire, held>>
  /\ pc[c] # "idle"
  /\ verdict[c] = "none"
  /\ pc' = [pc EXCEPT ![c] = "done"]
  /\ verdict' = [verdict EXCEPT ![c] = v]

ClaimOf(v) ==
  CASE v = "error" -> "refused"
    [] v = "unchanged" -> "noop"
    [] v = "created" -> "done"
    [] OTHER -> v

\* In GuardedWrite's variables that changes the verdict of one run.
LEMMA SaysStep ==
  ASSUME TypeOK, NEW c \in Invocation, NEW v, Says(c, v)
  PROVE /\ UNCHANGED <<AbstractPhase, AbstractEffect, held>>
        /\ AbstractVerdict' = [AbstractVerdict EXCEPT ![c] = ClaimOf(v)]
        /\ Claim(c) = "none"
<1>1. \A d \in Invocation : Phase(d)' = Phase(d) /\ Effect(d)' = Effect(d)
  BY DEF Says, Phase, Effect, TypeOK
<1>2. \A d \in Invocation : Claim(d)' = IF d = c THEN ClaimOf(v) ELSE Claim(d)
  BY DEF Says, Claim, ClaimOf, TypeOK
<1>3. Claim(c) = "none"
  BY DEF Says, Claim
<1> QED
  BY <1>1, <1>2, <1>3 DEF AbstractPhase, AbstractEffect, AbstractVerdict, Says

\* An answer before a request is sent is GuardedWrite's Decline; a close or reopen
\* that reports the state as asked has seen it.
LEMMA DeclineStep ==
  ASSUME TypeOK, NEW c \in Invocation, NEW v \in {"error", "refused", "unchanged"},
         Says(c, v), wire[c] = "unsent", v = "unchanged" => held[c]
  PROVE GW!Decline(c)
<1>1. Phase(c) = "preflight"
  BY DEF Phase, Says
<1>2. ClaimOf(v) = IF v = "unchanged" THEN "noop" ELSE "refused"
  BY DEF ClaimOf
<1>3. /\ UNCHANGED <<AbstractPhase, AbstractEffect, held>>
      /\ AbstractVerdict' = [AbstractVerdict EXCEPT ![c] = ClaimOf(v)]
      /\ Claim(c) = "none"
  BY SaysStep
<1> QED
  BY <1>1, <1>2, <1>3 DEF GW!Decline, AbstractPhase, AbstractEffect, AbstractVerdict

\* An answer after a request was sent is GuardedWrite's Conclude, if created has
\* evidence and rejected a refused request.
LEMMA ConcludeStep ==
  ASSUME TypeOK, NEW c \in Invocation, NEW v, Says(c, v), wire[c] # "unsent",
         \/ v = "created" /\ held[c]
         \/ v = "rejected" /\ wire[c] = "refused"
         \/ v = "ambiguous"
  PROVE GW!Conclude(c)
<1>1. Phase(c) = "attempted" /\ (v = "rejected" => Effect(c) = "dropped")
  BY DEF Phase, Says, Effect
<1>2. /\ v = "created" => ClaimOf(v) = "done"
      /\ v \in {"rejected", "ambiguous"} => ClaimOf(v) = v
  BY DEF ClaimOf
<1>3. /\ UNCHANGED <<AbstractPhase, AbstractEffect, held>>
      /\ AbstractVerdict' = [AbstractVerdict EXCEPT ![c] = ClaimOf(v)]
      /\ Claim(c) = "none"
  BY SaysStep
<1> QED
  BY <1>1, <1>2, <1>3 DEF GW!Conclude, AbstractPhase, AbstractEffect, AbstractVerdict

\* A change at the provider is noted by every run under way or by none.
LEMMA ObserveStep == ASSUME TypeOK, Observed \/ UNCHANGED held PROVE GW!Observe
<1>1. CASE Observed
  <2>1. \A d \in Invocation : (held[d] \/ (Active(d) /\ Goal(d)')) \in BOOLEAN
    BY DEF TypeOK
  <2> QED
    BY <1>1, <2>1 DEF Observed, GW!Observe, TypeOK
<1>2. CASE UNCHANGED held
  BY <1>2 DEF GW!Observe, TypeOK
<1> QED
  BY <1>1, <1>2

\* Every step is a step of GuardedWrite or leaves its variables alone.
LEMMA RefinementStep == IInv /\ [Next]_vars => [GW!Next]_(GW!vars)
<1> SUFFICES ASSUME IInv, [Next]_vars PROVE [GW!Next]_(GW!vars)
  OBVIOUS
<1> USE DEF IInv, history
<1>1. ASSUME NEW c \in Invocation,
             \/ Identify(c) \/ Review(c) \/ Adjacent(c) \/ Bind(c) \/ MRAnswered(c) \/ Expire(c)
      PROVE UNCHANGED GW!vars
  <2>1. Silent
    BY <1>1 DEF Silent, Identify, Review, Adjacent, Bind, Reads, MRAnswered, AfterLooks,
                Expire, Goto, Active, TypeOK
  <2> QED
    BY <2>1, SilentStep
<1>2. ASSUME NEW c \in Invocation, Crash(c) PROVE UNCHANGED GW!vars
  <2>1. verdict' = verdict
    BY <1>2 DEF Crash, Return, TypeOK
  <2>2. Silent
    BY <1>2, <2>1 DEF Silent, Crash, Return, Goto, Active, TypeOK
  <2> QED
    BY <2>2, SilentStep
<1>3. CASE OtherPosts \/ OtherLocksOut \/ UNCHANGED vars
  <2>1. Silent
    BY <1>3 DEF Silent, OtherPosts, OtherLocksOut, Disturb, vars
  <2> QED
    BY <2>1, SilentStep
<1>4. ASSUME NEW c \in Invocation, Stop(c) PROVE GW!Decline(c)
  <2>1. Says(c, "error") /\ wire[c] = "unsent"
    BY <1>4 DEF Stop, Says, Return, Goto, Preflight, Stages, StageOf
  <2> QED
    BY <2>1, DeclineStep
<1>5. ASSUME NEW c \in Invocation, Decide(c) PROVE GW!Decline(c)
  <2>1. /\ wire[c] = "unsent" /\ verdict[c] = "none"
        /\ seen[c].state = wants[c] => held[c]
    BY <1>5 DEF Decide, Stages, StageOf, Preflight, Evidence, EvidenceOf
  <2>2. PICK v \in {"unchanged", "refused"} :
          Return(c, v) /\ (v = "unchanged" => seen[c].state = wants[c])
    BY <1>5 DEF Decide
  <2>3. Says(c, v)
    BY <1>5, <2>1, <2>2 DEF Decide, Says, Return, Goto
  <2> QED
    BY <2>1, <2>2, <2>3, DeclineStep
<1>6. ASSUME NEW c \in Invocation, IssueAnswered(c) PROVE GW!Conclude(c)
  <2>1. /\ verdict[c] = "none" /\ wire[c] # "unsent" /\ pc[c] = "reply"
        /\ reply[c] = "exact" => held[c]
        /\ reply[c] = "status" => wire[c] = "refused"
    BY <1>6 DEF IssueAnswered, Stages, StageOf, Waiting, Evidence, EvidenceOf
  <2>2. PICK v \in {"created", "rejected", "ambiguous"} :
          /\ Return(c, v)
          /\ v = "created" => reply[c] = "exact"
          /\ v = "rejected" => reply[c] = "status"
    BY <1>6 DEF IssueAnswered
  <2>3. Says(c, v)
    BY <1>6, <2>1, <2>2 DEF IssueAnswered, Says, Return, Goto
  <2> QED
    BY <2>1, <2>2, <2>3, ConcludeStep
<1>7. ASSUME NEW c \in Invocation, Relook(c) PROVE UNCHANGED GW!vars \/ GW!Conclude(c)
  <2>1. /\ verdict[c] = "none" /\ wire[c] # "unsent" /\ pc[c] = "relook"
        /\ reply[c] = "status" => wire[c] = "refused"
    BY <1>7 DEF Relook, Reads, Stages, StageOf, Waiting
  <2>2. \/ Goto(c, "readnote") /\ UNCHANGED verdict
        \/ Return(c, "rejected") /\ reply[c] = "status"
        \/ Return(c, "ambiguous")
    BY <1>7 DEF Relook
  <2>3. CASE Goto(c, "readnote") /\ UNCHANGED verdict
    <3>1. Silent
      BY <1>7, <2>1, <2>3 DEF Relook, Silent, Goto, TypeOK
    <3> QED
      BY <3>1, SilentStep
  <2>4. ASSUME NEW v, Return(c, v) PROVE Says(c, v)
    BY <1>7, <2>1, <2>4 DEF Relook, Says, Return, Goto
  <2> QED
    BY <2>1, <2>2, <2>3, <2>4, ConcludeStep
<1>8. ASSUME NEW c \in Invocation, ReadNote(c) PROVE GW!Conclude(c)
  <2>1. /\ verdict[c] = "none" /\ wire[c] # "unsent" /\ pc[c] = "readnote"
        /\ c \in posted => held[c]
    BY <1>8 DEF ReadNote, Reads, Stages, StageOf, Waiting, Evidence, EvidenceOf, Active, Goal
  <2>2. PICK v \in {"created", "ambiguous"} : Return(c, v) /\ (v = "created" => c \in posted)
    BY <1>8 DEF ReadNote
  <2>3. Says(c, v)
    BY <1>8, <2>1, <2>2 DEF ReadNote, Says, Return, Goto
  <2> QED
    BY <2>1, <2>2, <2>3, ConcludeStep
<1>9. ASSUME NEW c \in Invocation, IssueAnswerLost(c) \/ ReadFails(c) PROVE GW!Conclude(c)
  <2>1. Says(c, "ambiguous") /\ wire[c] # "unsent"
    BY <1>9 DEF IssueAnswerLost, ReadFails, Says, Return, Goto, Stages, StageOf, Waiting
  <2> QED
    BY <2>1, ConcludeStep
<1>10. ASSUME NEW c \in Invocation, Start(c) PROVE GW!Begin(c)
  <2>1. /\ AbstractPhase' = [AbstractPhase EXCEPT ![c] = "preflight"]
        /\ AbstractPhase[c] = "idle"
    BY <1>10 DEF Start, Goto, AbstractPhase, Phase, TypeOK, Stages, StageOf
  <2>2. UNCHANGED <<AbstractEffect, AbstractVerdict>>
    BY <1>10 DEF Start, AbstractEffect, AbstractVerdict, Effect, Claim
  <2>3. \E h \in BOOLEAN : held' = [held EXCEPT ![c] = h]
    BY <1>10, GoalIsBoolean DEF Start
  <2> QED
    BY <2>1, <2>2, <2>3 DEF GW!Begin, AbstractPhase, AbstractEffect, AbstractVerdict
<1>11. ASSUME NEW c \in Invocation, Write(c) PROVE GW!Attempt(c)
  <2>1. wire[c] = "unsent" /\ verdict[c] = "none" /\ pc[c] # "idle"
    BY <1>11 DEF Write, Stages, StageOf, Preflight
  <2>2. PICK w \in {"inflight", "lost"} :
          wire' = [wire EXCEPT ![c] = w] /\ pc' = [pc EXCEPT ![c] = "reply"]
    BY <1>11 DEF Write, Goto
  <2>3. /\ AbstractPhase' = [AbstractPhase EXCEPT ![c] = "attempted"]
        /\ AbstractPhase[c] = "preflight"
    BY <2>1, <2>2 DEF AbstractPhase, Phase, TypeOK
  <2>4. AbstractEffect' =
          [AbstractEffect EXCEPT ![c] = IF w = "lost" THEN "dropped" ELSE "inflight"]
    BY <2>1, <2>2 DEF AbstractEffect, Effect, TypeOK
  <2>5. AbstractVerdict' = AbstractVerdict /\ AbstractVerdict[c] = "none"
    BY <1>11, <2>1 DEF Write, AbstractVerdict, Claim
  <2>6. \E h \in BOOLEAN : held' = [held EXCEPT ![c] = h]
    BY <1>11, GoalIsBoolean DEF Write
  <2> QED
    BY <2>3, <2>4, <2>5, <2>6 DEF GW!Attempt, AbstractPhase, AbstractEffect, AbstractVerdict
<1>12. ASSUME NEW c \in Invocation, Provider(c) PROVE GW!Settle(c)
  <2>1. PICK w \in {"applied", "refused", "lost"} :
          wire[c] = "inflight" /\ wire' = [wire EXCEPT ![c] = w] /\ UNCHANGED <<pc, verdict>>
    BY <1>12 DEF Provider, ApplyPost, DropPost
  <2>2. GW!Observe
    BY <1>12, ObserveStep DEF Provider, ApplyPost, DropPost
  <2>3. UNCHANGED <<AbstractPhase, AbstractVerdict>>
    BY <2>1 DEF AbstractPhase, AbstractVerdict, Phase, Claim, TypeOK
  <2>4. /\ AbstractEffect[c] = "inflight"
        /\ AbstractEffect' = [AbstractEffect EXCEPT ![c] = IF w = "applied" THEN w ELSE "dropped"]
    BY <2>1 DEF AbstractEffect, Effect, TypeOK
  <2> QED
    BY <2>2, <2>3, <2>4 DEF GW!Settle, AbstractPhase, AbstractEffect, AbstractVerdict
<1>13. CASE OtherChanges
  <2>1. UNCHANGED <<AbstractPhase, AbstractEffect, AbstractVerdict>>
    BY <1>13 DEF OtherChanges, Disturb, AbstractPhase, AbstractEffect, AbstractVerdict,
                 Phase, Effect, Claim
  <2>2. GW!Observe
    BY <1>13, ObserveStep DEF OtherChanges
  <2> QED
    BY <2>1, <2>2 DEF GW!Next, GW!World, AbstractPhase, AbstractEffect, AbstractVerdict
<1> QED
  BY <1>1, <1>2, <1>3, <1>4, <1>5, <1>6, <1>7, <1>8, <1>9, <1>10, <1>11, <1>12, <1>13
     DEF Next, Run, Provider, GW!Next

\* A run that notes, comments, creates, closes or reopens keeps GuardedWrite's promise
\* for any number of runs and others: one POST at most, none from a close or reopen, and
\* created only of its own item as asked.
THEOREM Refinement == Spec => ImplementsGuardedWrite
<1>1. Init => GW!Init
  BY DEF Init, GW!Init, Phase, Effect, Claim
<1>2. IInv /\ [Next]_vars => [GW!Next]_(GW!vars)
  BY RefinementStep
<1> QED
  BY <1>1, <1>2, Invariance, PTL DEF Spec, ImplementsGuardedWrite, GW!Spec

-----------------------------------------------------------------------------
(* The delete commands.                                                     *)

\* The initial states satisfy the invariant.
LEMMA DeleteInitInv == ASSUME Delete!DeleteAssumption PROVE Delete!Init => Delete!IInv
<1> SUFFICES ASSUME Delete!Init PROVE Delete!IInv
  OBVIOUS
<1>1. Delete!TypeOK
  BY Delete!DeleteAssumption DEF Delete!Init, Delete!TypeOK, Delete!Kind
<1>2. Delete!Stages /\ Delete!Answers /\ Delete!Window
  BY Delete!DeleteAssumption DEF Delete!Init, Delete!Stages, Delete!StageOf, Delete!Answers,
     Delete!AnswerOf, Delete!Window, Delete!WindowOf,
                          Delete!Preflight, Delete!Reconciling, Delete!Active
<1> QED
  BY <1>1, <1>2 DEF Delete!IInv

\* The types are inductive by themselves: no call writes what another cannot read.
LEMMA DeleteTypeStep ==
  ASSUME Delete!DeleteAssumption
  PROVE Delete!TypeOK /\ [Delete!Next]_(Delete!vars) => Delete!TypeOK'
<1> SUFFICES ASSUME Delete!TypeOK, [Delete!Next]_(Delete!vars) PROVE Delete!TypeOK'
  OBVIOUS
<1> USE Delete!DeleteAssumption DEF Delete!TypeOK, Delete!provider, Delete!history, Delete!Goto,
   Delete!End, Delete!Return, Delete!Preflight
<1>1. ASSUME NEW c \in Invocation, Delete!Start(c) PROVE Delete!TypeOK'
  BY <1>1 DEF Delete!Start, Delete!Goal
<1>2. ASSUME NEW c \in Invocation, Delete!Refuse(c) PROVE Delete!TypeOK'
  BY <1>2 DEF Delete!Refuse
<1>3. ASSUME NEW c \in Invocation, Delete!Identify(c) PROVE Delete!TypeOK'
  BY <1>3 DEF Delete!Identify, Delete!Passes
<1>4. ASSUME NEW c \in Invocation, Delete!CheckTag(c) PROVE Delete!TypeOK'
  BY <1>4 DEF Delete!CheckTag, Delete!Passes
<1>5. ASSUME NEW c \in Invocation, Delete!Review(c) PROVE Delete!TypeOK'
  BY <1>5 DEF Delete!Review, Delete!Passes
<1>6. ASSUME NEW c \in Invocation, Delete!Bind(c) PROVE Delete!TypeOK'
  BY <1>6 DEF Delete!Bind, Delete!Passes
<1>7. ASSUME NEW c \in Invocation, Delete!Final(c) PROVE Delete!TypeOK'
  BY <1>7 DEF Delete!Final, Delete!Passes
<1>8. ASSUME NEW c \in Invocation, Delete!Write(c) PROVE Delete!TypeOK'
  BY <1>8 DEF Delete!Write, Delete!Goal
<1>9. ASSUME NEW c \in Invocation, Delete!Answered(c) PROVE Delete!TypeOK'
  <2>1. CASE Delete!Return(c, "rejected")
    BY <1>9, <2>1 DEF Delete!Answered
  <2>2. CASE Delete!Readback(c, Delete!Acknowledged(c))
    <3>1. Delete!Acknowledged(c) \in BOOLEAN
      BY DEF Delete!Acknowledged
    <3> QED
      BY <1>9, <2>2, <3>1 DEF Delete!Answered, Delete!Readback
  <2> QED
    BY <1>9, <2>1, <2>2 DEF Delete!Answered
<1>10. ASSUME NEW c \in Invocation, Delete!AnswerLost(c) PROVE Delete!TypeOK'
  BY <1>10 DEF Delete!AnswerLost, Delete!Readback
<1>11. ASSUME NEW c \in Invocation, Delete!ReadBack(c) PROVE Delete!TypeOK'
  <2>1. CASE Delete!Goto(c, "recheck") /\ UNCHANGED <<ctx, reply, acked, verdict>>
    BY <1>11, <2>1 DEF Delete!ReadBack
  <2>2. CASE Delete!Return(c, "ambiguous")
    BY <1>11, <2>2 DEF Delete!ReadBack
  <2> QED
    BY <1>11, <2>1, <2>2 DEF Delete!ReadBack
<1>12. ASSUME NEW c \in Invocation, Delete!Recheck(c) PROVE Delete!TypeOK'
  BY <1>12 DEF Delete!Recheck
<1>13. ASSUME NEW c \in Invocation, Delete!ReconcileFails(c) PROVE Delete!TypeOK'
  BY <1>13 DEF Delete!ReconcileFails
<1>14. ASSUME NEW c \in Invocation, Delete!Expire(c) PROVE Delete!TypeOK'
  BY <1>14 DEF Delete!Expire
<1>15. ASSUME NEW c \in Invocation, Delete!Crash(c) PROVE Delete!TypeOK'
  BY <1>15 DEF Delete!Crash
<1>16. ASSUME NEW c \in Invocation, Delete!ApplyDelete(c) PROVE Delete!TypeOK'
  BY <1>16 DEF Delete!ApplyDelete, Delete!Answer, Delete!Observed
<1>17. ASSUME NEW c \in Invocation, Delete!DropDelete(c) PROVE Delete!TypeOK'
  BY <1>17 DEF Delete!DropDelete, Delete!Answer
<1>18. CASE Delete!OtherChanges
  <2>1. res' \in used' \cup {Nil} /\ used' \subseteq Rev /\ held' \in [Invocation -> BOOLEAN]
    BY <1>18 DEF Delete!OtherChanges, Delete!Observed
  <2>2. drift' \in [Invocation -> BOOLEAN] /\ others' \in 0..MaxOther
    BY <1>18 DEF Delete!OtherChanges, Delete!Disturb
  <2> QED
    BY <1>18, <2>1, <2>2 DEF Delete!OtherChanges, Delete!Disturb
<1>19. CASE Delete!OtherInterferes
  <2>1. tag' \in BOOLEAN /\ access' \in {"full", "scoped", "none"}
    BY <1>19 DEF Delete!OtherInterferes
  <2>2. others' \in 0..MaxOther
    BY <1>19 DEF Delete!OtherInterferes, Delete!Disturb
  <2> QED
    BY <1>19, <2>1, <2>2 DEF Delete!OtherInterferes, Delete!Disturb
<1>20. CASE UNCHANGED Delete!vars
  BY <1>20 DEF Delete!vars
<1> QED
  BY <1>1, <1>2, <1>3, <1>4, <1>5, <1>6, <1>7, <1>8, <1>9, <1>10, <1>11, <1>12, <1>13,
     <1>14, <1>15, <1>16, <1>17, <1>18, <1>19, <1>20 DEF Delete!Next, Delete!Run, Delete!Provider

\* Every step leaves a run's request, answer and evidence as its new place has them.
LEMMA DeleteStageStep ==
  ASSUME Delete!DeleteAssumption
  PROVE Delete!TypeOK /\ Delete!Stages /\ Delete!Answers /\ [Delete!Next]_(Delete!vars) =>
          Delete!Stages'
<1> SUFFICES ASSUME Delete!TypeOK, Delete!Stages, Delete!Answers, [Delete!Next]_(Delete!vars),
   NEW d \in Invocation
             PROVE Delete!StageOf(d)'
  BY DEF Delete!Stages
<1> USE Delete!DeleteAssumption DEF Delete!TypeOK, Delete!Stages, Delete!StageOf, Delete!Answers,
   Delete!AnswerOf, Delete!provider, Delete!history,
       Delete!Goto, Delete!End, Delete!Return, Delete!Preflight, Delete!Reconciling, Delete!Active
<1>1. ASSUME NEW c \in Invocation, Delete!Start(c) PROVE Delete!StageOf(d)'
  BY <1>1 DEF Delete!Start, Delete!Goal
<1>2. ASSUME NEW c \in Invocation, Delete!Refuse(c) PROVE Delete!StageOf(d)'
  BY <1>2 DEF Delete!Refuse
<1>3. ASSUME NEW c \in Invocation, Delete!Identify(c) PROVE Delete!StageOf(d)'
  BY <1>3 DEF Delete!Identify, Delete!Passes
<1>4. ASSUME NEW c \in Invocation, Delete!CheckTag(c) PROVE Delete!StageOf(d)'
  BY <1>4 DEF Delete!CheckTag, Delete!Passes
<1>5. ASSUME NEW c \in Invocation, Delete!Review(c) PROVE Delete!StageOf(d)'
  BY <1>5 DEF Delete!Review, Delete!Passes
<1>6. ASSUME NEW c \in Invocation, Delete!Bind(c) PROVE Delete!StageOf(d)'
  BY <1>6 DEF Delete!Bind, Delete!Passes
<1>7. ASSUME NEW c \in Invocation, Delete!Final(c) PROVE Delete!StageOf(d)'
  BY <1>7 DEF Delete!Final, Delete!Passes
<1>8. ASSUME NEW c \in Invocation, Delete!Write(c) PROVE Delete!StageOf(d)'
  BY <1>8 DEF Delete!Write, Delete!Goal
<1>9. ASSUME NEW c \in Invocation, Delete!Answered(c) PROVE Delete!StageOf(d)'
  BY <1>9 DEF Delete!Answered, Delete!Readback, Delete!Acknowledged
<1>10. ASSUME NEW c \in Invocation, Delete!AnswerLost(c) PROVE Delete!StageOf(d)'
  BY <1>10 DEF Delete!AnswerLost, Delete!Readback
<1>11. ASSUME NEW c \in Invocation, Delete!ReadBack(c) PROVE Delete!StageOf(d)'
  BY <1>11 DEF Delete!ReadBack
<1>12. ASSUME NEW c \in Invocation, Delete!Recheck(c) PROVE Delete!StageOf(d)'
  BY <1>12 DEF Delete!Recheck
<1>13. ASSUME NEW c \in Invocation, Delete!ReconcileFails(c) PROVE Delete!StageOf(d)'
  BY <1>13 DEF Delete!ReconcileFails
<1>14. ASSUME NEW c \in Invocation, Delete!Expire(c) PROVE Delete!StageOf(d)'
  BY <1>14 DEF Delete!Expire
<1>15. ASSUME NEW c \in Invocation, Delete!Crash(c) PROVE Delete!StageOf(d)'
  BY <1>15 DEF Delete!Crash
<1>16. ASSUME NEW c \in Invocation, Delete!ApplyDelete(c) PROVE Delete!StageOf(d)'
  <2>1. held'[d] <=> held[d] \/ Delete!Active(d)
    BY <1>16 DEF Delete!ApplyDelete, Delete!Observed, Delete!Goal
  <2>2. took' = [took EXCEPT ![c] = res] /\ wire' = [wire EXCEPT ![c] = "applied"]
        /\ wire[c] = "inflight" /\ UNCHANGED <<pc, acked, verdict>>
    BY <1>16 DEF Delete!ApplyDelete
  <2>3. pc[d] # "reply" => reply'[d] = reply[d]
    BY <1>16 DEF Delete!ApplyDelete, Delete!Answer
  <2> QED
    BY <2>1, <2>2, <2>3
<1>17. ASSUME NEW c \in Invocation, Delete!DropDelete(c) PROVE Delete!StageOf(d)'
  BY <1>17 DEF Delete!DropDelete, Delete!Answer
<1>18. CASE Delete!OtherChanges
  BY <1>18 DEF Delete!OtherChanges, Delete!Disturb, Delete!Observed, Delete!Goal
<1>19. CASE Delete!OtherInterferes
  BY <1>19 DEF Delete!OtherInterferes, Delete!Disturb
<1>20. CASE UNCHANGED Delete!vars
  BY <1>20 DEF Delete!vars
<1> QED
  BY <1>1, <1>2, <1>3, <1>4, <1>5, <1>6, <1>7, <1>8, <1>9, <1>10, <1>11, <1>12, <1>13, <1>14,
     <1>15, <1>16, <1>17, <1>18, <1>19, <1>20 DEF Delete!Next, Delete!Run, Delete!Provider

\* Answers keep telling what became of the request.
LEMMA DeleteAnswerStep ==
  ASSUME Delete!DeleteAssumption
  PROVE Delete!TypeOK /\ Delete!Stages /\ Delete!Answers /\ [Delete!Next]_(Delete!vars) =>
          Delete!Answers'
<1> SUFFICES ASSUME Delete!TypeOK, Delete!Stages, Delete!Answers, [Delete!Next]_(Delete!vars),
   NEW d \in Invocation
             PROVE Delete!AnswerOf(d)'
  BY DEF Delete!Answers
<1> USE Delete!DeleteAssumption DEF Delete!TypeOK, Delete!Stages, Delete!StageOf, Delete!Answers,
   Delete!AnswerOf, Delete!provider, Delete!history,
       Delete!Goto, Delete!End, Delete!Return, Delete!Preflight, Delete!Reconciling, Delete!Kind
<1>1. ASSUME NEW c \in Invocation, Delete!Start(c) PROVE Delete!AnswerOf(d)'
  BY <1>1 DEF Delete!Start, Delete!Goal
<1>2. ASSUME NEW c \in Invocation, Delete!Refuse(c) PROVE Delete!AnswerOf(d)'
  BY <1>2 DEF Delete!Refuse
<1>3. ASSUME NEW c \in Invocation, Delete!Identify(c) PROVE Delete!AnswerOf(d)'
  BY <1>3 DEF Delete!Identify, Delete!Passes
<1>4. ASSUME NEW c \in Invocation, Delete!CheckTag(c) PROVE Delete!AnswerOf(d)'
  BY <1>4 DEF Delete!CheckTag, Delete!Passes
<1>5. ASSUME NEW c \in Invocation, Delete!Review(c) PROVE Delete!AnswerOf(d)'
  BY <1>5 DEF Delete!Review, Delete!Passes
<1>6. ASSUME NEW c \in Invocation, Delete!Bind(c) PROVE Delete!AnswerOf(d)'
  BY <1>6 DEF Delete!Bind, Delete!Passes
<1>7. ASSUME NEW c \in Invocation, Delete!Final(c) PROVE Delete!AnswerOf(d)'
  BY <1>7 DEF Delete!Final, Delete!Passes
<1>8. ASSUME NEW c \in Invocation, Delete!Write(c) PROVE Delete!AnswerOf(d)'
  BY <1>8 DEF Delete!Write, Delete!Goal
<1>9. ASSUME NEW c \in Invocation, Delete!Answered(c) PROVE Delete!AnswerOf(d)'
  BY <1>9 DEF Delete!Answered, Delete!Readback, Delete!Acknowledged
<1>10. ASSUME NEW c \in Invocation, Delete!AnswerLost(c) PROVE Delete!AnswerOf(d)'
  BY <1>10 DEF Delete!AnswerLost, Delete!Readback
<1>11. ASSUME NEW c \in Invocation, Delete!ReadBack(c) PROVE Delete!AnswerOf(d)'
  BY <1>11 DEF Delete!ReadBack
<1>12. ASSUME NEW c \in Invocation, Delete!Recheck(c) PROVE Delete!AnswerOf(d)'
  BY <1>12 DEF Delete!Recheck
<1>13. ASSUME NEW c \in Invocation, Delete!ReconcileFails(c) PROVE Delete!AnswerOf(d)'
  BY <1>13 DEF Delete!ReconcileFails
<1>14. ASSUME NEW c \in Invocation, Delete!Expire(c) PROVE Delete!AnswerOf(d)'
  BY <1>14 DEF Delete!Expire
<1>15. ASSUME NEW c \in Invocation, Delete!Crash(c) PROVE Delete!AnswerOf(d)'
  BY <1>15 DEF Delete!Crash
<1>16. ASSUME NEW c \in Invocation, Delete!ApplyDelete(c) PROVE Delete!AnswerOf(d)'
  BY <1>16 DEF Delete!ApplyDelete, Delete!Answer, Delete!Observed, Delete!Goal
<1>17. ASSUME NEW c \in Invocation, Delete!DropDelete(c) PROVE Delete!AnswerOf(d)'
  BY <1>17 DEF Delete!DropDelete, Delete!Answer
<1>18. CASE Delete!OtherChanges
  BY <1>18 DEF Delete!OtherChanges, Delete!Disturb, Delete!Observed, Delete!Goal
<1>19. CASE Delete!OtherInterferes
  BY <1>19 DEF Delete!OtherInterferes, Delete!Disturb
<1>20. CASE UNCHANGED Delete!vars
  BY <1>20 DEF Delete!vars
<1> QED
  BY <1>1, <1>2, <1>3, <1>4, <1>5, <1>6, <1>7, <1>8, <1>9, <1>10, <1>11, <1>12, <1>13, <1>14,
     <1>15, <1>16, <1>17, <1>18, <1>19, <1>20 DEF Delete!Next, Delete!Run, Delete!Provider

\* From the second look on, only a noted change can come between.
LEMMA DeleteWindowStep ==
  ASSUME Delete!DeleteAssumption
  PROVE Delete!TypeOK /\ Delete!Stages /\ Delete!Window /\ [Delete!Next]_(Delete!vars) =>
          Delete!Window'
<1> SUFFICES ASSUME Delete!TypeOK, Delete!Stages, Delete!Window, [Delete!Next]_(Delete!vars),
   NEW d \in Invocation
             PROVE Delete!WindowOf(d)'
  BY DEF Delete!Window
<1> USE Delete!DeleteAssumption DEF Delete!TypeOK, Delete!Stages, Delete!StageOf, Delete!Window,
   Delete!WindowOf, Delete!provider, Delete!history,
       Delete!Goto, Delete!End, Delete!Return, Delete!Preflight, Delete!Active
<1>1. ASSUME NEW c \in Invocation, Delete!Start(c) PROVE Delete!WindowOf(d)'
  BY <1>1 DEF Delete!Start, Delete!Goal
<1>2. ASSUME NEW c \in Invocation, Delete!Refuse(c) PROVE Delete!WindowOf(d)'
  BY <1>2 DEF Delete!Refuse
<1>3. ASSUME NEW c \in Invocation, Delete!Identify(c) PROVE Delete!WindowOf(d)'
  BY <1>3 DEF Delete!Identify, Delete!Passes
<1>4. ASSUME NEW c \in Invocation, Delete!CheckTag(c) PROVE Delete!WindowOf(d)'
  BY <1>4 DEF Delete!CheckTag, Delete!Passes
<1>5. ASSUME NEW c \in Invocation, Delete!Review(c) PROVE Delete!WindowOf(d)'
  BY <1>5 DEF Delete!Review, Delete!Passes
<1>6. ASSUME NEW c \in Invocation, Delete!Bind(c) PROVE Delete!WindowOf(d)'
  BY <1>6 DEF Delete!Bind, Delete!Passes
<1>7. ASSUME NEW c \in Invocation, Delete!Final(c) PROVE Delete!WindowOf(d)'
  BY <1>7 DEF Delete!Final, Delete!Passes, Delete!SeesReviewed
<1>8. ASSUME NEW c \in Invocation, Delete!Write(c) PROVE Delete!WindowOf(d)'
  BY <1>8 DEF Delete!Write, Delete!Goal
<1>9. ASSUME NEW c \in Invocation, Delete!Answered(c) PROVE Delete!WindowOf(d)'
  BY <1>9 DEF Delete!Answered, Delete!Readback, Delete!Acknowledged
<1>10. ASSUME NEW c \in Invocation, Delete!AnswerLost(c) PROVE Delete!WindowOf(d)'
  BY <1>10 DEF Delete!AnswerLost, Delete!Readback
<1>11. ASSUME NEW c \in Invocation, Delete!ReadBack(c) PROVE Delete!WindowOf(d)'
  BY <1>11 DEF Delete!ReadBack
<1>12. ASSUME NEW c \in Invocation, Delete!Recheck(c) PROVE Delete!WindowOf(d)'
  BY <1>12 DEF Delete!Recheck
<1>13. ASSUME NEW c \in Invocation, Delete!ReconcileFails(c) PROVE Delete!WindowOf(d)'
  BY <1>13 DEF Delete!ReconcileFails
<1>14. ASSUME NEW c \in Invocation, Delete!Expire(c) PROVE Delete!WindowOf(d)'
  BY <1>14 DEF Delete!Expire
<1>15. ASSUME NEW c \in Invocation, Delete!Crash(c) PROVE Delete!WindowOf(d)'
  BY <1>15 DEF Delete!Crash
<1>16. ASSUME NEW c \in Invocation, Delete!ApplyDelete(c) PROVE Delete!WindowOf(d)'
  BY <1>16 DEF Delete!ApplyDelete, Delete!Answer, Delete!Observed, Delete!Goal
<1>17. ASSUME NEW c \in Invocation, Delete!DropDelete(c) PROVE Delete!WindowOf(d)'
  BY <1>17 DEF Delete!DropDelete, Delete!Answer
<1>18. CASE Delete!OtherChanges
  BY <1>18 DEF Delete!OtherChanges, Delete!Disturb, Delete!Observed, Delete!Goal
<1>19. CASE Delete!OtherInterferes
  BY <1>19 DEF Delete!OtherInterferes, Delete!Disturb
<1>20. CASE UNCHANGED Delete!vars
  BY <1>20 DEF Delete!vars
<1> QED
  BY <1>1, <1>2, <1>3, <1>4, <1>5, <1>6, <1>7, <1>8, <1>9, <1>10, <1>11, <1>12, <1>13, <1>14,
     <1>15, <1>16, <1>17, <1>18, <1>19, <1>20 DEF Delete!Next, Delete!Run, Delete!Provider

\* The strengthened invariant holds in every reachable state: types, stages of the
\* command, what answers tell, and the window after the second look.
THEOREM DeleteInvariance == ASSUME Delete!DeleteAssumption PROVE Delete!Spec => []Delete!IInv
<1>1. Delete!IInv /\ [Delete!Next]_(Delete!vars) => Delete!IInv'
  BY DeleteTypeStep, DeleteStageStep, DeleteAnswerStep, DeleteWindowStep DEF Delete!IInv
<1> QED
  BY <1>1, DeleteInitInv, PTL DEF Delete!Spec

\* Every variable of a delete keeps its type; its receipt is one of the five the code
\* can write.
THEOREM DeleteTypeCorrect == ASSUME Delete!DeleteAssumption PROVE Delete!Spec => []Delete!TypeOK
BY DeleteInvariance, PTL DEF Delete!IInv

\* Whatever others do and however late the request arrives: what is removed is the
\* reviewed revision, or it changed after the second look; and a release is called
\* deleted only if this run removed exactly the reviewed record.
THEOREM DeleteReviewed ==
  ASSUME Delete!DeleteAssumption
  PROVE Delete!Spec => Delete!DeletesTheReviewed
<1> DEFINE Deletes(c) ==
      /\ took'[c] # took[c] => took'[c] = ask[c] \/ drift[c]
      /\ verdict'[c] = "deleted" /\ kind = "release" => took'[c] = ask[c]
<1>1. ASSUME Delete!IInv, Delete!IInv', [Delete!Next]_(Delete!vars), NEW d \in Invocation
      PROVE Deletes(d)
  <2>1. UNCHANGED <<kind, ask>>
    BY <1>1 DEF Delete!Next, Delete!Run, Delete!Provider, Delete!vars, Delete!provider,
       Delete!Start, Delete!Refuse, Delete!Identify, Delete!CheckTag, Delete!Review,
       Delete!Bind, Delete!Final, Delete!Passes, Delete!Write, Delete!Answered, Delete!AnswerLost,
          Delete!ReadBack, Delete!Recheck, Delete!ReconcileFails,
       Delete!Expire, Delete!Crash, Delete!ApplyDelete, Delete!DropDelete, Delete!OtherChanges,
          Delete!OtherInterferes, Delete!Disturb
  <2>2. verdict'[d] = "deleted" /\ kind = "release" => took'[d] = ask[d]
    BY <1>1, <2>1 DEF Delete!IInv, Delete!Answers, Delete!AnswerOf
  <2>3. ASSUME took'[d] # took[d] PROVE took'[d] = ask[d] \/ drift[d]
    <3>1. took' # took
      BY <2>3
    <3>2. PICK c \in Invocation : Delete!ApplyDelete(c)
      BY <1>1, <3>1 DEF Delete!Next, Delete!Run, Delete!Provider, Delete!vars, Delete!provider,
         Delete!history, Delete!Start, Delete!Refuse, Delete!Identify,
         Delete!CheckTag, Delete!Review, Delete!Bind, Delete!Final, Delete!Passes, Delete!Write,
            Delete!Answered, Delete!AnswerLost, Delete!ReadBack, Delete!Recheck,
         Delete!ReconcileFails, Delete!Expire, Delete!Crash, Delete!DropDelete,
            Delete!OtherChanges, Delete!OtherInterferes, Delete!Disturb
    <3>3. d = c /\ took'[d] = res /\ res # Nil /\ wire[d] = "inflight"
      BY <1>1, <2>3, <3>2 DEF Delete!ApplyDelete, Delete!IInv, Delete!TypeOK
    <3> QED
      BY <1>1, <3>3 DEF Delete!IInv, Delete!Window, Delete!WindowOf
  <2> QED
    BY <2>2, <2>3
<1>2. Delete!IInv /\ Delete!IInv' /\ [Delete!Next]_(Delete!vars) =>
        [\A c \in Invocation : Deletes(c)]_(Delete!vars)
  BY <1>1
<1> QED
  BY <1>2, DeleteInvariance, PTL DEF Delete!Spec, Delete!DeletesTheReviewed

-----------------------------------------------------------------------------
(* Each step is a step of GuardedWrite, or leaves its variables alone.      *)

\* Such a step changes nothing that GuardedWrite speaks of.
LEMMA DeleteSilentStep ==
  ASSUME Delete!DeleteAssumption, Delete!Silent
  PROVE UNCHANGED Delete!GW!vars
<1>1. \A d \in Invocation :
        /\ Delete!Phase(d)' = Delete!Phase(d)
        /\ Delete!Effect(d)' = Delete!Effect(d)
        /\ Delete!Claim(d)' = Delete!Claim(d)
  BY DEF Delete!Silent, Delete!Phase, Delete!Effect, Delete!Claim
<1>2. UNCHANGED <<Delete!AbstractPhase, Delete!AbstractEffect, Delete!AbstractVerdict, held>>
  BY <1>1 DEF Delete!AbstractPhase, Delete!AbstractEffect, Delete!AbstractVerdict, Delete!Silent
<1> QED
  BY <1>2 DEF Delete!GW!vars, Delete!AbstractPhase, Delete!AbstractEffect, Delete!AbstractVerdict

\* In GuardedWrite's variables that changes the verdict of one run.
LEMMA DeleteSaysStep ==
  ASSUME Delete!DeleteAssumption, Delete!TypeOK, NEW c \in Invocation, NEW v, Delete!Says(c, v)
  PROVE /\ UNCHANGED <<Delete!AbstractPhase, Delete!AbstractEffect, held>>
        /\ Delete!AbstractVerdict' = [Delete!AbstractVerdict EXCEPT ![c] = Delete!ClaimOf(v)]
        /\ Delete!Claim(c) = "none"
<1>1. \A d \in Invocation :
        /\ Delete!Phase(d)' = Delete!Phase(d)
        /\ Delete!Effect(d)' = Delete!Effect(d)
  BY DEF Delete!Says, Delete!Phase, Delete!Effect, Delete!TypeOK
<1>2. \A d \in Invocation : Delete!Claim(d)' = IF d = c THEN Delete!ClaimOf(v) ELSE Delete!Claim(d)
  BY DEF Delete!Says, Delete!Claim, Delete!ClaimOf, Delete!TypeOK
<1>3. Delete!Claim(c) = "none"
  BY DEF Delete!Says, Delete!Claim
<1> QED
  BY <1>1, <1>2, <1>3 DEF Delete!AbstractPhase, Delete!AbstractEffect, Delete!AbstractVerdict,
     Delete!Says

\* An error before a request is sent is GuardedWrite's Decline.
LEMMA DeleteDeclineStep ==
  ASSUME Delete!DeleteAssumption, Delete!TypeOK, NEW c \in Invocation, Delete!Says(c, "refused"),
     wire[c] = "unsent"
  PROVE Delete!GW!Decline(c)
<1>1. Delete!Phase(c) = "preflight" /\ Delete!ClaimOf("refused") = "refused"
  BY DEF Delete!Phase, Delete!Says, Delete!ClaimOf
<1>2. /\ UNCHANGED <<Delete!AbstractPhase, Delete!AbstractEffect, held>>
      /\ Delete!AbstractVerdict' = [Delete!AbstractVerdict EXCEPT ![c] = Delete!ClaimOf("refused")]
      /\ Delete!Claim(c) = "none"
  BY DeleteSaysStep
<1> QED
  BY <1>1, <1>2 DEF Delete!GW!Decline, Delete!AbstractPhase, Delete!AbstractEffect,
     Delete!AbstractVerdict

\* An answer after a request was sent is GuardedWrite's Conclude, if deleted has
\* evidence and rejected a refused request.
LEMMA DeleteConcludeStep ==
  ASSUME Delete!DeleteAssumption, Delete!TypeOK, NEW c \in Invocation, NEW v, Delete!Says(c, v),
     wire[c] # "unsent",
         \/ v = "deleted" /\ held[c]
         \/ v = "rejected" /\ wire[c] = "refused"
         \/ v = "ambiguous"
  PROVE Delete!GW!Conclude(c)
<1>1. Delete!Phase(c) = "attempted" /\ (v = "rejected" => Delete!Effect(c) = "dropped")
  BY DEF Delete!Phase, Delete!Says, Delete!Effect
<1>2. /\ v = "deleted" => Delete!ClaimOf(v) = "done"
      /\ v \in {"rejected", "ambiguous"} => Delete!ClaimOf(v) = v
  BY DEF Delete!ClaimOf
<1>3. /\ UNCHANGED <<Delete!AbstractPhase, Delete!AbstractEffect, held>>
      /\ Delete!AbstractVerdict' = [Delete!AbstractVerdict EXCEPT ![c] = Delete!ClaimOf(v)]
      /\ Delete!Claim(c) = "none"
  BY DeleteSaysStep
<1> QED
  BY <1>1, <1>2, <1>3 DEF Delete!GW!Conclude, Delete!AbstractPhase, Delete!AbstractEffect,
     Delete!AbstractVerdict

\* A change at the provider is noted by every run under way or by none.
LEMMA DeleteObserveStep ==
  ASSUME Delete!DeleteAssumption, Delete!TypeOK, Delete!Observed \/ UNCHANGED held
  PROVE Delete!GW!Observe
<1>1. CASE Delete!Observed
  <2>1. \A d \in Invocation : (held[d] \/ (Delete!Active(d) /\ Delete!Goal')) \in BOOLEAN
    BY DEF Delete!TypeOK
  <2> QED
    BY <1>1, <2>1 DEF Delete!Observed, Delete!GW!Observe, Delete!TypeOK
<1>2. CASE UNCHANGED held
  BY <1>2 DEF Delete!GW!Observe, Delete!TypeOK
<1> QED
  BY <1>1, <1>2

\* Every step of a delete is a step of GuardedWrite or leaves its variables alone.
LEMMA DeleteRefinementStep ==
  ASSUME Delete!DeleteAssumption
  PROVE Delete!IInv /\ [Delete!Next]_(Delete!vars) => [Delete!GW!Next]_(Delete!GW!vars)
<1> SUFFICES ASSUME Delete!IInv, [Delete!Next]_(Delete!vars) PROVE [Delete!GW!Next]_(Delete!GW!vars)
  OBVIOUS
<1> USE DEF Delete!IInv, Delete!history
<1>1. ASSUME NEW c \in Invocation,
             \/ Delete!Identify(c) \/ Delete!CheckTag(c) \/ Delete!Review(c)
              \/ Delete!Bind(c) \/ Delete!Final(c)
             \/ Delete!AnswerLost(c) \/ Delete!Expire(c) \/ Delete!Crash(c)
      PROVE UNCHANGED Delete!GW!vars
  <2>1. Delete!Silent
    BY <1>1 DEF Delete!Silent, Delete!Identify, Delete!CheckTag, Delete!Review, Delete!Bind,
       Delete!Final, Delete!Passes, Delete!AnswerLost, Delete!Readback,
                Delete!Expire, Delete!Crash, Delete!End, Delete!Goto, Delete!Active, Delete!TypeOK
  <2> QED
    BY <2>1, DeleteSilentStep
<1>2. CASE Delete!OtherInterferes \/ UNCHANGED Delete!vars
  <2>1. Delete!Silent
    BY <1>2 DEF Delete!Silent, Delete!OtherInterferes, Delete!Disturb, Delete!vars
  <2> QED
    BY <2>1, DeleteSilentStep
<1>3. ASSUME NEW c \in Invocation, Delete!Refuse(c) PROVE Delete!GW!Decline(c)
  <2>1. Delete!Says(c, "refused") /\ wire[c] = "unsent"
    BY <1>3 DEF Delete!Refuse, Delete!Says, Delete!Return, Delete!End, Delete!Goto,
       Delete!Preflight, Delete!Stages, Delete!StageOf
  <2> QED
    BY <2>1, DeleteDeclineStep
<1>4. ASSUME NEW c \in Invocation, Delete!Answered(c)
      PROVE UNCHANGED Delete!GW!vars \/ Delete!GW!Conclude(c)
  <2>1. verdict[c] = "none" /\ wire[c] # "unsent" /\ pc[c] = "reply"
    BY <1>4 DEF Delete!Answered, Delete!Stages, Delete!StageOf
  <2>2. CASE Delete!Rejects(c) /\ Delete!Return(c, "rejected")
    <3>1. wire[c] = "refused"
      BY <2>2 DEF Delete!Rejects, Delete!Answers, Delete!AnswerOf
    <3>2. Delete!Says(c, "rejected")
      BY <1>4, <2>1, <2>2 DEF Delete!Answered, Delete!Says, Delete!Return, Delete!End, Delete!Goto
    <3> QED
      BY <2>1, <3>1, <3>2, DeleteConcludeStep
  <2>3. CASE Delete!Readback(c, Delete!Acknowledged(c))
    <3>1. Delete!Silent
      BY <1>4, <2>1, <2>3 DEF Delete!Answered, Delete!Silent, Delete!Readback, Delete!Goto,
         Delete!TypeOK
    <3> QED
      BY <3>1, DeleteSilentStep
  <2> QED
    BY <1>4, <2>2, <2>3 DEF Delete!Answered
<1>5. ASSUME NEW c \in Invocation, Delete!ReadBack(c)
      PROVE UNCHANGED Delete!GW!vars \/ Delete!GW!Conclude(c)
  <2>1. verdict[c] = "none" /\ wire[c] # "unsent" /\ pc[c] = "readback"
    BY <1>5 DEF Delete!ReadBack, Delete!Stages, Delete!StageOf, Delete!Reconciling
  <2>2. CASE Delete!Return(c, "ambiguous")
    <3>1. Delete!Says(c, "ambiguous")
      BY <1>5, <2>1, <2>2 DEF Delete!ReadBack, Delete!Says, Delete!Return, Delete!End, Delete!Goto
    <3> QED
      BY <2>1, <3>1, DeleteConcludeStep
  <2>3. CASE Delete!Goto(c, "recheck") /\ UNCHANGED verdict
    <3>1. Delete!Silent
      BY <1>5, <2>1, <2>3 DEF Delete!ReadBack, Delete!Silent, Delete!Goto, Delete!TypeOK
    <3> QED
      BY <3>1, DeleteSilentStep
  <2> QED
    BY <1>5, <2>2, <2>3 DEF Delete!ReadBack
<1>6. ASSUME NEW c \in Invocation, Delete!Recheck(c) PROVE Delete!GW!Conclude(c)
  <2>1. /\ verdict[c] = "none" /\ wire[c] # "unsent" /\ pc[c] = "recheck"
        /\ acked[c] => held[c]
    BY <1>6 DEF Delete!Recheck, Delete!Stages, Delete!StageOf, Delete!Reconciling, Delete!Active
  <2>2. PICK v \in {"deleted", "ambiguous"} : Delete!Return(c, v) /\ (v = "deleted" => acked[c])
    BY <1>6 DEF Delete!Recheck
  <2>3. Delete!Says(c, v)
    BY <1>6, <2>1, <2>2 DEF Delete!Recheck, Delete!Says, Delete!Return, Delete!End, Delete!Goto
  <2> QED
    BY <2>1, <2>2, <2>3, DeleteConcludeStep
<1>7. ASSUME NEW c \in Invocation, Delete!ReconcileFails(c) PROVE Delete!GW!Conclude(c)
  <2>1. Delete!Says(c, "ambiguous") /\ wire[c] # "unsent"
    BY <1>7 DEF Delete!ReconcileFails, Delete!Says, Delete!Return, Delete!End, Delete!Goto,
       Delete!Stages, Delete!StageOf, Delete!Reconciling
  <2> QED
    BY <2>1, DeleteConcludeStep
<1>8. ASSUME NEW c \in Invocation, Delete!Start(c) PROVE Delete!GW!Begin(c)
  <2>1. /\ Delete!AbstractPhase' = [Delete!AbstractPhase EXCEPT ![c] = "preflight"]
        /\ Delete!AbstractPhase[c] = "idle"
    BY <1>8 DEF Delete!Start, Delete!Goto, Delete!AbstractPhase, Delete!Phase, Delete!TypeOK,
       Delete!Stages, Delete!StageOf
  <2>2. UNCHANGED <<Delete!AbstractEffect, Delete!AbstractVerdict>>
    BY <1>8 DEF Delete!Start, Delete!AbstractEffect, Delete!AbstractVerdict, Delete!Effect,
       Delete!Claim
  <2>3. \E h \in BOOLEAN : held' = [held EXCEPT ![c] = h]
    BY <1>8 DEF Delete!Start, Delete!Goal
  <2> QED
    BY <2>1, <2>2, <2>3 DEF Delete!GW!Begin, Delete!AbstractPhase, Delete!AbstractEffect,
       Delete!AbstractVerdict
<1>9. ASSUME NEW c \in Invocation, Delete!Write(c) PROVE Delete!GW!Attempt(c)
  <2>1. wire[c] = "unsent" /\ verdict[c] = "none" /\ pc[c] # "idle"
    BY <1>9 DEF Delete!Write, Delete!Stages, Delete!StageOf, Delete!Preflight
  <2>2. PICK w \in {"inflight", "lost"} :
          wire' = [wire EXCEPT ![c] = w] /\ pc' = [pc EXCEPT ![c] = "reply"]
    BY <1>9 DEF Delete!Write, Delete!Goto
  <2>3. /\ Delete!AbstractPhase' = [Delete!AbstractPhase EXCEPT ![c] = "attempted"]
        /\ Delete!AbstractPhase[c] = "preflight"
    BY <2>1, <2>2 DEF Delete!AbstractPhase, Delete!Phase, Delete!TypeOK
  <2>4. Delete!AbstractEffect' =
          [Delete!AbstractEffect EXCEPT ![c] = IF w = "lost" THEN "dropped" ELSE "inflight"]
    BY <2>1, <2>2 DEF Delete!AbstractEffect, Delete!Effect, Delete!TypeOK
  <2>5. Delete!AbstractVerdict' = Delete!AbstractVerdict /\ Delete!AbstractVerdict[c] = "none"
    BY <1>9, <2>1 DEF Delete!Write, Delete!AbstractVerdict, Delete!Claim
  <2>6. \E h \in BOOLEAN : held' = [held EXCEPT ![c] = h]
    BY <1>9 DEF Delete!Write, Delete!Goal
  <2> QED
    BY <2>3, <2>4, <2>5, <2>6 DEF Delete!GW!Attempt, Delete!AbstractPhase, Delete!AbstractEffect,
       Delete!AbstractVerdict
<1>10. ASSUME NEW c \in Invocation, Delete!Provider(c) PROVE Delete!GW!Settle(c)
  <2>1. PICK w \in {"applied", "refused", "lost"} :
          wire[c] = "inflight" /\ wire' = [wire EXCEPT ![c] = w] /\ UNCHANGED <<pc, verdict>>
    BY <1>10 DEF Delete!Provider, Delete!ApplyDelete, Delete!DropDelete
  <2>2. Delete!GW!Observe
    BY <1>10, DeleteObserveStep DEF Delete!Provider, Delete!ApplyDelete, Delete!DropDelete
  <2>3. UNCHANGED <<Delete!AbstractPhase, Delete!AbstractVerdict>>
    BY <2>1 DEF Delete!AbstractPhase, Delete!AbstractVerdict, Delete!Phase, Delete!Claim,
       Delete!TypeOK
  <2>4. /\ Delete!AbstractEffect[c] = "inflight"
        /\ Delete!AbstractEffect' =
                [Delete!AbstractEffect EXCEPT ![c] = IF w = "applied" THEN w ELSE "dropped"]
    BY <2>1 DEF Delete!AbstractEffect, Delete!Effect, Delete!TypeOK
  <2> QED
    BY <2>2, <2>3, <2>4 DEF Delete!GW!Settle, Delete!AbstractPhase, Delete!AbstractEffect,
       Delete!AbstractVerdict
<1>11. CASE Delete!OtherChanges
  <2>1. UNCHANGED <<Delete!AbstractPhase, Delete!AbstractEffect, Delete!AbstractVerdict>>
    BY <1>11 DEF Delete!OtherChanges, Delete!Disturb, Delete!AbstractPhase, Delete!AbstractEffect,
       Delete!AbstractVerdict,
                 Delete!Phase, Delete!Effect, Delete!Claim
  <2>2. Delete!GW!Observe
    BY <1>11, DeleteObserveStep DEF Delete!OtherChanges
  <2> QED
    BY <2>1, <2>2 DEF Delete!GW!Next, Delete!GW!World, Delete!AbstractPhase, Delete!AbstractEffect,
       Delete!AbstractVerdict
<1> QED
  BY <1>1, <1>2, <1>3, <1>4, <1>5, <1>6, <1>7, <1>8, <1>9, <1>10, <1>11
     DEF Delete!Next, Delete!Run, Delete!Provider, Delete!GW!Next

\* A delete keeps GuardedWrite's promise for any number of runs, revisions and others:
\* one request at most, and no receipt that claims more than the code knows.
THEOREM DeleteRefinement ==
  ASSUME Delete!DeleteAssumption
  PROVE Delete!Spec => Delete!ImplementsGuardedWrite
<1>1. Delete!Init => Delete!GW!Init
  BY DEF Delete!Init, Delete!GW!Init, Delete!Phase, Delete!Effect, Delete!Claim
<1>2. Delete!IInv /\ [Delete!Next]_(Delete!vars) => [Delete!GW!Next]_(Delete!GW!vars)
  BY DeleteRefinementStep
<1> QED
  BY <1>1, <1>2, DeleteInvariance, PTL DEF Delete!Spec, Delete!ImplementsGuardedWrite,
     Delete!GW!Spec
=============================================================================
