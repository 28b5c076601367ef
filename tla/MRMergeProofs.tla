---------------------------- MODULE MRMergeProofs ----------------------------
(***************************************************************************)
(* mr merge, for any number of runs, heads, branches, pipelines and changes *)
(* by others: it keeps its types, implements GuardedWrite, and merges what  *)
(* was checked.                                                             *)
(*                                                                         *)
(* The argument: where a run is in executeMRMerge tells what it has viewed, *)
(* sent and said (Stages); what it is about to claim has been true at the   *)
(* provider (Evidence); and each aspect of the merge request that a run     *)
(* checked is as it was until a change of that aspect is noted (Checked).   *)
(***************************************************************************)
EXTENDS MRMerge, TLAPS

Viewed == {"jobs", "bridges", "final", "write", "reply", "reconcile"}

\* Where a run is tells what it has viewed, sent, heard and said.
StageOf(c) ==
  /\ pc[c] \in {"idle"} \cup Preflight => wire[c] = "unsent"
  /\ pc[c] \in {"reply", "reconcile"} => wire[c] # "unsent"
  /\ pc[c] # "done" => verdict[c] = "none"
  /\ pc[c] # "reply" => echo[c] = "none"
  /\ cause[c] = "status" => wire[c] = "refused"
  /\ pc[c] \in {"idle", "project", "view"} => snap[c] = Nil /\ ~merged[c]
  /\ pc[c] \in Viewed \/ wire[c] # "unsent" => snap[c] \in PID

\* What a run would claim has been true at the provider since it began, or attempted.
EvidenceOf(c) ==
  /\ Active(c) /\ Goal(c) => held[c]
  /\ merged[c] /\ pc[c] \in Preflight => held[c]
  /\ echo[c] = "good" => held[c]

\* c's request may still be carried out.
Ahead(c, steps) == pc[c] \in steps \/ wire[c] = "inflight"

\* What c has checked still holds, as far as nobody is known to have changed it since.
CheckedOf(c) ==
  /\ Ahead(c, {"write"}) /\ "target" \notin drift[c] => mr.target = ask[c].target
  /\ Ahead(c, {"final", "write"}) /\ "bridges" \notin drift[c] => pipe[snap[c]].bridges # "red"
  /\ Ahead(c, Preflight \ {"project"}) /\ "policy" \notin drift[c] => policy
  /\ Ahead(c, {"write"}) /\ "pipe" \notin drift[c] =>
       mr.pipe \in PID /\ pipe[mr.pipe].sha = ask[c].head /\ pipe[mr.pipe].jobs

Stages == \A c \in Invocation : StageOf(c)
Evidence == \A c \in Invocation : EvidenceOf(c)
Checked == \A c \in Invocation : CheckedOf(c)

IInv == TypeOK /\ Stages /\ Evidence /\ Checked

\* The initial states satisfy the invariant.
LEMMA InitInv == Init => IInv
<1> SUFFICES ASSUME Init PROVE IInv
  OBVIOUS
<1>1. TypeOK
  BY MergeAssumption DEF Init, TypeOK
<1>2. Stages /\ Evidence /\ Checked
  BY DEF Init, Stages, StageOf, Evidence, EvidenceOf, Checked, CheckedOf, Ahead, Preflight,
         Viewed, Active
<1> QED
  BY <1>1, <1>2 DEF IInv

\* What a run was asked for is true or false.
LEMMA GoalIsBoolean == ASSUME NEW c PROVE Goal(c) \in BOOLEAN
BY DEF Goal

\* Others' changes, and a merge, keep the records' types.
LEMMA RecordTypes ==
  ASSUME NEW m \in MR
  PROVE /\ [m EXCEPT !.state = "merged", !.squash = TRUE] \in MR
        /\ \A h \in Sha, p \in PID \cup {Nil} : [m EXCEPT !.head = h, !.pipe = p] \in MR
BY DEF MR

\* Every change at the provider keeps the history's types.
LEMMA ObservedTypes == ASSUME TypeOK, Observed PROVE held' \in [Invocation -> BOOLEAN]
<1>1. \A d \in Invocation : (held[d] \/ (Active(d) /\ Goal(d)')) \in BOOLEAN
  BY DEF TypeOK
<1> QED
  BY <1>1 DEF Observed

\* A change by another actor is counted, and noted with its aspect.
LEMMA DisturbTypes ==
  ASSUME TypeOK, NEW aspects \in SUBSET Aspect, Disturb(aspects)
  PROVE /\ others' \in 0..MaxOther
        /\ drift' \in [Invocation -> SUBSET Aspect]
        /\ UNCHANGED <<ask, pc, ctx, snap, merged, wire, echo, cause, verdict>>
<1>1. others' \in 0..MaxOther
  BY MergeAssumption DEF Disturb, TypeOK
<1>2. \A d \in Invocation : drift[d] \cup aspects \in SUBSET Aspect /\ drift[d] \in SUBSET Aspect
  BY DEF TypeOK
<1>3. drift' \in [Invocation -> SUBSET Aspect]
  BY <1>2 DEF Disturb
<1> QED
  BY <1>1, <1>3 DEF Disturb

\* An edit by another actor keeps the record's type and its head pipeline.
LEMMA EditTypes ==
  ASSUME NEW m \in MR, NEW n,
         \/ \E b \in Branch : n = [m EXCEPT !.target = b]
         \/ n = [m EXCEPT !.ready = ~@]
         \/ \E s \in {"opened", "closed"} : n = [m EXCEPT !.state = s]
         \/ \E q \in BOOLEAN : n = [m EXCEPT !.state = "merged", !.squash = q]
  PROVE n \in MR /\ n.pipe = m.pipe
<1>1. CASE \E b \in Branch : n = [m EXCEPT !.target = b]
  BY <1>1 DEF MR
<1>2. CASE n = [m EXCEPT !.ready = ~@]
  BY <1>2 DEF MR
<1>3. CASE \E s \in {"opened", "closed"} : n = [m EXCEPT !.state = s]
  BY <1>3 DEF MR
<1>4. CASE \E q \in BOOLEAN : n = [m EXCEPT !.state = "merged", !.squash = q]
  BY <1>4 DEF MR
<1> QED
  BY <1>1, <1>2, <1>3, <1>4

\* A job or a downstream pipeline that changes keeps its pipeline's type.
LEMMA PipelineTypes ==
  ASSUME NEW q \in Pipeline
  PROVE /\ [q EXCEPT !.jobs = ~@] \in Pipeline
        /\ \A b \in {"green", "red"} : [q EXCEPT !.bridges = b] \in Pipeline
BY DEF Pipeline

\* What a run keeps for itself keeps its types when the run ends, reconciles or goes on.
LEMMA LocalTypes ==
  ASSUME TypeOK, NEW c \in Invocation,
         UNCHANGED <<provider, ask, snap, wire, held>>, drift' \in [Invocation -> SUBSET Aspect],
         \/ \E v \in {"refused", "already_merged", "merged", "reconciled_merged", "rejected",
                      "ambiguous"} : Return(c, v)
         \/ \E why \in {"none", "status"} : Reconcile(c, why)
         \/ \E l \in Preflight : Advance(c, l)
  PROVE TypeOK'
<1> USE DEF TypeOK, provider, Goto
<1>1. ASSUME NEW v \in {"refused", "already_merged", "merged", "reconciled_merged", "rejected",
                        "ambiguous"}, Return(c, v)
      PROVE TypeOK'
  <2>1. /\ pc' \in [Invocation -> {"idle", "reply", "reconcile", "done"} \cup Preflight]
        /\ ctx' \in [Invocation -> {"live", "done"}]
        /\ merged' \in [Invocation -> BOOLEAN]
    BY <1>1 DEF Return, End
  <2>2. /\ echo' \in [Invocation -> {"none", "good", "bad"}]
        /\ cause' \in [Invocation -> {"none", "status"}]
    BY <1>1 DEF Return, End
  <2>3. verdict' \in [Invocation -> {"none", "refused", "already_merged", "merged",
                        "reconciled_merged", "rejected", "ambiguous"}]
    BY <1>1 DEF Return
  <2> QED
    BY <2>1, <2>2, <2>3
<1>2. ASSUME NEW why \in {"none", "status"}, Reconcile(c, why) PROVE TypeOK'
  <2>1. /\ pc' \in [Invocation -> {"idle", "reply", "reconcile", "done"} \cup Preflight]
        /\ echo' \in [Invocation -> {"none", "good", "bad"}]
        /\ cause' \in [Invocation -> {"none", "status"}]
    BY <1>2 DEF Reconcile
  <2> QED
    BY <1>2, <2>1 DEF Reconcile
<1>3. ASSUME NEW l \in Preflight, Advance(c, l) PROVE TypeOK'
  BY <1>3 DEF Advance
<1> QED
  BY <1>1, <1>2, <1>3

\* The types are inductive by themselves.
LEMMA TypeStep == TypeOK /\ [Next]_vars => TypeOK'
<1> SUFFICES ASSUME TypeOK, [Next]_vars PROVE TypeOK'
  OBVIOUS
<1> USE MergeAssumption DEF TypeOK, provider, Goto, Preflight
<1>1. ASSUME NEW c \in Invocation, Start(c) PROVE TypeOK'
  <2>1. held' \in [Invocation -> BOOLEAN]
    BY <1>1, GoalIsBoolean DEF Start
  <2> QED
    BY <1>1, <2>1 DEF Start, Advance
<1>2. ASSUME NEW c \in Invocation, Refuse(c) PROVE TypeOK'
  BY <1>2, LocalTypes DEF Refuse
<1>3. ASSUME NEW c \in Invocation, LoadProject(c) PROVE TypeOK'
  <2>1. drift' \in [Invocation -> SUBSET Aspect]
    BY <1>3 DEF LoadProject, Reads
  <2>2. \E l \in Preflight : Advance(c, l)
    BY <1>3 DEF LoadProject
  <2> QED
    BY <1>3, <2>1, <2>2, LocalTypes DEF LoadProject
<1>4. ASSUME NEW c \in Invocation, View(c) PROVE TypeOK'
  <2>1. snap' \in [Invocation -> PID \cup {Nil}]
    BY <1>4 DEF View, MR
  <2>2. merged' \in [Invocation -> BOOLEAN]
    BY <1>4 DEF View
  <2> QED
    BY <1>4, <2>1, <2>2 DEF View
<1>5. ASSUME NEW c \in Invocation, ReadJobs(c) PROVE TypeOK'
  BY <1>5 DEF ReadJobs, Advance
<1>6. ASSUME NEW c \in Invocation, ReadBridges(c) PROVE TypeOK'
  <2>1. drift' \in [Invocation -> SUBSET Aspect]
    BY <1>6 DEF ReadBridges, Reads
  <2>2. UNCHANGED <<provider, ask, snap, wire, held>>
    BY <1>6 DEF ReadBridges
  <2>3. Return(c, "already_merged") \/ Advance(c, "final")
    BY <1>6 DEF ReadBridges
  <2> QED
    BY <2>1, <2>2, <2>3, LocalTypes
<1>7. ASSUME NEW c \in Invocation, FinalView(c) PROVE TypeOK'
  <2>1. drift' \in [Invocation -> SUBSET Aspect]
    BY <1>7 DEF FinalView, Reads
  <2>2. (\E l \in Preflight : Advance(c, l)) \/ Return(c, "already_merged")
    BY <1>7 DEF FinalView
  <2> QED
    BY <1>7, <2>1, <2>2, LocalTypes DEF FinalView
<1>8. ASSUME NEW c \in Invocation, Write(c) PROVE TypeOK'
  <2>1. held' \in [Invocation -> BOOLEAN]
    BY <1>8, GoalIsBoolean DEF Write
  <2> QED
    BY <1>8, <2>1 DEF Write, Advance
<1>9. ASSUME NEW c \in Invocation, Answered(c) PROVE TypeOK'
  <2>1. Return(c, "merged") \/ Reconcile(c, "none")
    BY <1>9 DEF Answered
  <2> QED
    BY <1>9, <2>1, LocalTypes DEF Answered
<1>10. ASSUME NEW c \in Invocation, RefusalArrives(c) \/ AnswerLost(c) PROVE TypeOK'
  <2>1. \E why \in {"none", "status"} : Reconcile(c, why)
    BY <1>10 DEF RefusalArrives, AnswerLost
  <2> QED
    BY <1>10, <2>1, LocalTypes DEF RefusalArrives, AnswerLost
<1>12. ASSUME NEW c \in Invocation, ReconcileView(c) PROVE TypeOK'
  <2>1. \E v \in {"reconciled_merged", "rejected", "ambiguous"} : Return(c, v)
    BY <1>12 DEF ReconcileView
  <2> QED
    BY <1>12, <2>1, LocalTypes DEF ReconcileView
<1>13. ASSUME NEW c \in Invocation, ReconcileFails(c) PROVE TypeOK'
  BY <1>13, LocalTypes DEF ReconcileFails
<1>14. ASSUME NEW c \in Invocation, Expire(c) PROVE TypeOK'
  BY <1>14 DEF Expire
<1>15. ASSUME NEW c \in Invocation, Crash(c) PROVE TypeOK'
  BY <1>15 DEF Crash, End
<1>16. ASSUME NEW c \in Invocation, ApplyMerge(c) PROVE TypeOK'
  <2>1. mr' \in MR
    BY <1>16, RecordTypes DEF ApplyMerge
  <2>2. held' \in [Invocation -> BOOLEAN]
    BY <1>16, ObservedTypes DEF ApplyMerge
  <2>3. echo' \in [Invocation -> {"none", "good", "bad"}]
    BY <1>16 DEF ApplyMerge
  <2> QED
    BY <1>16, <2>1, <2>2, <2>3 DEF ApplyMerge
<1>17. ASSUME NEW c \in Invocation, DropWrite(c) PROVE TypeOK'
  BY <1>17 DEF DropWrite
<1>18. CASE OtherPushes
  <2>1. mr' \in MR /\ UNCHANGED <<pipe, policy>>
    <3>1. \A h \in Sha, p \in PID \cup {Nil} : [mr EXCEPT !.head = h, !.pipe = p] \in MR
      BY RecordTypes
    <3>2. PICK h \in Sha, p \in PID \cup {Nil} : mr' = [mr EXCEPT !.head = h, !.pipe = p]
      BY <1>18 DEF OtherPushes
    <3>3. mr' \in MR
      BY <3>1, <3>2
    <3> QED
      BY <1>18, <3>3 DEF OtherPushes
  <2>2. held' \in [Invocation -> BOOLEAN]
    BY <1>18, ObservedTypes DEF OtherPushes
  <2>3. PICK aspects \in SUBSET Aspect : Disturb(aspects)
    BY <1>18 DEF OtherPushes, Aspect
  <2>4. /\ others' \in 0..MaxOther
        /\ drift' \in [Invocation -> SUBSET Aspect]
        /\ UNCHANGED <<ask, pc, ctx, snap, merged, wire, echo, cause, verdict>>
    BY <2>3, DisturbTypes
  <2> QED
    BY <2>1, <2>2, <2>4
<1>19. CASE OtherRunsChecks
  <2>1. pipe' \in [PID -> Pipeline] /\ UNCHANGED <<mr, policy>>
    <3>1. PICK p \in PID :
            \/ pipe' = [pipe EXCEPT ![p].jobs = ~@]
            \/ \E b \in {"green", "red"} : pipe' = [pipe EXCEPT ![p].bridges = b]
      BY <1>19 DEF OtherRunsChecks
    <3>2. pipe[p] \in Pipeline
      OBVIOUS
    <3>3. /\ [pipe[p] EXCEPT !.jobs = ~@] \in Pipeline
          /\ \A b \in {"green", "red"} : [pipe[p] EXCEPT !.bridges = b] \in Pipeline
      BY <3>2, PipelineTypes
    <3>4. pipe' \in [PID -> Pipeline]
      BY <3>1, <3>3
    <3> QED
      BY <1>19, <3>4 DEF OtherRunsChecks
  <2>2. held' \in [Invocation -> BOOLEAN]
    BY <1>19, ObservedTypes DEF OtherRunsChecks
  <2>3. PICK aspects \in SUBSET Aspect : Disturb(aspects)
    BY <1>19 DEF OtherRunsChecks, Aspect
  <2>4. /\ others' \in 0..MaxOther
        /\ drift' \in [Invocation -> SUBSET Aspect]
        /\ UNCHANGED <<ask, pc, ctx, snap, merged, wire, echo, cause, verdict>>
    BY <2>3, DisturbTypes
  <2> QED
    BY <2>1, <2>2, <2>4
<1>20. CASE OtherSetsPolicy
  <2>1. policy' \in BOOLEAN /\ UNCHANGED <<mr, pipe>>
    BY <1>20 DEF OtherSetsPolicy
  <2>2. held' \in [Invocation -> BOOLEAN]
    BY <1>20, ObservedTypes DEF OtherSetsPolicy
  <2>3. PICK aspects \in SUBSET Aspect : Disturb(aspects)
    BY <1>20 DEF OtherSetsPolicy, Aspect
  <2>4. /\ others' \in 0..MaxOther
        /\ drift' \in [Invocation -> SUBSET Aspect]
        /\ UNCHANGED <<ask, pc, ctx, snap, merged, wire, echo, cause, verdict>>
    BY <2>3, DisturbTypes
  <2> QED
    BY <2>1, <2>2, <2>4
<1>21. CASE OtherEdits
  <2>1. mr' \in MR /\ UNCHANGED <<pipe, policy>>
    <3>1. \/ \E b \in Branch : mr' = [mr EXCEPT !.target = b]
          \/ mr' = [mr EXCEPT !.ready = ~@]
          \/ \E s \in {"opened", "closed"} : mr' = [mr EXCEPT !.state = s]
          \/ \E q \in BOOLEAN : mr' = [mr EXCEPT !.state = "merged", !.squash = q]
      BY <1>21 DEF OtherEdits
    <3>2. mr \in MR
      OBVIOUS
    <3>3. mr' \in MR
      BY <3>1, <3>2, EditTypes
    <3> QED
      BY <1>21, <3>3 DEF OtherEdits
  <2>2. held' \in [Invocation -> BOOLEAN]
    BY <1>21, ObservedTypes DEF OtherEdits
  <2>3. PICK aspects \in SUBSET Aspect : Disturb(aspects)
    BY <1>21 DEF OtherEdits, Aspect
  <2>4. /\ others' \in 0..MaxOther
        /\ drift' \in [Invocation -> SUBSET Aspect]
        /\ UNCHANGED <<ask, pc, ctx, snap, merged, wire, echo, cause, verdict>>
    BY <2>3, DisturbTypes
  <2> QED
    BY <2>1, <2>2, <2>4
<1>22. CASE UNCHANGED vars
  BY <1>22 DEF vars
<1> QED
  BY <1>1, <1>2, <1>3, <1>4, <1>5, <1>6, <1>7, <1>8, <1>9, <1>10, <1>12, <1>13, <1>14,
     <1>15, <1>16, <1>17, <1>18, <1>19, <1>20, <1>21, <1>22 DEF Next, Run, Provider, Other

\* Every step leaves a run's views, request and answer as its new place has them.
LEMMA StageStep == TypeOK /\ Stages /\ [Next]_vars => Stages'
<1> SUFFICES ASSUME TypeOK, Stages, [Next]_vars, NEW d \in Invocation
             PROVE StageOf(d)'
  BY DEF Stages
<1> USE MergeAssumption DEF TypeOK, Stages, StageOf, provider, Goto, End, Return, Preflight, Viewed, Active
<1>1. ASSUME NEW c \in Invocation, Start(c) PROVE StageOf(d)'
  BY <1>1 DEF Start, Advance
<1>2. ASSUME NEW c \in Invocation, Refuse(c) PROVE StageOf(d)'
  BY <1>2 DEF Refuse
<1>3. ASSUME NEW c \in Invocation, LoadProject(c) PROVE StageOf(d)'
  BY <1>3 DEF LoadProject, Advance, Reads
<1>4. ASSUME NEW c \in Invocation, View(c) PROVE StageOf(d)'
  <2>1. mr.pipe \in PID
    BY <1>4 DEF View, HeadPipeline, MR
  <2>2. /\ pc' = [pc EXCEPT ![c] = "jobs"] /\ pc[c] = "view"
        /\ snap' = [snap EXCEPT ![c] = mr.pipe]
        /\ UNCHANGED <<wire, echo, cause, verdict>>
    BY <1>4 DEF View
  <2>3. CASE d = c
    BY <2>1, <2>2, <2>3
  <2>4. CASE d # c
    <3>1. merged'[d] = merged[d]
      BY <1>4, <2>4 DEF View
    <3> QED
      BY <2>2, <2>4, <3>1
  <2> QED
    BY <2>3, <2>4
<1>5. ASSUME NEW c \in Invocation, ReadJobs(c) PROVE StageOf(d)'
  BY <1>5 DEF ReadJobs, Advance
<1>6. ASSUME NEW c \in Invocation, ReadBridges(c) PROVE StageOf(d)'
  BY <1>6 DEF ReadBridges, Advance, Reads
<1>7. ASSUME NEW c \in Invocation, FinalView(c) PROVE StageOf(d)'
  BY <1>7 DEF FinalView, Advance, Reads
<1>8. ASSUME NEW c \in Invocation, Write(c) PROVE StageOf(d)'
  BY <1>8 DEF Write, Advance
<1>9. ASSUME NEW c \in Invocation, Answered(c) PROVE StageOf(d)'
  BY <1>9 DEF Answered, Reconcile
<1>10. ASSUME NEW c \in Invocation, RefusalArrives(c) PROVE StageOf(d)'
  BY <1>10 DEF RefusalArrives, Reconcile
<1>11. ASSUME NEW c \in Invocation, AnswerLost(c) PROVE StageOf(d)'
  BY <1>11 DEF AnswerLost, Reconcile
<1>12. ASSUME NEW c \in Invocation, ReconcileView(c) PROVE StageOf(d)'
  BY <1>12 DEF ReconcileView
<1>13. ASSUME NEW c \in Invocation, ReconcileFails(c) PROVE StageOf(d)'
  BY <1>13 DEF ReconcileFails
<1>14. ASSUME NEW c \in Invocation, Expire(c) PROVE StageOf(d)'
  BY <1>14 DEF Expire
<1>15. ASSUME NEW c \in Invocation, Crash(c) PROVE StageOf(d)'
  BY <1>15 DEF Crash
<1>16. ASSUME NEW c \in Invocation, ApplyMerge(c) PROVE StageOf(d)'
  BY <1>16 DEF ApplyMerge
<1>17. ASSUME NEW c \in Invocation, DropWrite(c) PROVE StageOf(d)'
  BY <1>17 DEF DropWrite
<1>18. CASE OtherPushes
  BY <1>18 DEF OtherPushes, Disturb
<1>19. CASE OtherRunsChecks
  BY <1>19 DEF OtherRunsChecks, Disturb
<1>20. CASE OtherSetsPolicy
  BY <1>20 DEF OtherSetsPolicy, Disturb
<1>21. CASE OtherEdits
  <2>1. UNCHANGED <<pc, snap, merged, wire, echo, cause, verdict>>
    BY <1>21 DEF OtherEdits, Disturb
  <2> QED
    BY <2>1
<1>22. CASE UNCHANGED vars
  BY <1>22 DEF vars
<1> QED
  BY <1>1, <1>2, <1>3, <1>4, <1>5, <1>6, <1>7, <1>8, <1>9, <1>10, <1>11, <1>12, <1>13, <1>14,
     <1>15, <1>16, <1>17, <1>18, <1>19, <1>20, <1>21, <1>22 DEF Next, Run, Provider, Other

\* A step that leaves the merge request and its pipelines alone, and shows d nothing
\* that it could claim.
Quiet(d) ==
  /\ UNCHANGED <<mr, pipe, ask>>
  /\ snap'[d] = snap[d]
  /\ held[d] => held'[d]
  /\ pc'[d] \notin {"idle", "done"} => pc[d] \notin {"idle", "done"}
  /\ merged'[d] /\ pc'[d] \in Preflight => merged[d] /\ pc[d] \in Preflight
  /\ echo'[d] = "good" => echo[d] = "good"

\* Such a step keeps d's evidence.
LEMMA QuietStep ==
  ASSUME NEW d \in Invocation, EvidenceOf(d), Quiet(d) PROVE EvidenceOf(d)'
<1>1. Goal(d)' <=> Goal(d)
  BY DEF Quiet, Goal, Postcondition, Identity, SnapshotPipeline, HeadPipeline
<1>2. Active(d)' => Active(d)
  BY DEF Quiet, Active
<1> QED
  BY <1>1, <1>2 DEF EvidenceOf, Quiet

\* A change at the provider is seen by every run under way at once.
LEMMA ProviderStep ==
  ASSUME TypeOK, NEW d \in Invocation, EvidenceOf(d), Observed,
         UNCHANGED <<pc, merged>>, echo'[d] = echo[d]
  PROVE EvidenceOf(d)'
<1>1. held'[d] <=> (held[d] \/ (Active(d) /\ Goal(d)'))
  BY DEF Observed
<1>2. Active(d)' <=> Active(d)
  BY DEF Active
<1> QED
  BY <1>1, <1>2 DEF EvidenceOf

\* Whatever a run would claim stays true of what it has seen.
LEMMA EvidenceStep == TypeOK /\ Stages /\ Evidence /\ [Next]_vars => Evidence'
<1> SUFFICES ASSUME TypeOK, Stages, Evidence, [Next]_vars, NEW d \in Invocation
             PROVE EvidenceOf(d)'
  BY DEF Evidence
<1> USE DEF provider
<1>1. ASSUME NEW c \in Invocation, Start(c) PROVE EvidenceOf(d)'
  <2>1. CASE d = c
    <3>1. /\ held'[d] = Goal(d) /\ ~merged'[d] /\ echo'[d] # "good"
          /\ UNCHANGED <<mr, pipe, ask, snap>>
      BY <1>1, <2>1 DEF Start, Advance, TypeOK, Stages, StageOf
    <3>2. Goal(d)' <=> Goal(d)
      BY <3>1 DEF Goal, Postcondition, Identity, SnapshotPipeline, HeadPipeline
    <3> QED
      BY <3>1, <3>2 DEF EvidenceOf
  <2>2. CASE d # c
    <3>1. Quiet(d)
      BY <1>1, <2>2 DEF Quiet, Start, Advance, Goto, TypeOK
    <3> QED
      BY <3>1, QuietStep DEF Evidence
  <2> QED
    BY <2>1, <2>2
<1>2. ASSUME NEW c \in Invocation, Refuse(c) PROVE EvidenceOf(d)'
  <2>1. Quiet(d)
    BY <1>2 DEF Quiet, Refuse, Goto, End, Return, Active, Preflight, TypeOK
  <2> QED
    BY <2>1, QuietStep DEF Evidence
<1>3. ASSUME NEW c \in Invocation, LoadProject(c) PROVE EvidenceOf(d)'
  <2>1. Quiet(d)
    BY <1>3 DEF Quiet, LoadProject, Advance, Reads, Goto, End, Return, Active, Preflight, TypeOK
  <2> QED
    BY <2>1, QuietStep DEF Evidence
<1>4. ASSUME NEW c \in Invocation, View(c) PROVE EvidenceOf(d)'
  <2>1. CASE d = c
    <3>1. /\ pc[d] = "view" /\ snap[d] = Nil /\ echo[d] # "good"
          /\ UNCHANGED <<mr, pipe, ask, echo, held>>
          /\ merged'[d] <=> mr.state = "merged"
      BY <1>4, <2>1 DEF View, TypeOK, Stages, StageOf
    <3>2. Goal(d) => held[d]
      BY <3>1 DEF Evidence, EvidenceOf, Active
    <3>3. Goal(d)' => Goal(d)
      BY <3>1 DEF Goal, Postcondition, Identity, SnapshotPipeline, HeadPipeline
    <3>4. merged'[d] => Goal(d)
      BY <1>4, <2>1, <3>1 DEF View, Goal, Postcondition, Mergeable
    <3> QED
      BY <3>1, <3>2, <3>3, <3>4 DEF EvidenceOf
  <2>2. CASE d # c
    <3>1. Quiet(d)
      BY <1>4, <2>2 DEF Quiet, View, Goto, TypeOK
    <3> QED
      BY <3>1, QuietStep DEF Evidence
  <2> QED
    BY <2>1, <2>2
<1>5. ASSUME NEW c \in Invocation, ReadJobs(c) PROVE EvidenceOf(d)'
  <2>1. Quiet(d)
    BY <1>5 DEF Quiet, ReadJobs, Advance, Goto, End, Return, Active, Preflight, TypeOK
  <2> QED
    BY <2>1, QuietStep DEF Evidence
<1>6. ASSUME NEW c \in Invocation, ReadBridges(c) PROVE EvidenceOf(d)'
  <2>1. CASE merged[c]
    <3>1. Quiet(d)
      BY <1>6, <2>1 DEF Quiet, ReadBridges, Goto, End, Return, Preflight, TypeOK
    <3> QED
      BY <3>1, QuietStep DEF Evidence
  <2>2. CASE ~merged[c]
    <3>1. Quiet(d)
      BY <1>6, <2>2 DEF Quiet, ReadBridges, Advance, Goto, Preflight, TypeOK
    <3> QED
      BY <3>1, QuietStep DEF Evidence
  <2> QED
    BY <2>1, <2>2
<1>7. ASSUME NEW c \in Invocation, FinalView(c) PROVE EvidenceOf(d)'
  <2>1. CASE Advance(c, "write")
    <3>1. Quiet(d)
      BY <1>7, <2>1 DEF Quiet, FinalView, Advance, Goto, Preflight, TypeOK
    <3> QED
      BY <3>1, QuietStep DEF Evidence
  <2>2. CASE Return(c, "already_merged")
    <3>1. Quiet(d)
      BY <1>7, <2>2 DEF Quiet, FinalView, Goto, End, Return, Preflight, TypeOK
    <3> QED
      BY <3>1, QuietStep DEF Evidence
  <2> QED
    BY <1>7, <2>1, <2>2 DEF FinalView
<1>8. ASSUME NEW c \in Invocation, Write(c) PROVE EvidenceOf(d)'
  <2>1. CASE d = c
    <3>1. /\ held'[d] = Goal(d) /\ pc'[d] = "reply" /\ echo'[d] # "good"
          /\ UNCHANGED <<mr, pipe, ask, snap>>
      BY <1>8, <2>1 DEF Write, Advance, Goto, TypeOK, Stages, StageOf
    <3>2. Goal(d)' <=> Goal(d)
      BY <3>1 DEF Goal, Postcondition, Identity, SnapshotPipeline, HeadPipeline
    <3> QED
      BY <3>1, <3>2 DEF EvidenceOf, Preflight
  <2>2. CASE d # c
    <3>1. Quiet(d)
      BY <1>8, <2>2 DEF Quiet, Write, Advance, Goto, TypeOK
    <3> QED
      BY <3>1, QuietStep DEF Evidence
  <2> QED
    BY <2>1, <2>2
<1>9. ASSUME NEW c \in Invocation, Answered(c) PROVE EvidenceOf(d)'
  <2>1. Quiet(d)
    BY <1>9 DEF Quiet, Answered, Reconcile, Goto, End, Return, Active, Preflight, TypeOK
  <2> QED
    BY <2>1, QuietStep DEF Evidence
<1>10. ASSUME NEW c \in Invocation, RefusalArrives(c) PROVE EvidenceOf(d)'
  <2>1. Quiet(d)
    BY <1>10 DEF Quiet, RefusalArrives, Reconcile, Goto, End, Return, Active, Preflight, TypeOK
  <2> QED
    BY <2>1, QuietStep DEF Evidence
<1>11. ASSUME NEW c \in Invocation, AnswerLost(c) PROVE EvidenceOf(d)'
  <2>1. Quiet(d)
    BY <1>11 DEF Quiet, AnswerLost, Reconcile, Goto, End, Return, Active, Preflight, TypeOK
  <2> QED
    BY <2>1, QuietStep DEF Evidence
<1>12. ASSUME NEW c \in Invocation, ReconcileView(c) PROVE EvidenceOf(d)'
  <2>1. Quiet(d)
    BY <1>12 DEF Quiet, ReconcileView, Goto, End, Return, Active, Preflight, TypeOK
  <2> QED
    BY <2>1, QuietStep DEF Evidence
<1>13. ASSUME NEW c \in Invocation, ReconcileFails(c) PROVE EvidenceOf(d)'
  <2>1. Quiet(d)
    BY <1>13 DEF Quiet, ReconcileFails, Goto, End, Return, Active, Preflight, TypeOK
  <2> QED
    BY <2>1, QuietStep DEF Evidence
<1>14. ASSUME NEW c \in Invocation, Expire(c) PROVE EvidenceOf(d)'
  <2>1. Quiet(d)
    BY <1>14 DEF Quiet, Expire, Goto, End, Return, Active, Preflight, TypeOK
  <2> QED
    BY <2>1, QuietStep DEF Evidence
<1>15. ASSUME NEW c \in Invocation, Crash(c) PROVE EvidenceOf(d)'
  <2>1. Quiet(d)
    BY <1>15 DEF Quiet, Crash, Goto, End, Return, Active, Preflight, TypeOK
  <2> QED
    BY <2>1, QuietStep DEF Evidence
<1>16. ASSUME NEW c \in Invocation, ApplyMerge(c) PROVE EvidenceOf(d)'
  <2>1. Observed /\ UNCHANGED <<ask, pc, snap, merged>>
    BY <1>16 DEF ApplyMerge
  <2>2. CASE echo'[d] = echo[d]
    BY <2>1, <2>2, ProviderStep DEF Evidence
  <2>3. CASE echo'[d] # echo[d]
    <3>1. d = c /\ pc[c] = "reply" /\ (echo'[c] = "good" => Postcondition(c)')
      BY <1>16, <2>3 DEF ApplyMerge, TypeOK
    <3>2. snap[c] \in PID
      BY <3>1 DEF Stages, StageOf, Viewed
    <3>3. Postcondition(c)' => Goal(c)'
      BY <2>1, <3>2, MergeAssumption DEF Goal, Postcondition, SnapshotPipeline
    <3>4. held'[d] <=> (held[d] \/ (Active(d) /\ Goal(d)'))
      BY <2>1 DEF Observed
    <3>5. Active(d) /\ pc'[d] = "reply"
      BY <2>1, <3>1 DEF Active
    <3> QED
      BY <3>1, <3>3, <3>4, <3>5 DEF EvidenceOf, Preflight
  <2> QED
    BY <2>2, <2>3
<1>17. ASSUME NEW c \in Invocation, DropWrite(c) PROVE EvidenceOf(d)'
  <2>1. Quiet(d)
    BY <1>17 DEF Quiet, DropWrite, Goto, End, Return, Active, Preflight, TypeOK
  <2> QED
    BY <2>1, QuietStep DEF Evidence
<1>18. CASE OtherPushes
  <2>1. Observed /\ UNCHANGED <<pc, merged, echo>>
    BY <1>18 DEF OtherPushes, Disturb
  <2> QED
    BY <2>1, ProviderStep DEF Evidence
<1>19. CASE OtherRunsChecks
  <2>1. Observed /\ UNCHANGED <<pc, merged, echo>>
    BY <1>19 DEF OtherRunsChecks, Disturb
  <2> QED
    BY <2>1, ProviderStep DEF Evidence
<1>20. CASE OtherSetsPolicy
  <2>1. Observed /\ UNCHANGED <<pc, merged, echo>>
    BY <1>20 DEF OtherSetsPolicy, Disturb
  <2> QED
    BY <2>1, ProviderStep DEF Evidence
<1>21. CASE OtherEdits
  <2>1. Observed /\ UNCHANGED <<pc, merged, echo>>
    BY <1>21 DEF OtherEdits, Disturb
  <2> QED
    BY <2>1, ProviderStep DEF Evidence
<1>22. CASE UNCHANGED vars
  <2>1. Quiet(d)
    BY <1>22 DEF Quiet, vars
  <2> QED
    BY <2>1, QuietStep DEF Evidence
<1> QED
  BY <1>1, <1>2, <1>3, <1>4, <1>5, <1>6, <1>7, <1>8, <1>9, <1>10, <1>11, <1>12, <1>13, <1>14,
     <1>15, <1>16, <1>17, <1>18, <1>19, <1>20, <1>21, <1>22 DEF Next, Run, Provider, Other

\* What was checked stays as it was until a change is noted.
LEMMA CheckedStep == TypeOK /\ Stages /\ Checked /\ [Next]_vars => Checked'
<1> SUFFICES ASSUME TypeOK, Stages, Checked, [Next]_vars, NEW d \in Invocation
             PROVE CheckedOf(d)'
  BY DEF Checked
<1> USE MergeAssumption DEF TypeOK, Stages, StageOf, Checked, CheckedOf, Ahead, provider, Goto, End,
       Return, Preflight, Viewed, Active
<1>1. ASSUME NEW c \in Invocation, Start(c) PROVE CheckedOf(d)'
  BY <1>1 DEF Start, Advance
<1>2. ASSUME NEW c \in Invocation, Refuse(c) PROVE CheckedOf(d)'
  BY <1>2 DEF Refuse
<1>3. ASSUME NEW c \in Invocation, LoadProject(c) PROVE CheckedOf(d)'
  BY <1>3 DEF LoadProject, Advance, Reads
<1>4. ASSUME NEW c \in Invocation, View(c) PROVE CheckedOf(d)'
  BY <1>4 DEF View
<1>5. ASSUME NEW c \in Invocation, ReadJobs(c) PROVE CheckedOf(d)'
  BY <1>5 DEF ReadJobs, Advance
<1>6. ASSUME NEW c \in Invocation, ReadBridges(c) PROVE CheckedOf(d)'
  BY <1>6 DEF ReadBridges, Advance, Reads
<1>7. ASSUME NEW c \in Invocation, FinalView(c) PROVE CheckedOf(d)'
  <2>1. Identity(c) /\ SnapshotPipeline(c) /\ snap[c] \in PID /\ wire[c] = "unsent"
    BY <1>7 DEF FinalView
  <2>2. /\ mr.target = ask[c].target /\ mr.pipe \in PID
        /\ pipe[mr.pipe].sha = ask[c].head /\ pipe[mr.pipe].jobs
    BY <2>1 DEF Identity, SnapshotPipeline, HeadPipeline
  <2>3. /\ drift' = [drift EXCEPT ![c] = @ \ {"target", "pipe"}]
        /\ UNCHANGED <<mr, pipe, policy, ask, snap, wire>>
    BY <1>7 DEF FinalView, Reads
  <2>4. pc[c] = "final" /\ \E l \in {"write", "done"} : pc' = [pc EXCEPT ![c] = l]
    BY <1>7 DEF FinalView, Advance
  <2>5. CASE d = c
    BY <2>1, <2>2, <2>3, <2>4, <2>5
  <2>6. CASE d # c
    BY <2>3, <2>4, <2>6
  <2> QED
    BY <2>5, <2>6
<1>8. ASSUME NEW c \in Invocation, Write(c) PROVE CheckedOf(d)'
  BY <1>8 DEF Write, Advance
<1>9. ASSUME NEW c \in Invocation, Answered(c) PROVE CheckedOf(d)'
  BY <1>9 DEF Answered, Reconcile
<1>10. ASSUME NEW c \in Invocation, RefusalArrives(c) PROVE CheckedOf(d)'
  BY <1>10 DEF RefusalArrives, Reconcile
<1>11. ASSUME NEW c \in Invocation, AnswerLost(c) PROVE CheckedOf(d)'
  BY <1>11 DEF AnswerLost, Reconcile
<1>12. ASSUME NEW c \in Invocation, ReconcileView(c) PROVE CheckedOf(d)'
  BY <1>12 DEF ReconcileView
<1>13. ASSUME NEW c \in Invocation, ReconcileFails(c) PROVE CheckedOf(d)'
  BY <1>13 DEF ReconcileFails
<1>14. ASSUME NEW c \in Invocation, Expire(c) PROVE CheckedOf(d)'
  BY <1>14 DEF Expire
<1>15. ASSUME NEW c \in Invocation, Crash(c) PROVE CheckedOf(d)'
  BY <1>15 DEF Crash
<1>16. ASSUME NEW c \in Invocation, ApplyMerge(c) PROVE CheckedOf(d)'
  BY <1>16 DEF ApplyMerge
<1>17. ASSUME NEW c \in Invocation, DropWrite(c) PROVE CheckedOf(d)'
  BY <1>17 DEF DropWrite
<1>18. CASE OtherPushes
  BY <1>18 DEF OtherPushes, Disturb
<1>19. CASE OtherRunsChecks
  <2>1. PICK p \in PID :
          \/ pipe' = [pipe EXCEPT ![p].jobs = ~@] /\ Disturb({"pipe"})
          \/ /\ \E b \in {"green", "red"} : pipe' = [pipe EXCEPT ![p].bridges = b]
             /\ Disturb({"bridges"})
    BY <1>19 DEF OtherRunsChecks
  <2>2. UNCHANGED <<mr, policy, ask, pc, snap, wire>>
    BY <1>19, <2>1 DEF OtherRunsChecks, Disturb
  <2>3. CASE pipe' = [pipe EXCEPT ![p].jobs = ~@] /\ Disturb({"pipe"})
    <3>1. \A q \in PID : pipe'[q].bridges = pipe[q].bridges
      BY <2>3 DEF Pipeline
    <3>2. drift'[d] = IF Active(d) \/ wire[d] = "inflight" THEN drift[d] \cup {"pipe"} ELSE drift[d]
      BY <2>3 DEF Disturb
    <3> QED
      BY <2>2, <3>1, <3>2
  <2>4. CASE /\ \E b \in {"green", "red"} : pipe' = [pipe EXCEPT ![p].bridges = b]
             /\ Disturb({"bridges"})
    <3>1. \A q \in PID : pipe'[q].sha = pipe[q].sha /\ pipe'[q].jobs = pipe[q].jobs
      BY <2>4 DEF Pipeline
    <3>2. drift'[d] =
            IF Active(d) \/ wire[d] = "inflight" THEN drift[d] \cup {"bridges"} ELSE drift[d]
      BY <2>4 DEF Disturb
    <3> QED
      BY <2>2, <3>1, <3>2
  <2> QED
    BY <2>1, <2>3, <2>4
<1>20. CASE OtherSetsPolicy
  BY <1>20 DEF OtherSetsPolicy, Disturb
<1>21. CASE OtherEdits
  <2>1. PICK aspects \in SUBSET Aspect : Disturb(aspects)
    BY <1>21 DEF OtherEdits, Aspect
  <2>2. UNCHANGED <<pipe, policy, ask, pc, snap, wire>> /\ drift[d] \subseteq drift'[d]
    BY <1>21, <2>1 DEF OtherEdits, Disturb
  <2>3. \/ \E b \in Branch : mr' = [mr EXCEPT !.target = b] /\ Disturb({"target"})
        \/ mr' = [mr EXCEPT !.ready = ~@]
        \/ \E s \in {"opened", "closed"} : mr' = [mr EXCEPT !.state = s]
        \/ \E q \in BOOLEAN : mr' = [mr EXCEPT !.state = "merged", !.squash = q]
    BY <1>21 DEF OtherEdits
  <2>4. mr'.pipe = mr.pipe /\ (mr'.target = mr.target \/ Disturb({"target"}))
    <3>1. CASE \E b \in Branch : mr' = [mr EXCEPT !.target = b] /\ Disturb({"target"})
      BY <3>1 DEF MR
    <3>2. CASE mr' = [mr EXCEPT !.ready = ~@]
      BY <3>2 DEF MR
    <3>3. CASE \E s \in {"opened", "closed"} : mr' = [mr EXCEPT !.state = s]
      BY <3>3 DEF MR
    <3>4. CASE \E q \in BOOLEAN : mr' = [mr EXCEPT !.state = "merged", !.squash = q]
      BY <3>4 DEF MR
    <3> QED
      BY <2>3, <3>1, <3>2, <3>3, <3>4
  <2>5. CASE mr'.target = mr.target
    BY <2>2, <2>4, <2>5
  <2>6. CASE mr'.target # mr.target
    <3>1. Disturb({"target"})
      BY <2>4, <2>6
    <3>2. drift'[d] =
            IF Active(d) \/ wire[d] = "inflight" THEN drift[d] \cup {"target"} ELSE drift[d]
      BY <3>1 DEF Disturb
    <3> QED
      BY <2>2, <2>4, <3>2
  <2> QED
    BY <2>5, <2>6
<1>22. CASE UNCHANGED vars
  BY <1>22 DEF vars
<1> QED
  BY <1>1, <1>2, <1>3, <1>4, <1>5, <1>6, <1>7, <1>8, <1>9, <1>10, <1>11, <1>12, <1>13, <1>14,
     <1>15, <1>16, <1>17, <1>18, <1>19, <1>20, <1>21, <1>22 DEF Next, Run, Provider, Other

\* The strengthened invariant holds in every reachable state: types, stages, evidence,
\* and what was checked.
THEOREM Invariance == Spec => []IInv
<1>1. IInv /\ [Next]_vars => IInv'
  BY TypeStep, StageStep, EvidenceStep, CheckedStep DEF IInv
<1> QED
  BY <1>1, InitInv, PTL DEF Spec

\* Every variable keeps its type, others' changes stay within their bound, and no answer
\* outlives its run, however many runs, heads, branches and pipelines there are.
THEOREM TypeCorrect == Spec => []TypeOK
BY Invariance, PTL DEF IInv

\* Only the provider's merge carries a request out.
LEMMA CarriedByMerge ==
  ASSUME TypeOK, [Next]_vars, NEW d \in Invocation, Carried(d) PROVE ApplyMerge(d)
<1> USE DEF TypeOK, Carried, provider
<1>1. ASSUME NEW c \in Invocation, Run(c) PROVE wire'[d] = wire[d] \/ wire'[d] # "applied"
  BY <1>1 DEF Run, Start, Refuse, LoadProject, View, ReadJobs, ReadBridges, FinalView, Write,
              Answered, RefusalArrives, AnswerLost, ReconcileView, ReconcileFails, Expire, Crash
<1>2. ASSUME NEW c \in Invocation, ApplyMerge(c) PROVE c = d
  BY <1>2 DEF ApplyMerge
<1>3. ASSUME NEW c \in Invocation, DropWrite(c) PROVE wire'[d] # "applied"
  BY <1>3 DEF DropWrite
<1>4. CASE Other
  <2>1. wire' = wire
    BY <1>4 DEF Other, OtherPushes, OtherRunsChecks, OtherSetsPolicy, OtherEdits, Disturb
  <2> QED
    BY <2>1
<1>5. CASE UNCHANGED vars
  BY <1>5 DEF vars
<1> QED
  BY <1>1, <1>2, <1>3, <1>4, <1>5 DEF Next, Provider

\* However late the PUT is carried out: it squashes the head the caller named, into the
\* branch, over the downstream pipelines and on the successful pipeline that were
\* checked, unless somebody changed just that after it was read.
THEOREM MergesChecked == Spec => MergesWhatWasChecked
<1> DEFINE Fits(c) ==
      /\ mr'.squash /\ mr.head = ask[c].head
      /\ "target" \notin drift[c] => mr.target = ask[c].target
      /\ "bridges" \notin drift[c] => pipe[snap[c]].bridges # "red"
      /\ ~({"policy", "pipe"} \subseteq drift[c]) =>
           mr.pipe # Nil /\ pipe[mr.pipe].sha = mr.head /\ pipe[mr.pipe].jobs
<1>1. ASSUME IInv, [Next]_vars, NEW c \in Invocation, Carried(c) PROVE Fits(c)
  <2>1. ApplyMerge(c)
    BY <1>1, CarriedByMerge DEF IInv
  <2>2. wire[c] = "inflight" /\ Allowed /\ mr.head = ask[c].head /\ mr'.squash
    BY <1>1, <2>1 DEF ApplyMerge, GuardedHead, IInv, TypeOK, MR
  <2>3. CheckedOf(c) /\ Ahead(c, {"write"}) /\ Ahead(c, {"final", "write"})
        /\ Ahead(c, Preflight \ {"project"})
    BY <1>1, <2>2 DEF IInv, Checked, Ahead
  <2>4. CASE "pipe" \notin drift[c]
    BY <2>2, <2>3, <2>4, MergeAssumption DEF CheckedOf
  <2>5. CASE "policy" \notin drift[c]
    BY <2>2, <2>3, <2>5 DEF CheckedOf, Allowed
  <2>6. CASE {"policy", "pipe"} \subseteq drift[c]
    BY <2>2, <2>3, <2>6 DEF CheckedOf
  <2> QED
    BY <2>4, <2>5, <2>6
<1>2. IInv /\ [Next]_vars => [\A c \in Invocation : Carried(c) => Fits(c)]_vars
  BY <1>1
<1> QED
  BY <1>2, Invariance, PTL DEF Spec, MergesWhatWasChecked

-----------------------------------------------------------------------------
(* Each step is a step of GuardedWrite, or leaves its variables alone.      *)

AbstractPhase == [c \in Invocation |-> Phase(c)]
AbstractEffect == [c \in Invocation |-> Effect(c)]
AbstractVerdict == [c \in Invocation |-> Claim(c)]

\* Nothing the caller or the provider could notice.
Silent ==
  /\ UNCHANGED <<wire, held, verdict>>
  /\ \A d \in Invocation : pc'[d] = "idle" <=> pc[d] = "idle"

\* Such a step changes nothing that GuardedWrite speaks of.
LEMMA SilentStep == ASSUME Silent PROVE UNCHANGED GW!vars
<1>1. \A d \in Invocation : Phase(d)' = Phase(d) /\ Effect(d)' = Effect(d) /\ Claim(d)' = Claim(d)
  BY DEF Silent, Phase, Effect, Claim
<1>2. UNCHANGED <<AbstractPhase, AbstractEffect, AbstractVerdict, held>>
  BY <1>1 DEF AbstractPhase, AbstractEffect, AbstractVerdict, Silent
<1> QED
  BY <1>2 DEF GW!vars, AbstractPhase, AbstractEffect, AbstractVerdict

\* A run says v to its caller, and does nothing else.
Says(c, v) ==
  /\ UNCHANGED <<wire, held>>
  /\ pc[c] # "idle"
  /\ verdict[c] = "none"
  /\ pc' = [pc EXCEPT ![c] = "done"]
  /\ verdict' = [verdict EXCEPT ![c] = v]

ClaimOf(v) == 
  IF v = "already_merged" THEN "noop" ELSE IF v \in Successes THEN "done" ELSE v

\* In GuardedWrite's variables that changes the verdict of one run.
LEMMA SaysStep ==
  ASSUME TypeOK, NEW c \in Invocation, NEW v, Says(c, v)
  PROVE /\ UNCHANGED <<AbstractPhase, AbstractEffect, held>>
        /\ AbstractVerdict' = [AbstractVerdict EXCEPT ![c] = ClaimOf(v)]
        /\ Claim(c) = "none"
<1>1. \A d \in Invocation : Phase(d)' = Phase(d) /\ Effect(d)' = Effect(d)
  BY DEF Says, Phase, Effect, TypeOK
<1>2. \A d \in Invocation : Claim(d)' = IF d = c THEN ClaimOf(v) ELSE Claim(d)
  BY DEF Says, Claim, ClaimOf, TypeOK, Successes
<1>3. Claim(c) = "none"
  BY DEF Says, Claim, Successes
<1> QED
  BY <1>1, <1>2, <1>3 DEF AbstractPhase, AbstractEffect, AbstractVerdict, Says

\* An answer before a request is sent is GuardedWrite's Decline; that it was merged
\* already has been true.
LEMMA DeclineStep ==
  ASSUME TypeOK, NEW c \in Invocation, NEW v \in {"refused", "already_merged"},
         Says(c, v), wire[c] = "unsent", v = "already_merged" => held[c]
  PROVE GW!Decline(c)
<1>1. Phase(c) = "preflight"
  BY DEF Phase, Says
<1>2. ClaimOf(v) = IF v = "already_merged" THEN "noop" ELSE "refused"
  BY DEF ClaimOf, Successes
<1>3. /\ UNCHANGED <<AbstractPhase, AbstractEffect, held>>
      /\ AbstractVerdict' = [AbstractVerdict EXCEPT ![c] = ClaimOf(v)]
      /\ Claim(c) = "none"
  BY SaysStep
<1> QED
  BY <1>1, <1>2, <1>3 DEF GW!Decline, AbstractPhase, AbstractEffect, AbstractVerdict

\* An answer after a request was sent is GuardedWrite's Conclude, if a success has
\* evidence and a rejection a refused request.
LEMMA ConcludeStep ==
  ASSUME TypeOK, NEW c \in Invocation, NEW v, Says(c, v), wire[c] # "unsent",
         \/ v \in Successes /\ held[c]
         \/ v = "rejected" /\ wire[c] = "refused"
         \/ v = "ambiguous"
  PROVE GW!Conclude(c)
<1>1. Phase(c) = "attempted" /\ (v = "rejected" => Effect(c) = "dropped")
  BY DEF Phase, Says, Effect, Successes
<1>2. /\ v \in Successes => ClaimOf(v) = "done"
      /\ v \in {"rejected", "ambiguous"} => ClaimOf(v) = v
  BY DEF ClaimOf, Successes
<1>3. /\ UNCHANGED <<AbstractPhase, AbstractEffect, held>>
      /\ AbstractVerdict' = [AbstractVerdict EXCEPT ![c] = ClaimOf(v)]
      /\ Claim(c) = "none"
  BY SaysStep
<1> QED
  BY <1>1, <1>2, <1>3 DEF GW!Conclude, AbstractPhase, AbstractEffect, AbstractVerdict

\* A change at the provider is noted by every run under way or by none.
LEMMA ObserveStep == ASSUME TypeOK, Observed \/ UNCHANGED held PROVE GW!Observe
<1>1. CASE Observed
  <2>1. held' \in [Invocation -> BOOLEAN]
    BY <1>1, ObservedTypes
  <2> QED
    BY <1>1, <2>1 DEF Observed, GW!Observe, TypeOK
<1>2. CASE UNCHANGED held
  BY <1>2 DEF GW!Observe, TypeOK
<1> QED
  BY <1>1, <1>2

\* A record that meets the postcondition of a run with a snapshot is what it asked for.
LEMMA SeenIsGoal ==
  ASSUME TypeOK, Evidence, NEW c \in Invocation, Active(c), snap[c] \in PID, Postcondition(c)
  PROVE held[c]
<1>1. Goal(c)
  BY MergeAssumption DEF Goal, Postcondition, SnapshotPipeline
<1> QED
  BY <1>1 DEF Evidence, EvidenceOf

\* Every step is a step of GuardedWrite or leaves its variables alone.
LEMMA RefinementStep == IInv /\ [Next]_vars => [GW!Next]_(GW!vars)
<1> SUFFICES ASSUME IInv, [Next]_vars PROVE [GW!Next]_(GW!vars)
  OBVIOUS
<1> USE DEF IInv, provider
<1>1. ASSUME NEW c \in Invocation,
             \/ LoadProject(c) \/ View(c) \/ ReadJobs(c)
             \/ RefusalArrives(c) \/ AnswerLost(c) \/ Expire(c) \/ Crash(c)
      PROVE UNCHANGED GW!vars
  <2>1. Silent
    BY <1>1 DEF Silent, LoadProject, View, ReadJobs, RefusalArrives, AnswerLost, Reconcile,
                Expire, Crash, Advance, End, Goto, Active, TypeOK
  <2> QED
    BY <2>1, SilentStep
<1>2. CASE UNCHANGED vars
  <2>1. Silent
    BY <1>2 DEF Silent, vars
  <2> QED
    BY <2>1, SilentStep
<1>3. ASSUME NEW c \in Invocation, Refuse(c) PROVE GW!Decline(c)
  <2>1. Says(c, "refused") /\ wire[c] = "unsent"
    BY <1>3 DEF Refuse, Says, Return, End, Goto, Preflight, Stages, StageOf
  <2> QED
    BY <2>1, DeclineStep
<1>4. ASSUME NEW c \in Invocation, ReadBridges(c) PROVE UNCHANGED GW!vars \/ GW!Decline(c)
  <2>1. pc[c] = "bridges" /\ wire[c] = "unsent" /\ verdict[c] = "none"
        /\ (merged[c] => held[c])
    BY <1>4 DEF ReadBridges, Preflight, Stages, StageOf, Evidence, EvidenceOf
  <2>2. CASE merged[c]
    <3>1. Says(c, "already_merged")
      BY <1>4, <2>1, <2>2 DEF ReadBridges, Says, Return, End, Goto
    <3> QED
      BY <2>1, <2>2, <3>1, DeclineStep
  <2>3. CASE ~merged[c]
    <3>1. Silent
      BY <1>4, <2>1, <2>3 DEF ReadBridges, Silent, Advance, Goto, TypeOK
    <3> QED
      BY <3>1, SilentStep
  <2> QED
    BY <2>2, <2>3
<1>5. ASSUME NEW c \in Invocation, FinalView(c) PROVE UNCHANGED GW!vars \/ GW!Decline(c)
  <2>1. pc[c] = "final" /\ wire[c] = "unsent" /\ verdict[c] = "none" /\ snap[c] \in PID
    BY <1>5 DEF FinalView, Preflight, Viewed, Stages, StageOf
  <2>2. CASE Postcondition(c) /\ Return(c, "already_merged")
    <3>1. Says(c, "already_merged")
      BY <1>5, <2>1, <2>2 DEF FinalView, Says, Return, End, Goto
    <3>2. held[c]
      BY <2>1, <2>2, SeenIsGoal DEF Active
    <3> QED
      BY <2>1, <3>1, <3>2, DeclineStep
  <2>3. CASE Advance(c, "write")
    <3>1. Silent
      BY <1>5, <2>1, <2>3 DEF FinalView, Silent, Advance, Goto, TypeOK
    <3> QED
      BY <3>1, SilentStep
  <2> QED
    BY <1>5, <2>2, <2>3 DEF FinalView
<1>6. ASSUME NEW c \in Invocation, Answered(c) PROVE UNCHANGED GW!vars \/ GW!Conclude(c)
  <2>1. /\ pc[c] = "reply" /\ wire[c] # "unsent" /\ verdict[c] = "none"
        /\ echo[c] = "good" => held[c]
    BY <1>6 DEF Answered, Stages, StageOf, Evidence, EvidenceOf
  <2>2. CASE echo[c] = "good"
    <3>1. Says(c, "merged")
      BY <1>6, <2>1, <2>2 DEF Answered, Says, Return, End, Goto
    <3> QED
      BY <2>1, <2>2, <3>1, ConcludeStep DEF Successes
  <2>3. CASE echo[c] # "good"
    <3>1. Silent
      BY <1>6, <2>1, <2>3 DEF Answered, Silent, Reconcile, Goto, TypeOK
    <3> QED
      BY <3>1, SilentStep
  <2> QED
    BY <2>2, <2>3
<1>7. ASSUME NEW c \in Invocation, ReconcileView(c) PROVE GW!Conclude(c)
  <2>1. /\ pc[c] = "reconcile" /\ wire[c] # "unsent" /\ verdict[c] = "none"
        /\ snap[c] \in PID
        /\ cause[c] = "status" => wire[c] = "refused"
    BY <1>7 DEF ReconcileView, Viewed, Stages, StageOf
  <2>2. PICK v \in {"reconciled_merged", "rejected", "ambiguous"} :
          /\ Return(c, v)
          /\ v = "reconciled_merged" => Postcondition(c)
          /\ v = "rejected" => cause[c] = "status"
    BY <1>7 DEF ReconcileView
  <2>3. Says(c, v)
    BY <1>7, <2>1, <2>2 DEF ReconcileView, Says, Return, End, Goto
  <2>4. v = "reconciled_merged" => held[c]
    BY <2>1, <2>2, SeenIsGoal DEF Active
  <2> QED
    BY <2>1, <2>2, <2>3, <2>4, ConcludeStep DEF Successes
<1>8. ASSUME NEW c \in Invocation, ReconcileFails(c) PROVE GW!Conclude(c)
  <2>1. Says(c, "ambiguous") /\ wire[c] # "unsent"
    BY <1>8 DEF ReconcileFails, Says, Return, End, Goto, Stages, StageOf
  <2> QED
    BY <2>1, ConcludeStep
<1>9. ASSUME NEW c \in Invocation, Start(c) PROVE GW!Begin(c)
  <2>1. /\ AbstractPhase' = [AbstractPhase EXCEPT ![c] = "preflight"]
        /\ AbstractPhase[c] = "idle"
    BY <1>9 DEF Start, Advance, Goto, AbstractPhase, Phase, TypeOK, Stages, StageOf
  <2>2. UNCHANGED <<AbstractEffect, AbstractVerdict>>
    BY <1>9 DEF Start, Advance, AbstractEffect, AbstractVerdict, Effect, Claim
  <2>3. \E h \in BOOLEAN : held' = [held EXCEPT ![c] = h]
    BY <1>9, GoalIsBoolean DEF Start
  <2> QED
    BY <2>1, <2>2, <2>3 DEF GW!Begin, AbstractPhase, AbstractEffect, AbstractVerdict
<1>10. ASSUME NEW c \in Invocation, Write(c) PROVE GW!Attempt(c)
  <2>1. wire[c] = "unsent" /\ verdict[c] = "none" /\ pc[c] # "idle"
    BY <1>10 DEF Write, Stages, StageOf, Preflight
  <2>2. PICK w \in {"inflight", "lost"} :
          wire' = [wire EXCEPT ![c] = w] /\ pc' = [pc EXCEPT ![c] = "reply"]
    BY <1>10 DEF Write, Advance, Goto
  <2>3. /\ AbstractPhase' = [AbstractPhase EXCEPT ![c] = "attempted"]
        /\ AbstractPhase[c] = "preflight"
    BY <2>1, <2>2 DEF AbstractPhase, Phase, TypeOK
  <2>4. AbstractEffect' = [AbstractEffect EXCEPT ![c] = IF w = "lost" THEN "dropped" ELSE "inflight"]
    BY <2>1, <2>2 DEF AbstractEffect, Effect, TypeOK
  <2>5. AbstractVerdict' = AbstractVerdict /\ AbstractVerdict[c] = "none"
    BY <1>10, <2>1 DEF Write, Advance, AbstractVerdict, Claim, Successes
  <2>6. \E h \in BOOLEAN : held' = [held EXCEPT ![c] = h]
    BY <1>10, GoalIsBoolean DEF Write
  <2> QED
    BY <2>3, <2>4, <2>5, <2>6 DEF GW!Attempt, AbstractPhase, AbstractEffect, AbstractVerdict
<1>11. ASSUME NEW c \in Invocation, Provider(c) PROVE GW!Settle(c)
  <2>1. PICK w \in {"applied", "refused", "lost"} :
          wire[c] = "inflight" /\ wire' = [wire EXCEPT ![c] = w] /\ UNCHANGED <<pc, verdict>>
    BY <1>11 DEF Provider, ApplyMerge, DropWrite
  <2>2. GW!Observe
    BY <1>11, ObserveStep DEF Provider, ApplyMerge, DropWrite
  <2>3. UNCHANGED <<AbstractPhase, AbstractVerdict>>
    BY <2>1 DEF AbstractPhase, AbstractVerdict, Phase, Claim, TypeOK
  <2>4. /\ AbstractEffect[c] = "inflight"
        /\ AbstractEffect' = [AbstractEffect EXCEPT ![c] = IF w = "applied" THEN w ELSE "dropped"]
    BY <2>1 DEF AbstractEffect, Effect, TypeOK
  <2> QED
    BY <2>2, <2>3, <2>4 DEF GW!Settle, AbstractPhase, AbstractEffect, AbstractVerdict
<1>12. CASE Other
  <2>1. UNCHANGED <<pc, wire, verdict>> /\ Observed
    BY <1>12 DEF Other, OtherPushes, OtherRunsChecks, OtherSetsPolicy, OtherEdits, Disturb
  <2>2. UNCHANGED <<AbstractPhase, AbstractEffect, AbstractVerdict>>
    BY <2>1 DEF AbstractPhase, AbstractEffect, AbstractVerdict, Phase, Effect, Claim
  <2>3. GW!Observe
    BY <2>1, ObserveStep
  <2> QED
    BY <2>2, <2>3 DEF GW!Next, GW!World, AbstractPhase, AbstractEffect, AbstractVerdict
<1> QED
  BY <1>1, <1>2, <1>3, <1>4, <1>5, <1>6, <1>7, <1>8, <1>9, <1>10, <1>11, <1>12
     DEF Next, Run, GW!Next

\* A merge keeps GuardedWrite's promise for any number of runs, pushes and pipelines: one
\* PUT at most, none behind an ordinary error, merged only of the squash it was asked for,
\* a rejection only of a request that is gone.
THEOREM Refinement == Spec => ImplementsGuardedWrite
<1>1. Init => GW!Init
  BY DEF Init, GW!Init, Phase, Effect, Claim, Successes
<1>2. IInv /\ [Next]_vars => [GW!Next]_(GW!vars)
  BY RefinementStep
<1> QED
  BY <1>1, <1>2, Invariance, PTL DEF Spec, ImplementsGuardedWrite, GW!Spec
=============================================================================
