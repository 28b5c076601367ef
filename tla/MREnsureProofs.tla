--------------------------- MODULE MREnsureProofs ---------------------------
(***************************************************************************)
(* mr ensure, for any number of invocations, merge requests, contents and   *)
(* revisions: it keeps its types, it implements GuardedWrite, and repeating *)
(* it never leaves two open merge requests.                                 *)
(*                                                                         *)
(* The argument: where an invocation is in executeMREnsure tells what it    *)
(* has read, sent and said (Stages), and whatever it is about to answer     *)
(* from has been true at the provider since it last looked (Evidence).      *)
(* Together with the types the two are inductive, and from them every       *)
(* answer of the code is one that GuardedWrite allows.                      *)
(***************************************************************************)
EXTENDS MREnsure, FiniteSetTheorems, TLAPS

BeforeLookup == {"lookup", "recheck", "create"}

\* Where an invocation is tells what it has found, sent and said.
StageOf(c) ==
  /\ pc[c] \in {"idle", "createReply", "createReconcile"} \cup BeforeLookup => view[c] = Nil
  /\ pc[c] \in {"existing", "updateReply", "updateReconcile"} => view[c] # Nil
  /\ pc[c] \in {"idle", "existing"} \cup BeforeLookup => wire[c] = "unsent"
  /\ pc[c] \in Replying \cup Reconciling => wire[c] # "unsent"
  /\ pc[c] # "done" => verdict[c] = "none"
  /\ pc[c] \notin Replying => echo[c] = Nil
  /\ pc[c] \in Replying /\ wire[c] = "applied" => echo[c] # Nil
  /\ cause[c] = "status" => wire[c] = "refused"
  /\ view[c] # Nil => mr[view[c].iid] # Nil

Stages == \A c \in Invocation : StageOf(c)

\* The evidence an invocation holds was true at the provider.
EvidenceOf(c) ==
  /\ Active(c) /\ Goal(c) => held[c]
  /\ pc[c] = "existing" /\ Requested(c, view[c].rec) => held[c]
  /\ echo[c] # Nil /\ Accepted(c) => held[c]

Evidence == \A c \in Invocation : EvidenceOf(c)

IInv == TypeOK /\ Stages /\ Evidence

\* The initial states are well typed.
LEMMA TypeInit == Init => TypeOK
BY EnsureAssumption DEF Init, TypeOK

\* What a create leaves at the provider is a merge request.
LEMMA StoredIsMR ==
  ASSUME NEW r \in MR, NEW s \in Stored(r) PROVE s \in MR
BY DEF Stored, MR

\* What an update leaves at the provider is a merge request.
LEMMA EditedIsMR ==
  ASSUME NEW r \in MR, NEW e \in Edited(r) PROVE e \in MR
<1>1. [r EXCEPT !.open = FALSE] \in MR
  BY DEF MR
<1> QED
  BY <1>1, StoredIsMR DEF Edited

\* Every step keeps the types; the stages say which views are there to be read.
LEMMA TypeStep == TypeOK /\ Stages /\ [Next]_vars => TypeOK'
<1> SUFFICES ASSUME TypeOK, Stages, [Next]_vars PROVE TypeOK'
  OBVIOUS
<1> USE EnsureAssumption DEF TypeOK, provider, Replying, Reading, Reconciling, Seen
<1>1. ASSUME NEW c \in Invocation, Start(c) PROVE TypeOK'
  BY <1>1 DEF Start, Goto, Goal
<1>2. ASSUME NEW c \in Invocation, Lookup(c) PROVE TypeOK'
  <2>1. CASE Matching(c) = {} /\ Goto(c, IF pc[c] = "lookup" THEN "recheck" ELSE "create")
              /\ UNCHANGED <<ctx, view, echo, cause, verdict>>
    BY <1>2, <2>1 DEF Lookup, Goto
  <2>2. ASSUME NEW i \in Matching(c), view' = [view EXCEPT ![c] = Snapshot(i)],
               Goto(c, "existing"), UNCHANGED <<ctx, echo, cause, verdict>>
        PROVE TypeOK'
    <3>1. Snapshot(i) \in Seen
      BY <2>2 DEF Snapshot, Matching, Opened
    <3> QED
      BY <1>2, <2>2, <3>1 DEF Lookup, Goto
  <2>3. CASE Return(c, "refused") /\ UNCHANGED view
    BY <1>2, <2>3 DEF Lookup, Return, End, Goto
  <2> QED
    BY <1>2, <2>1, <2>2, <2>3 DEF Lookup
<1>3. ASSUME NEW c \in Invocation, Refuse(c) PROVE TypeOK'
  BY <1>3 DEF Refuse, NeedsUpdate, Return, End, Goto
<1>4. ASSUME NEW c \in Invocation, KeepExisting(c) PROVE TypeOK'
  BY <1>4 DEF KeepExisting, Return, End, Goto
<1>5. ASSUME NEW c \in Invocation, Write(c) PROVE TypeOK'
  BY <1>5 DEF Write, Goto, Goal
<1>6. ASSUME NEW c \in Invocation, Answered(c) PROVE TypeOK'
  BY <1>6 DEF Answered, Return, End, Goto, Reconcile
<1>7. ASSUME NEW c \in Invocation, RefusalArrives(c) PROVE TypeOK'
  BY <1>7 DEF RefusalArrives, Reconcile, Goto
<1>8. ASSUME NEW c \in Invocation, AnswerLost(c) PROVE TypeOK'
  BY <1>8 DEF AnswerLost, Reconcile, Goto
<1>9. ASSUME NEW c \in Invocation, ReconcileCreate(c) PROVE TypeOK'
  BY <1>9 DEF ReconcileCreate, Return, End, Goto
<1>10. ASSUME NEW c \in Invocation, ReconcileUpdate(c) PROVE TypeOK'
  BY <1>10 DEF ReconcileUpdate, Return, End, Goto
<1>11. ASSUME NEW c \in Invocation, ReconcileFails(c) PROVE TypeOK'
  BY <1>11 DEF ReconcileFails, Return, End, Goto
<1>12. ASSUME NEW c \in Invocation, Expire(c) PROVE TypeOK'
  BY <1>12 DEF Expire
<1>13. ASSUME NEW c \in Invocation, Crash(c) PROVE TypeOK'
  BY <1>13 DEF Crash, End, Goto
<1>14. ASSUME NEW c \in Invocation, ApplyCreate(c) PROVE TypeOK'
  BY <1>14 DEF ApplyCreate, Answer, Observed
<1>15. ASSUME NEW c \in Invocation, ApplyUpdate(c) PROVE TypeOK'
  <2> DEFINE i == view[c].iid
  <2>1. i \in IID /\ mr[i] \in MR
    BY <1>15 DEF ApplyUpdate, Stages, StageOf
  <2>2. PICK stored \in MR :
          /\ mr' = [mr EXCEPT ![i] = stored]
          /\ Answer(c, [iid |-> i, rec |-> stored, sha |-> head])
    BY <1>15, <2>1, StoredIsMR DEF ApplyUpdate
  <2>3. mr' \in [IID -> MR \cup {Nil}] /\ echo' \in [Invocation -> Seen \cup {Nil}]
    BY <2>1, <2>2 DEF Answer
  <2> QED
    BY <1>15, <2>3 DEF ApplyUpdate, Observed
<1>16. ASSUME NEW c \in Invocation, DropWrite(c) PROVE TypeOK'
  BY <1>16 DEF DropWrite
<1>17. CASE OtherOpens
  BY <1>17 DEF OtherOpens, Observed
<1>18. CASE OtherChanges
  <2>1. CASE \E i \in Opened : \E r \in Edited(mr[i]) : mr' = [mr EXCEPT ![i] = r]
    BY <1>18, <2>1, EditedIsMR DEF OtherChanges, Observed, Opened
  <2>2. CASE head' \in Sha \ {head} /\ UNCHANGED mr
    BY <1>18, <2>2 DEF OtherChanges, Observed
  <2> QED
    BY <1>18, <2>1, <2>2 DEF OtherChanges
<1>19. CASE UNCHANGED vars
  BY <1>19 DEF vars
<1> QED
  BY <1>1, <1>2, <1>3, <1>4, <1>5, <1>6, <1>7, <1>8, <1>9, <1>10, <1>11, <1>12, <1>13, <1>14, <1>15, <1>16, <1>17, <1>18, <1>19 DEF Next, Run, Provider

\* Every step leaves each invocation's view, request and answer as its new
\* place in the code has them.
LEMMA StageStep == TypeOK /\ Stages /\ [Next]_vars => Stages'
<1> SUFFICES ASSUME TypeOK, Stages, [Next]_vars, NEW d \in Invocation PROVE StageOf(d)'
  BY DEF Stages
<1> USE NilAssumption DEF TypeOK, Stages, StageOf, provider, BeforeLookup, Replying, Reading, Reconciling
<1>1. ASSUME NEW c \in Invocation, Start(c) PROVE StageOf(d)'
  BY <1>1 DEF Start, Goto
<1>2. ASSUME NEW c \in Invocation, Lookup(c) PROVE StageOf(d)'
  <2>1. CASE Matching(c) = {} /\ Goto(c, IF pc[c] = "lookup" THEN "recheck" ELSE "create")
              /\ UNCHANGED <<ctx, view, echo, cause, verdict>>
    BY <1>2, <2>1 DEF Lookup, Goto
  <2>2. ASSUME NEW i \in Matching(c), view' = [view EXCEPT ![c] = Snapshot(i)],
               Goto(c, "existing"), UNCHANGED <<ctx, echo, cause, verdict>>
        PROVE StageOf(d)'
    <3>1. Snapshot(i) \in Seen /\ Snapshot(i).iid = i /\ mr[i] # Nil
      BY <2>2 DEF Snapshot, Matching, Opened, Seen
    <3> QED
      BY <1>2, <2>2, <3>1 DEF Lookup, Goto
  <2>3. CASE Return(c, "refused") /\ UNCHANGED view
    BY <1>2, <2>3 DEF Lookup, Return, End, Goto
  <2> QED
    BY <1>2, <2>1, <2>2, <2>3 DEF Lookup
<1>3. ASSUME NEW c \in Invocation, Refuse(c) PROVE StageOf(d)'
  BY <1>3 DEF Refuse, NeedsUpdate, Return, End, Goto
<1>4. ASSUME NEW c \in Invocation, KeepExisting(c) PROVE StageOf(d)'
  BY <1>4 DEF KeepExisting, Return, End, Goto
<1>5. ASSUME NEW c \in Invocation, Write(c) PROVE StageOf(d)'
  BY <1>5 DEF Write, NeedsUpdate, Goto
<1>6. ASSUME NEW c \in Invocation, Answered(c) PROVE StageOf(d)'
  BY <1>6 DEF Answered, Return, End, Goto, Reconcile
<1>7. ASSUME NEW c \in Invocation, RefusalArrives(c) PROVE StageOf(d)'
  BY <1>7 DEF RefusalArrives, Reconcile, Goto
<1>8. ASSUME NEW c \in Invocation, AnswerLost(c) PROVE StageOf(d)'
  BY <1>8 DEF AnswerLost, Reconcile, Goto
<1>9. ASSUME NEW c \in Invocation, ReconcileCreate(c) PROVE StageOf(d)'
  BY <1>9 DEF ReconcileCreate, Return, End, Goto
<1>10. ASSUME NEW c \in Invocation, ReconcileUpdate(c) PROVE StageOf(d)'
  BY <1>10 DEF ReconcileUpdate, Return, End, Goto
<1>11. ASSUME NEW c \in Invocation, ReconcileFails(c) PROVE StageOf(d)'
  BY <1>11 DEF ReconcileFails, Return, End, Goto
<1>12. ASSUME NEW c \in Invocation, Expire(c) PROVE StageOf(d)'
  BY <1>12 DEF Expire
<1>13. ASSUME NEW c \in Invocation, Crash(c) PROVE StageOf(d)'
  BY <1>13 DEF Crash, End, Goto
<1>14. ASSUME NEW c \in Invocation, ApplyCreate(c) PROVE StageOf(d)'
  <2>1. PICK i \in IID, rec \in MR :
          /\ mr[i] = Nil
          /\ mr' = [mr EXCEPT ![i] = rec]
          /\ Answer(c, [iid |-> i, rec |-> rec, sha |-> head])
    BY <1>14 DEF ApplyCreate
  <2>2. [iid |-> i, rec |-> rec, sha |-> head] \in Seen
    BY DEF Seen
  <2>3. view[d] # Nil => view[d].iid \in IID
    BY DEF Seen
  <2> QED
    BY <1>14, <2>1, <2>2, <2>3 DEF ApplyCreate, Answer
<1>15. ASSUME NEW c \in Invocation, ApplyUpdate(c) PROVE StageOf(d)'
  <2> DEFINE i == view[c].iid
  <2>1. i \in IID /\ mr[i] \in MR
    BY <1>15 DEF ApplyUpdate, Seen
  <2>2. PICK stored \in MR :
          /\ mr' = [mr EXCEPT ![i] = stored]
          /\ Answer(c, [iid |-> i, rec |-> stored, sha |-> head])
    BY <1>15, <2>1, StoredIsMR DEF ApplyUpdate
  <2>3. [iid |-> i, rec |-> stored, sha |-> head] \in Seen
    BY <2>1 DEF Seen
  <2>4. view[d] # Nil => view[d].iid \in IID
    BY DEF Seen
  <2>5. wire' = [wire EXCEPT ![c] = "applied"] /\ wire[c] = "inflight"
        /\ UNCHANGED <<pc, view, cause, verdict>>
    BY <1>15 DEF ApplyUpdate
  <2> QED
    BY <2>1, <2>2, <2>3, <2>4, <2>5 DEF Answer
<1>16. ASSUME NEW c \in Invocation, DropWrite(c) PROVE StageOf(d)'
  BY <1>16 DEF DropWrite
<1>17. CASE OtherOpens
  BY <1>17 DEF OtherOpens, Opened
<1>18. CASE OtherChanges
  <2>1. \A i \in IID : mr[i] # Nil => mr'[i] # Nil
    BY <1>18, EditedIsMR DEF OtherChanges, Opened
  <2>2. view[d] # Nil => view[d].iid \in IID
    BY DEF Seen
  <2> QED
    BY <1>18, <2>1, <2>2 DEF OtherChanges
<1>19. CASE UNCHANGED vars
  BY <1>19 DEF vars
<1> QED
  BY <1>1, <1>2, <1>3, <1>4, <1>5, <1>6, <1>7, <1>8, <1>9, <1>10, <1>11, <1>12, <1>13, <1>14, <1>15, <1>16, <1>17, <1>18, <1>19 DEF Next, Run, Provider

\* A step that leaves the provider alone and tells d nothing keeps d's evidence.
Quiet(d) ==
  /\ UNCHANGED <<mr, head, ask>>
  /\ view'[d] = view[d]
  /\ held[d] => held'[d]
  /\ pc'[d] \notin {"idle", "done"} => pc[d] \notin {"idle", "done"}
  /\ pc'[d] = "existing" => pc[d] = "existing"
  /\ echo'[d] \in {echo[d], Nil}

\* Such a step keeps d's evidence true.
LEMMA QuietStep ==
  ASSUME NEW d \in Invocation, EvidenceOf(d), Quiet(d) PROVE EvidenceOf(d)'
<1>1. Goal(d)' => Goal(d)
  BY DEF Quiet, Goal, Opened, Requested, Matches, SameIdentity, Snapshot
<1>2. Active(d)' => Active(d)
  BY DEF Quiet, Active
<1>3. echo'[d] # Nil /\ Accepted(d)' => echo[d] # Nil /\ Accepted(d)
  BY DEF Quiet, Accepted, Requested, Matches, SameIdentity
<1>4. Requested(d, view[d].rec)' => Requested(d, view[d].rec)
  BY DEF Quiet, Requested, Matches
<1> QED
  BY <1>1, <1>2, <1>3, <1>4 DEF EvidenceOf, Quiet

\* A step at the provider is seen by every active invocation at once.
LEMMA ProviderStep ==
  ASSUME TypeOK, NEW d \in Invocation, EvidenceOf(d), Observed,
         UNCHANGED <<ask, pc, view>>, echo'[d] = echo[d]
  PROVE EvidenceOf(d)'
<1>1. held'[d] <=> (held[d] \/ (Active(d) /\ Goal(d)'))
  BY DEF Observed
<1>2. Active(d)' <=> Active(d)
  BY DEF Active
<1>3. /\ Accepted(d)' <=> Accepted(d)
      /\ Requested(d, view[d].rec)' <=> Requested(d, view[d].rec)
  BY DEF Accepted, Requested, Matches, SameIdentity
<1> QED
  BY <1>1, <1>2, <1>3 DEF EvidenceOf

\* Every step, of the invocation itself, of the provider or of anyone else, keeps
\* what each invocation holds as evidence true.
LEMMA EvidenceStep == TypeOK /\ Stages /\ Evidence /\ [Next]_vars => Evidence'
<1> SUFFICES ASSUME TypeOK, Stages, Evidence, [Next]_vars, NEW d \in Invocation
             PROVE EvidenceOf(d)'
  BY DEF Evidence
<1>0. EvidenceOf(d)
  BY DEF Evidence
<1>1. ASSUME NEW c \in Invocation, Refuse(c) PROVE EvidenceOf(d)'
  <2>1. Quiet(d)
    BY <1>1 DEF TypeOK, Quiet, provider, Refuse, Return, End, Goto
  <2> QED
    BY <1>0, <2>1, QuietStep
<1>2. ASSUME NEW c \in Invocation, KeepExisting(c) PROVE EvidenceOf(d)'
  <2>1. Quiet(d)
    BY <1>2 DEF TypeOK, Quiet, provider, KeepExisting, Return, End, Goto
  <2> QED
    BY <1>0, <2>1, QuietStep
<1>3. ASSUME NEW c \in Invocation, Answered(c) PROVE EvidenceOf(d)'
  <2>1. Quiet(d)
    BY <1>3 DEF TypeOK, Quiet, provider, Answered, Return, End, Goto, Reconcile, Replying
  <2> QED
    BY <1>0, <2>1, QuietStep
<1>4. ASSUME NEW c \in Invocation, RefusalArrives(c) PROVE EvidenceOf(d)'
  <2>1. Quiet(d)
    BY <1>4 DEF TypeOK, Quiet, provider, RefusalArrives, Reconcile, Goto, Replying
  <2> QED
    BY <1>0, <2>1, QuietStep
<1>5. ASSUME NEW c \in Invocation, AnswerLost(c) PROVE EvidenceOf(d)'
  <2>1. Quiet(d)
    BY <1>5 DEF TypeOK, Quiet, provider, AnswerLost, Reconcile, Goto, Replying
  <2> QED
    BY <1>0, <2>1, QuietStep
<1>6. ASSUME NEW c \in Invocation, ReconcileCreate(c) PROVE EvidenceOf(d)'
  <2>1. Quiet(d)
    BY <1>6 DEF TypeOK, Quiet, provider, ReconcileCreate, Return, End, Goto
  <2> QED
    BY <1>0, <2>1, QuietStep
<1>7. ASSUME NEW c \in Invocation, ReconcileUpdate(c) PROVE EvidenceOf(d)'
  <2>1. Quiet(d)
    BY <1>7 DEF TypeOK, Quiet, provider, ReconcileUpdate, Return, End, Goto
  <2> QED
    BY <1>0, <2>1, QuietStep
<1>8. ASSUME NEW c \in Invocation, ReconcileFails(c) PROVE EvidenceOf(d)'
  <2>1. Quiet(d)
    BY <1>8 DEF TypeOK, Quiet, provider, ReconcileFails, Return, End, Goto, Reconciling
  <2> QED
    BY <1>0, <2>1, QuietStep
<1>9. ASSUME NEW c \in Invocation, Expire(c) PROVE EvidenceOf(d)'
  <2>1. Quiet(d)
    BY <1>9 DEF TypeOK, Quiet, provider, Expire, Active
  <2> QED
    BY <1>0, <2>1, QuietStep
<1>10. ASSUME NEW c \in Invocation, Crash(c) PROVE EvidenceOf(d)'
  <2>1. Quiet(d)
    BY <1>10 DEF TypeOK, Quiet, provider, Crash, End, Goto, Active
  <2> QED
    BY <1>0, <2>1, QuietStep
<1>11. ASSUME NEW c \in Invocation, DropWrite(c) PROVE EvidenceOf(d)'
  <2>1. Quiet(d)
    BY <1>11 DEF TypeOK, Quiet, provider, DropWrite
  <2> QED
    BY <1>0, <2>1, QuietStep
<1>12. ASSUME NEW c \in Invocation, Start(c) PROVE EvidenceOf(d)'
  <2>1. CASE d = c
    <3>1. pc'[d] = "lookup" /\ held'[d] = Goal(d) /\ echo'[d] = Nil
      BY <1>12, <2>1 DEF Start, Goto, TypeOK, Stages, StageOf, Replying
    <3>2. Goal(d)' <=> Goal(d)
      BY <1>12 DEF Start, provider, Goal, Opened, Requested, Matches, SameIdentity, Snapshot
    <3> QED
      BY <3>1, <3>2 DEF EvidenceOf
  <2>2. CASE d # c
    <3>1. Quiet(d)
      BY <1>12, <2>2 DEF TypeOK, Quiet, provider, Start, Goto
    <3> QED
      BY <1>0, <3>1, QuietStep
  <2> QED
    BY <2>1, <2>2
<1>13. ASSUME NEW c \in Invocation, Lookup(c) PROVE EvidenceOf(d)'
  <2>1. CASE Quiet(d)
    BY <1>0, <2>1, QuietStep
  <2>2. ASSUME ~Quiet(d) PROVE EvidenceOf(d)'
    <3>1. d = c
      BY <1>13, <2>2 DEF TypeOK, Quiet, provider, Lookup, Goto, Return, End
    <3>2. PICK i \in Opened :
            /\ view' = [view EXCEPT ![d] = Snapshot(i)]
            /\ Goto(d, "existing")
            /\ UNCHANGED <<mr, head, ask, held, echo>>
      BY <1>13, <2>2, <3>1 DEF TypeOK, Quiet, provider, Lookup, Matching, Goto, Return, End
    <3>3. /\ pc'[d] = "existing" /\ view'[d] = Snapshot(i)
          /\ view[d] = Nil /\ echo[d] = Nil /\ Active(d)
      BY <1>13, <3>1, <3>2 DEF TypeOK, Lookup, Goto, Stages, StageOf, Active, BeforeLookup, Replying
    <3>4. Goal(d)' => Goal(d)
      BY <3>2, <3>3 DEF Goal, Opened, Requested, Matches
    <3>5. Requested(d, view[d].rec)' => Goal(d)
      BY <3>2, <3>3 DEF Goal, Requested, Matches, Snapshot
    <3> QED
      BY <1>0, <3>2, <3>3, <3>4, <3>5 DEF EvidenceOf
  <2> QED
    BY <2>1, <2>2
<1>14. ASSUME NEW c \in Invocation, Write(c) PROVE EvidenceOf(d)'
  <2>1. CASE d = c
    <3>1. /\ pc'[d] # "existing" /\ held'[d] = Goal(d) /\ echo'[d] = Nil
          /\ UNCHANGED <<mr, head, ask, view>>
      BY <1>14, <2>1 DEF Write, Goto, provider, NeedsUpdate, TypeOK, Stages, StageOf, Replying
    <3>2. Goal(d)' <=> Goal(d)
      BY <3>1 DEF Goal, Opened, Requested, Matches, SameIdentity, Snapshot
    <3> QED
      BY <3>1, <3>2 DEF EvidenceOf
  <2>2. CASE d # c
    <3>1. Quiet(d)
      BY <1>14, <2>2 DEF TypeOK, Quiet, provider, Write, Goto
    <3> QED
      BY <1>0, <3>1, QuietStep
  <2> QED
    BY <2>1, <2>2
<1>15. ASSUME NEW c \in Invocation, ApplyCreate(c) PROVE EvidenceOf(d)'
  <2>1. CASE echo'[d] = echo[d]
    BY <1>0, <1>15, <2>1, ProviderStep DEF ApplyCreate
  <2>2. ASSUME echo'[d] # echo[d] PROVE EvidenceOf(d)'
    <3>1. /\ d = c /\ pc[d] \in Replying /\ pc' = pc /\ view' = view
          /\ held'[d] <=> (held[d] \/ (Active(d) /\ Goal(d)'))
      BY <1>15, <2>2 DEF ApplyCreate, Answer, Observed, TypeOK
    <3>2. PICK i \in IID : echo'[d] = [iid |-> i, rec |-> mr'[i], sha |-> head'] /\ mr'[i] \in MR
      BY <1>15, <2>2 DEF ApplyCreate, Answer, TypeOK
    <3>3. Accepted(d)' => Goal(d)'
      BY <3>2, NilAssumption DEF Accepted, Goal, Opened, Requested, Matches, SameIdentity, Snapshot
    <3>4. Active(d) /\ Active(d)' /\ pc'[d] # "existing"
      BY <3>1 DEF Active, Replying
    <3> QED
      BY <3>1, <3>3, <3>4 DEF EvidenceOf
  <2> QED
    BY <2>1, <2>2
<1>16. ASSUME NEW c \in Invocation, ApplyUpdate(c) PROVE EvidenceOf(d)'
  <2>1. CASE echo'[d] = echo[d]
    BY <1>0, <1>16, <2>1, ProviderStep DEF ApplyUpdate
  <2>2. ASSUME echo'[d] # echo[d] PROVE EvidenceOf(d)'
    <3>1. /\ d = c /\ pc[d] \in Replying /\ pc' = pc /\ view' = view
          /\ held'[d] <=> (held[d] \/ (Active(d) /\ Goal(d)'))
      BY <1>16, <2>2 DEF ApplyUpdate, Answer, Observed, TypeOK
    <3>2. PICK i \in IID : echo'[d] = [iid |-> i, rec |-> mr'[i], sha |-> head'] /\ mr'[i] \in MR
      <4>1. view[c].iid \in IID /\ mr[view[c].iid] \in MR
        BY <1>16 DEF ApplyUpdate, TypeOK, Stages, StageOf, Seen
      <4> QED
        BY <1>16, <2>2, <4>1, StoredIsMR DEF ApplyUpdate, Answer, TypeOK
    <3>3. Accepted(d)' => Goal(d)'
      BY <3>2, NilAssumption DEF Accepted, Goal, Opened, Requested, Matches, SameIdentity, Snapshot
    <3>4. Active(d) /\ Active(d)' /\ pc'[d] # "existing"
      BY <3>1 DEF Active, Replying
    <3> QED
      BY <3>1, <3>3, <3>4 DEF EvidenceOf
  <2> QED
    BY <2>1, <2>2
<1>17. CASE OtherOpens
  BY <1>0, <1>17, ProviderStep DEF OtherOpens
<1>18. CASE OtherChanges
  BY <1>0, <1>18, ProviderStep DEF OtherChanges
<1>19. CASE UNCHANGED vars
  <2>1. Quiet(d)
    BY <1>19 DEF vars, Quiet
  <2> QED
    BY <1>0, <2>1, QuietStep
<1> QED
  BY <1>1, <1>2, <1>3, <1>4, <1>5, <1>6, <1>7, <1>8, <1>9, <1>10, <1>11, <1>12, <1>13, <1>14, <1>15, <1>16, <1>17, <1>18, <1>19 DEF Next, Run, Provider

\* The strengthened invariant holds in every reachable state: types, stages of
\* executeMREnsure, and evidence that was true at the provider.
THEOREM Invariance == Spec => []IInv
<1>1. Init => IInv
  <2>1. Init => Stages
    BY DEF Init, Stages, StageOf, BeforeLookup, Replying, Reconciling
  <2>2. Init => Evidence
    BY DEF Init, Evidence, EvidenceOf, Active
  <2> QED
    BY <2>1, <2>2, TypeInit DEF IInv
<1>2. IInv /\ [Next]_vars => IInv'
  BY TypeStep, StageStep, EvidenceStep DEF IInv
<1> QED
  BY <1>1, <1>2, PTL DEF Spec

\* Every variable of mr ensure keeps its type, for any number of invocations and
\* merge requests.
THEOREM TypeCorrect == Spec => []TypeOK
BY Invariance, PTL DEF IInv

-----------------------------------------------------------------------------
(* Repeating the command never leaves two open merge requests.              *)

\* c, or a request it left behind, is still at work.
Busy(c) == Active(c) \/ wire[c] = "inflight"

\* c has found no merge request and may still create one.
MayCreate(c) == pc[c] \in {"recheck", "create"} \/ (view[c] = Nil /\ wire[c] = "inflight")

\* As long as no writers overlapped, one run at most is at work, it creates only where
\* nothing is open, and at most one is open.
Alone ==
  ~raced =>
    /\ \A c, d \in Invocation : Busy(c) /\ Busy(d) => c = d
    /\ \A c \in Invocation : MayCreate(c) => Opened = {}
    /\ \A i, j \in Opened : i = j

\* At most one is open, counted or compared.
LEMMA AtMostOne ==
  ASSUME NEW S \in SUBSET IID
  PROVE /\ Cardinality(S) <= 1 <=> \A i, j \in S : i = j
        /\ ~(Cardinality(S) > 1) <=> Cardinality(S) <= 1
<1>1. IsFiniteSet(S) /\ Cardinality(S) \in Nat
  BY EnsureAssumption, FS_Subset, FS_CardinalityType
<1>2. Cardinality(S) = 0 <=> S = {}
  BY <1>1, FS_EmptySet
<1>3. Cardinality(S) = 1 <=> \E i : S = {i}
  BY <1>1, FS_Singleton
<1>4. (\A i, j \in S : i = j) => S = {} \/ \E i : S = {i}
  <2>1. CASE S = {}
    BY <2>1
  <2>2. ASSUME NEW i \in S, \A j, k \in S : j = k PROVE S = {i}
    BY <2>2
  <2> QED
    BY <2>1, <2>2
<1>5. (S = {} \/ \E i : S = {i}) => \A i, j \in S : i = j
  OBVIOUS
<1>6. Cardinality(S) <= 1 <=> Cardinality(S) = 0 \/ Cardinality(S) = 1
  BY <1>1
<1>7. ~(Cardinality(S) > 1) <=> Cardinality(S) <= 1
  BY <1>1
<1> QED
  BY <1>2, <1>3, <1>4, <1>5, <1>6, <1>7

\* Before anybody runs, that says how many are open.
LEMMA AloneInit == Init => Alone
<1> SUFFICES ASSUME Init, ~raced PROVE Alone
  BY DEF Alone
<1>1. Opened \in SUBSET IID /\ ~(Cardinality(Opened) > 1)
  BY DEF Init, Opened
<1>2. \A i, j \in Opened : i = j
  BY <1>1, AtMostOne
<1>3. \A c \in Invocation : ~Busy(c) /\ ~MayCreate(c)
  BY DEF Init, Busy, MayCreate, Active
<1> QED
  BY <1>2, <1>3 DEF Alone

\* A step by which nobody sets to work, nobody new may create, and nothing is opened.
Steady ==
  /\ raced' = raced
  /\ \A d \in Invocation : (Busy(d)' => Busy(d)) /\ (MayCreate(d)' => MayCreate(d))
  /\ Opened' \subseteq Opened

\* Such a step changes nothing about it.
LEMMA SteadyStep == ASSUME Alone, Steady PROVE Alone'
BY DEF Alone, Steady

\* Every other step starts a run where none is at work, creates where nothing is open,
\* or notes the overlap.
LEMMA AloneStep == TypeOK /\ Stages /\ Alone /\ [Next]_vars => Alone'
<1> SUFFICES ASSUME TypeOK, Stages, Alone, [Next]_vars PROVE Alone'
  OBVIOUS
<1> USE DEF provider
<1>1. ASSUME NEW c \in Invocation,
             \/ Refuse(c) \/ KeepExisting(c) \/ Answered(c) \/ RefusalArrives(c)
             \/ AnswerLost(c) \/ ReconcileCreate(c) \/ ReconcileUpdate(c)
             \/ ReconcileFails(c) \/ Expire(c) \/ Crash(c) \/ DropWrite(c)
      PROVE Alone'
  <2>1. UNCHANGED <<mr, view, raced>>
    BY <1>1 DEF Refuse, KeepExisting, Answered, RefusalArrives, AnswerLost, ReconcileCreate,
                ReconcileUpdate, ReconcileFails, Expire, Crash, DropWrite
  <2>2. \/ wire' = wire
        \/ \E e \in {"refused", "lost"} : wire' = [wire EXCEPT ![c] = e] /\ pc' = pc
    BY <1>1 DEF Refuse, KeepExisting, Answered, RefusalArrives, AnswerLost, ReconcileCreate,
                ReconcileUpdate, ReconcileFails, Expire, Crash, DropWrite
  <2>3. \/ pc' = pc
        \/ /\ Active(c)
           /\ \E l \in {"done"} \cup Reconciling : pc' = [pc EXCEPT ![c] = l]
    BY <1>1 DEF Refuse, NeedsUpdate, KeepExisting, Answered, RefusalArrives, AnswerLost,
                Reconcile, ReconcileCreate, ReconcileUpdate, ReconcileFails, Expire, Crash,
                DropWrite, Return, End, Goto, Active, Replying, Reconciling
  <2>4. Steady
    BY <2>1, <2>2, <2>3 DEF Steady, Busy, MayCreate, Active, Opened, TypeOK, Reconciling
  <2> QED
    BY <2>4, SteadyStep
<1>2. ASSUME NEW c \in Invocation, Lookup(c) PROVE Alone'
  <2>1. UNCHANGED <<mr, wire, raced>> /\ pc[c] \in {"lookup", "recheck"}
    BY <1>2 DEF Lookup
  <2>2. Opened' = Opened
    BY <2>1 DEF Opened
  <2>3. CASE Opened = {} /\ UNCHANGED view
             /\ \E l \in {"recheck", "create"} : pc' = [pc EXCEPT ![c] = l]
    BY <2>1, <2>2, <2>3 DEF Alone, Busy, Active, TypeOK
  <2>4. ASSUME NEW i \in Opened, view' = [view EXCEPT ![c] = Snapshot(i)],
               pc' = [pc EXCEPT ![c] = "existing"]
        PROVE Alone'
    <3>1. Snapshot(i) # Nil
      BY NilAssumption DEF Snapshot, Opened, Seen, TypeOK
    <3>2. Steady
      BY <2>1, <2>2, <2>4, <3>1 DEF Steady, Busy, MayCreate, Active, TypeOK
    <3> QED
      BY <3>2, SteadyStep
  <2>5. CASE pc' = [pc EXCEPT ![c] = "done"] /\ UNCHANGED view
    <3>1. Steady
      BY <2>1, <2>2, <2>5 DEF Steady, Busy, MayCreate, Active, TypeOK
    <3> QED
      BY <3>1, SteadyStep
  <2> QED
    BY <1>2, <2>3, <2>4, <2>5 DEF Lookup, Matching, Goto, Return, End
<1>3. ASSUME NEW c \in Invocation, Start(c) PROVE Alone'
  <2>1. /\ pc[c] = "idle" /\ pc' = [pc EXCEPT ![c] = "lookup"] /\ UNCHANGED <<mr, view, wire>>
        /\ raced' = (raced \/ \E d \in Invocation \ {c} : Active(d) \/ wire[d] = "inflight")
    BY <1>3 DEF Start, Goto
  <2>2. ASSUME ~raced' PROVE ~raced /\ \A d \in Invocation \ {c} : ~Busy(d)
    BY <2>1, <2>2 DEF Busy
  <2>3. \A d \in Invocation \ {c} : Busy(d)' <=> Busy(d)
    BY <2>1 DEF Busy, Active, TypeOK
  <2>4. /\ \A d \in Invocation : MayCreate(d)' => MayCreate(d)
        /\ Opened' = Opened
    BY <2>1 DEF MayCreate, Opened, TypeOK
  <2> QED
    BY <2>2, <2>3, <2>4 DEF Alone
<1>4. ASSUME NEW c \in Invocation, Write(c) PROVE Alone'
  <2>1. /\ UNCHANGED <<mr, view, raced>> /\ Active(c)
        /\ pc[c] = "create" \/ view[c] # Nil
        /\ \E l \in Replying : pc' = [pc EXCEPT ![c] = l]
        /\ \E w \in {"inflight", "lost"} : wire' = [wire EXCEPT ![c] = w]
    BY <1>4 DEF Write, NeedsUpdate, Goto, Stages, StageOf, Active, Replying
  <2>2. Steady
    BY <2>1 DEF Steady, Busy, MayCreate, Active, Opened, TypeOK, Replying
  <2> QED
    BY <2>2, SteadyStep
<1>5. ASSUME NEW c \in Invocation, ApplyCreate(c) PROVE Alone'
  <2>1. PICK i \in IID, r \in MR : mr' = [mr EXCEPT ![i] = r]
    BY <1>5 DEF ApplyCreate
  <2>2. /\ wire[c] = "inflight" /\ view[c] = Nil /\ wire' = [wire EXCEPT ![c] = "applied"]
        /\ UNCHANGED <<pc, view, raced>>
    BY <1>5 DEF ApplyCreate
  <2>3. MayCreate(c) /\ Busy(c) /\ ~MayCreate(c)'
    BY <2>2 DEF MayCreate, Busy, Stages, StageOf, BeforeLookup, TypeOK
  <2>4. \A d \in Invocation : Busy(d)' => Busy(d)
    BY <2>2 DEF Busy, Active, TypeOK
  <2>5. \A d \in Invocation : MayCreate(d)' => Busy(d)'
    BY DEF MayCreate, Busy, Active
  <2>6. Opened = {} => \A j \in Opened' : j = i
    BY <2>1 DEF Opened, TypeOK
  <2> QED
    BY <2>2, <2>3, <2>4, <2>5, <2>6 DEF Alone
<1>6. ASSUME NEW c \in Invocation, ApplyUpdate(c) PROVE Alone'
  <2> DEFINE i == view[c].iid
  <2>1. i \in IID /\ mr[i] \in MR
    BY <1>6 DEF ApplyUpdate, Stages, StageOf, TypeOK, Seen
  <2>2. PICK stored \in MR : stored.open = mr[i].open /\ mr' = [mr EXCEPT ![i] = stored]
    BY <1>6, <2>1 DEF ApplyUpdate, Stored, MR
  <2>3. Opened' \subseteq Opened
    BY <2>1, <2>2, NilAssumption DEF Opened, TypeOK
  <2>4. wire' = [wire EXCEPT ![c] = "applied"] /\ UNCHANGED <<pc, view, raced>>
    BY <1>6 DEF ApplyUpdate
  <2>5. Steady
    BY <2>3, <2>4 DEF Steady, Busy, MayCreate, Active, TypeOK
  <2> QED
    BY <2>5, SteadyStep
<1>7. CASE OtherOpens
  <2>1. /\ raced' = (raced \/ Opened # {} \/ \E c \in Invocation : Active(c) \/ wire[c] = "inflight")
        /\ UNCHANGED <<pc, view, wire>>
    BY <1>7 DEF OtherOpens
  <2>2. PICK i \in IID, r \in MR : mr' = [mr EXCEPT ![i] = r]
    BY <1>7 DEF OtherOpens
  <2>3. \A d \in Invocation : (Busy(d)' <=> Busy(d)) /\ (MayCreate(d) => Busy(d))
                              /\ (MayCreate(d)' <=> MayCreate(d))
    BY <2>1 DEF Busy, MayCreate, Active
  <2>4. Opened = {} => \A j \in Opened' : j = i
    BY <2>2 DEF Opened, TypeOK
  <2>5. ASSUME ~raced' PROVE Opened = {} /\ \A d \in Invocation : ~Busy(d)
    BY <2>1, <2>5 DEF Busy
  <2> QED
    BY <2>3, <2>4, <2>5 DEF Alone
<1>8. CASE OtherChanges
  <2>1. UNCHANGED <<pc, view, wire, raced>>
    BY <1>8 DEF OtherChanges
  <2>2. Opened' \subseteq Opened
    <3>1. CASE \E i \in Opened : \E r \in Edited(mr[i]) : mr' = [mr EXCEPT ![i] = r]
      BY <3>1 DEF Opened, TypeOK
    <3>2. CASE UNCHANGED mr
      BY <3>2 DEF Opened
    <3> QED
      BY <1>8, <3>1, <3>2 DEF OtherChanges
  <2>3. Steady
    BY <2>1, <2>2 DEF Steady, Busy, MayCreate, Active
  <2> QED
    BY <2>3, SteadyStep
<1>9. CASE UNCHANGED vars
  <2>1. Steady
    BY <1>9 DEF vars, Steady, Busy, MayCreate, Active, Opened
  <2> QED
    BY <2>1, SteadyStep
<1> QED
  BY <1>1, <1>2, <1>3, <1>4, <1>5, <1>6, <1>7, <1>8, <1>9 DEF Next, Run, Provider

\* Repeating mr ensure never duplicates: without overlapping writers the branch pair has
\* at most one open merge request, however many runs, lost answers and kills there are.
THEOREM Retries == Spec => []RetriesNeverDuplicate
<1>1. IInv /\ Alone /\ [Next]_vars => Alone'
  BY AloneStep DEF IInv
<1>2. Alone => RetriesNeverDuplicate
  <2>1. Opened \in SUBSET IID
    BY DEF Opened
  <2> QED
    BY <2>1, AtMostOne DEF Alone, RetriesNeverDuplicate
<1> QED
  BY <1>1, <1>2, AloneInit, Invariance, PTL DEF Spec

-----------------------------------------------------------------------------
(* Each step is a step of GuardedWrite, or leaves its variables alone.      *)

AbstractPhase == [c \in Invocation |-> Phase(c)]
AbstractEffect == [c \in Invocation |-> Effect(c)]
AbstractVerdict == [c \in Invocation |-> Claim(c)]

\* Nothing the caller or the provider could notice.
Silent ==
  /\ UNCHANGED <<wire, held, verdict>>
  /\ \A d \in Invocation : pc'[d] = "idle" <=> pc[d] = "idle"

\* Such a step changes nothing that GuardedWrite speaks of.
LEMMA SilentStep ==
  ASSUME Silent PROVE UNCHANGED GW!vars
<1>1. \A d \in Invocation : Phase(d)' = Phase(d) /\ Effect(d)' = Effect(d) /\ Claim(d)' = Claim(d)
  BY DEF Silent, Phase, Effect, Claim
<1>2. UNCHANGED <<AbstractPhase, AbstractEffect, AbstractVerdict, held>>
  BY <1>1 DEF AbstractPhase, AbstractEffect, AbstractVerdict, Silent
<1> QED
  BY <1>2 DEF GW!vars, AbstractPhase, AbstractEffect, AbstractVerdict

\* An invocation answers, and does nothing else.
Answers(c, v) ==
  /\ UNCHANGED <<wire, held>>
  /\ pc[c] # "idle"
  /\ verdict[c] = "none"
  /\ pc' = [pc EXCEPT ![c] = "done"]
  /\ verdict' = [verdict EXCEPT ![c] = v]

ClaimOf(v) == IF v = "unchanged" THEN "noop" ELSE IF v \in Successes THEN "done" ELSE v

\* In GuardedWrite's variables, an answer changes the verdict of one invocation.
LEMMA AnswerStep ==
  ASSUME TypeOK, NEW c \in Invocation, NEW v, Answers(c, v)
  PROVE /\ UNCHANGED <<AbstractPhase, AbstractEffect, held>>
        /\ AbstractVerdict' = [AbstractVerdict EXCEPT ![c] = ClaimOf(v)]
        /\ Claim(c) = "none"
<1>1. \A d \in Invocation : Phase(d)' = Phase(d) /\ Effect(d)' = Effect(d)
  BY DEF Answers, Phase, Effect, TypeOK
<1>2. \A d \in Invocation : Claim(d)' = IF d = c THEN ClaimOf(v) ELSE Claim(d)
  BY DEF Answers, Claim, ClaimOf, TypeOK
<1>3. Claim(c) = "none"
  BY DEF Answers, Claim, Successes
<1> QED
  BY <1>1, <1>2, <1>3 DEF AbstractPhase, AbstractEffect, AbstractVerdict, Answers

\* An answer before a request is sent is GuardedWrite's Decline.
LEMMA DeclineStep ==
  ASSUME TypeOK, NEW c \in Invocation, NEW v \in {"refused", "unchanged"}, Answers(c, v),
         wire[c] = "unsent", v = "unchanged" => held[c]
  PROVE GW!Decline(c)
<1>1. Phase(c) = "preflight"
  BY DEF Phase, Answers
<1>2. ClaimOf(v) = IF v = "refused" THEN "refused" ELSE "noop"
  BY DEF ClaimOf, Successes
<1>3. /\ UNCHANGED <<AbstractPhase, AbstractEffect, held>>
      /\ AbstractVerdict' = [AbstractVerdict EXCEPT ![c] = ClaimOf(v)]
      /\ Claim(c) = "none"
  BY AnswerStep
<1>4. v = "refused" \/ (v = "unchanged" /\ held[c])
  OBVIOUS
<1> QED
  BY <1>1, <1>2, <1>3, <1>4 DEF GW!Decline, AbstractPhase, AbstractEffect, AbstractVerdict

\* An answer after a request was sent is GuardedWrite's Conclude, if a success
\* has evidence and a rejection a refused request.
LEMMA ConcludeStep ==
  ASSUME TypeOK, NEW c \in Invocation, NEW v, Answers(c, v), wire[c] # "unsent",
         \/ v \in Successes /\ held[c]
         \/ v = "rejected" /\ wire[c] = "refused"
         \/ v = "ambiguous"
  PROVE GW!Conclude(c)
<1>1. Phase(c) = "attempted"
  BY DEF Phase, Answers
<1>2. v = "rejected" => Effect(c) = "dropped"
  BY DEF Effect, Successes
<1>3. /\ v \in Successes => ClaimOf(v) = "done"
      /\ v \in {"rejected", "ambiguous"} => ClaimOf(v) = v
  BY DEF ClaimOf, Successes
<1>4. /\ UNCHANGED <<AbstractPhase, AbstractEffect, held>>
      /\ AbstractVerdict' = [AbstractVerdict EXCEPT ![c] = ClaimOf(v)]
      /\ Claim(c) = "none"
  BY AnswerStep
<1> QED
  BY <1>1, <1>2, <1>3, <1>4
     DEF GW!Conclude, AbstractPhase, AbstractEffect, AbstractVerdict

\* A step at the provider that no request of the command makes is GuardedWrite's
\* Observe, noted by every run under way or by none.
LEMMA ObserveStep ==
  ASSUME TypeOK, Observed \/ UNCHANGED held PROVE GW!Observe
<1>1. CASE Observed
  <2>1. \A d \in Invocation : (held[d] \/ (Active(d) /\ Goal(d)')) \in BOOLEAN
    BY DEF TypeOK
  <2> QED
    BY <1>1, <2>1 DEF Observed, GW!Observe, TypeOK
<1>2. CASE UNCHANGED held
  BY <1>2 DEF GW!Observe, TypeOK
<1> QED
  BY <1>1, <1>2

\* Every step of mr ensure is a step of GuardedWrite or leaves its variables alone.
LEMMA RefinementStep == IInv /\ [Next]_vars => [GW!Next]_(GW!vars)
<1> SUFFICES ASSUME IInv, [Next]_vars PROVE [GW!Next]_(GW!vars)
  OBVIOUS
<1> USE DEF IInv
<1>1. ASSUME NEW c \in Invocation, RefusalArrives(c) PROVE UNCHANGED GW!vars
  <2>1. Silent
    BY <1>1 DEF Silent, RefusalArrives, Reconcile, Goto, Replying, TypeOK
  <2> QED
    BY <2>1, SilentStep
<1>2. ASSUME NEW c \in Invocation, AnswerLost(c) PROVE UNCHANGED GW!vars
  <2>1. Silent
    BY <1>2 DEF Silent, AnswerLost, Reconcile, Goto, Replying, TypeOK
  <2> QED
    BY <2>1, SilentStep
<1>3. ASSUME NEW c \in Invocation, Expire(c) PROVE UNCHANGED GW!vars
  <2>1. Silent
    BY <1>3 DEF Silent, Expire, Active
  <2> QED
    BY <2>1, SilentStep
<1>4. ASSUME NEW c \in Invocation, Crash(c) PROVE UNCHANGED GW!vars
  <2>1. Silent
    BY <1>4 DEF Silent, Crash, End, Goto, Active, TypeOK
  <2> QED
    BY <2>1, SilentStep
<1>5. CASE UNCHANGED vars
  <2>1. Silent
    BY <1>5 DEF Silent, vars
  <2> QED
    BY <2>1, SilentStep
<1>6. ASSUME NEW c \in Invocation, Refuse(c) PROVE GW!Decline(c)
  <2>1. Answers(c, "refused") /\ wire[c] = "unsent"
    BY <1>6 DEF Refuse, NeedsUpdate, Answers, Return, End, Goto, TypeOK, Stages, StageOf, BeforeLookup
  <2> QED
    BY <2>1, DeclineStep
<1>7. ASSUME NEW c \in Invocation, KeepExisting(c) PROVE GW!Decline(c)
  <2>1. wire[c] = "unsent" /\ verdict[c] = "none"
    BY <1>7 DEF KeepExisting, Stages, StageOf
  <2>2. CASE Requested(c, view[c].rec) /\ Return(c, "unchanged")
    <3>1. Answers(c, "unchanged") /\ held[c]
      BY <1>7, <2>1, <2>2 DEF KeepExisting, Answers, Return, End, Goto, Evidence, EvidenceOf
    <3> QED
      BY <2>1, <3>1, DeclineStep
  <2>3. CASE Return(c, "refused")
    <3>1. Answers(c, "refused")
      BY <1>7, <2>1, <2>3 DEF KeepExisting, Answers, Return, End, Goto
    <3> QED
      BY <2>1, <3>1, DeclineStep
  <2> QED
    BY <1>7, <2>2, <2>3 DEF KeepExisting
<1>8. ASSUME NEW c \in Invocation, Lookup(c) PROVE UNCHANGED GW!vars \/ GW!Decline(c)
  <2>1. wire[c] = "unsent" /\ verdict[c] = "none"
    BY <1>8 DEF Lookup, Stages, StageOf, BeforeLookup
  <2>2. CASE Return(c, "refused")
    <3>1. Answers(c, "refused")
      BY <1>8, <2>1, <2>2 DEF Lookup, Answers, Return, End, Goto
    <3> QED
      BY <2>1, <3>1, DeclineStep
  <2>3. CASE UNCHANGED verdict /\ \E l \in {"recheck", "create", "existing"} : Goto(c, l)
    <3>1. Silent
      BY <1>8, <2>3 DEF Lookup, Silent, Goto, TypeOK
    <3> QED
      BY <3>1, SilentStep
  <2> QED
    BY <1>8, <2>2, <2>3 DEF Lookup
<1>9. ASSUME NEW c \in Invocation, Answered(c) PROVE UNCHANGED GW!vars \/ GW!Conclude(c)
  <2>1. /\ verdict[c] = "none" /\ wire[c] = "applied" /\ pc[c] # "idle"
        /\ Accepted(c) => held[c]
    BY <1>9 DEF Answered, Stages, StageOf, Evidence, EvidenceOf, Replying
  <2>2. ASSUME NEW v \in {"created", "updated"}, Accepted(c), Return(c, v) PROVE GW!Conclude(c)
    <3>1. Answers(c, v) /\ v \in Successes
      BY <1>9, <2>1, <2>2 DEF Answered, Answers, Return, End, Goto, Successes
    <3> QED
      BY <2>1, <2>2, <3>1, ConcludeStep
  <2>3. CASE Reconcile(c, "none")
    <3>1. Silent
      BY <1>9, <2>1, <2>3 DEF Answered, Silent, Reconcile, Goto, TypeOK
    <3> QED
      BY <3>1, SilentStep
  <2> QED
    BY <1>9, <2>2, <2>3 DEF Answered
<1>10. ASSUME NEW c \in Invocation, ReconcileCreate(c) PROVE GW!Conclude(c)
  <2>1. /\ verdict[c] = "none" /\ wire[c] # "unsent" /\ view[c] = Nil /\ Active(c)
        /\ cause[c] = "status" => wire[c] = "refused"
    BY <1>10 DEF ReconcileCreate, Stages, StageOf, Reconciling, Active
  <2>2. ASSUME NEW v, Return(c, v) PROVE Answers(c, v)
    BY <1>10, <2>1, <2>2 DEF ReconcileCreate, Answers, Return, End, Goto, Active
  <2>3. ASSUME NEW i \in IID, Matching(c) = {i}, Requested(c, mr[i]) PROVE held[c]
    <3>1. i \in Opened
      BY <2>3 DEF Matching
    <3>2. Goal(c)
      BY <2>1, <2>3, <3>1 DEF Goal
    <3> QED
      BY <2>1, <3>2 DEF Evidence, EvidenceOf
  <2>4. \/ Return(c, "reconciled_create") /\ held[c]
        \/ Return(c, "rejected") /\ cause[c] = "status"
        \/ Return(c, "ambiguous")
    BY <1>10, <2>3 DEF ReconcileCreate
  <2> QED
    BY <2>1, <2>2, <2>4, ConcludeStep DEF Successes
<1>11. ASSUME NEW c \in Invocation, ReconcileUpdate(c) PROVE GW!Conclude(c)
  <2>1. /\ verdict[c] = "none" /\ wire[c] # "unsent" /\ view[c] # Nil /\ Active(c)
    BY <1>11 DEF ReconcileUpdate, Stages, StageOf, Reconciling, Active
  <2>2. ASSUME NEW v, Return(c, v) PROVE Answers(c, v)
    BY <1>11, <2>1, <2>2 DEF ReconcileUpdate, Answers, Return, End, Goto, Active
  <2>3. Updated(c) => held[c]
    <3>1. view[c].iid \in IID
      BY <2>1 DEF TypeOK, Seen
    <3>2. Updated(c) => Goal(c)
      BY <3>1 DEF Updated, Goal, Opened, Requested
    <3> QED
      BY <2>1, <3>2 DEF Evidence, EvidenceOf
  <2>4. \/ Return(c, "reconciled_update") /\ held[c]
        \/ Return(c, "ambiguous")
    BY <1>11, <2>3 DEF ReconcileUpdate
  <2> QED
    BY <2>1, <2>2, <2>4, ConcludeStep DEF Successes
<1>12. ASSUME NEW c \in Invocation, ReconcileFails(c) PROVE GW!Conclude(c)
  <2>1. Answers(c, "ambiguous") /\ wire[c] # "unsent"
    BY <1>12 DEF ReconcileFails, Answers, Return, End, Goto, TypeOK, Stages, StageOf, Reconciling
  <2> QED
    BY <2>1, ConcludeStep
<1>13. ASSUME NEW c \in Invocation, Start(c) PROVE GW!Begin(c)
  <2>1. /\ AbstractPhase' = [AbstractPhase EXCEPT ![c] = "preflight"]
        /\ AbstractPhase[c] = "idle"
    <3>1. Phase(c)' = "preflight" /\ Phase(c) = "idle"
      BY <1>13 DEF Start, Goto, Phase, TypeOK, Stages, StageOf
    <3>2. \A d \in Invocation \ {c} : Phase(d)' = Phase(d)
      BY <1>13 DEF Start, Goto, Phase, TypeOK
    <3> QED
      BY <3>1, <3>2 DEF AbstractPhase
  <2>2. UNCHANGED <<AbstractEffect, AbstractVerdict>>
    BY <1>13 DEF Start, AbstractEffect, AbstractVerdict, Effect, Claim
  <2>3. \E h \in BOOLEAN : held' = [held EXCEPT ![c] = h]
    BY <1>13 DEF Start, Goal
  <2> QED
    BY <2>1, <2>2, <2>3 DEF GW!Begin, AbstractPhase, AbstractEffect, AbstractVerdict
<1>14. ASSUME NEW c \in Invocation, Write(c) PROVE GW!Attempt(c)
  <2>1. wire[c] = "unsent" /\ verdict[c] = "none" /\ pc[c] # "idle"
    BY <1>14 DEF Write, NeedsUpdate, Stages, StageOf, BeforeLookup
  <2>2. PICK w \in {"inflight", "lost"}, l \in Replying :
          wire' = [wire EXCEPT ![c] = w] /\ pc' = [pc EXCEPT ![c] = l]
    BY <1>14 DEF Write, Goto, Replying
  <2>3. /\ AbstractPhase' = [AbstractPhase EXCEPT ![c] = "attempted"]
        /\ AbstractPhase[c] = "preflight"
    BY <2>1, <2>2 DEF AbstractPhase, Phase, TypeOK, Replying
  <2>4. AbstractEffect' = [AbstractEffect EXCEPT ![c] = IF w = "lost" THEN "dropped" ELSE "inflight"]
    BY <2>1, <2>2 DEF AbstractEffect, Effect, TypeOK
  <2>5. AbstractVerdict' = AbstractVerdict /\ AbstractVerdict[c] = "none"
    BY <1>14, <2>1 DEF Write, AbstractVerdict, Claim, Successes
  <2>6. \E h \in BOOLEAN : held' = [held EXCEPT ![c] = h]
    BY <1>14 DEF Write, Goal
  <2> QED
    BY <2>3, <2>4, <2>5, <2>6 DEF GW!Attempt, AbstractPhase, AbstractEffect, AbstractVerdict
<1>15. ASSUME NEW c \in Invocation, Provider(c) PROVE GW!Settle(c)
  <2>1. /\ wire[c] = "inflight"
        /\ \E w \in {"applied", "refused", "lost"} : wire' = [wire EXCEPT ![c] = w]
        /\ UNCHANGED <<pc, verdict>>
    BY <1>15 DEF Provider, ApplyCreate, ApplyUpdate, DropWrite
  <2>2. GW!Observe
    BY <1>15, ObserveStep DEF Provider, ApplyCreate, ApplyUpdate, DropWrite
  <2>3. UNCHANGED <<AbstractPhase, AbstractVerdict>>
    BY <2>1 DEF AbstractPhase, AbstractVerdict, Phase, Claim, TypeOK
  <2>4. /\ AbstractEffect[c] = "inflight"
        /\ \E e \in {"applied", "dropped"} : AbstractEffect' = [AbstractEffect EXCEPT ![c] = e]
    <3>1. PICK w \in {"applied", "refused", "lost"} : wire' = [wire EXCEPT ![c] = w]
      BY <2>1
    <3>2. Effect(c) = "inflight" /\ Effect(c)' = IF w = "applied" THEN "applied" ELSE "dropped"
      BY <2>1, <3>1 DEF Effect, TypeOK
    <3>3. \A d \in Invocation \ {c} : Effect(d)' = Effect(d)
      BY <3>1 DEF Effect, TypeOK
    <3>4. AbstractEffect' = [AbstractEffect EXCEPT ![c] = Effect(c)']
      BY <3>3 DEF AbstractEffect
    <3> QED
      BY <3>2, <3>4 DEF AbstractEffect
  <2> QED
    BY <2>2, <2>3, <2>4 DEF GW!Settle, AbstractPhase, AbstractEffect, AbstractVerdict
<1>16. CASE OtherOpens \/ OtherChanges
  <2>1. UNCHANGED <<AbstractPhase, AbstractEffect, AbstractVerdict>>
    BY <1>16 DEF OtherOpens, OtherChanges, AbstractPhase, AbstractEffect, AbstractVerdict, Phase, Effect, Claim
  <2>2. GW!Observe
    BY <1>16, ObserveStep DEF OtherOpens, OtherChanges
  <2> QED
    BY <2>1, <2>2 DEF GW!Next, GW!World, AbstractPhase, AbstractEffect, AbstractVerdict
<1> QED
  BY <1>1, <1>2, <1>3, <1>4, <1>5, <1>6, <1>7, <1>8, <1>9, <1>10, <1>11, <1>12, <1>13, <1>14, <1>15, <1>16 DEF Next, Run, Provider, GW!Next

\* mr ensure keeps GuardedWrite's promise, however many run at once and whatever
\* the provider loses, delays or refuses: one request at most, and no answer that
\* claims more than executeMREnsure knows.
THEOREM Refinement == Spec => ImplementsGuardedWrite
<1>1. Init => GW!Init
  BY DEF Init, GW!Init, Phase, Effect, Claim, Successes
<1>2. IInv /\ [Next]_vars => [GW!Next]_(GW!vars)
  BY RefinementStep
<1> QED
  BY <1>1, <1>2, Invariance, PTL DEF Spec, ImplementsGuardedWrite, GW!Spec

-----------------------------------------------------------------------------
(* What GuardedWrite promises, and with it every command that implements it *)
GWP == INSTANCE GuardedWrite WITH
         phase <- AbstractPhase, effect <- AbstractEffect, verdict <- AbstractVerdict

\* Nothing is answered before the run begins, nothing is sent before the attempt.
OrderOf(c) ==
  /\ AbstractPhase[c] = "idle" => AbstractVerdict[c] = "none"
  /\ AbstractPhase[c] # "attempted" => AbstractEffect[c] = "none"

Honest == GWP!TypeOK /\ GWP!HonestVerdict /\ \A c \in Invocation : OrderOf(c)

\* No step takes back what a verdict has claimed, or lets one claim too much.
LEMMA HonestStep == Honest /\ [GWP!Next]_(GWP!vars) => Honest'
<1> SUFFICES ASSUME Honest, [GWP!Next]_(GWP!vars) PROVE Honest'
  OBVIOUS
<1> USE DEF Honest, GWP!TypeOK, GWP!HonestVerdict, OrderOf, GWP!Phase, GWP!Effect, GWP!Verdict
<1>1. CASE GWP!World
  BY <1>1 DEF GWP!World, GWP!Observe
<1>2. ASSUME NEW c \in Invocation, GWP!Begin(c) PROVE Honest'
  BY <1>2 DEF GWP!Begin
<1>3. ASSUME NEW c \in Invocation, GWP!Decline(c) PROVE Honest'
  BY <1>3 DEF GWP!Decline
<1>4. ASSUME NEW c \in Invocation, GWP!Attempt(c) PROVE Honest'
  BY <1>4 DEF GWP!Attempt
<1>5. ASSUME NEW c \in Invocation, GWP!Settle(c) PROVE Honest'
  BY <1>5 DEF GWP!Settle, GWP!Observe
<1>6. ASSUME NEW c \in Invocation, GWP!Conclude(c) PROVE Honest'
  BY <1>6 DEF GWP!Conclude
<1>7. CASE UNCHANGED GWP!vars
  BY <1>7 DEF GWP!vars
<1> QED
  BY <1>1, <1>2, <1>3, <1>4, <1>5, <1>6, <1>7 DEF GWP!Next

\* GuardedWrite's caller may act on every verdict it is given: whatever the
\* provider and other writers do, a refusal and a no-op have sent nothing, a
\* rejected request is dropped for good, and what is claimed as done has been true.
THEOREM Honesty == GWP!Spec => []GWP!HonestVerdict
<1>1. GWP!Init => Honest
  BY DEF GWP!Init, Honest, GWP!TypeOK, GWP!HonestVerdict, OrderOf, GWP!Phase, GWP!Effect, GWP!Verdict
<1>2. Honest /\ [GWP!Next]_(GWP!vars) => Honest'
  BY HonestStep
<1>3. Honest => GWP!HonestVerdict
  BY DEF Honest
<1> QED
  BY <1>1, <1>2, <1>3, PTL DEF GWP!Spec

\* The caller of mr ensure may act on its answer without asking GitLab again: an
\* error or a no-op has sent nothing, a rejected request never takes effect, and
\* a merge request reported as created, updated or reconciled had what was asked.
THEOREM HonestAnswers == Spec => []GWP!HonestVerdict
<1>1. GW!Init => GWP!Init
  BY DEF GW!Init, GWP!Init, AbstractPhase, AbstractEffect, AbstractVerdict
<1> USE DEF AbstractPhase, AbstractEffect, AbstractVerdict, GW!Observe, GWP!Observe
<1>2. GW!World => GWP!World
  BY DEF GW!World, GWP!World
<1>3. ASSUME NEW c \in Invocation
      PROVE /\ GW!Begin(c) => GWP!Begin(c)
            /\ GW!Decline(c) => GWP!Decline(c)
            /\ GW!Attempt(c) => GWP!Attempt(c)
            /\ GW!Settle(c) => GWP!Settle(c)
            /\ GW!Conclude(c) => GWP!Conclude(c)
  BY DEF GW!Begin, GWP!Begin, GW!Decline, GWP!Decline, GW!Attempt, GWP!Attempt,
         GW!Settle, GWP!Settle, GW!Conclude, GWP!Conclude
<1>4. UNCHANGED GW!vars => UNCHANGED GWP!vars
  BY DEF GW!vars, GWP!vars
<1>5. [GW!Next]_(GW!vars) => [GWP!Next]_(GWP!vars)
  BY <1>2, <1>3, <1>4 DEF GW!Next, GWP!Next
<1> QED
  BY <1>1, <1>5, Honesty, Refinement, PTL DEF ImplementsGuardedWrite, GW!Spec, GWP!Spec
=============================================================================
