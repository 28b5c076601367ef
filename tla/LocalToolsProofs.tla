-------------------------- MODULE LocalToolsProofs --------------------------
(***************************************************************************)
(* Proofs about the tools that run beside one another on one computer      *)
(* (LocalTools): self-update, setup hooks, the import of a token, the      *)
(* sessions of the lane, the official child and the native client.         *)
(* Each part has an invariant of its own, about every program that runs    *)
(* it, whatever the others do; the last section joins them: a program is   *)
(* of one part at a time, a step of one leaves the state of the others     *)
(* alone, and the whole keeps the six invariants.                          *)
(***************************************************************************)
EXTENDS LocalTools, FiniteSetTheorems, SequenceTheorems, WellFoundedInduction, TLAPS

\* Nobody runs under the name of a file or of a file's maker.
LEMMA Names ==
  \A c \in Invocation :
    c # "path" /\ c # "backup" /\ c # "first" /\ c # "other" /\ c # "link" /\ c # "none"
    /\ c # "nobody"
BY LocalAssumption

\* Everybody can be counted, and within every bound.
LEMMA Few ==
  ASSUME NEW R \in SUBSET Invocation,
         NEW m \in {MaxUpdateActors, MaxSetupActors, MaxImportActors}
  PROVE Cardinality(R) \in 0..m /\ m \in Nat
<1>1. IsFiniteSet(Invocation) /\ Cardinality(Invocation) <= m /\ m \in Nat
  BY LocalAssumption
<1>2. IsFiniteSet(R) /\ Cardinality(R) <= Cardinality(Invocation)
  BY <1>1, FS_Subset
<1>3. Cardinality(R) \in Nat /\ Cardinality(Invocation) \in Nat
  BY <1>1, <1>2, FS_CardinalityType
<1> QED
  BY <1>1, <1>2, <1>3

\* Two neighbours of a sequence.
LEMMA Neighbours ==
  ASSUME NEW S, NEW s \in Seq(S), NEW i \in 1..Len(s) - 1
  PROVE SubSeq(s, i, i + 1) = <<s[i], s[i + 1]>>
<1> DEFINE t == <<s[i], s[i + 1]>>
<1>1. Len(s) \in Nat /\ i \in Int /\ i + 1 \in Int /\ \A j \in i..i + 1 : s[j] \in S
  <2>1. Len(s) \in Nat /\ \A j \in 1..Len(s) : s[j] \in S
    OBVIOUS
  <2> QED
    BY <2>1
<1>2. /\ SubSeq(s, i, i + 1) \in Seq(S)
      /\ Len(SubSeq(s, i, i + 1)) = IF i <= i + 1 THEN i + 1 - i + 1 ELSE 0
      /\ \A j \in 1..i + 1 - i + 1 : SubSeq(s, i, i + 1)[j] = s[i + j - 1]
  BY <1>1, SubSeqProperties
<1>3. /\ Len(SubSeq(s, i, i + 1)) = 2
      /\ SubSeq(s, i, i + 1)[1] = s[i] /\ SubSeq(s, i, i + 1)[2] = s[i + 1]
  BY <1>1, <1>2
<1>4. t \in Seq(S) /\ Len(t) = 2 /\ t[1] = s[i] /\ t[2] = s[i + 1]
  BY <1>1
<1> HIDE DEF t
<1>5. \A j \in 1..Len(t) : SubSeq(s, i, i + 1)[j] = t[j]
  <2>1. \A j \in 1..Len(t) : j = 1 \/ j = 2
    BY <1>4
  <2> QED
    BY <1>3, <1>4, <2>1
<1>6. SubSeq(s, i, i + 1) = t
  BY <1>2, <1>3, <1>4, <1>5, SeqEqual
<1> QED
  BY <1>6 DEF t

\* What is kept of a sequence when only its last element is.
LEMMA LastOne ==
  ASSUME NEW S, NEW s \in Seq(S), s # <<>>
  PROVE SubSeq(s, Len(s), Len(s)) = <<s[Len(s)]>>
<1> DEFINE n == Len(s)
           t == <<s[n]>>
<1>1. n \in Nat \ {0} /\ s[n] \in S
  <2>1. n \in Nat \ {0} /\ \A j \in 1..n : s[j] \in S
    OBVIOUS
  <2> QED
    BY <2>1
<1>2. t \in Seq(S) /\ Len(t) = 1 /\ t[1] = s[n]
  BY <1>1
<1> HIDE DEF n, t
<1>3. \A j \in n..n : s[j] \in S
  BY <1>1
<1>4. /\ SubSeq(s, n, n) \in Seq(S)
      /\ Len(SubSeq(s, n, n)) = IF n <= n THEN n - n + 1 ELSE 0
      /\ \A j \in 1..n - n + 1 : SubSeq(s, n, n)[j] = s[n + j - 1]
  BY <1>1, <1>3, SubSeqProperties
<1>5. Len(SubSeq(s, n, n)) = 1 /\ SubSeq(s, n, n)[1] = s[n]
  BY <1>1, <1>4
<1>6. \A j \in 1..Len(t) : SubSeq(s, n, n)[j] = t[j]
  <2>1. \A j \in 1..Len(t) : j = 1
    BY <1>2
  <2> QED
    BY <1>2, <1>5, <2>1
<1>7. SubSeq(s, n, n) = t
  BY <1>2, <1>4, <1>5, <1>6, SeqEqual
<1> QED
  BY <1>7 DEF n, t
\* One element more.
LEMMA Longer ==
  ASSUME NEW S, NEW s \in Seq(S), NEW e \in S
  PROVE /\ Append(s, e) \in Seq(S) /\ Len(Append(s, e)) = Len(s) + 1
        /\ \A j \in 1..Len(s) : Append(s, e)[j] = s[j]
        /\ Append(s, e)[Len(s) + 1] = e
        /\ Len(s) = 1 => Append(s, e)[1] = s[1] /\ Append(s, e)[2] = e
<1>1. /\ Append(s, e) \in Seq(S) /\ Len(Append(s, e)) = Len(s) + 1
      /\ \A j \in 1..Len(s) : Append(s, e)[j] = s[j]
      /\ Append(s, e)[Len(s) + 1] = e
  OBVIOUS
<1> QED
  BY <1>1
-----------------------------------------------------------------------------
(***************************************************************************)
(* Self-update (SelfUpdate).                                               *)
(* The directory of the executable: who has which file, and which version  *)
(* it holds; no update loses the executable while it acts alone.           *)
(***************************************************************************)

\* A version is no unfinished content.
LEMMA Versions ==
  /\ Installed \in Version
  /\ \A v \in Version : v # Update!Unfinished /\ v[1] \in Nat /\ v[2] \in Nat /\ v[3] \in Nat
<1>1. \A v \in Nat \X Nat \X Nat : v # <<>> /\ v[1] \in Nat /\ v[2] \in Nat /\ v[3] \in Nat
  OBVIOUS
<1> QED
  BY <1>1, LocalAssumption DEF Update!Unfinished

\* At the start everything has its type.
LEMMA UpdateInitTypes == Update!Init => Update!TypeOK
<1> SUFFICES ASSUME Update!Init PROVE Update!TypeOK
  OBVIOUS
<1>1. others \in 0..MaxUpdateActors
  <2>1. {c \in Invocation : pc[c] = "start"} \in SUBSET Invocation
    OBVIOUS
  <2>2. MaxUpdateActors \in {MaxUpdateActors, MaxSetupActors, MaxImportActors}
    OBVIOUS
  <2>3. Cardinality({c \in Invocation : pc[c] = "start"}) \in 0..MaxUpdateActors
    BY <2>1, <2>2, Few
  <2> QED
    BY <2>3 DEF Update!Init, Update!Cardinality, Cardinality
<1>2. pc \in [Invocation -> Update!Steps \cup {"updated"}]
  BY DEF Update!Init, Update!Steps
<1>3. /\ world \in [Update!Places -> Update!File]
      /\ \A n \in Update!Places : world[n].by \in {"none", "link"} => ~Update!Executable(world[n])
      /\ \A c \in Invocation : world[c] = Update!Absent \/ world[c].by = c
  BY Versions, Names DEF Update!Init, Update!Places, Update!File, Update!Absent, Update!Executable
<1>4. /\ run \in [Invocation -> [check : BOOLEAN, own : Version, to : Version,
                             seen : {"first", "other"} \cup Invocation]]
      /\ verdict \in [Invocation -> {"none", "current", "available", "installed",
                                 "refused", "incomplete", "uncleaned"}]
  BY Versions DEF Update!Init
<1>5. past \in [stale : [Invocation -> SUBSET {"start", "recheck"}],
               mover : Invocation \cup {"none"},
               overlap : BOOLEAN, blind : BOOLEAN, foreign : BOOLEAN]
  BY DEF Update!Init
<1> QED
  BY <1>1, <1>2, <1>3, <1>4, <1>5 DEF Update!TypeOK

\* The directory, by name: whole executables come from an updater, an installer or
\* the first installation, and only c writes c's staged file.
UpdateFilesTyped(fs) ==
  /\ fs \in [Update!Places -> Update!File]
  /\ \A n \in Update!Places : fs[n].by \in {"none", "link"} => ~Update!Executable(fs[n])
  /\ \A c \in Invocation : fs[c] = Update!Absent \/ fs[c].by = c

UpdateRunTyped ==
  /\ run \in [Invocation -> [check : BOOLEAN, own : Version, to : Version,
                             seen : {"first", "other"} \cup Invocation]]
  /\ verdict \in [Invocation -> {"none", "current", "available", "installed",
                                 "refused", "incomplete", "uncleaned"}]

UpdatePastTyped ==
  /\ pc \in [Invocation -> Update!Steps \cup {"updated"}]
  /\ others \in 0..MaxUpdateActors
  /\ past \in [stale : [Invocation -> SUBSET {"start", "recheck"}],
               mover : Invocation \cup {"none"},
               overlap : BOOLEAN, blind : BOOLEAN, foreign : BOOLEAN]

\* The types, by what they are of: the files, the runs, the history.
LEMMA UpdateTyped ==
  /\ Update!TypeOK => UpdateFilesTyped(world) /\ UpdateRunTyped /\ UpdatePastTyped
  /\ (UpdateFilesTyped(world) /\ UpdateRunTyped /\ UpdatePastTyped)' => Update!TypeOK'
BY DEF Update!TypeOK, UpdateFilesTyped, UpdateRunTyped, UpdatePastTyped

\* A file put under one name.
LEMMA UpdatePut ==
  ASSUME NEW fs, UpdateFilesTyped(fs), NEW n \in Update!Places, NEW f \in Update!File,
         f.by \in {"none", "link"} => ~Update!Executable(f),
         n \in Invocation => f = Update!Absent \/ f.by = n
  PROVE /\ UpdateFilesTyped([fs EXCEPT ![n] = f])
        /\ [fs EXCEPT ![n] = f] = [m \in Update!Places |-> IF m = n THEN f ELSE fs[m]]
<1>1. [fs EXCEPT ![n] = f] = [m \in Update!Places |-> IF m = n THEN f ELSE fs[m]]
  BY DEF UpdateFilesTyped
<1>2. /\ [fs EXCEPT ![n] = f] \in [Update!Places -> Update!File]
      /\ \A m \in Update!Places : [fs EXCEPT ![n] = f][m] = IF m = n THEN f ELSE fs[m]
  BY <1>1 DEF UpdateFilesTyped
<1>3. Invocation \subseteq Update!Places
  BY DEF Update!Places
<1> HIDE DEF UpdateFilesTyped
<1> QED
  BY <1>1, <1>2, <1>3 DEF UpdateFilesTyped

\* Nothing, a link, a file being written and a file of others are told apart by their
\* makers.
LEMMA UpdateKinds ==
  /\ Update!Absent \in Update!File /\ ~Update!Executable(Update!Absent)
  /\ Update!Absent.by = "none" /\ Update!Absent.ver = Update!Unfinished
  /\ Update!Link \in Update!File /\ ~Update!Executable(Update!Link) /\ Update!Link.by = "link"
  /\ \A c \in Invocation : /\ [by |-> c, ver |-> Update!Unfinished] \in Update!File
                           /\ [by |-> c, ver |-> Update!Unfinished].by = c
                           /\ c \notin {"none", "link", "other"}
  /\ \A f \in [by : {"other"}, ver : Version] : f \in Update!File /\ f.by = "other"
  /\ {"path", "backup"} \subseteq Update!Places /\ Invocation \subseteq Update!Places
  /\ "path" \notin Invocation /\ "backup" \notin Invocation
BY Names DEF Update!Absent, Update!Link, Update!File, Update!Executable, Update!Unfinished,
   Update!Places

\* Every step leaves files in the directory.
LEMMA UpdateFilesStay ==
  ASSUME Update!TypeOK, Update!Next
  PROVE UpdateFilesTyped(world')
<1>1. UpdateFilesTyped(world) /\ UpdateRunTyped /\ UpdatePastTyped
  BY UpdateTyped
<1>2. \A n \in Update!Places : world[n] \in Update!File
  BY <1>1 DEF UpdateFilesTyped
<1>a. \A fs, n : UpdateFilesTyped(fs) /\ n \in Update!Places =>
                   UpdateFilesTyped([fs EXCEPT ![n] = Update!Absent])
  BY UpdateKinds, UpdatePut
<1>c. ASSUME NEW c \in Invocation, Update!Step(c) PROVE UpdateFilesTyped(world')
  <2>1. \A fs : UpdateFilesTyped(fs) => UpdateFilesTyped(Update!WithoutStaged(c, fs))
    BY <1>a, UpdateKinds DEF Update!WithoutStaged
  <2>2. CASE UNCHANGED world
    BY <2>2, <1>1
  <2>3. CASE Update!Create(c)
    BY <2>3, <1>1, UpdateKinds, UpdatePut DEF Update!Create
  <2>4. CASE Update!Download(c)
    <3>1. CASE world[c] = Update!Absent
      BY <3>1, <2>4, <1>1, <1>a, UpdateKinds DEF Update!Download
    <3>2. CASE world[c] # Update!Absent
      <4> DEFINE f == [world[c] EXCEPT !.ver = run[c].to]
      <4>1. world[c].by = c /\ world[c] \in Update!File /\ run[c].to \in Version
        BY <3>2, <1>1, <1>2, UpdateKinds DEF UpdateFilesTyped, UpdateRunTyped
      <4>2. f \in Update!File /\ f.by = c
        BY <4>1 DEF Update!File
      <4>3. world' = [world EXCEPT ![c] = f]
        BY <3>2, <2>4 DEF Update!Download
      <4> HIDE DEF f
      <4> QED
        BY <4>2, <4>3, <1>1, UpdateKinds, UpdatePut
    <3> QED
      BY <3>1, <3>2
  <2>5. CASE Update!Stage(c)
    <3>1. UpdateFilesTyped([world EXCEPT !["backup"] = world["path"]])
      BY <1>1, <1>2, UpdateKinds, UpdatePut DEF UpdateFilesTyped
    <3> QED
      BY <3>1, <2>5, <1>a, UpdateKinds DEF Update!Stage
  <2>6. CASE Update!Swap(c)
    <3>1. UpdateFilesTyped([world EXCEPT !["path"] = world[c]])
      BY <1>1, <1>2, UpdateKinds, UpdatePut DEF UpdateFilesTyped
    <3> QED
      BY <3>1, <2>6, <1>a, UpdateKinds DEF Update!Swap
  <2>7. CASE Update!Rollback(c)
    <3>1. UpdateFilesTyped([world EXCEPT !["path"] = world["backup"]])
      BY <1>1, <1>2, UpdateKinds, UpdatePut DEF UpdateFilesTyped
    <3>2. UpdateFilesTyped([world EXCEPT !["path"] = world["backup"],
                                         !["backup"] = Update!Absent])
      BY <3>1, <1>a, UpdateKinds
    <3> QED
      BY <3>2, <2>7, <2>1, <1>1 DEF Update!Rollback
  <2>8. CASE Update!Cleanup(c)
    <3>1. UpdateFilesTyped([world EXCEPT !["backup"] = Update!Absent])
      BY <1>1, <1>a, UpdateKinds
    <3> QED
      BY <3>1, <2>8, <2>1, <1>1 DEF Update!Cleanup
  <2>9. CASE Update!Refuse(c)
    BY <2>9, <2>1, <1>1 DEF Update!Refuse
  <2> QED
    BY <1>c, <2>2, <2>3, <2>4, <2>5, <2>6, <2>7, <2>8, <2>9
    DEF Update!Step, Update!Start, Update!Manifest, Update!Confirm, Update!Look,
        Update!VerifyCandidate, Update!Recheck, Update!EnsureNoBackup, Update!SwapFails,
        Update!Crash
<1>o. ASSUME Update!OtherInstalls \/ Update!OtherRemoves PROVE UpdateFilesTyped(world')
  <2>1. CASE Update!OtherInstalls
    <3>1. PICK n \in {"path", "backup"},
               f \in {Update!Link} \cup [by : {"other"}, ver : Version] :
            world' = [world EXCEPT ![n] = f]
      BY <2>1 DEF Update!OtherInstalls
    <3>2. f \in Update!File /\ (f.by \in {"none", "link"} => ~Update!Executable(f))
      BY UpdateKinds
    <3> QED
      BY <3>1, <3>2, <1>1, UpdateKinds, UpdatePut
  <2>2. CASE Update!OtherRemoves
    BY <2>2, <1>1, <1>a DEF Update!OtherRemoves
  <2> QED
    BY <1>o, <2>1, <2>2
<1> QED
  BY <1>c, <1>o DEF Update!Next

\* Every step leaves what the runs remember of its types.
LEMMA UpdateRunStays ==
  ASSUME Update!TypeOK, Update!Next
  PROVE UpdateRunTyped'
<1>1. UpdateFilesTyped(world) /\ UpdateRunTyped /\ UpdatePastTyped
  BY UpdateTyped
<1>2. world["path"] \in Update!File
  BY <1>1, UpdateKinds DEF UpdateFilesTyped
<1>c. ASSUME NEW c \in Invocation, Update!Step(c) PROVE UpdateRunTyped'
  <2>1. CASE Update!Start(c)
    <3>1. world["path"].ver \in Version
      BY <1>2, <2>1 DEF Update!Start, Update!File, Update!Executable
    <3> QED
      BY <3>1, <2>1, <1>1 DEF Update!Start, UpdateRunTyped
  <2>2. CASE Update!Manifest(c)
    BY <2>2, <1>1 DEF Update!Manifest, Update!Return, UpdateRunTyped
  <2>3. CASE Update!Look(c)
    <3>1. world["path"].by \in {"first", "other"} \cup Invocation
      BY <1>2, <2>3 DEF Update!Look, Update!File
    <3> QED
      BY <3>1, <2>3, <1>1 DEF Update!Look, UpdateRunTyped
  <2>4. CASE Update!Rollback(c) \/ Update!Cleanup(c) \/ Update!Refuse(c)
    BY <2>4, <1>1
    DEF Update!Rollback, Update!Cleanup, Update!Refuse, Update!Return, Update!Unrestored,
        UpdateRunTyped
  <2>5. CASE UNCHANGED <<run, verdict>>
    BY <2>5, <1>1 DEF UpdateRunTyped
  <2> QED
    BY <1>c, <2>1, <2>2, <2>3, <2>4, <2>5
    DEF Update!Step, Update!Confirm, Update!Create, Update!Download,
        Update!VerifyCandidate, Update!Recheck, Update!EnsureNoBackup, Update!Stage, Update!Swap,
        Update!SwapFails, Update!Crash
<1>o. ASSUME Update!OtherInstalls \/ Update!OtherRemoves PROVE UpdateRunTyped'
  BY <1>o, <1>1 DEF Update!OtherInstalls, Update!OtherRemoves, Update!Act, UpdateRunTyped
<1> QED
  BY <1>c, <1>o DEF Update!Next

\* Every step leaves the history of its types.
LEMMA UpdatePastStays ==
  ASSUME Update!TypeOK, Update!Next
  PROVE UpdatePastTyped'
<1>1. UpdateFilesTyped(world) /\ UpdateRunTyped /\ UpdatePastTyped
  BY UpdateTyped
<1>c. ASSUME NEW c \in Invocation, Update!Step(c) PROVE UpdatePastTyped'
  <2>1. others' = others
    BY <1>c
    DEF Update!Step, Update!Start, Update!Manifest, Update!Confirm, Update!Look, Update!Create,
        Update!Download, Update!VerifyCandidate, Update!Recheck, Update!EnsureNoBackup,
        Update!Stage, Update!Swap, Update!SwapFails, Update!Rollback, Update!Cleanup,
        Update!Refuse, Update!Crash
  <2>2. pc' \in [Invocation -> Update!Steps \cup {"updated"}]
    BY <1>c, <1>1
    DEF Update!Step, Update!Start, Update!Manifest, Update!Confirm, Update!Look, Update!Create,
        Update!Download, Update!VerifyCandidate, Update!Recheck, Update!EnsureNoBackup,
        Update!Stage, Update!Swap, Update!SwapFails, Update!Rollback, Update!Cleanup,
        Update!Refuse, Update!Crash, Update!Goto, Update!Return, UpdatePastTyped, Update!Steps
  <2>3. past' \in [stale : [Invocation -> SUBSET {"start", "recheck"}],
               mover : Invocation \cup {"none"},
               overlap : BOOLEAN, blind : BOOLEAN, foreign : BOOLEAN]
    <3>a. /\ past.stale \in [Invocation -> SUBSET {"start", "recheck"}]
          /\ past.blind \in BOOLEAN /\ past.overlap \in BOOLEAN
      BY <1>1 DEF UpdatePastTyped
    <3>b. /\ [past.stale EXCEPT ![c] = {}] \in [Invocation -> SUBSET {"start", "recheck"}]
          /\ [past.stale EXCEPT ![c] = @ \ {"recheck"}]
               \in [Invocation -> SUBSET {"start", "recheck"}]
      BY <3>a
    <3>1. CASE Update!Start(c)
      BY <3>1, <3>b, <1>1 DEF Update!Start, UpdatePastTyped
    <3>5. CASE Update!Recheck(c)
      <4>1. (past.overlap \/ \E d \in Invocation \ {c} : pc[d] \in Update!Replacing) \in BOOLEAN
        BY <3>a
      <4> QED
        BY <3>5, <3>b, <4>1, <1>1 DEF Update!Recheck, UpdatePastTyped
    <3>2. CASE Update!Stage(c) \/ Update!Swap(c) \/ Update!Rollback(c)
      <4>1. [d \in Invocation |-> IF d = c THEN past.stale[d] ELSE Update!Outdated]
              \in [Invocation -> SUBSET {"start", "recheck"}]
        BY <3>a DEF Update!Outdated
      <4>2. Update!Disturbs(c) \in [stale : [Invocation -> SUBSET {"start", "recheck"}],
               mover : Invocation \cup {"none"},
               overlap : BOOLEAN, blind : BOOLEAN, foreign : BOOLEAN]
        BY <4>1, <1>1 DEF UpdatePastTyped, Update!Disturbs
      <4>3. (past.blind \/ "start" \in past.stale[c]) \in BOOLEAN
        BY <3>a
      <4>4. CASE Update!Stage(c)
        BY <4>2, <4>3, <4>4 DEF Update!Stage, Update!Disturbs
      <4>5. CASE past' = Update!Disturbs(c)
        BY <4>2, <4>5
      <4>6. CASE UNCHANGED past
        BY <4>6, <1>1 DEF UpdatePastTyped
      <4> QED
        BY <3>2, <4>4, <4>5, <4>6 DEF Update!Swap, Update!Rollback, Update!Return
    <3>3. CASE UNCHANGED past
      BY <3>3, <1>1 DEF UpdatePastTyped
    <3>4. CASE \E step : Update!Goto(c, step)
      BY <3>4, <1>1 DEF Update!Goto, UpdatePastTyped
    <3> QED
      BY <1>c, <3>1, <3>2, <3>3, <3>4, <3>5
      DEF Update!Step, Update!Manifest, Update!Confirm, Update!Look, Update!Create,
        Update!Download, Update!VerifyCandidate, Update!EnsureNoBackup,
        Update!SwapFails, Update!Cleanup, Update!Refuse, Update!Crash, Update!Return
  <2> QED
    BY <2>1, <2>2, <2>3, <1>1 DEF UpdatePastTyped
<1>o. ASSUME Update!OtherInstalls \/ Update!OtherRemoves PROVE UpdatePastTyped'
  <2>1. /\ pc' = pc
        /\ others < MaxUpdateActors /\ others' = others + 1
        /\ \E n : Update!Unseen(n)
    BY <1>o DEF Update!OtherInstalls, Update!OtherRemoves, Update!Act
  <2>2. MaxUpdateActors \in Nat
    BY LocalAssumption
  <2>3. past' \in [stale : [Invocation -> SUBSET {"start", "recheck"}],
               mover : Invocation \cup {"none"},
               overlap : BOOLEAN, blind : BOOLEAN, foreign : BOOLEAN]
    <3>1. PICK n : Update!Unseen(n)
      BY <2>1
    <3>2. [c \in Invocation |-> Update!Outdated] \in [Invocation -> SUBSET {"start", "recheck"}]
      BY DEF Update!Outdated
    <3> QED
      BY <3>1, <3>2, <1>1 DEF UpdatePastTyped, Update!Unseen
  <2> QED
    BY <2>1, <2>2, <2>3, <1>1 DEF UpdatePastTyped
<1> QED
  BY <1>c, <1>o DEF Update!Next

\* So the types are inductive by themselves.
LEMMA UpdateTypes ==
  ASSUME Update!TypeOK, Update!Next
  PROVE Update!TypeOK'
BY UpdateFilesStay, UpdateRunStays, UpdatePastStays, UpdateTyped
\* What is known of c before its step, and of d that takes none.
UpdateKnown(c) ==
  /\ pc[c] \in {"nobackup", "stage"} /\ "recheck" \notin past.stale[c] =>
       world["path"].by = run[c].seen
  /\ pc[c] \notin {"start", "swap", "rollback", "cleanup", "updated"}
     /\ "start" \notin past.stale[c] => run[c].own = world["path"].ver

UpdateAgreed(c) ==
  /\ pc[c] \notin {"start", "manifest", "updated"} \/ verdict[c] = "installed" =>
       Update!Older(run[c].own, run[c].to)
  /\ pc[c] # "updated" => verdict[c] = "none"

UpdateLeft(c) ==
  /\ verdict[c] = "refused" => world[c] = Update!Absent
  /\ world["path"].by = c \/ world["backup"].by = c =>
       pc[c] \in {"cleanup", "updated"} /\ verdict[c] # "refused"
  /\ past.mover = c => pc[c] \in {"swap", "rollback", "cleanup", "updated"}

UpdateHistory == \A c \in Invocation : UpdateKnown(c) /\ UpdateAgreed(c) /\ UpdateLeft(c)

\* No other program has acted, and no two updates were in their replacing calls at once.
UpdateCalm == ~past.foreign /\ ~past.overlap

\* The parts of the directory's invariant, by who is where.
UpdateWhole ==
  /\ \A n \in {"path", "backup"} : world[n] # Update!Absent => Update!Executable(world[n])
  /\ Update!Executable(world["path"]) \/ Update!Executable(world["backup"])

UpdatePlaced(c) ==
  /\ pc[c] \in {"recheck", "nobackup", "stage", "swap"} =>
       world[c].by = c /\ world[c].ver = run[c].to
  /\ pc[c] = "stage" => world["backup"] = Update!Absent
  /\ pc[c] \in {"swap", "rollback"} =>
       /\ world["path"] = Update!Absent /\ Update!Executable(world["backup"])
       /\ ~past.blind => run[c].own = world["backup"].ver
  /\ pc[c] = "cleanup" => world["path"].ver = run[c].to

UpdateDirectory ==
  UpdateCalm =>
    /\ UpdateWhole
    /\ \A c, d \in Invocation :
         pc[c] \in Update!Replacing /\ pc[d] \in Update!Replacing => c = d
    /\ \A c \in Invocation :
         /\ UpdatePlaced(c)
         /\ verdict[c] = "refused" /\ past.mover = c => Update!Executable(world["path"])

\* And no executable older than an installed one is left in its place.
UpdateAnswers ==
  UpdateCalm /\ ~past.blind =>
    \A c \in Invocation : verdict[c] = "installed" =>
      /\ \E n \in {"path", "backup"} :
           Update!Executable(world[n]) /\ ~Update!Older(world[n].ver, run[c].to)
      /\ \A d \in Invocation : pc[d] = "cleanup" => ~Update!Older(run[d].to, run[c].to)

UpdateInv == Update!TypeOK /\ UpdateHistory /\ UpdateDirectory /\ UpdateAnswers

\* What a step of c leaves alone of d, and notes about d.
LEMMA UpdateFrame ==
  ASSUME Update!TypeOK, NEW c \in Invocation, Update!Step(c), NEW d \in Invocation \ {c}
  PROVE /\ pc'[d] = pc[d] /\ run'[d] = run[d] /\ verdict'[d] = verdict[d]
        /\ world'[d] = world[d]
        /\ past'.stale[d] = past.stale[d] \/ past'.stale[d] = {"start", "recheck"}
        /\ world'["path"] # world["path"] => past'.stale[d] = {"start", "recheck"}
        /\ past'.foreign = past.foreign
        /\ past.overlap => past'.overlap
        /\ past.blind => past'.blind
<1>1. UpdateFilesTyped(world) /\ UpdateRunTyped /\ UpdatePastTyped
  BY UpdateTyped
<1> USE UpdateKinds
<1>2. pc'[d] = pc[d] /\ run'[d] = run[d] /\ verdict'[d] = verdict[d]
  BY <1>1 DEF UpdateRunTyped, UpdatePastTyped, Update!Goto, Update!Return,
        Update!Step, Update!Start, Update!Manifest, Update!Confirm, Update!Look, Update!Create,
        Update!Download, Update!VerifyCandidate, Update!Recheck, Update!EnsureNoBackup,
        Update!Stage, Update!Swap, Update!SwapFails, Update!Rollback, Update!Cleanup,
        Update!Refuse, Update!Crash
<1>3. world'[d] = world[d]
  BY <1>1 DEF UpdateFilesTyped, Update!WithoutStaged, Update!Places,
        Update!Step, Update!Start, Update!Manifest, Update!Confirm, Update!Look, Update!Create,
        Update!Download, Update!VerifyCandidate, Update!Recheck, Update!EnsureNoBackup,
        Update!Stage, Update!Swap, Update!SwapFails, Update!Rollback, Update!Cleanup,
        Update!Refuse, Update!Crash
<1>4. world'["path"] = world["path"] \/ past'.stale[d] = {"start", "recheck"}
  <2>1. CASE Update!Stage(c) \/ Update!Swap(c) \/ past' = Update!Disturbs(c)
    <3>1. Update!Disturbs(c).stale[d] = {"start", "recheck"}
      BY <1>1 DEF UpdatePastTyped, Update!Disturbs, Update!Outdated
    <3>2. past'.stale = Update!Disturbs(c).stale
      BY <2>1, <1>1 DEF UpdatePastTyped, Update!Stage, Update!Swap, Update!Disturbs
    <3> QED
      BY <3>1, <3>2
  <2>2. CASE Update!Create(c) \/ Update!Download(c)
    BY <2>2, <1>1 DEF UpdateFilesTyped, Update!Places, Update!Create, Update!Download
  <2>3. CASE world' = Update!WithoutStaged(c, world)
    BY <2>3, <1>1 DEF UpdateFilesTyped, Update!WithoutStaged
  <2>4. CASE Update!Cleanup(c)
    BY <2>4, <1>1 DEF UpdateFilesTyped, Update!WithoutStaged, Update!Cleanup
  <2> QED
    BY <2>1, <2>2, <2>3, <2>4
    DEF Update!Step, Update!Start, Update!Manifest, Update!Confirm, Update!Look,
        Update!VerifyCandidate, Update!Recheck, Update!EnsureNoBackup,
        Update!SwapFails, Update!Rollback, Update!Refuse, Update!Crash
<1>5. /\ past'.stale[d] = past.stale[d] \/ past'.stale[d] = {"start", "recheck"}
      /\ past'.foreign = past.foreign
      /\ past.overlap => past'.overlap
      /\ past.blind => past'.blind
  <2>1. CASE Update!Start(c) \/ Update!Recheck(c)
    <3>1. past.stale \in [Invocation -> SUBSET {"start", "recheck"}]
      BY <1>1 DEF UpdatePastTyped
    <3>2. /\ [past.stale EXCEPT ![c] = {}][d] = past.stale[d]
          /\ [past.stale EXCEPT ![c] = @ \ {"recheck"}][d] = past.stale[d]
      BY <3>1
    <3> QED
      BY <2>1, <3>2, <1>1 DEF UpdatePastTyped, Update!Start, Update!Recheck
  <2>2. CASE past' = Update!Disturbs(c)
    BY <2>2, <1>1 DEF UpdatePastTyped, Update!Disturbs, Update!Outdated
  <2>3. CASE Update!Stage(c)
    BY <2>3, <1>1 DEF UpdatePastTyped, Update!Disturbs, Update!Outdated, Update!Stage
  <2>4. CASE UNCHANGED past
    BY <2>4
  <2>5. CASE \E step : Update!Goto(c, step)
    BY <2>5, <1>1 DEF UpdatePastTyped, Update!Goto
  <2> QED
    BY <2>1, <2>2, <2>3, <2>4, <2>5
    DEF Update!Step, Update!Manifest, Update!Confirm, Update!Look, Update!Create,
        Update!Download, Update!VerifyCandidate, Update!EnsureNoBackup, Update!Return,
        Update!Swap, Update!SwapFails, Update!Rollback, Update!Cleanup,
        Update!Refuse, Update!Crash
<1> QED
  BY <1>2, <1>3, <1>4, <1>5
\* What the steps of c do in the directory.
LEMMA UpdateWrites ==
  ASSUME Update!TypeOK, NEW c \in Invocation
  PROVE /\ Update!Create(c) \/ Update!Download(c) \/ Update!Refuse(c) =>
             world'["path"] = world["path"] /\ world'["backup"] = world["backup"]
        /\ Update!Create(c) => world'[c] = [by |-> c, ver |-> Update!Unfinished]
        /\ Update!Download(c) =>
             world'[c] = IF world[c] = Update!Absent THEN Update!Absent
                         ELSE [world[c] EXCEPT !.ver = run[c].to]
        /\ Update!Refuse(c) \/ Update!Rollback(c) \/ Update!Cleanup(c) =>
             world'[c] = Update!Absent
        /\ Update!Stage(c) => /\ world'["backup"] = world["path"] /\ world'[c] = world[c]
                              /\ world'["path"] = Update!Absent
        /\ Update!Swap(c) => /\ world'["path"] = world[c] /\ world'[c] = Update!Absent
                             /\ world'["backup"] = world["backup"]
        /\ Update!Rollback(c) =>
             \/ /\ world["backup"] # Update!Absent /\ world'["path"] = world["backup"]
                /\ world'["backup"] = Update!Absent /\ verdict'[c] = "refused"
             \/ /\ world'["path"] = world["path"] /\ world'["backup"] = world["backup"]
                /\ verdict'[c] = "incomplete"
        /\ Update!Cleanup(c) =>
             /\ world'["path"] = world["path"]
             /\ \/ world'["backup"] = Update!Absent /\ verdict'[c] = "installed"
                \/ world'["backup"] = world["backup"] /\ verdict'[c] = "uncleaned"
<1>1. UpdateFilesTyped(world) /\ UpdateRunTyped /\ UpdatePastTyped
  BY UpdateTyped
<1> USE UpdateKinds
<1>2. world \in [Update!Places -> Update!File] /\ c \in Update!Places
  BY <1>1 DEF UpdateFilesTyped
<1>3. Update!Rollback(c) \/ Update!Cleanup(c) =>
        \A v : verdict' = [verdict EXCEPT ![c] = v] => verdict'[c] = v
  BY <1>1 DEF UpdateRunTyped
<1>4. Update!Create(c) \/ Update!Download(c) \/ Update!Refuse(c) =>
        world'["path"] = world["path"] /\ world'["backup"] = world["backup"]
  BY <1>2 DEF Update!Create, Update!Download, Update!Refuse, Update!WithoutStaged
<1>5. /\ Update!Create(c) => world'[c] = [by |-> c, ver |-> Update!Unfinished]
      /\ Update!Download(c) =>
             world'[c] = IF world[c] = Update!Absent THEN Update!Absent
                         ELSE [world[c] EXCEPT !.ver = run[c].to]
  BY <1>2 DEF Update!Create, Update!Download
<1>6. Update!Refuse(c) \/ Update!Rollback(c) \/ Update!Cleanup(c) =>
        world'[c] = Update!Absent
  BY <1>2 DEF Update!Refuse, Update!Rollback, Update!Cleanup, Update!WithoutStaged
<1>7. /\ Update!Stage(c) => /\ world'["backup"] = world["path"] /\ world'[c] = world[c]
                            /\ world'["path"] = Update!Absent
      /\ Update!Swap(c) => /\ world'["path"] = world[c] /\ world'[c] = Update!Absent
                           /\ world'["backup"] = world["backup"]
  BY <1>2 DEF Update!Stage, Update!Swap
<1>8. Update!Rollback(c) =>
             \/ /\ world["backup"] # Update!Absent /\ world'["path"] = world["backup"]
                /\ world'["backup"] = Update!Absent /\ verdict'[c] = "refused"
             \/ /\ world'["path"] = world["path"] /\ world'["backup"] = world["backup"]
                /\ verdict'[c] = "incomplete"
  BY <1>2, <1>3 DEF Update!Rollback, Update!WithoutStaged, Update!Return, Update!Unrestored
<1>9. Update!Cleanup(c) =>
             /\ world'["path"] = world["path"]
             /\ \/ world'["backup"] = Update!Absent /\ verdict'[c] = "installed"
                \/ world'["backup"] = world["backup"] /\ verdict'[c] = "uncleaned"
  BY <1>2, <1>3 DEF Update!Cleanup, Update!WithoutStaged, Update!Return
<1> QED
  BY <1>4, <1>5, <1>6, <1>7, <1>8, <1>9

\* What c has seen at the path and the version it runs are so, unless a change is noted.
LEMMA UpdateKnownStays ==
  ASSUME Update!TypeOK, NEW c \in Invocation, Update!Step(c), UpdateKnown(c)
  PROVE UpdateKnown(c)'
<1>1. UpdateFilesTyped(world) /\ UpdateRunTyped /\ UpdatePastTyped
  BY UpdateTyped
<1>2. past.stale \in [Invocation -> SUBSET {"start", "recheck"}]
  BY <1>1 DEF UpdatePastTyped
<1>3. CASE Update!Start(c)
  <2>1. pc'[c] = "manifest" /\ run'[c].own = world["path"].ver /\ world' = world
    BY <1>1, <1>3 DEF Update!Start, UpdatePastTyped, UpdateRunTyped
  <2> QED
    BY <2>1 DEF UpdateKnown
<1>4. CASE Update!Recheck(c)
  <2>1. pc'[c] = "nobackup" /\ run' = run /\ world' = world /\ world["path"].by = run[c].seen
    BY <1>1, <1>4 DEF Update!Recheck, Update!SameFile, UpdatePastTyped
  <2>2. past'.stale = [past.stale EXCEPT ![c] = @ \ {"recheck"}]
    BY <1>1, <1>4 DEF Update!Recheck, UpdatePastTyped
  <2>3. "start" \in past.stale[c] => "start" \in past'.stale[c]
    BY <1>2, <2>2
  <2> QED
    BY <2>1, <2>3, <1>4 DEF UpdateKnown, Update!Recheck
<1>5. CASE Update!Stage(c) \/ Update!Swap(c) \/ Update!SwapFails(c) \/ Update!Rollback(c)
           \/ Update!Cleanup(c) \/ Update!Refuse(c) \/ Update!Crash(c)
  <2>1. pc'[c] \in {"swap", "rollback", "cleanup", "updated"}
    BY <1>1, <1>5 DEF UpdatePastTyped, Update!Stage, Update!Swap, Update!SwapFails,
       Update!Rollback, Update!Cleanup, Update!Refuse, Update!Crash, Update!Goto, Update!Return
  <2> QED
    BY <2>1 DEF UpdateKnown
<1>6. CASE Update!Create(c) \/ Update!Download(c)
  <2>1. world'["path"] = world["path"]
    BY <1>6, UpdateWrites
  <2>2. /\ past'.stale = past.stale /\ pc[c] \in {"create", "download"}
        /\ pc'[c] \in {"download", "verify"} /\ run' = run
    BY <1>1, <1>6 DEF UpdatePastTyped, Update!Create, Update!Download, Update!Goto
  <2> QED
    BY <2>1, <2>2 DEF UpdateKnown
<1>7. CASE Update!Manifest(c) \/ Update!Confirm(c) \/ Update!Look(c) \/ Update!VerifyCandidate(c)
  <2>1. /\ past'.stale = past.stale
        /\ pc[c] \in {"manifest", "confirm", "look", "verify"} /\ run'[c].own = run[c].own
        /\ pc'[c] \in {"confirm", "look", "create", "recheck", "updated"} /\ world' = world
    BY <1>1, <1>7 DEF UpdatePastTyped, UpdateRunTyped, Update!Manifest, Update!Confirm,
       Update!Look, Update!VerifyCandidate, Update!Goto, Update!Return
  <2> QED
    BY <2>1 DEF UpdateKnown
<1>8. CASE Update!EnsureNoBackup(c)
  <2>1. /\ past'.stale = past.stale /\ pc[c] = "nobackup" /\ run' = run
        /\ pc'[c] = "stage" /\ world' = world
    BY <1>1, <1>8 DEF UpdatePastTyped, Update!EnsureNoBackup, Update!Goto
  <2> QED
    BY <2>1 DEF UpdateKnown
<1> QED
  BY <1>3, <1>4, <1>5, <1>6, <1>7, <1>8 DEF Update!Step

\* The version that c goes for is newer than its own.
LEMMA UpdateAgreedStays ==
  ASSUME Update!TypeOK, NEW c \in Invocation, Update!Step(c), UpdateAgreed(c)
  PROVE UpdateAgreed(c)'
<1>1. UpdateFilesTyped(world) /\ UpdateRunTyped /\ UpdatePastTyped
  BY UpdateTyped
<1>2. CASE Update!Manifest(c)
  <2>1. PICK v \in Version :
          \/ Update!Return(c, "current") \/ Update!Return(c, "available")
          \/ /\ Update!UpdateAvailable(c, v)
             /\ run' = [run EXCEPT ![c].to = v]
             /\ Update!Goto(c, "confirm") /\ UNCHANGED verdict
    BY <1>2 DEF Update!Manifest
  <2>2. CASE Update!Return(c, "current") \/ Update!Return(c, "available")
    BY <2>2, <1>1 DEF UpdateAgreed, Update!Return, UpdateRunTyped, UpdatePastTyped
  <2>3. CASE /\ Update!UpdateAvailable(c, v)
             /\ run' = [run EXCEPT ![c].to = v]
             /\ Update!Goto(c, "confirm") /\ UNCHANGED verdict
    <3>1. pc[c] = "manifest" /\ pc'[c] = "confirm" /\ verdict' = verdict
      BY <2>3, <1>2, <1>1 DEF Update!Goto, UpdatePastTyped, Update!Manifest
    <3>2. run'[c].own = run[c].own /\ run'[c].to = v
      BY <2>3, <1>1 DEF UpdateRunTyped
    <3> QED
      BY <2>3, <3>1, <3>2 DEF UpdateAgreed, Update!UpdateAvailable
  <2> QED
    BY <2>1, <2>2, <2>3
<1>3. CASE Update!Start(c)
  <2>1. pc[c] = "start" /\ pc'[c] = "manifest" /\ verdict' = verdict
    BY <1>1, <1>3 DEF Update!Start, UpdatePastTyped
  <2> QED
    BY <2>1 DEF UpdateAgreed
<1>4. CASE Update!Rollback(c) \/ Update!Cleanup(c) \/ Update!Refuse(c) \/ Update!Crash(c)
  <2>1. /\ pc'[c] = "updated" /\ run' = run
        /\ verdict'[c] = "installed" => pc[c] = "cleanup" \/ verdict[c] = "installed"
    BY <1>1, <1>4 DEF Update!Rollback, Update!Cleanup, Update!Refuse, Update!Crash, Update!Return,
       Update!Unrestored, UpdateRunTyped, UpdatePastTyped
  <2> QED
    BY <2>1 DEF UpdateAgreed
<1>5. CASE \/ Update!Confirm(c) \/ Update!Look(c) \/ Update!Create(c) \/ Update!Download(c)
           \/ Update!VerifyCandidate(c) \/ Update!Recheck(c) \/ Update!EnsureNoBackup(c)
           \/ Update!Stage(c) \/ Update!Swap(c) \/ Update!SwapFails(c)
  <2>1. /\ pc[c] \notin {"start", "manifest", "updated"}
        /\ verdict' = verdict
    BY <1>5 DEF Update!Confirm, Update!Look, Update!Create, Update!Download,
       Update!VerifyCandidate, Update!Recheck, Update!EnsureNoBackup, Update!Stage, Update!Swap,
       Update!SwapFails
  <2>2. run'[c].own = run[c].own /\ run'[c].to = run[c].to
    BY <1>1, <1>5 DEF UpdateRunTyped, Update!Confirm, Update!Look, Update!Create, Update!Download,
       Update!VerifyCandidate, Update!Recheck, Update!EnsureNoBackup, Update!Stage, Update!Swap,
       Update!SwapFails
  <2> QED
    BY <2>1, <2>2 DEF UpdateAgreed
<1> QED
  BY <1>2, <1>3, <1>4, <1>5 DEF Update!Step

\* Whose files are where, after a step of c.
LEMMA UpdateOwners ==
  ASSUME Update!TypeOK, NEW c \in Invocation, Update!Step(c), NEW d \in Invocation
  PROVE /\ \A n \in {"path", "backup"} : world'[n].by = d =>
             \/ world["path"].by = d \/ world["backup"].by = d
             \/ (d = c /\ Update!Swap(c))
        /\ past'.mover = d => past.mover = d \/ (d = c /\ Update!Stage(c))
<1>1. UpdateFilesTyped(world) /\ UpdateRunTyped /\ UpdatePastTyped
  BY UpdateTyped
<1>2. \A n \in {"path", "backup"} : world'[n].by = d =>
             \/ world["path"].by = d \/ world["backup"].by = d
             \/ (d = c /\ Update!Swap(c))
  <2>1. CASE Update!Swap(c)
    <3>1. world[c].by = c \/ world[c].by = "none"
      BY <1>1, UpdateKinds DEF UpdateFilesTyped
    <3> QED
      BY <2>1, <3>1, UpdateWrites, Names
  <2>2. CASE Update!Stage(c) \/ Update!Rollback(c) \/ Update!Cleanup(c)
    BY <2>2, UpdateWrites, UpdateKinds, Names
  <2>3. CASE Update!Create(c) \/ Update!Download(c) \/ Update!Refuse(c)
    BY <2>3, UpdateWrites
  <2> QED
    BY <2>1, <2>2, <2>3
    DEF Update!Step, Update!Start, Update!Manifest, Update!Confirm, Update!Look,
        Update!VerifyCandidate, Update!Recheck, Update!EnsureNoBackup, Update!SwapFails,
        Update!Crash
<1>3. past'.mover = d => past.mover = d \/ (d = c /\ Update!Stage(c))
  <2>1. CASE Update!Start(c) \/ Update!Recheck(c)
    BY <2>1, <1>1 DEF UpdatePastTyped, Update!Start, Update!Recheck
  <2>2. CASE past' = Update!Disturbs(c)
    BY <2>2, <1>1 DEF UpdatePastTyped, Update!Disturbs
  <2>3. CASE Update!Stage(c)
    BY <2>3, <1>1 DEF UpdatePastTyped, Update!Disturbs, Update!Stage
  <2>4. CASE UNCHANGED past
    BY <2>4
  <2>5. CASE \E step : Update!Goto(c, step)
    BY <2>5, <1>1 DEF UpdatePastTyped, Update!Goto
  <2> QED
    BY <2>1, <2>2, <2>3, <2>4, <2>5
    DEF Update!Step, Update!Manifest, Update!Confirm, Update!Look, Update!Create,
        Update!Download, Update!VerifyCandidate, Update!EnsureNoBackup, Update!Return,
        Update!Swap, Update!SwapFails, Update!Rollback, Update!Cleanup,
        Update!Refuse, Update!Crash
<1> QED
  BY <1>2, <1>3

\* What c has made is nowhere after it has refused, at the path only once it has
\* replaced.
LEMMA UpdateLeftStays ==
  ASSUME Update!TypeOK, NEW c \in Invocation, Update!Step(c), UpdateLeft(c), UpdateAgreed(c)
  PROVE UpdateLeft(c)'
<1>1. UpdateFilesTyped(world) /\ UpdateRunTyped /\ UpdatePastTyped
  BY UpdateTyped
<1>0. pc[c] # "updated"
  BY DEF Update!Step, Update!Start, Update!Manifest, Update!Confirm, Update!Look, Update!Create,
        Update!Download, Update!VerifyCandidate, Update!Recheck, Update!EnsureNoBackup,
        Update!Stage, Update!Swap, Update!SwapFails, Update!Rollback, Update!Cleanup,
        Update!Refuse, Update!Crash, Update!Steps
<1>2. verdict[c] = "none"
  BY <1>0 DEF UpdateAgreed
<1>o. \A n \in {"path", "backup"} : world'[n].by = c =>
         world["path"].by = c \/ world["backup"].by = c \/ Update!Swap(c)
  BY UpdateOwners
<1>m. past'.mover = c => past.mover = c \/ Update!Stage(c)
  BY UpdateOwners
<1>3. CASE Update!Swap(c)
  <2>1. pc'[c] = "cleanup" /\ verdict' = verdict
    BY <1>3, <1>1 DEF Update!Swap, UpdatePastTyped
  <2> QED
    BY <2>1, <1>2 DEF UpdateLeft
<1>4. CASE Update!Stage(c) \/ Update!SwapFails(c)
  <2>1. /\ pc[c] \in {"stage", "swap"} /\ pc'[c] \in {"swap", "rollback"} /\ verdict' = verdict
        /\ ~Update!Swap(c)
    BY <1>4, <1>1 DEF Update!Stage, Update!SwapFails, Update!Swap, UpdatePastTyped, Update!Goto
  <2> QED
    BY <2>1, <1>2, <1>o DEF UpdateLeft
<1>5. CASE Update!Refuse(c) \/ Update!Rollback(c)
  <2>1. /\ pc[c] \notin {"cleanup", "updated"} /\ pc'[c] = "updated" /\ world'[c] = Update!Absent
        /\ ~Update!Swap(c)
    BY <1>5, <1>1, UpdateWrites
    DEF Update!Refuse, Update!Rollback, Update!Return, Update!Swap, Update!Steps, UpdatePastTyped
  <2> QED
    BY <2>1, <1>o DEF UpdateLeft
<1>6. CASE Update!Cleanup(c)
  <2>1. pc'[c] = "updated" /\ verdict'[c] # "refused"
    BY <1>6, <1>1, UpdateWrites DEF Update!Cleanup, Update!Return, UpdatePastTyped
  <2> QED
    BY <2>1 DEF UpdateLeft
<1>7. CASE Update!Crash(c) \/ Update!Manifest(c)
  <2>1. /\ world' = world /\ past'.mover = past.mover
        /\ verdict'[c] # "refused"
        /\ pc'[c] = "updated" \/ (pc[c] = "manifest" /\ pc'[c] = "confirm")
    BY <1>7, <1>1, <1>2
    DEF Update!Crash, Update!Manifest, Update!Return, Update!Goto, UpdatePastTyped, UpdateRunTyped
  <2> QED
    BY <2>1 DEF UpdateLeft
<1>8. CASE \/ Update!Start(c) \/ Update!Confirm(c) \/ Update!Look(c) \/ Update!Create(c)
           \/ Update!Download(c) \/ Update!VerifyCandidate(c) \/ Update!Recheck(c)
           \/ Update!EnsureNoBackup(c)
  <2>1. /\ pc[c] \notin {"swap", "rollback", "cleanup", "updated"} /\ verdict' = verdict
        /\ ~Update!Swap(c) /\ ~Update!Stage(c)
    BY <1>8 DEF Update!Start, Update!Confirm, Update!Look, Update!Create, Update!Download,
       Update!VerifyCandidate, Update!Recheck, Update!EnsureNoBackup, Update!Swap, Update!Stage
  <2> QED
    BY <2>1, <1>2, <1>o, <1>m DEF UpdateLeft
<1> QED
  BY <1>3, <1>4, <1>5, <1>6, <1>7, <1>8 DEF Update!Step

\* What is known of every run holds at the start.
LEMMA UpdateHistoryInit == Update!Init => UpdateHistory
BY Names DEF Update!Init, UpdateHistory, UpdateKnown, UpdateAgreed, UpdateLeft, Update!Absent,
   Update!Places

\* It holds after every step, of the run that moves and of the others.
LEMMA UpdateHistoryStays ==
  ASSUME Update!TypeOK, UpdateHistory, Update!Next
  PROVE UpdateHistory'
<1>1. UpdateFilesTyped(world) /\ UpdateRunTyped /\ UpdatePastTyped
  BY UpdateTyped
<1>c. ASSUME NEW c \in Invocation, Update!Step(c) PROVE UpdateHistory'
  <2>1. UpdateKnown(c)' /\ UpdateAgreed(c)' /\ UpdateLeft(c)'
    BY <1>c, UpdateKnownStays, UpdateAgreedStays, UpdateLeftStays DEF UpdateHistory
  <2>2. ASSUME NEW d \in Invocation \ {c} PROVE UpdateKnown(d)' /\ UpdateAgreed(d)' /\ UpdateLeft(d)'
    <3>1. UpdateKnown(d) /\ UpdateAgreed(d) /\ UpdateLeft(d)
      BY DEF UpdateHistory
    <3>2. UpdateKnown(d)' /\ UpdateAgreed(d)'
      BY <1>c, <3>1, UpdateFrame DEF UpdateKnown, UpdateAgreed
    <3>3. UpdateLeft(d)'
      BY <1>c, <3>1, UpdateFrame, UpdateOwners DEF UpdateLeft
    <3> QED
      BY <3>2, <3>3
  <2> QED
    BY <2>1, <2>2 DEF UpdateHistory
<1>o. ASSUME Update!OtherInstalls \/ Update!OtherRemoves PROVE UpdateHistory'
  <2>1. /\ pc' = pc /\ run' = run /\ verdict' = verdict
    BY <1>o DEF Update!OtherInstalls, Update!OtherRemoves, Update!Act
  <2>2. PICK n \in Update!Places, f \in Update!File :
          world' = [world EXCEPT ![n] = f] /\ Update!Unseen(n) /\ f.by \in {"other", "link", "none"}
          /\ (f # Update!Absent => n \in {"path", "backup"})
    BY <1>o, UpdateKinds DEF Update!OtherInstalls, Update!OtherRemoves
  <2>3. /\ world' = [m \in Update!Places |-> IF m = n THEN f ELSE world[m]]
    BY <2>2, <1>1 DEF UpdateFilesTyped
  <2>4. /\ past'.mover = past.mover
        /\ past'.stale = IF n = "path" THEN [c \in Invocation |-> {"start", "recheck"}] ELSE past.stale
    BY <2>2, <1>1 DEF Update!Unseen, UpdatePastTyped, Update!Outdated
  <2>5. ASSUME NEW d \in Invocation PROVE UpdateKnown(d)' /\ UpdateAgreed(d)' /\ UpdateLeft(d)'
    <3>1. UpdateKnown(d) /\ UpdateAgreed(d) /\ UpdateLeft(d)
      BY DEF UpdateHistory
    <3>2. UpdateKnown(d)'
      BY <2>1, <2>3, <2>4, <3>1, UpdateKinds DEF UpdateKnown
    <3>3. UpdateAgreed(d)'
      BY <2>1, <3>1 DEF UpdateAgreed
    <3>4. UpdateLeft(d)'
      BY <2>1, <2>2, <2>3, <2>4, <3>1, UpdateKinds, Names DEF UpdateLeft
    <3> QED
      BY <3>2, <3>3, <3>4
  <2> QED
    BY <2>5 DEF UpdateHistory
<1> QED
  BY <1>c, <1>o DEF Update!Next

\* A step of c among the replacing calls is taken alone, as long as the calm lasts.
LEMMA UpdateAlone ==
  ASSUME Update!TypeOK, UpdateDirectory, NEW c \in Invocation, Update!Step(c), UpdateCalm'
  PROVE /\ UpdateCalm
        /\ pc[c] \in Update!Replacing \/ pc'[c] \in Update!Replacing =>
             \A d \in Invocation \ {c} : pc[d] \notin Update!Replacing
<1>1. UpdateFilesTyped(world) /\ UpdateRunTyped /\ UpdatePastTyped
  BY UpdateTyped
<1>2. UpdateCalm
  <2>1. CASE \E d \in Invocation : d # c
    BY <2>1, UpdateFrame DEF UpdateCalm
  <2>2. CASE Update!Start(c) \/ Update!Recheck(c)
    BY <2>2, <1>1 DEF UpdatePastTyped, Update!Start, Update!Recheck, UpdateCalm
  <2>3. CASE past' = Update!Disturbs(c)
    BY <2>3, <1>1 DEF UpdatePastTyped, Update!Disturbs, UpdateCalm
  <2>4. CASE Update!Stage(c)
    BY <2>4, <1>1 DEF UpdatePastTyped, Update!Disturbs, Update!Stage, UpdateCalm
  <2>5. CASE UNCHANGED past
    BY <2>5 DEF UpdateCalm
  <2>6. CASE \E step : Update!Goto(c, step)
    BY <2>6, <1>1 DEF UpdatePastTyped, Update!Goto, UpdateCalm
  <2> QED
    BY <2>2, <2>3, <2>4, <2>5, <2>6
    DEF Update!Step, Update!Manifest, Update!Confirm, Update!Look, Update!Create,
        Update!Download, Update!VerifyCandidate, Update!EnsureNoBackup, Update!Return,
        Update!Swap, Update!SwapFails, Update!Rollback, Update!Cleanup,
        Update!Refuse, Update!Crash
<1>3. CASE pc[c] \in Update!Replacing
  BY <1>2, <1>3 DEF UpdateDirectory
<1>4. CASE Update!Recheck(c)
  BY <1>1, <1>4 DEF Update!Recheck, UpdateCalm, UpdatePastTyped
<1>5. CASE pc[c] \notin Update!Replacing /\ ~Update!Recheck(c)
  <2>1. pc'[c] \notin Update!Replacing
    BY <1>1, <1>5 DEF UpdatePastTyped, Update!Replacing, Update!Goto, Update!Return,
        Update!Step, Update!Start, Update!Manifest, Update!Confirm, Update!Look, Update!Create,
        Update!Download, Update!VerifyCandidate, Update!EnsureNoBackup,
        Update!Stage, Update!Swap, Update!SwapFails, Update!Rollback, Update!Cleanup,
        Update!Refuse, Update!Crash
  <2> QED
    BY <1>2, <2>1, <1>5
<1> QED
  BY <1>2, <1>3, <1>4, <1>5

\* An executable is left by each step of the run that is among its replacing calls.
LEMMA UpdateWholeStays ==
  ASSUME Update!TypeOK, NEW c \in Invocation, Update!Step(c), UpdateWhole, UpdatePlaced(c)
  PROVE UpdateWhole'
<1>1. UpdateFilesTyped(world) /\ UpdateRunTyped /\ UpdatePastTyped
  BY UpdateTyped
<1>2. run[c].to \in Version /\ ~Update!Executable(Update!Absent)
  BY <1>1, UpdateKinds DEF UpdateRunTyped
<1>3. CASE Update!Stage(c)
  BY <1>2, <1>3, UpdateWrites DEF UpdateWhole, Update!Stage
<1>4. CASE Update!Swap(c)
  <2>1. Update!Executable(world[c])
    BY <1>2, <1>4, Versions DEF UpdatePlaced, Update!Swap, Update!Executable
  <2> QED
    BY <2>1, <1>2, <1>4, UpdateWrites DEF UpdateWhole
<1>5. CASE Update!Rollback(c)
  BY <1>2, <1>5, UpdateWrites DEF UpdateWhole, UpdatePlaced, Update!Rollback
<1>6. CASE Update!Cleanup(c)
  <2>1. Update!Executable(world["path"])
    BY <1>2, <1>6, Versions DEF UpdatePlaced, Update!Cleanup, Update!Executable
  <2> QED
    BY <2>1, <1>2, <1>6, UpdateWrites DEF UpdateWhole
<1>7. CASE world'["path"] = world["path"] /\ world'["backup"] = world["backup"]
  BY <1>7 DEF UpdateWhole
<1> QED
  BY <1>3, <1>4, <1>5, <1>6, <1>7, UpdateWrites
  DEF Update!Step, Update!Start, Update!Manifest, Update!Confirm, Update!Look,
      Update!VerifyCandidate, Update!Recheck, Update!EnsureNoBackup, Update!SwapFails,
      Update!Crash

\* What c has put under the path and the backup is there while it is alone.
LEMMA UpdatePlacedStays ==
  ASSUME Update!TypeOK, NEW c \in Invocation, Update!Step(c), UpdateWhole, UpdatePlaced(c),
         UpdateKnown(c)
  PROVE UpdatePlaced(c)'
<1>1. UpdateFilesTyped(world) /\ UpdateRunTyped /\ UpdatePastTyped
  BY UpdateTyped
<1>2. run[c].to \in Version /\ ~Update!Executable(Update!Absent)
  BY <1>1, UpdateKinds DEF UpdateRunTyped
<1>3. CASE Update!Stage(c)
  <2>1. pc[c] = "stage" /\ pc'[c] = "swap" /\ run' = run /\ world["path"] # Update!Absent
    BY <1>1, <1>3 DEF Update!Stage, UpdatePastTyped
  <2>2. ~past'.blind => "start" \notin past.stale[c]
    BY <1>1, <1>3 DEF Update!Stage, UpdatePastTyped, Update!Disturbs
  <2>3. world'["backup"] = world["path"] /\ world'["path"] = Update!Absent /\ world'[c] = world[c]
    BY <1>3, UpdateWrites
  <2>4. ~past'.blind => run[c].own = world["path"].ver
    BY <2>1, <2>2 DEF UpdateKnown
  <2>5. Update!Executable(world["path"])
    BY <2>1 DEF UpdateWhole
  <2>6. world[c].by = c /\ world[c].ver = run[c].to
    BY <2>1 DEF UpdatePlaced
  <2>7. Update!Executable(world["backup"])'
    BY <2>3, <2>5 DEF Update!Executable
  <2> QED
    BY <2>1, <2>3, <2>4, <2>6, <2>7 DEF UpdatePlaced
<1>4. CASE Update!Swap(c)
  <2>1. pc[c] = "swap" /\ pc'[c] = "cleanup" /\ run' = run
    BY <1>1, <1>4 DEF Update!Swap, UpdatePastTyped
  <2> QED
    BY <2>1, <1>4, UpdateWrites DEF UpdatePlaced
<1>5. CASE Update!Rollback(c) \/ Update!Cleanup(c) \/ Update!Refuse(c) \/ Update!Crash(c)
  <2>1. pc'[c] = "updated"
    BY <1>1, <1>5 DEF Update!Rollback, Update!Cleanup, Update!Refuse, Update!Crash,
       Update!Return, UpdatePastTyped
  <2> QED
    BY <2>1 DEF UpdatePlaced
<1>6. CASE Update!SwapFails(c)
  <2>1. pc[c] = "swap" /\ pc'[c] = "rollback" /\ run' = run /\ world' = world
        /\ past'.blind = past.blind
    BY <1>1, <1>6 DEF Update!SwapFails, UpdatePastTyped, Update!Goto
  <2> QED
    BY <2>1 DEF UpdatePlaced
<1>7. CASE Update!VerifyCandidate(c)
  <2>1. pc'[c] = "recheck" /\ run' = run /\ world' = world /\ world[c].ver = run[c].to
    BY <1>1, <1>7 DEF Update!VerifyCandidate, UpdatePastTyped, Update!Goto
  <2>2. world[c].by = c
    <3>1. world[c] # Update!Absent
      BY <2>1, <1>2, Versions, UpdateKinds
    <3> QED
      BY <3>1, <1>1 DEF UpdateFilesTyped
  <2> QED
    BY <2>1, <2>2 DEF UpdatePlaced
<1>8. CASE Update!Recheck(c)
  <2>1. pc[c] = "recheck" /\ pc'[c] = "nobackup" /\ run' = run /\ world' = world
    BY <1>1, <1>8 DEF Update!Recheck, UpdatePastTyped
  <2> QED
    BY <2>1 DEF UpdatePlaced
<1>9. CASE Update!EnsureNoBackup(c)
  <2>1. pc[c] = "nobackup" /\ pc'[c] = "stage" /\ run' = run /\ world' = world
        /\ world["backup"] = Update!Absent
    BY <1>1, <1>9 DEF Update!EnsureNoBackup, Update!NoBackup, UpdatePastTyped, Update!Goto
  <2> QED
    BY <2>1 DEF UpdatePlaced
<1>10. CASE \/ Update!Start(c) \/ Update!Manifest(c) \/ Update!Confirm(c) \/ Update!Look(c)
            \/ Update!Create(c) \/ Update!Download(c)
  <2>1. pc'[c] \in {"manifest", "confirm", "look", "create", "download", "verify", "updated"}
    BY <1>1, <1>10 DEF Update!Start, Update!Manifest, Update!Confirm, Update!Look,
       Update!Create, Update!Download, Update!Goto, Update!Return, UpdatePastTyped
  <2> QED
    BY <2>1 DEF UpdatePlaced
<1> QED
  BY <1>3, <1>4, <1>5, <1>6, <1>7, <1>8, <1>9, <1>10 DEF Update!Step

\* The order of versions.
LEMMA UpdateOrder ==
  /\ \A a \in Version : ~Update!Older(a, a)
  /\ \A a, b, c \in Version : ~Update!Older(b, c) /\ Update!Older(b, a) => ~Update!Older(a, c)
<1>1. \A a, b : Update!Older(a, b) <=>
        \/ a[1] < b[1]
        \/ a[2] < b[2] /\ a[1] = b[1]
        \/ a[3] < b[3] /\ a[1] = b[1] /\ a[2] = b[2]
  <2>1. /\ \A P \in [1..3 -> BOOLEAN] : (\E i \in 1..3 : P[i]) <=> P[1] \/ P[2] \/ P[3]
        /\ 1..(1 - 1) = {} /\ 1..(2 - 1) = {1} /\ 1..(3 - 1) = {1, 2} /\ 1..3 = {1, 2, 3}
    OBVIOUS
  <2> QED
    BY <2>1 DEF Update!Older
<1> QED
  BY <1>1, Versions

\* At the start the directory holds the first installation and nothing else.
LEMMA UpdateDirectoryInit == Update!Init => UpdateDirectory /\ UpdateAnswers
BY Names, Versions DEF Update!Init, UpdateDirectory, UpdateWhole, UpdatePlaced, UpdateAnswers,
   Update!Absent, Update!Places, Update!Executable, Update!Replacing, Update!Unfinished

\* The directory is as the runs in it say, after every step.
LEMMA UpdateDirectoryStays ==
  ASSUME Update!TypeOK, UpdateHistory, UpdateDirectory, Update!Next
  PROVE UpdateDirectory'
<1>1. UpdateFilesTyped(world) /\ UpdateRunTyped /\ UpdatePastTyped
  BY UpdateTyped
<1>c. ASSUME NEW c \in Invocation, Update!Step(c), UpdateCalm'
      PROVE /\ UpdateWhole'
            /\ \A e, d \in Invocation :
                 pc'[e] \in Update!Replacing /\ pc'[d] \in Update!Replacing => e = d
            /\ \A e \in Invocation :
                 /\ UpdatePlaced(e)'
                 /\ verdict'[e] = "refused" /\ past'.mover = e => Update!Executable(world'["path"])
  <2>1. /\ UpdateCalm
        /\ pc[c] \in Update!Replacing \/ pc'[c] \in Update!Replacing =>
             \A d \in Invocation \ {c} : pc[d] \notin Update!Replacing
    BY <1>c, UpdateAlone
  <2>2. UpdateWhole /\ UpdatePlaced(c) /\ UpdateKnown(c) /\ UpdateAgreed(c) /\ UpdateLeft(c)
    BY <2>1 DEF UpdateDirectory, UpdateHistory
  <2>3. UpdateWhole' /\ UpdatePlaced(c)'
    BY <1>c, <2>2, UpdateWholeStays, UpdatePlacedStays
  <2>4. \A e, d \in Invocation :
          pc'[e] \in Update!Replacing /\ pc'[d] \in Update!Replacing => e = d
    <3> SUFFICES ASSUME NEW e \in Invocation, NEW d \in Invocation, e # d,
                        pc'[e] \in Update!Replacing, pc'[d] \in Update!Replacing
                 PROVE FALSE
      OBVIOUS
    <3>1. CASE e = c
      BY <3>1, <2>1, <1>c, UpdateFrame
    <3>2. CASE d = c
      BY <3>2, <2>1, <1>c, UpdateFrame
    <3>3. CASE e # c /\ d # c
      BY <3>3, <2>1, <1>c, UpdateFrame DEF UpdateDirectory
    <3> QED
      BY <3>1, <3>2, <3>3
  <2>5. \/ pc[c] \in Update!Replacing
        \/ world'["path"] = world["path"] /\ world'["backup"] = world["backup"]
    BY <1>c, UpdateWrites
    DEF Update!Step, Update!Start, Update!Manifest, Update!Confirm, Update!Look, Update!Stage,
        Update!Swap, Update!Rollback, Update!Cleanup, Update!Replacing,
        Update!VerifyCandidate, Update!Recheck, Update!EnsureNoBackup, Update!SwapFails,
        Update!Crash
  <2>6. ASSUME NEW d \in Invocation \ {c} PROVE UpdatePlaced(d)'
    <3>1. UpdatePlaced(d)
      BY <2>1 DEF UpdateDirectory
    <3>2. /\ pc'[d] = pc[d] /\ run'[d] = run[d] /\ world'[d] = world[d]
          /\ past.blind => past'.blind
      BY <1>c, UpdateFrame
    <3>3. CASE pc[c] \in Update!Replacing
      <4>1. pc'[d] \notin Update!Replacing
        BY <2>1, <3>3, <3>2
      <4>2. pc'[d] = "recheck" => world'[d].by = d /\ world'[d].ver = run'[d].to
        BY <3>1, <3>2 DEF UpdatePlaced
      <4> QED
        BY <4>1, <4>2 DEF UpdatePlaced, Update!Replacing
    <3>4. CASE world'["path"] = world["path"] /\ world'["backup"] = world["backup"]
      BY <3>1, <3>2, <3>4 DEF UpdatePlaced, Update!Executable
    <3> QED
      BY <2>5, <3>3, <3>4
  <2>7. ASSUME NEW d \in Invocation, verdict'[d] = "refused", past'.mover = d
        PROVE Update!Executable(world'["path"])
    <3>1. CASE Update!Stage(c)
      <4>1. past'.mover = c /\ verdict' = verdict /\ pc[c] = "stage"
        BY <1>1, <3>1 DEF Update!Stage, UpdatePastTyped, Update!Disturbs
      <4> QED
        BY <4>1, <2>2, <2>7 DEF UpdateAgreed
    <3>2. CASE Update!Swap(c)
      <4>1. run[c].to \in Version /\ world'["path"] = world[c] /\ world[c].ver = run[c].to
        BY <1>1, <2>2, <3>2, UpdateWrites DEF UpdateRunTyped, UpdatePlaced, Update!Swap
      <4> QED
        BY <4>1, Versions DEF Update!Executable
    <3>3. CASE Update!Rollback(c) /\ world'["path"] = world["backup"]
      BY <3>3, <2>2 DEF Update!Rollback, UpdatePlaced, Update!Executable
    <3>4. CASE ~Update!Stage(c) /\ world'["path"] = world["path"]
      <4>1. past.mover = d
        BY <1>c, <3>4, <2>7, UpdateOwners
      <4>2. CASE verdict[d] = "refused"
        BY <4>1, <4>2, <3>4, <2>1 DEF UpdateDirectory, Update!Executable
      <4>3. CASE verdict[d] # "refused"
        <5>1. d = c
          BY <1>c, <2>7, <4>3, UpdateFrame
        <5>2. pc[c] \in {"swap", "rollback", "cleanup", "updated"}
          BY <4>1, <5>1, <2>2 DEF UpdateLeft
        <5>3. Update!Rollback(c) \/ Update!Cleanup(c)
          BY <1>c, <5>1, <5>2, <2>7, <4>3
          DEF Update!Step, Update!Start, Update!Manifest, Update!Confirm, Update!Look,
              Update!Create, Update!Download, Update!VerifyCandidate, Update!Recheck,
              Update!EnsureNoBackup, Update!Stage, Update!Swap, Update!SwapFails,
              Update!Refuse, Update!Crash, Update!Steps
        <5>4. Update!Rollback(c) /\ world'["path"] = world["backup"]
          BY <5>1, <5>3, <2>7, UpdateWrites
        <5> QED
          BY <5>4, <3>3
      <4> QED
        BY <4>2, <4>3
    <3>5. \/ Update!Stage(c) \/ Update!Swap(c)
          \/ Update!Rollback(c) /\ world'["path"] = world["backup"]
          \/ world'["path"] = world["path"]
      BY <1>c, UpdateWrites
      DEF Update!Step, Update!Start, Update!Manifest, Update!Confirm, Update!Look,
          Update!VerifyCandidate, Update!Recheck, Update!EnsureNoBackup, Update!SwapFails,
          Update!Crash
    <3> QED
      BY <3>1, <3>2, <3>3, <3>4, <3>5
  <2> QED
    BY <2>3, <2>4, <2>6, <2>7
<1>o. ASSUME Update!OtherInstalls \/ Update!OtherRemoves PROVE ~UpdateCalm'
  <2>1. PICK n : Update!Unseen(n)
    BY <1>o DEF Update!OtherInstalls, Update!OtherRemoves
  <2> QED
    BY <2>1, <1>1 DEF Update!Unseen, UpdatePastTyped, UpdateCalm
<1> QED
  BY <1>c, <1>o DEF Update!Next, UpdateDirectory

\* What was answered stays true of the directory.
LEMMA UpdateAnswersStay ==
  ASSUME Update!TypeOK, UpdateHistory, UpdateDirectory, UpdateAnswers, Update!Next
  PROVE UpdateAnswers'
<1>1. UpdateFilesTyped(world) /\ UpdateRunTyped /\ UpdatePastTyped
  BY UpdateTyped
<1>o. ASSUME Update!OtherInstalls \/ Update!OtherRemoves PROVE ~UpdateCalm'
  <2>1. PICK n : Update!Unseen(n)
    BY <1>o DEF Update!OtherInstalls, Update!OtherRemoves
  <2> QED
    BY <2>1, <1>1 DEF Update!Unseen, UpdatePastTyped, UpdateCalm
<1>c. ASSUME NEW c \in Invocation, Update!Step(c), UpdateCalm', ~past'.blind,
             NEW e \in Invocation, verdict'[e] = "installed"
      PROVE /\ \E n \in {"path", "backup"} :
                 /\ Update!Executable(world'[n])
                 /\ ~Update!Older(world'[n].ver, run'[e].to)
            /\ \A d \in Invocation : pc'[d] = "cleanup" => ~Update!Older(run'[d].to, run'[e].to)
  <2>1. /\ UpdateCalm
        /\ pc[c] \in Update!Replacing \/ pc'[c] \in Update!Replacing =>
             \A d \in Invocation \ {c} : pc[d] \notin Update!Replacing
    BY <1>c, UpdateAlone
  <2>2. UpdateWhole /\ UpdatePlaced(c) /\ UpdateKnown(c) /\ UpdateAgreed(c) /\ UpdateLeft(c)
    BY <2>1 DEF UpdateDirectory, UpdateHistory
  <2>3. ~past.blind
    <3>1. CASE Update!Start(c) \/ Update!Recheck(c)
      BY <1>c, <3>1, <1>1 DEF UpdatePastTyped, Update!Start, Update!Recheck
    <3>2. CASE past' = Update!Disturbs(c)
      BY <1>c, <3>2, <1>1 DEF UpdatePastTyped, Update!Disturbs
    <3>3. CASE Update!Stage(c)
      BY <1>c, <3>3, <1>1 DEF UpdatePastTyped, Update!Disturbs, Update!Stage
    <3>4. CASE UNCHANGED past
      BY <1>c, <3>4
    <3>5. CASE \E step : Update!Goto(c, step)
      BY <1>c, <3>5, <1>1 DEF UpdatePastTyped, Update!Goto
    <3> QED
      BY <1>c, <3>1, <3>2, <3>3, <3>4, <3>5
      DEF Update!Step, Update!Manifest, Update!Confirm, Update!Look, Update!Create,
          Update!Download, Update!VerifyCandidate, Update!EnsureNoBackup, Update!Return,
          Update!Swap, Update!SwapFails, Update!Rollback, Update!Cleanup,
          Update!Refuse, Update!Crash
  <2> DEFINE Kept(t) == \E n \in {"path", "backup"} :
                          Update!Executable(world[n]) /\ ~Update!Older(world[n].ver, t)
  <2>r. \A d \in Invocation : run[d].own \in Version /\ run[d].to \in Version
    BY <1>1 DEF UpdateRunTyped
  \* The answer of c itself.
  <2>4. CASE verdict[e] # "installed"
    <3>1. e = c
      BY <1>c, <2>4, UpdateFrame
    <3>2. Update!Cleanup(c)
      BY <1>c, <1>1, <2>4, <3>1
      DEF Update!Step, Update!Start, Update!Manifest, Update!Confirm, Update!Look,
          Update!Create, Update!Download, Update!VerifyCandidate, Update!Recheck,
          Update!EnsureNoBackup, Update!Stage, Update!Swap, Update!SwapFails, Update!Rollback,
          Update!Refuse, Update!Crash, Update!Return, Update!Unrestored, UpdateRunTyped
    <3>3. /\ world["path"].ver = run[c].to /\ run' = run /\ pc[c] = "cleanup" /\ pc'[c] = "updated"
          /\ world'["path"] = world["path"]
      BY <1>1, <2>2, <3>2, UpdateWrites DEF Update!Cleanup, Update!Return, UpdatePlaced,
         UpdatePastTyped
    <3>4. ~Update!Older(world'["path"].ver, run'[e].to) /\ Update!Executable(world'["path"])
      BY <2>r, <3>1, <3>3, UpdateOrder, Versions DEF Update!Executable
    <3>5. \A d \in Invocation : pc'[d] # "cleanup"
      <4>1. pc[c] \in Update!Replacing
        BY <3>3 DEF Update!Replacing
      <4> QED
        BY <1>c, <2>1, <3>3, <4>1, UpdateFrame DEF Update!Replacing
    <3> QED
      BY <3>4, <3>5
  \* An earlier answer.
  <2>5. CASE verdict[e] = "installed"
    <3>1. /\ Kept(run[e].to)
          /\ \A d \in Invocation : pc[d] = "cleanup" => ~Update!Older(run[d].to, run[e].to)
      BY <2>5, <2>1, <2>3 DEF UpdateAnswers
    <3>2. run'[e] = run[e]
      <4>1. CASE e # c
        BY <4>1, <1>c, UpdateFrame
      <4>2. CASE e = c
        <5>1. pc[c] = "updated"
          BY <4>2, <2>5, <2>2 DEF UpdateAgreed
        <5> QED
          BY <1>c, <5>1 DEF Update!Step, Update!Start, Update!Manifest, Update!Confirm,
            Update!Look, Update!Create, Update!Download, Update!VerifyCandidate, Update!Recheck,
            Update!EnsureNoBackup, Update!Stage, Update!Swap, Update!SwapFails, Update!Rollback,
            Update!Cleanup, Update!Refuse, Update!Crash, Update!Steps
      <4> QED
        BY <4>1, <4>2
    <3>3. CASE Update!Stage(c)
      <4>1. /\ pc[c] = "stage" /\ pc'[c] = "swap" /\ world'["backup"] = world["path"]
            /\ world["backup"] = Update!Absent
        BY <1>1, <2>2, <3>3, UpdateWrites DEF Update!Stage, UpdatePastTyped, UpdatePlaced
      <4>2. \E n \in {"path", "backup"} :
              Update!Executable(world'[n]) /\ ~Update!Older(world'[n].ver, run'[e].to)
        BY <3>1, <3>2, <4>1, UpdateKinds DEF Update!Executable
      <4>3. \A d \in Invocation : pc'[d] # "cleanup"
        BY <1>c, <2>1, <4>1, UpdateFrame DEF Update!Replacing
      <4> QED
        BY <4>2, <4>3
    <3>4. CASE Update!Swap(c)
      <4>1. /\ pc[c] = "swap" /\ pc'[c] = "cleanup" /\ world'["backup"] = world["backup"]
            /\ world["path"] = Update!Absent /\ run' = run
        BY <1>1, <2>2, <3>4, UpdateWrites DEF Update!Swap, UpdatePastTyped, UpdatePlaced
      <4>2. Update!Executable(world["backup"]) /\ ~Update!Older(world["backup"].ver, run[e].to)
        BY <3>1, <4>1, UpdateKinds DEF Update!Executable
      <4>3. run[c].own = world["backup"].ver /\ Update!Older(run[c].own, run[c].to)
        BY <2>2, <2>3, <4>1 DEF UpdatePlaced, UpdateAgreed
      <4>4. ~Update!Older(run[c].to, run[e].to)
        BY <2>r, <4>2, <4>3, UpdateOrder
      <4>5. \A d \in Invocation \ {c} : pc'[d] # "cleanup"
        BY <1>c, <2>1, <4>1, UpdateFrame DEF Update!Replacing
      <4> QED
        BY <3>2, <4>1, <4>2, <4>4, <4>5 DEF Update!Executable
    <3>5. CASE Update!Rollback(c)
      <4>1. /\ pc[c] = "rollback" /\ pc'[c] = "updated" /\ world["path"] = Update!Absent
            /\ \/ world'["path"] = world["backup"]
               \/ world'["backup"] = world["backup"]
        BY <1>1, <2>2, <3>5, UpdateWrites DEF Update!Rollback, Update!Return, UpdatePastTyped,
           UpdatePlaced
      <4>2. Update!Executable(world["backup"]) /\ ~Update!Older(world["backup"].ver, run[e].to)
        BY <3>1, <4>1, UpdateKinds DEF Update!Executable
      <4>3. \A d \in Invocation : pc'[d] # "cleanup"
        BY <1>c, <2>1, <4>1, UpdateFrame DEF Update!Replacing
      <4> QED
        BY <3>2, <4>1, <4>2, <4>3 DEF Update!Executable
    <3>6. CASE Update!Cleanup(c)
      <4>1. /\ pc[c] = "cleanup" /\ pc'[c] = "updated" /\ world["path"].ver = run[c].to
            /\ world'["path"] = world["path"]
        BY <1>1, <2>2, <3>6, UpdateWrites DEF Update!Cleanup, Update!Return, UpdatePastTyped,
           UpdatePlaced
      <4>2. Update!Executable(world["path"]) /\ ~Update!Older(world["path"].ver, run[e].to)
        BY <2>r, <3>1, <4>1, Versions DEF Update!Executable
      <4>3. \A d \in Invocation : pc'[d] # "cleanup"
        BY <1>c, <2>1, <4>1, UpdateFrame DEF Update!Replacing
      <4> QED
        BY <3>2, <4>1, <4>2, <4>3 DEF Update!Executable
    <3>7. CASE ~(Update!Stage(c) \/ Update!Swap(c) \/ Update!Rollback(c) \/ Update!Cleanup(c))
      <4>1. world'["path"] = world["path"] /\ world'["backup"] = world["backup"]
        BY <1>c, <3>7, UpdateWrites
        DEF Update!Step, Update!Start, Update!Manifest, Update!Confirm, Update!Look,
            Update!VerifyCandidate, Update!Recheck, Update!EnsureNoBackup, Update!SwapFails,
            Update!Crash
      <4>2. pc'[c] # "cleanup"
        BY <1>c, <1>1, <3>7
        DEF UpdatePastTyped, Update!Step, Update!Start, Update!Manifest, Update!Confirm,
            Update!Look, Update!Create, Update!Download, Update!VerifyCandidate, Update!Recheck,
            Update!EnsureNoBackup, Update!SwapFails, Update!Refuse, Update!Crash, Update!Return,
            Update!Goto
      <4>3. \A d \in Invocation : pc'[d] = "cleanup" => pc[d] = "cleanup" /\ run'[d] = run[d]
        BY <1>c, <4>2, UpdateFrame
      <4> QED
        BY <3>1, <3>2, <4>1, <4>3 DEF Update!Executable
    <3> QED
      BY <3>3, <3>4, <3>5, <3>6, <3>7
  <2> QED
    BY <2>4, <2>5
<1> QED
  BY <1>c, <1>o DEF Update!Next, UpdateAnswers

\* UpdateInv is an invariant of self-update.
LEMMA UpdateInvHolds ==
  /\ Update!Init => UpdateInv
  /\ UpdateInv /\ Update!Next => UpdateInv'
BY UpdateInitTypes, UpdateTypes, UpdateHistoryInit, UpdateHistoryStays, UpdateDirectoryInit,
   UpdateDirectoryStays, UpdateAnswersStay DEF UpdateInv

\* It says that an executable survives and that answers are true.
LEMMA UpdateInvSays ==
  UpdateInv => Update!TypeOK /\ Update!ExecutableSurvives /\ Update!UpdateVerdictIsTrue
<1> SUFFICES ASSUME UpdateInv PROVE Update!ExecutableSurvives /\ Update!UpdateVerdictIsTrue
  BY DEF UpdateInv
<1>1. UpdateFilesTyped(world)
  BY UpdateTyped DEF UpdateInv
<1>2. Update!ExecutableSurvives
  BY DEF UpdateInv, UpdateDirectory, UpdateWhole, UpdateCalm, Update!ExecutableSurvives
<1>3. ASSUME UpdateCalm, NEW c \in Invocation, verdict[c] = "installed", ~past.blind
      PROVE /\ Update!Older(run[c].own, run[c].to)
            /\ \E n \in {"path", "backup"} :
                 Update!Executable(world[n]) /\ ~Update!Older(world[n].ver, run[c].to)
  BY <1>3 DEF UpdateInv, UpdateHistory, UpdateAgreed, UpdateAnswers
<1>4. ASSUME UpdateCalm, NEW c \in Invocation, verdict[c] = "refused"
      PROVE /\ \A n \in Update!Places : world[n].by # c
            /\ Update!Executable(world["path"]) \/ past.mover # c
  <2>1. UpdateLeft(c)
    BY DEF UpdateInv, UpdateHistory
  <2>2. world["path"].by # c /\ world["backup"].by # c /\ world[c] = Update!Absent
    BY <1>4, <2>1 DEF UpdateLeft
  <2>3. \A d \in Invocation \ {c} : world[d].by # c
    BY <1>1, UpdateKinds, Names DEF UpdateFilesTyped
  <2>4. \A n \in Update!Places : world[n].by # c
    BY <2>2, <2>3, UpdateKinds, Names DEF Update!Places
  <2> QED
    BY <1>4, <2>4 DEF UpdateInv, UpdateDirectory
<1> QED
  BY <1>2, <1>3, <1>4 DEF Update!UpdateVerdictIsTrue, UpdateCalm

\* And that a step replaces the executable that was seen, by a newer one.
LEMMA UpdateInvReplaces ==
  ASSUME UpdateInv, UpdateInv', Update!Next \/ UNCHANGED vars
  PROVE Update!ReplacesSeen
<1> SUFFICES ASSUME NEW c \in Invocation, pc[c] = "stage", pc'[c] = "swap"
             PROVE /\ "recheck" \notin past.stale[c] => world["path"].by = run[c].seen
                   /\ past.stale[c] = {} => Update!Older(world["path"].ver, run[c].to)
  BY DEF Update!ReplacesSeen
<1>1. UpdateKnown(c) /\ UpdateAgreed(c)
  BY DEF UpdateInv, UpdateHistory
<1> QED
  BY <1>1 DEF UpdateKnown, UpdateAgreed
-----------------------------------------------------------------------------
(***************************************************************************)
(* Setup hooks (SetupHooks).                                               *)
(* Files of lines: what setup computes for one keeps what it says besides; *)
(* a run writes its files in order and puts them back in reverse.          *)
(***************************************************************************)

\* What a target file can hold: a hook file that is one has both its parts.
SetupBody(i) ==
  IF Targets[i] = "hooks" THEN {b \in Seq(Setup!Word) : Len(b) \in {0, 2}}
  ELSE Seq(Setup!Word)

\* What was planned is what the files that were read call for.
SetupPlanned(c) ==
  \A i \in DOMAIN run[c].plan :
    /\ run[c].plan[i].before.body \in SetupBody(i)
    /\ run[c].plan[i].before.is # "file" => run[c].plan[i].before.body = <<>>
    /\ run[c].plan[i].body = Setup!Computed(i, run[c].plan[i].before.body)
    /\ run[c].plan[i].body # Setup!Wrong

\* How far a run has come: files are written in order, each once, and put back in reverse.
SetupCame(c) ==
  /\ pc[c] = "plan" => run[c].at = 1 /\ run[c].written = <<>> /\ ~run[c].unclean
  /\ pc[c] = "write" => ~run[c].unclean
  /\ pc[c] \in {"write", "undo"} => Len(run[c].plan) = Len(Targets)
  /\ pc[c] # "setup" => verdict[c] = "none"
  /\ \A j, k \in DOMAIN run[c].written : j < k => run[c].written[j] < run[c].written[k]
  /\ \A j \in DOMAIN run[c].written : run[c].written[j] < run[c].at

\* What the files that nobody else has changed hold.
SetupWrote(c, i) == \E j \in DOMAIN run[c].written : run[c].written[j] = i
SetupPut(c, i) == Setup!Holding(run[c].plan[i].body)
SetupHolds(c) ==
  \A i \in DOMAIN run[c].plan \ past[c] :
    /\ pc[c] = "plan" => world[i] = run[c].plan[i].before
    /\ pc[c] \in {"write", "undo"} /\ SetupWrote(c, i) => world[i] = SetupPut(c, i)
    /\ pc[c] = "write" /\ ~SetupWrote(c, i) =>
         /\ world[i] = run[c].plan[i].before
         /\ i < run[c].at => world[i] = SetupPut(c, i)
    /\ pc[c] = "undo" /\ ~SetupWrote(c, i) /\ ~run[c].unclean =>
         world[i] = run[c].plan[i].before
    /\ verdict[c] = "installed" => world[i] = SetupPut(c, i)
    /\ verdict[c] = "refused" => world[i] = run[c].plan[i].before

SetupInv ==
  /\ Setup!TypeOK /\ \A i \in Setup!Index : world[i].body \in SetupBody(i)
  /\ \A c \in Invocation : SetupPlanned(c) /\ SetupCame(c) /\ SetupHolds(c)

\* The least of some numbers.
LEMMA Least ==
  ASSUME NEW S, S \subseteq Nat, S # {}
  PROVE Setup!Min(S) \in S /\ \A n \in S : Setup!Min(S) <= n
<1>1. PICK m \in S : \A n \in S : ~(<<n, m>> \in OpToRel(<, Nat))
  BY NatLessThanWellFounded, WFMin
<1>2. \A n \in S : m <= n
  <2>1. SUFFICES ASSUME NEW n \in S PROVE m <= n
    OBVIOUS
  <2>2. ~(n < m)
    BY <1>1 DEF OpToRel
  <2> QED
    BY <2>2
<1>3. \E x \in S : \A y \in S : x =< y
  BY <1>2
<1> QED
  BY <1>3 DEF Setup!Min

\* The first line of some kinds.
LEMMA FirstLine ==
  ASSUME NEW T, NEW s \in Seq(T), NEW from \in Nat \ {0}, NEW kinds
  PROVE /\ Setup!FirstOf(s, from, kinds) \in 1..Len(s) + 1
        /\ Setup!FirstOf(s, from, kinds) <= Len(s) =>
             /\ from <= Setup!FirstOf(s, from, kinds)
             /\ s[Setup!FirstOf(s, from, kinds)] \in kinds
        /\ \A j \in from..Len(s) : s[j] \in kinds => Setup!FirstOf(s, from, kinds) <= j
<1> DEFINE found == {j \in from..Len(s) : s[j] \in kinds}
           S == found \cup {Len(s) + 1}
<1>1. Len(s) \in Nat /\ S \subseteq Nat /\ S # {} /\ \A j \in S : j \in 1..Len(s) + 1
  OBVIOUS
<1>2. Setup!FirstOf(s, from, kinds) = Setup!Min(S)
  BY DEF Setup!FirstOf
<1>3. Setup!Min(S) \in S /\ \A n \in S : Setup!Min(S) <= n
  <2> HIDE DEF S
  <2> QED
    BY <1>1, Least
<1>4. Setup!Min(S) \in 1..Len(s) + 1
  BY <1>1, <1>3
<1>5. Setup!Min(S) <= Len(s) => Setup!Min(S) \in found
  BY <1>1, <1>3
<1>6. \A j \in found : Setup!Min(S) <= j
  BY <1>3
<1> HIDE DEF S
<1> QED
  BY <1>2, <1>4, <1>5, <1>6

\* A line of these kinds with none before it is the first one.
LEMMA FirstLineIs ==
  ASSUME NEW T, NEW s \in Seq(T), NEW from \in Nat \ {0}, NEW kinds,
         NEW f \in 1..Len(s) + 1, f <= Len(s) => from <= f /\ s[f] \in kinds,
         \A j \in from..Len(s) : s[j] \in kinds => f <= j
  PROVE Setup!FirstOf(s, from, kinds) = f
<1> DEFINE g == Setup!FirstOf(s, from, kinds)
<1>1. Len(s) \in Nat
  OBVIOUS
<1>2. /\ g \in 1..Len(s) + 1
      /\ g <= Len(s) => from <= g /\ s[g] \in kinds
      /\ \A j \in from..Len(s) : s[j] \in kinds => g <= j
  BY FirstLine
<1> HIDE DEF g
<1>3. f <= g
  <2>1. CASE g <= Len(s)
    BY <1>1, <1>2, <2>1
  <2>2. CASE ~(g <= Len(s))
    BY <1>1, <1>2, <2>2
  <2> QED
    BY <2>1, <2>2
<1>4. g <= f
  <2>1. CASE f <= Len(s)
    BY <1>1, <1>2, <2>1
  <2>2. CASE ~(f <= Len(s))
    BY <1>1, <1>2, <2>2
  <2> QED
    BY <2>1, <2>2
<1>5. f = g
  BY <1>1, <1>2, <1>3, <1>4
<1> QED
  BY <1>5 DEF g

\* Where the section of the first [features] table is.
LEMMA SectionFacts ==
  ASSUME NEW T, NEW s \in Seq(T)
  PROVE /\ Setup!First(s) \in 1..Len(s) + 1 /\ Setup!SectionEnd(s) \in 1..Len(s) + 1
        /\ Setup!First(s) <= Len(s) =>
             s[Setup!First(s)] = "features" /\ Setup!First(s) + 1 <= Setup!SectionEnd(s)
        /\ Setup!First(s) > Len(s) => Setup!SectionEnd(s) = Len(s) + 1
        /\ \A j \in 1..Len(s) : s[j] = "features" => Setup!First(s) <= j
        /\ Setup!SectionEnd(s) <= Len(s) => s[Setup!SectionEnd(s)] \in Setup!Header
        /\ \A j \in Setup!Section(s) : j \in 1..Len(s) /\ s[j] \notin Setup!Header
        /\ Setup!Keys(s) = {k \in Setup!Section(s) : s[k] \in Setup!Key}
<1> DEFINE f == Setup!First(s)
           e == Setup!SectionEnd(s)
<1>1. /\ f \in 1..Len(s) + 1
      /\ f <= Len(s) => s[f] = "features"
      /\ \A j \in 1..Len(s) : s[j] = "features" => f <= j
  <2>1. f = Setup!FirstOf(s, 1, {"features"})
    BY DEF Setup!First
  <2>2. /\ Setup!FirstOf(s, 1, {"features"}) \in 1..Len(s) + 1
        /\ Setup!FirstOf(s, 1, {"features"}) <= Len(s) =>
             s[Setup!FirstOf(s, 1, {"features"})] \in {"features"}
        /\ \A j \in 1..Len(s) :
             s[j] \in {"features"} => Setup!FirstOf(s, 1, {"features"}) <= j
    BY FirstLine
  <2> HIDE DEF f
  <2> QED
    BY <2>1, <2>2
<1>2. f \in Nat \ {0} /\ Len(s) \in Nat
  BY <1>1
<1>3. /\ e \in 1..Len(s) + 1
      /\ e <= Len(s) => f + 1 <= e /\ s[e] \in Setup!Header
      /\ \A j \in f + 1..Len(s) : s[j] \in Setup!Header => e <= j
  <2>1. e = Setup!FirstOf(s, f + 1, Setup!Header)
    BY DEF Setup!SectionEnd
  <2> HIDE DEF f, e
  <2>2. f + 1 \in Nat \ {0}
    BY <1>2
  <2>3. /\ Setup!FirstOf(s, f + 1, Setup!Header) \in 1..Len(s) + 1
        /\ Setup!FirstOf(s, f + 1, Setup!Header) <= Len(s) =>
             /\ f + 1 <= Setup!FirstOf(s, f + 1, Setup!Header)
             /\ s[Setup!FirstOf(s, f + 1, Setup!Header)] \in Setup!Header
        /\ \A j \in f + 1..Len(s) :
             s[j] \in Setup!Header => Setup!FirstOf(s, f + 1, Setup!Header) <= j
    BY <2>2, FirstLine
  <2> QED
    BY <2>1, <2>3
<1>4. Setup!Section(s) = f + 1..e - 1
  BY DEF Setup!Section
<1>5. Setup!Keys(s) = {k \in Setup!Section(s) : s[k] \in Setup!Key}
  BY DEF Setup!Keys
<1> HIDE DEF f, e
<1>6. f <= Len(s) => f + 1 <= e
  BY <1>1, <1>2, <1>3
<1>7. f > Len(s) => e = Len(s) + 1
  BY <1>1, <1>2, <1>3
<1>8. \A j \in Setup!Section(s) : j \in 1..Len(s) /\ s[j] \notin Setup!Header
  <2>1. SUFFICES ASSUME NEW j \in f + 1..e - 1 PROVE j \in 1..Len(s) /\ s[j] \notin Setup!Header
    BY <1>4
  <2>2. j \in f + 1..Len(s) /\ j \in 1..Len(s) /\ ~(e <= j)
    BY <1>2, <1>3, <2>1
  <2> QED
    BY <1>3, <2>2
<1> QED
  BY <1>1, <1>3, <1>5, <1>6, <1>7, <1>8 DEF f, e

\* From the first header of [features] to the next header is the section.
LEMMA SectionIs ==
  ASSUME NEW T, NEW s \in Seq(T), NEW f \in 1..Len(s), s[f] = "features",
         \A j \in 1..Len(s) : s[j] = "features" => f <= j,
         NEW e \in f + 1..Len(s) + 1, e <= Len(s) => s[e] \in Setup!Header,
         \A j \in f + 1..e - 1 : s[j] \notin Setup!Header
  PROVE Setup!First(s) = f /\ Setup!SectionEnd(s) = e /\ Setup!Section(s) = f + 1..e - 1
<1>1. Len(s) \in Nat /\ f \in 1..Len(s) + 1 /\ e \in 1..Len(s) + 1 /\ f + 1 \in Nat \ {0}
  OBVIOUS
<1>2. Setup!First(s) = f
  <2>1. /\ f <= Len(s) => 1 <= f /\ s[f] \in {"features"}
        /\ \A j \in 1..Len(s) : s[j] \in {"features"} => f <= j
    OBVIOUS
  <2>2. PICK K : K = {"features"}
    OBVIOUS
  <2>3. PICK one \in Nat \ {0} : one = 1
    OBVIOUS
  <2>4. Setup!FirstOf(s, one, K) = f
    <3>1. /\ f <= Len(s) => one <= f /\ s[f] \in K
          /\ \A j \in one..Len(s) : s[j] \in K => f <= j
      BY <2>1, <2>2, <2>3
    <3> QED
      BY ONLY <1>1, <3>1, s \in Seq(T), one \in Nat \ {0}, FirstLineIs
  <2> QED
    BY <2>2, <2>3, <2>4 DEF Setup!First
<1>3. Setup!SectionEnd(s) = e
  <2>1. \A j \in f + 1..Len(s) : s[j] \in Setup!Header => e <= j
    <3>1. SUFFICES ASSUME NEW j \in f + 1..Len(s), ~(e <= j) PROVE s[j] \notin Setup!Header
      OBVIOUS
    <3>2. j \in f + 1..e - 1
      BY <1>1, <3>1
    <3> QED
      BY <3>2
  <2>2. Setup!FirstOf(s, f + 1, Setup!Header) = e
    <3>1. e <= Len(s) => f + 1 <= e /\ s[e] \in Setup!Header
      OBVIOUS
    <3> QED
      BY <1>1, <2>1, <3>1, FirstLineIs
  <2> QED
    BY <1>2, <2>2 DEF Setup!SectionEnd
<1> QED
  BY <1>2, <1>3 DEF Setup!Section

\* What is kept of a file of lines.
SetupKeeps(new, old) ==
  /\ SubSeq(new, 1, Setup!First(new) - 1) = SubSeq(old, 1, Setup!First(old) - 1)
  /\ [k \in Setup!Section(new) \ Setup!Keys(new) |-> new[k]]
       = [k \in Setup!Section(old) \ Setup!Keys(old) |-> old[k]]
  /\ SubSeq(new, Setup!SectionEnd(new), Len(new))
       = SubSeq(old, Setup!SectionEnd(old), Len(old))
SetupPlain(s) ==
  /\ \A j, k \in DOMAIN s : s[j] = "features" /\ s[k] = "features" => j = k
  /\ \A j, k \in Setup!Keys(s) : j = k
  /\ \A k \in DOMAIN s : s[k] # "dotted"
SetupOn(s) == SetupPlain(s) /\ \E k \in Setup!Keys(s) : s[k] = "on"

\* Two pieces of sequences are the same.
LEMMA SamePiece ==
  ASSUME NEW s \in Seq(Setup!Word), NEW t \in Seq(Setup!Word),
         NEW a \in Nat \ {0}, NEW b \in 0..Len(s), NEW c \in Nat \ {0}, NEW d \in 0..Len(t),
         a <= b + 1, d - c = b - a,
         \A j \in 0..b - a : s[a + j] = t[c + j]
  PROVE SubSeq(s, a, b) = SubSeq(t, c, d)
<1>1. Len(s) \in Nat /\ Len(t) \in Nat
  OBVIOUS
<1>2. \A j \in a..b : s[j] \in Setup!Word
  <2>1. \A j \in a..b : j \in 1..Len(s)
    BY <1>1
  <2>2. \A j \in 1..Len(s) : s[j] \in Setup!Word
    OBVIOUS
  <2> QED
    BY <2>1, <2>2
<1>3. \A j \in c..d : t[j] \in Setup!Word
  <2>1. \A j \in c..d : j \in 1..Len(t)
    BY <1>1
  <2>2. \A j \in 1..Len(t) : t[j] \in Setup!Word
    OBVIOUS
  <2> QED
    BY <2>1, <2>2
<1>4. /\ SubSeq(s, a, b) \in Seq(Setup!Word)
      /\ Len(SubSeq(s, a, b)) = IF a <= b THEN b - a + 1 ELSE 0
      /\ \A j \in 1..b - a + 1 : SubSeq(s, a, b)[j] = s[a + j - 1]
  BY <1>1, <1>2, SubSeqProperties
<1>5. /\ SubSeq(t, c, d) \in Seq(Setup!Word)
      /\ Len(SubSeq(t, c, d)) = IF c <= d THEN d - c + 1 ELSE 0
      /\ \A j \in 1..d - c + 1 : SubSeq(t, c, d)[j] = t[c + j - 1]
  BY <1>1, <1>3, SubSeqProperties
<1>6. Len(SubSeq(s, a, b)) = b - a + 1 /\ Len(SubSeq(t, c, d)) = b - a + 1
  BY <1>1, <1>4, <1>5
<1>7. \A j \in 1..b - a + 1 : SubSeq(s, a, b)[j] = SubSeq(t, c, d)[j]
  <2>1. SUFFICES ASSUME NEW j \in 1..b - a + 1 PROVE SubSeq(s, a, b)[j] = SubSeq(t, c, d)[j]
    OBVIOUS
  <2>2. j - 1 \in 0..b - a /\ a + (j - 1) = a + j - 1 /\ c + (j - 1) = c + j - 1
        /\ j \in 1..d - c + 1
    BY <1>1
  <2>3. s[a + (j - 1)] = t[c + (j - 1)]
    BY <2>2
  <2> QED
    BY <1>4, <1>5, <2>2, <2>3
<1> QED
  BY <1>4, <1>5, <1>6, <1>7, SeqEqual

\* They begin in the same way.
LEMMA SameBeginning ==
  ASSUME NEW s \in Seq(Setup!Word), NEW t \in Seq(Setup!Word), NEW g \in Nat, g <= Len(s), g <= Len(t),
         \A j \in 1..g : s[j] = t[j]
  PROVE SubSeq(s, 1, g) = SubSeq(t, 1, g)
<1>1. g \in 0..Len(s) /\ g \in 0..Len(t) /\ 1 \in Nat \ {0} /\ 1 <= g + 1
  OBVIOUS
<1>2. \A j \in 0..g - 1 : s[1 + j] = t[1 + j]
  <2>1. \A j \in 0..g - 1 : 1 + j \in 1..g
    OBVIOUS
  <2> QED
    BY <2>1
<1> QED
  BY <1>1, <1>2, SamePiece

\* They end in the same way.
LEMMA SameEnd ==
  ASSUME NEW s \in Seq(Setup!Word), NEW t \in Seq(Setup!Word), NEW e \in Nat \ {0}, NEW n \in Nat,
         e <= n + 1, Len(s) = n, Len(t) = n,
         \A j \in e..n : s[j] = t[j]
  PROVE SubSeq(s, e, n) = SubSeq(t, e, n)
<1>1. \A j \in e..n : j \in 1..n /\ s[j] \in Setup!Word /\ t[j] \in Setup!Word
  <2>1. \A j \in e..n : j \in 1..n
    OBVIOUS
  <2>2. \A j \in 1..n : s[j] \in Setup!Word /\ t[j] \in Setup!Word
    OBVIOUS
  <2> QED
    BY <2>1, <2>2
<1>2. /\ SubSeq(s, e, n) \in Seq(Setup!Word)
      /\ Len(SubSeq(s, e, n)) = IF e <= n THEN n - e + 1 ELSE 0
      /\ \A j \in 1..n - e + 1 : SubSeq(s, e, n)[j] = s[e + j - 1]
  BY <1>1, SubSeqProperties
<1>3. /\ SubSeq(t, e, n) \in Seq(Setup!Word)
      /\ Len(SubSeq(t, e, n)) = IF e <= n THEN n - e + 1 ELSE 0
      /\ \A j \in 1..n - e + 1 : SubSeq(t, e, n)[j] = t[e + j - 1]
  BY <1>1, SubSeqProperties
<1>4. Len(SubSeq(s, e, n)) = n - e + 1 /\ Len(SubSeq(t, e, n)) = n - e + 1
  BY <1>2, <1>3
<1>5. ASSUME NEW j \in 1..n - e + 1 PROVE SubSeq(s, e, n)[j] = SubSeq(t, e, n)[j]
  <2>1. PICK k \in e..n : k = e + j - 1
    OBVIOUS
  <2>2. s[k] = t[k]
    BY <2>1
  <2> QED
    BY <1>2, <1>3, <2>1, <2>2
<1> QED
  BY <1>2, <1>3, <1>4, <1>5, SeqEqual

\* The other lines of two sections are the same if the sections are.
LEMMA SameSection ==
  ASSUME NEW s, NEW t,
         Setup!Section(s) \ Setup!Keys(s) = Setup!Section(t) \ Setup!Keys(t),
         \A k \in Setup!Section(t) \ Setup!Keys(t) : s[k] = t[k]
  PROVE [k \in Setup!Section(s) \ Setup!Keys(s) |-> s[k]]
          = [k \in Setup!Section(t) \ Setup!Keys(t) |-> t[k]]
<1>1. PICK A, B : A = Setup!Section(s) \ Setup!Keys(s) /\ B = Setup!Section(t) \ Setup!Keys(t)
  OBVIOUS
<1>2. A = B /\ \A k \in B : s[k] = t[k]
  BY <1>1
<1>3. [k \in A |-> s[k]] = [k \in B |-> t[k]]
  BY ONLY <1>2
<1> QED
  BY <1>1, <1>3

\* The words of the setting are words.
LEMMA SettingWords ==
  {"features", "on", "ours", "none", "wrong"} \ {"wrong"} \subseteq Setup!Word
  /\ "on" \notin Setup!Header /\ "on" \in Setup!Key /\ "features" \in Setup!Header
  /\ Setup!Key \cap Setup!Header = {}
BY DEF Setup!Word, Setup!Lines, Setup!Header, Setup!Key

\* The section is put at the end of a file that has none.
LEMMA SettingAppended ==
  ASSUME NEW s \in Seq(Setup!Word), Setup!First(s) > Len(s)
  PROVE LET t == s \o <<"features", "on">> IN
        /\ t \in Seq(Setup!Word) /\ SetupKeeps(t, s)
        /\ SetupPlain(s) => SetupOn(t)
<1>1. PICK u : u = <<"features", "on">>
  OBVIOUS
<1>2. /\ u \in Seq(Setup!Word) /\ Len(u) = 2 /\ u[1] = "features" /\ u[2] = "on"
      /\ "features" \in Setup!Word /\ "on" \in Setup!Word
  BY <1>1, SettingWords
<1>3. PICK t : t = s \o u
  OBVIOUS
<1>4. PICK n : n = Len(s)
  OBVIOUS
<1>5. n \in Nat
  BY <1>4
<1>6. /\ t \in Seq(Setup!Word) /\ Len(t) = n + 2
      /\ \A j \in 1..n : t[j] = s[j]
      /\ t[n + 1] = "features" /\ t[n + 2] = "on"
  <2>1. /\ t \in Seq(Setup!Word) /\ Len(t) = Len(s) + Len(u)
        /\ \A j \in 1..Len(s) + Len(u) : t[j] = IF j <= Len(s) THEN s[j] ELSE u[j - Len(s)]
    BY <1>2, <1>3, ConcatProperties
  <2>2. Len(t) = n + 2 /\ \A j \in 1..n + 2 : t[j] = IF j <= n THEN s[j] ELSE u[j - n]
    BY <1>2, <1>4, <2>1
  <2>3. \A j \in 1..n : j \in 1..n + 2 /\ j <= n
    BY <1>5
  <2>4. /\ n + 1 \in 1..n + 2 /\ ~(n + 1 <= n) /\ n + 1 - n = 1
        /\ n + 2 \in 1..n + 2 /\ ~(n + 2 <= n) /\ n + 2 - n = 2
    BY <1>5
  <2>5. t[n + 1] = u[1] /\ t[n + 2] = u[2]
    <3>1. \A j \in 1..n + 2 : ~(j <= n) => t[j] = u[j - n]
      BY <2>2
    <3>2. t[n + 1] = u[n + 1 - n]
      BY <1>5, <3>1
    <3>3. t[n + 2] = u[n + 2 - n]
      BY <1>5, <3>1
    <3> QED
      BY <2>4, <3>2, <3>3
  <2> QED
    BY <1>2, <2>1, <2>2, <2>3, <2>5
<1>7. /\ Setup!First(s) = n + 1 /\ Setup!SectionEnd(s) = n + 1
      /\ \A j \in 1..n : s[j] # "features"
  BY <1>4, <1>5, SectionFacts
<1>8. \A j \in 1..n + 2 : j \in 1..n \/ j = n + 1 \/ j = n + 2
  BY <1>5
<1>9. /\ Setup!First(t) = n + 1 /\ Setup!SectionEnd(t) = n + 3
      /\ Setup!Section(t) = n + 2..n + 2
  <2>1. \A j \in 1..Len(t) : t[j] = "features" => n + 1 <= j
    BY <1>5, <1>6, <1>7, <1>8
  <2>2. /\ n + 1 \in 1..Len(t) /\ n + 3 \in (n + 1) + 1..Len(t) + 1 /\ ~(n + 3 <= Len(t))
        /\ (n + 1) + 1 = n + 2 /\ (n + 3) - 1 = n + 2
    BY <1>5, <1>6
  <2>3. \A j \in (n + 1) + 1..(n + 3) - 1 : t[j] \notin Setup!Header
    <3>1. \A j \in n + 2..n + 2 : j = n + 2
      BY <1>5
    <3> QED
      BY <1>6, <2>2, <3>1, SettingWords
  <2> QED
    BY ZenonT(40), <1>6, <2>1, <2>2, <2>3, SectionIs
<1>10. Setup!Keys(t) = {n + 2} /\ Setup!Section(t) = {n + 2}
  <2>1. Setup!Section(t) = {n + 2}
    BY <1>5, <1>9
  <2> QED
    BY <1>6, <2>1, SettingWords DEF Setup!Keys
<1>11. Setup!Section(s) = {}
  BY <1>5, <1>7 DEF Setup!Section
<1>12. SetupKeeps(t, s)
  <2>1. SubSeq(t, 1, n) = SubSeq(s, 1, n)
    <3>1. n <= Len(s) /\ n <= Len(t)
      BY <1>4, <1>5, <1>6
    <3> QED
      BY <1>5, <1>6, <3>1, SameBeginning
  <2>2. SubSeq(t, n + 3, n + 2) = <<>> /\ SubSeq(s, n + 1, n) = <<>>
    BY <1>5, SubSeqEmpty
  <2>3. [k \in Setup!Section(t) \ Setup!Keys(t) |-> t[k]]
          = [k \in Setup!Section(s) \ Setup!Keys(s) |-> s[k]]
    BY <1>10, <1>11, SameSection
  <2>4. n + 1 - 1 = n
    BY <1>5
  <2> QED
    BY <1>4, <1>6, <1>7, <1>9, <2>1, <2>2, <2>3, <2>4 DEF SetupKeeps
<1>13. SetupPlain(s) => SetupOn(t)
  <2>1. SUFFICES ASSUME SetupPlain(s) PROVE SetupOn(t)
    OBVIOUS
  <2>2. DOMAIN t = 1..n + 2 /\ DOMAIN s = 1..n
    BY <1>4, <1>6
  <2>3. \A j \in DOMAIN t : (t[j] = "features" => j = n + 1) /\ t[j] # "dotted"
    BY <1>6, <1>7, <1>8, <2>1, <2>2 DEF SetupPlain
  <2>4. SetupPlain(t)
    BY <1>10, <2>3 DEF SetupPlain
  <2> QED
    BY <1>6, <1>10, <2>4 DEF SetupOn
<1> QED
  BY <1>1, <1>3, <1>6, <1>12, <1>13

\* What inserting a line does.
LEMMA Inserted ==
  ASSUME NEW s \in Seq(Setup!Word), NEW e \in 1..Len(s) + 1, NEW x \in Setup!Word,
         NEW t, t = Setup!InsertAt(s, e, x)
  PROVE /\ t \in Seq(Setup!Word) /\ Len(t) = Len(s) + 1
        /\ \A j \in 1..e - 1 : t[j] = s[j]
        /\ t[e] = x
        /\ \A j \in e..Len(s) : t[j + 1] = s[j]
<1>1. PICK n : n = Len(s)
  OBVIOUS
<1>2. n \in Nat /\ e \in 1..n + 1
  BY <1>1
<1>3. PICK a : a = SubSeq(s, 1, e - 1)
  OBVIOUS
<1>4. PICK b : b = SubSeq(s, e, n)
  OBVIOUS
<1>5. \A j \in 1..n : s[j] \in Setup!Word
  BY <1>1
<1>6. a \in Seq(Setup!Word) /\ Len(a) = e - 1 /\ \A j \in 1..e - 1 : a[j] = s[j]
  <2>1. \A j \in 1..e - 1 : s[j] \in Setup!Word
    BY <1>2, <1>5
  <2>2. 1 \in Int /\ e - 1 \in Int
    BY <1>2
  <2>3. /\ a \in Seq(Setup!Word) /\ Len(a) = IF 1 <= e - 1 THEN e - 1 - 1 + 1 ELSE 0
        /\ \A j \in 1..e - 1 - 1 + 1 : a[j] = s[1 + j - 1]
    BY <1>3, <2>1, <2>2, SubSeqProperties
  <2>4. Len(a) = e - 1
    BY <1>2, <2>3
  <2>5. ASSUME NEW j \in 1..e - 1 PROVE a[j] = s[j]
    <3>1. j \in 1..e - 1 - 1 + 1 /\ 1 + j - 1 = j
      BY <1>2
    <3> QED
      BY <2>3, <3>1
  <2> QED
    BY <2>3, <2>4, <2>5
<1>7. b \in Seq(Setup!Word) /\ Len(b) = n + 1 - e /\ \A j \in 1..n + 1 - e : b[j] = s[e + j - 1]
  <2>1. \A j \in e..n : s[j] \in Setup!Word
    BY <1>2, <1>5
  <2>2. e \in Int /\ n \in Int
    BY <1>2
  <2>3. /\ b \in Seq(Setup!Word) /\ Len(b) = IF e <= n THEN n - e + 1 ELSE 0
        /\ \A j \in 1..n - e + 1 : b[j] = s[e + j - 1]
    BY <1>4, <2>1, <2>2, SubSeqProperties
  <2>4. Len(b) = n + 1 - e /\ n - e + 1 = n + 1 - e
    BY <1>2, <2>3
  <2> QED
    BY <2>3, <2>4
<1>8. PICK d : d = a \o <<x>>
  OBVIOUS
<1>9. d \in Seq(Setup!Word) /\ Len(d) = e /\ d[e] = x /\ \A j \in 1..e - 1 : d[j] = s[j]
  <2>1. PICK u : u = <<x>>
    OBVIOUS
  <2>2. u \in Seq(Setup!Word) /\ Len(u) = 1 /\ u[1] = x
    BY <2>1
  <2>3. /\ d \in Seq(Setup!Word) /\ Len(d) = Len(a) + Len(u)
        /\ \A j \in 1..Len(a) + Len(u) : d[j] = IF j <= Len(a) THEN a[j] ELSE u[j - Len(a)]
    BY <1>6, <1>8, <2>1, <2>2, ConcatProperties
  <2>4. /\ e - 1 + 1 = e /\ e \in 1..e /\ ~(e <= e - 1) /\ e - (e - 1) = 1
        /\ \A j \in 1..e - 1 : j \in 1..e /\ j <= e - 1
    BY <1>2
  <2>5. Len(d) = e /\ \A j \in 1..e : d[j] = IF j <= e - 1 THEN a[j] ELSE u[j - (e - 1)]
    BY <1>6, <2>2, <2>3, <2>4
  <2>6. /\ \A j \in 1..e : j <= e - 1 => d[j] = a[j]
        /\ \A j \in 1..e : ~(j <= e - 1) => d[j] = u[j - (e - 1)]
    BY <2>5
  <2>7. d[e] = u[e - (e - 1)]
    BY <2>4, <2>6
  <2>8. d[e] = x
    BY <2>2, <2>4, <2>7
  <2>9. \A j \in 1..e - 1 : d[j] = s[j]
    BY <1>6, <2>4, <2>6
  <2> QED
    BY <2>3, <2>5, <2>8, <2>9
<1>10. t = d \o b
  BY <1>1, <1>3, <1>4, <1>8 DEF Setup!InsertAt
<1>11. /\ t \in Seq(Setup!Word) /\ Len(t) = e + (n + 1 - e)
       /\ \A j \in 1..e + (n + 1 - e) : t[j] = IF j <= e THEN d[j] ELSE b[j - e]
  <2>1. /\ t \in Seq(Setup!Word) /\ Len(t) = Len(d) + Len(b)
        /\ \A j \in 1..Len(d) + Len(b) : t[j] = IF j <= Len(d) THEN d[j] ELSE b[j - Len(d)]
    BY ONLY <1>7, <1>9, <1>10, ConcatProperties
  <2> QED
    BY <1>7, <1>9, <2>1
<1>12. /\ e + (n + 1 - e) = n + 1 /\ e \in 1..n + 1 /\ e <= e
       /\ \A j \in 1..e - 1 : j \in 1..n + 1 /\ j <= e
       /\ \A j \in e..n : j + 1 \in 1..n + 1 /\ ~(j + 1 <= e) /\ j + 1 - e \in 1..n + 1 - e
                          /\ e + (j + 1 - e) - 1 = j
  BY <1>2
<1>13. /\ \A j \in 1..n + 1 : j <= e => t[j] = d[j]
       /\ \A j \in 1..n + 1 : ~(j <= e) => t[j] = b[j - e]
  BY <1>11, <1>12
<1>14. \A j \in e..n : t[j + 1] = s[j]
  <2>1. SUFFICES ASSUME NEW j \in e..n PROVE t[j + 1] = s[j]
    OBVIOUS
  <2>2. t[j + 1] = b[j + 1 - e]
    BY <1>12, <1>13
  <2>3. b[j + 1 - e] = s[e + (j + 1 - e) - 1]
    BY <1>7, <1>12
  <2> QED
    BY <1>12, <2>2, <2>3
<1>15. t[e] = x /\ \A j \in 1..e - 1 : t[j] = s[j]
  BY <1>9, <1>12, <1>13
<1> QED
  BY <1>1, <1>11, <1>12, <1>14, <1>15

\* The setting is put at the end of a section that has none.
LEMMA SettingInserted ==
  ASSUME NEW s \in Seq(Setup!Word), Setup!First(s) <= Len(s), Setup!Keys(s) = {}
  PROVE /\ Setup!InsertSetting(s) \in Seq(Setup!Word) /\ SetupKeeps(Setup!InsertSetting(s), s)
        /\ SetupPlain(s) => SetupOn(Setup!InsertSetting(s))
<1>1. PICK n, f, e : n = Len(s) /\ f = Setup!First(s) /\ e = Setup!SectionEnd(s)
  OBVIOUS
<1>2. PICK t : t = Setup!InsertSetting(s)
  OBVIOUS
<1>3. /\ n \in Nat /\ f \in 1..n + 1 /\ e \in 1..n + 1 /\ f <= n
      /\ s[f] = "features" /\ f + 1 <= e
      /\ \A j \in 1..n : s[j] = "features" => f <= j
      /\ e <= n => s[e] \in Setup!Header
      /\ \A j \in Setup!Section(s) : j \in 1..n /\ s[j] \notin Setup!Header
  <2>1. n \in Nat
    BY <1>1
  <2> QED
    BY <1>1, <2>1, SectionFacts
<1>4. Setup!Section(s) = f + 1..e - 1
  BY <1>1 DEF Setup!Section
<1>5. /\ t \in Seq(Setup!Word) /\ Len(t) = n + 1
      /\ \A j \in 1..e - 1 : t[j] = s[j]
      /\ t[e] = "on"
      /\ \A j \in e..n : t[j + 1] = s[j]
  <2>1. t = Setup!InsertAt(s, e, "on") /\ "on" \in Setup!Word
    BY <1>1, <1>2, SettingWords DEF Setup!InsertSetting
  <2>2. PICK x \in Setup!Word : x = "on"
    BY <2>1
  <2>3. e \in 1..Len(s) + 1
    BY <1>1, <1>3
  <2>4. PICK i : i = Setup!InsertAt(s, e, x)
    OBVIOUS
  <2>5. /\ i \in Seq(Setup!Word) /\ Len(i) = Len(s) + 1
        /\ \A j \in 1..e - 1 : i[j] = s[j]
        /\ i[e] = x
        /\ \A j \in e..Len(s) : i[j + 1] = s[j]
    BY ONLY s \in Seq(Setup!Word), x \in Setup!Word, <2>3, <2>4, Inserted
  <2>6. t = i
    BY <2>1, <2>2, <2>4
  <2> QED
    BY ONLY <1>1, <2>2, <2>5, <2>6
<1>6. /\ \A j \in 1..n + 1 : j \in 1..e - 1 \/ j = e \/ (j - 1 \in e..n /\ (j - 1) + 1 = j)
      /\ f \in 1..e - 1 /\ \A j \in f + 1..e - 1 : j \in 1..e - 1
  BY <1>3
<1>7. /\ Setup!First(t) = f /\ Setup!SectionEnd(t) = e + 1
      /\ Setup!Section(t) = f + 1..(e + 1) - 1
  <2>1. \A j \in 1..Len(t) : t[j] = "features" => f <= j
    <3>1. SUFFICES ASSUME NEW j \in 1..n + 1, t[j] = "features" PROVE f <= j
      BY <1>5
    <3>2. CASE j \in 1..e - 1
      BY <1>3, <1>5, <3>1, <3>2
    <3>3. CASE j = e
      BY <1>3, <3>3
    <3>4. CASE j - 1 \in e..n
      BY <1>3, <3>4
    <3> QED
      BY <1>6, <3>2, <3>3, <3>4
  <2>2. f \in 1..Len(t) /\ t[f] = "features"
    BY <1>3, <1>5, <1>6
  <2>3. e + 1 \in f + 1..Len(t) + 1
    BY <1>3, <1>5
  <2>4. e + 1 <= Len(t) => t[e + 1] \in Setup!Header
    <3>1. SUFFICES ASSUME e + 1 <= n + 1 PROVE t[e + 1] \in Setup!Header
      BY <1>5
    <3>2. e <= n /\ e \in e..n
      BY <1>3, <3>1
    <3> QED
      BY <1>3, <1>5, <3>2
  <2>5. \A j \in f + 1..(e + 1) - 1 : t[j] \notin Setup!Header
    <3>1. SUFFICES ASSUME NEW j \in f + 1..(e + 1) - 1 PROVE t[j] \notin Setup!Header
      OBVIOUS
    <3>2. CASE j = e
      BY <1>5, <3>2, SettingWords
    <3>3. CASE j # e
      <4>1. j \in f + 1..e - 1 /\ j \in 1..e - 1
        BY <1>3, <3>3
      <4> QED
        BY <1>3, <1>4, <1>5, <4>1
    <3> QED
      BY <3>2, <3>3
  <2>6. PICK g : g = e + 1
    OBVIOUS
  <2> QED
    BY ONLY <1>5, <2>1, <2>2, <2>3, <2>4, <2>5, <2>6, SectionIs
<1>8. Setup!Keys(t) = {e}
  <2>1. \A k \in f + 1..e - 1 : s[k] \notin Setup!Key /\ t[k] = s[k]
    BY <1>4, <1>5, <1>6 DEF Setup!Keys
  <2>2. \A k \in f + 1..(e + 1) - 1 : k = e \/ k \in f + 1..e - 1
    BY <1>3
  <2>3. e \in f + 1..(e + 1) - 1
    BY <1>3
  <2> QED
    BY <1>5, <1>7, <2>1, <2>2, <2>3, SettingWords DEF Setup!Keys
<1>9. SetupKeeps(t, s)
  <2>1. SubSeq(t, 1, f - 1) = SubSeq(s, 1, f - 1)
    <3>1. /\ f - 1 \in Nat /\ f - 1 <= Len(s) /\ f - 1 <= Len(t)
          /\ \A j \in 1..f - 1 : j \in 1..e - 1
      BY <1>1, <1>3, <1>5
    <3>2. \A j \in 1..f - 1 : t[j] = s[j]
      BY <1>5, <3>1
    <3> QED
      BY <1>5, <3>1, <3>2, SameBeginning
  <2>2. SubSeq(t, e + 1, n + 1) = SubSeq(s, e, n)
    <3>1. \A j \in 0..n + 1 - (e + 1) : t[(e + 1) + j] = s[e + j]
      <4>1. \A j \in 0..n + 1 - (e + 1) : e + j \in e..n /\ (e + 1) + j = (e + j) + 1
        BY <1>3
      <4> QED
        BY <1>5, <4>1
    <3>2. /\ e + 1 \in Nat \ {0} /\ n + 1 \in 0..Len(t) /\ e \in Nat \ {0} /\ n \in 0..Len(s)
          /\ e + 1 <= (n + 1) + 1 /\ n - e = n + 1 - (e + 1)
      BY <1>1, <1>3, <1>5
    <3> QED
      BY <1>5, <3>1, <3>2, SamePiece
  <2>3. [k \in Setup!Section(t) \ Setup!Keys(t) |-> t[k]]
          = [k \in Setup!Section(s) \ Setup!Keys(s) |-> s[k]]
    <3>1. Setup!Section(t) \ Setup!Keys(t) = Setup!Section(s) \ Setup!Keys(s)
      <4>1. (f + 1..(e + 1) - 1) \ {e} = f + 1..e - 1
        BY <1>3
      <4> QED
        BY <1>4, <1>7, <1>8, <4>1
    <3>2. \A k \in Setup!Section(s) \ Setup!Keys(s) : t[k] = s[k]
      BY <1>4, <1>5, <1>6
    <3> QED
      BY <3>1, <3>2, SameSection
  <2> QED
    BY <1>1, <1>5, <1>7, <2>1, <2>2, <2>3 DEF SetupKeeps
<1>10. SetupPlain(s) => SetupOn(t)
  <2>1. SUFFICES ASSUME SetupPlain(s) PROVE SetupOn(t)
    OBVIOUS
  <2>2. DOMAIN t = 1..n + 1 /\ DOMAIN s = 1..n
    BY <1>1, <1>5
  <2>3. \A j \in 1..n : (s[j] = "features" => j = f) /\ s[j] # "dotted"
    <3>1. f \in DOMAIN s
      BY <1>3, <2>2
    <3> QED
      BY <1>3, <2>1, <2>2, <3>1 DEF SetupPlain
  <2>4. \A j \in DOMAIN t : (t[j] = "features" => j = f) /\ t[j] # "dotted"
    <3>1. SUFFICES ASSUME NEW j \in 1..n + 1 PROVE (t[j] = "features" => j = f) /\ t[j] # "dotted"
      BY <2>2
    <3>2. CASE j \in 1..e - 1
      <4>1. j \in 1..n
        BY <1>3, <3>2
      <4> QED
        BY <1>5, <2>3, <3>2, <4>1
    <3>3. CASE j = e
      BY <1>5, <3>3
    <3>4. CASE j - 1 \in e..n /\ (j - 1) + 1 = j
      <4>1. t[j] = s[j - 1] /\ j - 1 \in 1..n /\ j - 1 # f
        BY <1>3, <1>5, <3>4
      <4> QED
        BY <2>3, <4>1
    <3> QED
      BY <1>6, <3>2, <3>3, <3>4
  <2>5. SetupPlain(t)
    BY <1>8, <2>4 DEF SetupPlain
  <2> QED
    BY <1>5, <1>8, <2>5 DEF SetupOn
<1> QED
  BY <1>2, <1>5, <1>9, <1>10

\* The setting of a section that has one is replaced.
LEMMA SettingReplaced ==
  ASSUME NEW s \in Seq(Setup!Word), Setup!First(s) <= Len(s), Setup!Keys(s) # {},
         NEW t, t = Setup!ReplaceAt(s, Setup!Min(Setup!Keys(s)), "on")
  PROVE /\ t \in Seq(Setup!Word) /\ SetupKeeps(t, s)
        /\ SetupPlain(s) => SetupOn(t)
<1>1. PICK n, f, e : n = Len(s) /\ f = Setup!First(s) /\ e = Setup!SectionEnd(s)
  OBVIOUS
<1>2. PICK k : k = Setup!Min(Setup!Keys(s))
  OBVIOUS
<1>3. /\ n \in Nat /\ f \in 1..n + 1 /\ e \in 1..n + 1 /\ f <= n
      /\ s[f] = "features" /\ f + 1 <= e
      /\ \A j \in 1..n : s[j] = "features" => f <= j
      /\ e <= n => s[e] \in Setup!Header
      /\ \A j \in Setup!Section(s) : j \in 1..n /\ s[j] \notin Setup!Header
      /\ Setup!Keys(s) = {j \in Setup!Section(s) : s[j] \in Setup!Key}
  <2>1. n \in Nat
    BY <1>1
  <2> QED
    BY <1>1, <2>1, SectionFacts
<1>4. Setup!Section(s) = f + 1..e - 1
  BY <1>1 DEF Setup!Section
<1>5. k \in Setup!Keys(s) /\ k \in 1..n /\ k \in f + 1..e - 1 /\ k # f
  <2>1. Setup!Keys(s) \subseteq Nat
    BY <1>3, <1>4
  <2>2. k \in Setup!Keys(s)
    BY <1>2, <2>1, Least
  <2> QED
    BY <1>3, <1>4, <2>2
<1>6. /\ t \in Seq(Setup!Word) /\ Len(t) = n /\ t[k] = "on"
      /\ \A j \in 1..n : j # k => t[j] = s[j]
  <2>1. t = [s EXCEPT ![k] = "on"] /\ "on" \in Setup!Word
    BY <1>2, SettingWords DEF Setup!ReplaceAt
  <2>2. k \in 1..Len(s)
    BY <1>1, <1>5
  <2> QED
    BY ONLY <1>1, <2>1, <2>2, s \in Seq(Setup!Word), ExceptSeq
<1>7. s[k] \in Setup!Key /\ s[k] # "features"
  BY <1>3, <1>5 DEF Setup!Key
<1>8. /\ Setup!First(t) = f /\ Setup!SectionEnd(t) = e
      /\ Setup!Section(t) = f + 1..e - 1
  <2>1. \A j \in 1..Len(t) : t[j] = "features" => f <= j
    BY <1>3, <1>6
  <2>2. f \in 1..Len(t) /\ t[f] = "features"
    BY <1>3, <1>5, <1>6
  <2>3. e \in f + 1..Len(t) + 1
    BY <1>3, <1>6
  <2>4. e <= Len(t) => t[e] \in Setup!Header
    <3>1. SUFFICES ASSUME e <= n PROVE t[e] \in Setup!Header
      BY <1>6
    <3>2. e \in 1..n /\ e # k
      BY <1>3, <1>5, <3>1
    <3> QED
      BY <1>3, <1>6, <3>1, <3>2
  <2>5. \A j \in f + 1..e - 1 : t[j] \notin Setup!Header
    <3>1. SUFFICES ASSUME NEW j \in f + 1..e - 1 PROVE t[j] \notin Setup!Header
      OBVIOUS
    <3>2. j \in 1..n /\ s[j] \notin Setup!Header
      BY <1>3, <1>4
    <3> QED
      BY <1>6, <3>2, SettingWords
  <2> QED
    BY ONLY <1>6, <2>1, <2>2, <2>3, <2>4, <2>5, SectionIs
<1>9. Setup!Keys(t) = Setup!Keys(s)
  <2>1. \A j \in f + 1..e - 1 : j \in 1..n
    BY <1>3, <1>4
  <2>2. \A j \in f + 1..e - 1 : (t[j] \in Setup!Key) <=> (s[j] \in Setup!Key)
    BY <1>6, <1>7, <2>1, SettingWords
  <2> QED
    BY <1>3, <1>4, <1>8, <2>2 DEF Setup!Keys
<1>10. SetupKeeps(t, s)
  <2>1. SubSeq(t, 1, f - 1) = SubSeq(s, 1, f - 1)
    <3>1. /\ f - 1 \in Nat /\ f - 1 <= Len(s) /\ f - 1 <= Len(t)
          /\ \A j \in 1..f - 1 : j \in 1..n /\ j # k
      <4>1. f - 1 \in Nat /\ f - 1 <= n
        BY <1>3
      <4>2. \A j \in 1..f - 1 : j \in 1..n /\ j # k
        BY <1>3, <1>5
      <4> QED
        BY ONLY <1>1, <1>6, <4>1, <4>2
    <3>2. \A j \in 1..f - 1 : t[j] = s[j]
      BY <1>6, <3>1
    <3> QED
      BY <1>6, <3>1, <3>2, SameBeginning
  <2>2. SubSeq(t, e, n) = SubSeq(s, e, n)
    <3>1. \A j \in e..n : t[j] = s[j]
      <4>1. \A j \in e..n : j \in 1..n /\ j # k
        BY <1>3, <1>5
      <4> QED
        BY <1>6, <4>1
    <3>2. e \in Nat \ {0} /\ n \in Nat /\ e <= n + 1
      BY <1>3
    <3>3. Len(t) = n /\ Len(s) = n
      BY ONLY <1>1, <1>6
    <3> QED
      BY <1>6, <3>1, <3>2, <3>3, SameEnd
  <2>3. [j \in Setup!Section(t) \ Setup!Keys(t) |-> t[j]]
          = [j \in Setup!Section(s) \ Setup!Keys(s) |-> s[j]]
    <3>1. \A j \in Setup!Section(s) \ Setup!Keys(s) : t[j] = s[j]
      BY <1>3, <1>5, <1>6
    <3> QED
      BY <1>4, <1>8, <1>9, <3>1, SameSection
  <2> QED
    BY <1>1, <1>6, <1>8, <2>1, <2>2, <2>3 DEF SetupKeeps
<1>11. SetupPlain(s) => SetupOn(t)
  <2>1. SUFFICES ASSUME SetupPlain(s) PROVE SetupOn(t)
    OBVIOUS
  <2>2. DOMAIN t = 1..n /\ DOMAIN s = 1..n
    BY <1>1, <1>6
  <2>3. SetupPlain(t)
    BY <1>6, <1>9, <2>1, <2>2 DEF SetupPlain
  <2> QED
    BY <1>5, <1>6, <1>9, <2>3 DEF SetupOn
<1> QED
  BY <1>6, <1>10, <1>11

\* What setup computes for a file keeps what the file says else, and turns the setting on
\* if the file has a form it understands.
LEMMA SetupConfig ==
  ASSUME NEW s \in Seq(Setup!Word), Setup!updateCodexConfig(s) # Setup!Wrong
  PROVE /\ Setup!updateCodexConfig(s) \in Seq(Setup!Word)
        /\ SetupKeeps(Setup!updateCodexConfig(s), s)
        /\ SetupPlain(s) => SetupOn(Setup!updateCodexConfig(s))
<1>1. CASE Setup!First(s) > Len(s)
  <2>1. Setup!updateCodexConfig(s) = s \o <<"features", "on">>
    BY <1>1 DEF Setup!updateCodexConfig
  <2> QED
    BY <1>1, <2>1, SettingAppended
<1>2. CASE ~(Setup!First(s) > Len(s))
  <2>1. Setup!First(s) <= Len(s)
    <3>1. Setup!First(s) \in 1..Len(s) + 1 /\ Len(s) \in Nat
      BY SectionFacts
    <3> QED
      BY <1>2, <3>1
  <2>2. CASE Setup!Keys(s) = {}
    <3>1. Setup!updateCodexConfig(s) = Setup!InsertSetting(s)
      BY <1>2, <2>2 DEF Setup!updateCodexConfig
    <3> QED
      BY <2>1, <2>2, <3>1, SettingInserted
  <2>3. CASE Setup!Keys(s) # {}
    <3>1. Setup!updateCodexConfig(s) = Setup!ReplaceAt(s, Setup!Min(Setup!Keys(s)), "on")
      BY <1>2, <2>3 DEF Setup!updateCodexConfig
    <3> QED
      BY <2>1, <2>3, <3>1, SettingReplaced
  <2> QED
    BY <2>2, <2>3
<1> QED
  BY <1>1, <1>2

\* There are three kinds of targets.
LEMMA SetupTargets ==
  ASSUME NEW i \in Setup!Index
  PROVE Targets[i] \in {"hooks", "features", "skill"}
<1>1. Targets \in Seq({"hooks", "features", "skill"})
  BY LocalAssumption
<1> QED
  BY <1>1 DEF Setup!Index

\* The same of each of the three kinds of targets.
LEMMA SetupComputes ==
  ASSUME NEW i \in Setup!Index, NEW body \in SetupBody(i),
         Setup!Computed(i, body) # Setup!Wrong
  PROVE /\ Setup!Computed(i, body) \in SetupBody(i)
        /\ Setup!Unrelated(i, Setup!Computed(i, body)) = Setup!Unrelated(i, body)
        /\ Setup!Understood(i, body) => Setup!Enabled(i, Setup!Computed(i, body))
<1>1. Targets[i] \in {"hooks", "features", "skill"}
  BY SetupTargets
<1>2. CASE Targets[i] = "hooks"
  <2>1. /\ body \in Seq(Setup!Word) /\ Len(body) \in {0, 2}
        /\ Setup!Computed(i, body) = Setup!updateHookJSON(body)
        /\ "on" \in Setup!Word /\ "none" \in Setup!Word
    BY <1>2, SettingWords DEF SetupBody, Setup!Computed
  <2>2. PICK r \in Setup!Word :
          /\ Setup!Computed(i, body) = <<"on", r>>
          /\ Setup!Unrelated(i, body) = <<r>>
    <3>1. CASE body = <<>>
      BY <1>2, <2>1, <3>1 DEF Setup!updateHookJSON, Setup!Nothing, Setup!Unrelated
    <3>2. CASE body # <<>>
      <4>1. Len(body) = 2 /\ body[1] \in Setup!Word /\ body[2] \in Setup!Word
        BY <2>1, <3>2
      <4>2. body = <<body[1], body[2]>>
        BY <2>1, <4>1
      <4>3. Tail(body) = <<body[2]>>
        <5>1. PICK a \in Setup!Word, b \in Setup!Word : a = body[1] /\ b = body[2]
          BY <4>1
        <5>2. Tail(<<a, b>>) = <<b>>
          OBVIOUS
        <5> QED
          BY <4>2, <5>1, <5>2
      <4>4. Setup!Computed(i, body) = <<"on", body[2]>>
        BY <2>1, <3>2 DEF Setup!updateHookJSON, Setup!Nothing
      <4>5. Setup!Unrelated(i, body) = Tail(body)
        BY <1>2, <3>2 DEF Setup!Unrelated, Setup!Nothing
      <4> QED
        BY <4>1, <4>3, <4>4, <4>5
    <3> QED
      BY <3>1, <3>2
  <2>3. PICK new : new = <<"on", r>>
    OBVIOUS
  <2>4. /\ new \in Seq(Setup!Word) /\ Len(new) = 2 /\ new[1] = "on" /\ new # <<>>
        /\ Tail(new) = <<r>>
    BY <2>1, <2>3
  <2>5. Setup!Unrelated(i, new) = <<r>> /\ Setup!Enabled(i, new)
    BY <1>2, <2>4 DEF Setup!Unrelated, Setup!Enabled, Setup!Nothing
  <2>6. new \in SetupBody(i)
    BY <1>2, <2>4 DEF SetupBody
  <2> QED
    BY <2>2, <2>3, <2>5, <2>6
<1>3. CASE Targets[i] = "skill"
  <2>1. Setup!Computed(i, body) = <<"ours">> /\ "ours" \in Setup!Word
    BY <1>3, SettingWords DEF Setup!Computed
  <2>2. <<"ours">> \in SetupBody(i)
    BY <1>3, <2>1 DEF SetupBody
  <2> QED
    BY <1>3, <2>1, <2>2 DEF Setup!Unrelated, Setup!Enabled
<1>4. CASE Targets[i] = "features"
  <2>1. body \in Seq(Setup!Word) /\ Setup!Computed(i, body) = Setup!updateCodexConfig(body)
    BY <1>4 DEF SetupBody, Setup!Computed
  <2>2. PICK new : new = Setup!updateCodexConfig(body)
    OBVIOUS
  <2>3. /\ new \in Seq(Setup!Word) /\ SetupKeeps(new, body)
        /\ SetupPlain(body) => SetupOn(new)
    BY <2>1, <2>2, SetupConfig
  <2>4. Setup!Unrelated(i, new) = Setup!Unrelated(i, body)
    BY <1>4, <2>3 DEF Setup!Unrelated, SetupKeeps
  <2>5. Setup!Understood(i, body) => Setup!Enabled(i, new)
    BY <1>4, <2>3 DEF Setup!Understood, Setup!Enabled, SetupPlain, SetupOn
  <2>6. new \in SetupBody(i)
    BY <1>4, <2>3 DEF SetupBody
  <2> QED
    BY <2>1, <2>2, <2>4, <2>5, <2>6
<1> QED
  BY <1>1, <1>2, <1>3, <1>4

\* The parts of the state.
SetupItem == [before : Setup!File, body : Seq(Setup!Word)]
SetupRecord ==
  [plan : Seq(SetupItem), at : 1..Len(Targets) + 1,
   written : Seq(Setup!Index), unclean : BOOLEAN]
SetupTyped ==
  /\ pc \in [Invocation -> Setup!Steps \cup {"setup"}]
  /\ world \in [Setup!Index -> Setup!File]
  /\ run \in [Invocation -> SetupRecord]
  /\ verdict \in [Invocation -> {"none", "installed", "refused", "incomplete"}]
  /\ others \in 0..MaxSetupActors
  /\ past \in [Invocation -> SUBSET Setup!Index]
SetupFound ==
  \A i \in Setup!Index :
    /\ world[i].is # "file" => world[i].body = <<>>
    /\ world[i].body \in SetupBody(i)
SetupSized(c) ==
  /\ Len(run[c].plan) <= Len(Targets)
  /\ \A i \in DOMAIN run[c].plan : run[c].plan[i].before.is # "link"

\* The parts of the invariant, with its types by what they are of.
LEMMA SetupTypes ==
  SetupInv <=>
    /\ SetupTyped /\ SetupFound
    /\ \A c \in Invocation : SetupSized(c) /\ SetupPlanned(c) /\ SetupCame(c) /\ SetupHolds(c)
BY DEF SetupInv, SetupTyped, SetupFound, SetupSized, SetupRecord, SetupItem, Setup!TypeOK,
       Setup!Nothing

\* In particular.
LEMMA SetupFacts ==
  ASSUME SetupInv
  PROVE /\ SetupTyped /\ SetupFound
        /\ \A c \in Invocation : SetupSized(c) /\ SetupPlanned(c) /\ SetupCame(c) /\ SetupHolds(c)
BY SetupTypes

\* How many targets there are.
LEMMA SetupSize ==
  /\ Len(Targets) \in Nat /\ Setup!Index = 1..Len(Targets) /\ MaxSetupActors \in Nat
BY LocalAssumption DEF Setup!Index

\* What a typed run remembers, field by field.
LEMMA SetupFields ==
  ASSUME SetupTyped, NEW c \in Invocation, SetupSized(c)
  PROVE /\ run[c] \in SetupRecord /\ run[c].plan \in Seq(SetupItem)
        /\ run[c].at \in 1..Len(Targets) + 1 /\ run[c].written \in Seq(Setup!Index)
        /\ run[c].unclean \in BOOLEAN /\ past[c] \in SUBSET Setup!Index
        /\ Len(run[c].plan) \in Nat /\ DOMAIN run[c].plan = 1..Len(run[c].plan)
        /\ Len(run[c].written) \in Nat /\ DOMAIN run[c].written = 1..Len(run[c].written)
        /\ \A i \in DOMAIN run[c].plan :
             /\ i \in Setup!Index
             /\ run[c].plan[i].before \in Setup!File /\ run[c].plan[i].body \in Seq(Setup!Word)
        /\ \A j \in DOMAIN run[c].written : run[c].written[j] \in Setup!Index
<1>1. run[c] \in SetupRecord /\ past[c] \in SUBSET Setup!Index
  BY DEF SetupTyped
<1>2. /\ run[c].plan \in Seq(SetupItem) /\ run[c].at \in 1..Len(Targets) + 1
      /\ run[c].written \in Seq(Setup!Index) /\ run[c].unclean \in BOOLEAN
  BY <1>1 DEF SetupRecord
<1>3. /\ Len(run[c].plan) \in Nat /\ DOMAIN run[c].plan = 1..Len(run[c].plan)
      /\ \A i \in DOMAIN run[c].plan : run[c].plan[i] \in SetupItem
  BY <1>2
<1>4. /\ Len(run[c].written) \in Nat /\ DOMAIN run[c].written = 1..Len(run[c].written)
      /\ \A j \in DOMAIN run[c].written : run[c].written[j] \in Setup!Index
  BY <1>2
<1>5. ASSUME NEW i \in DOMAIN run[c].plan
      PROVE /\ i \in Setup!Index
            /\ run[c].plan[i].before \in Setup!File /\ run[c].plan[i].body \in Seq(Setup!Word)
  <2>1. i \in Setup!Index
    BY <1>3, SetupSize DEF SetupSized
  <2>2. run[c].plan[i] \in SetupItem
    BY <1>3
  <2> QED
    BY <2>1, <2>2 DEF SetupItem
<1> QED
  BY <1>1, <1>2, <1>3, <1>4, <1>5

\* Files are files.
LEMMA SetupFiles ==
  /\ Setup!Missing \in Setup!File /\ Setup!Unsafe \in Setup!File
  /\ Setup!Missing.is = "missing" /\ Setup!Unsafe.is = "link"
  /\ Setup!Missing.body = <<>> /\ Setup!Unsafe.body = <<>>
  /\ \A b \in Seq(Setup!Word) : /\ Setup!Holding(b) \in Setup!File
                                /\ Setup!Holding(b).is = "file" /\ Setup!Holding(b).body = b
  /\ \A i \in Setup!Index : <<>> \in SetupBody(i) /\ SetupBody(i) \subseteq Seq(Setup!Word)
<1>1. <<>> \in Seq(Setup!Word) /\ Len(<<>>) = 0
  OBVIOUS
<1>2. \A i \in Setup!Index : <<>> \in SetupBody(i) /\ SetupBody(i) \subseteq Seq(Setup!Word)
  BY <1>1 DEF SetupBody
<1>3. /\ Setup!Missing \in Setup!File /\ Setup!Unsafe \in Setup!File
      /\ Setup!Missing.is = "missing" /\ Setup!Unsafe.is = "link"
      /\ Setup!Missing.body = <<>> /\ Setup!Unsafe.body = <<>>
  BY <1>1 DEF Setup!File, Setup!Missing, Setup!Unsafe, Setup!Nothing
<1>4. ASSUME NEW b \in Seq(Setup!Word)
      PROVE /\ Setup!Holding(b) \in Setup!File
            /\ Setup!Holding(b).is = "file" /\ Setup!Holding(b).body = b
  BY DEF Setup!File, Setup!Holding
<1> QED
  BY <1>2, <1>3, <1>4

\* What other programs write is what such files can hold.
LEMMA SetupBodies ==
  ASSUME NEW i \in Setup!Index, NEW b \in Setup!Bodies(i)
  PROVE b \in SetupBody(i)
<1>1. Targets[i] \in {"hooks", "features", "skill"}
  BY SetupTargets
<1>2. CASE Targets[i] = "hooks"
  <2>1. b \in Hooks
    BY <1>2 DEF Setup!Bodies
  <2>2. b = <<b[1], b[2]>> /\ b[1] \in {"none", "off", "on", "odd"}
    BY <2>1, LocalAssumption
  <2>3. b[1] \in Setup!Word /\ b[2] \in Setup!Word
    BY <2>1, <2>2 DEF Setup!Word, Setup!Lines
  <2>4. PICK x \in Setup!Word, y \in Setup!Word : b = <<x, y>>
    BY <2>2, <2>3
  <2>5. b \in Seq(Setup!Word) /\ Len(b) = 2
    BY <2>4
  <2> QED
    BY <1>2, <2>5 DEF SetupBody
<1>3. CASE Targets[i] = "skill"
  <2>1. b \in {<<"ours">>, <<"theirs">>} /\ "ours" \in Setup!Word /\ "theirs" \in Setup!Word
    BY <1>3 DEF Setup!Bodies, Setup!Word
  <2>2. PICK x \in Setup!Word : b = <<x>>
    BY <2>1
  <2>3. b \in Seq(Setup!Word)
    BY <2>2
  <2> QED
    BY <1>3, <2>3 DEF SetupBody
<1>4. CASE Targets[i] = "features"
  <2>1. b \in Seq({"features", "table", "on", "off", "odd", "line", "dotted"})
    BY <1>4, LocalAssumption DEF Setup!Bodies
  <2>2. {"features", "table", "on", "off", "odd", "line", "dotted"} \subseteq Setup!Word
    BY DEF Setup!Word, Setup!Lines
  <2>3. b \in Seq(Setup!Word)
    BY <2>1, <2>2, SeqMonotonic
  <2> QED
    BY <1>4, <2>3 DEF SetupBody
<1> QED
  BY <1>1, <1>2, <1>3, <1>4

\* The invariant holds before anything is planned.
LEMMA SetupInit ==
  Setup!Init => SetupInv
<1> SUFFICES ASSUME Setup!Init PROVE SetupInv
  OBVIOUS
<1>1. /\ pc \in [Invocation -> {"plan", "setup"}]
      /\ verdict = [c \in Invocation |-> "none"] /\ past = [c \in Invocation |-> {}]
      /\ run = [c \in Invocation |->
                 [plan |-> <<>>, at |-> 1, written |-> <<>>, unclean |-> FALSE]]
  BY DEF Setup!Init
<1>2. ASSUME NEW i \in Setup!Index
      PROVE /\ world[i] \in Setup!File
            /\ world[i].is # "file" => world[i].body = <<>>
            /\ world[i].body \in SetupBody(i)
  <2>1. CASE world[i] = Setup!Missing
    BY <2>1, SetupFiles
  <2>2. CASE world[i] # Setup!Missing
    <3>1. PICK b : world[i] = Setup!Holding(b) /\ world[i].body \in Setup!Bodies(i)
      BY <2>2 DEF Setup!Init
    <3>2. world[i].body = b
      BY <3>1 DEF Setup!Holding
    <3>3. b \in SetupBody(i)
      BY <3>1, <3>2, SetupBodies
    <3> QED
      BY <3>1, <3>2, <3>3, SetupFiles
  <2> QED
    BY <2>1, <2>2
<1>3. world \in [Setup!Index -> Setup!File]
  <2>1. world = [i \in Setup!Index |-> world[i]]
    BY DEF Setup!Init
  <2> QED
    BY <1>2, <2>1
<1>4. \A c \in Invocation :
        /\ run[c] \in SetupRecord /\ run[c].plan = <<>> /\ run[c].at = 1
        /\ run[c].written = <<>> /\ ~run[c].unclean
  <2>1. 1 \in 1..Len(Targets) + 1
    BY SetupSize
  <2>2. <<>> \in Seq(SetupItem) /\ <<>> \in Seq(Setup!Index)
    OBVIOUS
  <2> QED
    BY <1>1, <2>1, <2>2 DEF SetupRecord
<1>5. run \in [Invocation -> SetupRecord]
  <2>1. run = [c \in Invocation |-> run[c]]
    BY <1>1
  <2> QED
    BY <1>4, <2>1
<1>6. others \in 0..MaxSetupActors
  <2>1. PICK R \in SUBSET Invocation : R = {c \in Invocation : pc[c] = "plan"}
    OBVIOUS
  <2>2. Cardinality(R) \in 0..MaxSetupActors
    BY <2>1, Few
  <2>3. others = Setup!Cardinality(R)
    BY <2>1 DEF Setup!Init
  <2> QED
    BY <2>2, <2>3 DEF Setup!Cardinality, Cardinality
<1>7. SetupTyped
  BY <1>1, <1>3, <1>5, <1>6 DEF SetupTyped, Setup!Steps
<1>8. SetupFound
  BY <1>2 DEF SetupFound
<1>9. \A c \in Invocation : DOMAIN run[c].plan = {} /\ DOMAIN run[c].written = {}
                            /\ Len(run[c].plan) = 0 /\ Len(run[c].plan) <= Len(Targets)
  BY <1>4, SetupSize
<1>10. ASSUME NEW c \in Invocation
       PROVE SetupSized(c) /\ SetupPlanned(c) /\ SetupCame(c) /\ SetupHolds(c)
  BY <1>1, <1>4, <1>9 DEF SetupSized, SetupPlanned, SetupCame, SetupHolds
<1> QED
  BY <1>7, <1>8, <1>10, SetupTypes

\* A step of one run, as the others see it.
LEMMA SetupOthers ==
  ASSUME SetupInv, NEW d \in Invocation, pc'[d] = pc[d], run'[d] = run[d], verdict'[d] = verdict[d],
         \A i \in Setup!Index : i \notin past'[d] => i \notin past[d] /\ world'[i] = world[i]
  PROVE (SetupSized(d) /\ SetupPlanned(d) /\ SetupCame(d) /\ SetupHolds(d))'
<1>1. /\ SetupSized(d) /\ SetupPlanned(d) /\ SetupCame(d) /\ SetupHolds(d)
      /\ \A i \in DOMAIN run[d].plan : i \in Setup!Index
  BY SetupFacts, SetupFields
<1>2. SetupSized(d)' /\ SetupPlanned(d)' /\ SetupCame(d)'
  BY <1>1 DEF SetupSized, SetupPlanned, SetupCame
<1>3. SetupHolds(d)'
  <2>1. SUFFICES ASSUME NEW i \in DOMAIN run[d].plan \ past'[d]
        PROVE /\ pc[d] = "plan" => world'[i] = run[d].plan[i].before
              /\ pc[d] \in {"write", "undo"} /\ SetupWrote(d, i) => world'[i] = SetupPut(d, i)
              /\ pc[d] = "write" /\ ~SetupWrote(d, i) =>
                   /\ world'[i] = run[d].plan[i].before
                   /\ i < run[d].at => world'[i] = SetupPut(d, i)
              /\ pc[d] = "undo" /\ ~SetupWrote(d, i) /\ ~run[d].unclean =>
                   world'[i] = run[d].plan[i].before
              /\ verdict[d] = "installed" => world'[i] = SetupPut(d, i)
              /\ verdict[d] = "refused" => world'[i] = run[d].plan[i].before
    BY DEF SetupHolds, SetupWrote, SetupPut
  <2>2. i \in DOMAIN run[d].plan \ past[d] /\ world'[i] = world[i]
    BY <1>1
  <2> QED
    BY <1>1, <2>2 DEF SetupHolds
<1> QED
  BY <1>2, <1>3

\* A step of one run.
LEMMA SetupStep ==
  ASSUME SetupInv, NEW c \in Invocation, SetupTyped', SetupFound',
         \A d \in Invocation \ {c} :
           /\ pc'[d] = pc[d] /\ run'[d] = run[d] /\ verdict'[d] = verdict[d]
           /\ \A i \in Setup!Index :
                i \notin past'[d] => i \notin past[d] /\ world'[i] = world[i],
         SetupSized(c)', SetupPlanned(c)', SetupCame(c)', SetupHolds(c)'
  PROVE SetupInv'
<1>1. \A d \in Invocation \ {c} : (SetupSized(d) /\ SetupPlanned(d) /\ SetupCame(d) /\ SetupHolds(d))'
  BY SetupOthers
<1> QED
  BY <1>1 DEF SetupInv, SetupTyped, SetupFound, SetupSized, SetupRecord, SetupItem,
              Setup!TypeOK, Setup!Nothing

\* A run answers, gives up writing or is killed.
LEMMA SetupAnswers ==
  ASSUME SetupInv, NEW c \in Invocation,
         \/ Setup!RefusePlan(c) \/ Setup!WriteFails(c) \/ Setup!Installs(c)
         \/ Setup!Undone(c) \/ Setup!Crash(c)
  PROVE SetupInv'
<1>1. /\ SetupTyped /\ SetupFound
      /\ SetupSized(c) /\ SetupPlanned(c) /\ SetupCame(c) /\ SetupHolds(c)
  BY SetupFacts
<1>2. /\ run[c].at \in 1..Len(Targets) + 1 /\ Len(Targets) \in Nat
      /\ Setup!Index = 1..Len(Targets)
      /\ \A i \in DOMAIN run[c].plan : i \in Setup!Index
      /\ DOMAIN run[c].written = 1..Len(run[c].written)
  BY <1>1, SetupFields, SetupSize
<1>3. UNCHANGED <<world, run, others, past>>
  BY DEF Setup!RefusePlan, Setup!WriteFails, Setup!Installs, Setup!Undone, Setup!Crash
<1>4. PICK s \in {"undo", "setup"}, v \in {"none", "installed", "refused", "incomplete"} :
        /\ pc' = [pc EXCEPT ![c] = s] /\ verdict' = [verdict EXCEPT ![c] = v]
        /\ s = "undo" => pc[c] = "write" /\ v = "none"
        /\ v = "installed" => pc[c] = "write" /\ run[c].at \notin Setup!Index
        /\ v = "refused" => \/ pc[c] = "plan"
                            \/ pc[c] = "undo" /\ run[c].written = <<>> /\ ~run[c].unclean
  <2>1. verdict = [verdict EXCEPT ![c] = verdict[c]]
    BY <1>1 DEF SetupTyped
  <2>2. pc[c] \in Setup!Steps => verdict[c] = "none"
    BY <1>1 DEF SetupCame, Setup!Steps
  <2>3. CASE Setup!RefusePlan(c)
    BY <2>3 DEF Setup!RefusePlan, Setup!Answer
  <2>4. CASE Setup!WriteFails(c)
    <3>1. pc[c] = "write" /\ pc' = [pc EXCEPT ![c] = "undo"] /\ verdict' = verdict
      BY <2>4 DEF Setup!WriteFails
    <3> QED
      BY <2>1, <2>2, <3>1 DEF Setup!Steps
  <2>5. CASE Setup!Installs(c)
    BY <2>5 DEF Setup!Installs, Setup!Answer
  <2>6. CASE Setup!Undone(c)
    BY <2>6 DEF Setup!Undone, Setup!Answer
  <2>7. CASE Setup!Crash(c)
    <3>1. pc[c] \in Setup!Steps /\ pc' = [pc EXCEPT ![c] = "setup"] /\ verdict' = verdict
      BY <2>7 DEF Setup!Crash
    <3> QED
      BY <2>1, <2>2, <3>1
  <2> QED
    BY <2>3, <2>4, <2>5, <2>6, <2>7
<1>5. /\ pc' \in [Invocation -> Setup!Steps \cup {"setup"}] /\ pc'[c] = s
      /\ verdict' \in [Invocation -> {"none", "installed", "refused", "incomplete"}]
      /\ verdict'[c] = v
      /\ \A d \in Invocation \ {c} : pc'[d] = pc[d] /\ verdict'[d] = verdict[d]
  BY <1>1, <1>4 DEF SetupTyped, Setup!Steps
<1>6. SetupTyped' /\ SetupFound' /\ SetupSized(c)' /\ SetupPlanned(c)'
  BY <1>1, <1>3, <1>5 DEF SetupTyped, SetupFound, SetupSized, SetupPlanned
<1>7. SetupCame(c)'
  BY <1>1, <1>3, <1>4, <1>5 DEF SetupCame
<1>8. SetupHolds(c)'
  <2>1. SUFFICES ASSUME NEW i \in DOMAIN run[c].plan \ past[c]
        PROVE /\ s = "undo" /\ SetupWrote(c, i) => world[i] = SetupPut(c, i)
              /\ s = "undo" /\ ~SetupWrote(c, i) => world[i] = run[c].plan[i].before
              /\ v = "installed" => world[i] = SetupPut(c, i)
              /\ v = "refused" => world[i] = run[c].plan[i].before
    BY <1>3, <1>4, <1>5 DEF SetupHolds, SetupWrote, SetupPut
  <2>2. /\ pc[c] = "plan" => world[i] = run[c].plan[i].before
        /\ pc[c] \in {"write", "undo"} /\ SetupWrote(c, i) => world[i] = SetupPut(c, i)
        /\ pc[c] = "write" /\ ~SetupWrote(c, i) =>
             /\ world[i] = run[c].plan[i].before
             /\ i < run[c].at => world[i] = SetupPut(c, i)
        /\ pc[c] = "undo" /\ ~SetupWrote(c, i) /\ ~run[c].unclean =>
             world[i] = run[c].plan[i].before
    BY <1>1 DEF SetupHolds
  <2>3. run[c].at \notin Setup!Index => i < run[c].at
    <3>1. i \in 1..Len(Targets)
      BY <1>2
    <3> QED
      BY <1>2, <3>1
  <2>4. run[c].written = <<>> => ~SetupWrote(c, i)
    BY DEF SetupWrote
  <2> QED
    BY <1>4, <2>2, <2>3, <2>4
<1> QED
  BY <1>3, <1>5, <1>6, <1>7, <1>8, SetupStep

\* Replacing a run's record.
LEMMA SetupSets ==
  ASSUME SetupTyped, NEW c \in Invocation, NEW r \in SetupRecord, run' = [run EXCEPT ![c] = r]
  PROVE /\ (run \in [Invocation -> SetupRecord])' /\ run'[c] = r
        /\ \A d \in Invocation \ {c} : run'[d] = run[d]
BY DEF SetupTyped

\* A file is planned.
LEMMA SetupPlans ==
  ASSUME SetupInv, NEW c \in Invocation, Setup!Plan(c)
  PROVE SetupInv'
<1>1. /\ SetupTyped /\ SetupFound
      /\ SetupSized(c) /\ SetupPlanned(c) /\ SetupCame(c) /\ SetupHolds(c)
  BY SetupFacts
<1>2. /\ run[c] \in SetupRecord /\ run[c].plan \in Seq(SetupItem) /\ Len(run[c].plan) \in Nat
      /\ DOMAIN run[c].plan = 1..Len(run[c].plan) /\ past[c] \in SUBSET Setup!Index
      /\ Len(Targets) \in Nat /\ Setup!Index = 1..Len(Targets)
  BY <1>1, SetupFields, SetupSize
<1>3. PICK i : i = Len(run[c].plan) + 1
  OBVIOUS
<1>4. PICK b : b = Setup!Computed(i, world[i].body)
  OBVIOUS
<1>5. PICK m : m = [before |-> world[i], body |-> b]
  OBVIOUS
<1>6. /\ pc[c] = "plan" /\ i \in Setup!Index /\ world[i].is # "link" /\ b # Setup!Wrong
      /\ run' = [run EXCEPT ![c].plan = Append(@, m)]
      /\ past' = [past EXCEPT ![c] = @ \ {i}]
      /\ IF i = Len(Targets) THEN pc' = [pc EXCEPT ![c] = "write"] ELSE UNCHANGED pc
      /\ UNCHANGED <<world, verdict, others>>
  BY <1>3, <1>4, <1>5 DEF Setup!Plan, Setup!Reads
<1>7. /\ world[i] \in Setup!File /\ world[i].body \in SetupBody(i)
      /\ world[i].is # "file" => world[i].body = <<>>
  BY <1>1, <1>6 DEF SetupTyped, SetupFound
<1>8. b \in Seq(Setup!Word)
  <2>1. b \in SetupBody(i)
    BY <1>4, <1>6, <1>7, SetupComputes
  <2> QED
    BY <1>6, <2>1, SetupFiles
<1>9. m \in SetupItem /\ m.before = world[i] /\ m.body = b
  BY <1>5, <1>7, <1>8 DEF SetupItem
<1>10. PICK p : p = Append(run[c].plan, m)
  OBVIOUS
<1>11. /\ p \in Seq(SetupItem) /\ Len(p) = i /\ DOMAIN p = 1..i /\ p[i] = m
       /\ \A j \in 1..i : j # i => j \in DOMAIN run[c].plan /\ p[j] = run[c].plan[j]
  <2>1. p \in Seq(SetupItem) /\ Len(p) = i /\ p[i] = m
    BY <1>2, <1>3, <1>9, <1>10
  <2>2. \A j \in 1..Len(run[c].plan) : p[j] = run[c].plan[j]
    BY <1>2, <1>9, <1>10
  <2>3. \A j \in 1..i : j # i => j \in 1..Len(run[c].plan)
    BY <1>2, <1>3
  <2> QED
    BY <1>2, <2>1, <2>2, <2>3
<1>12. PICK q : q = [run[c] EXCEPT !.plan = p]
  OBVIOUS
<1>13. /\ q \in SetupRecord /\ q.plan = p /\ q.at = run[c].at /\ q.written = run[c].written
       /\ q.unclean = run[c].unclean
  BY ONLY <1>2, <1>11, <1>12 DEF SetupRecord
<1>14. run' = [run EXCEPT ![c] = q]
  BY <1>1, <1>6, <1>10, <1>12 DEF SetupTyped
<1>15. /\ run' \in [Invocation -> SetupRecord] /\ run'[c] = q
       /\ \A d \in Invocation \ {c} : run'[d] = run[d]
  BY <1>1, <1>13, <1>14, SetupSets
<1>16. /\ past' \in [Invocation -> SUBSET Setup!Index] /\ past'[c] = past[c] \ {i}
       /\ \A d \in Invocation \ {c} : past'[d] = past[d]
  BY <1>1, <1>2, <1>6 DEF SetupTyped
<1>17. /\ pc' \in [Invocation -> Setup!Steps \cup {"setup"}] /\ pc'[c] \in {"plan", "write"}
       /\ pc'[c] = "write" => i = Len(Targets)
       /\ \A d \in Invocation \ {c} : pc'[d] = pc[d]
  BY <1>1, <1>6 DEF SetupTyped, Setup!Steps
<1>18. SetupTyped' /\ SetupFound'
  BY <1>1, <1>6, <1>15, <1>16, <1>17 DEF SetupTyped, SetupFound
<1>19. SetupSized(c)'
  <2>1. Len(p) <= Len(Targets)
    BY <1>2, <1>6, <1>11
  <2>2. \A j \in 1..i : p[j].before.is # "link"
    BY <1>1, <1>6, <1>9, <1>11 DEF SetupSized
  <2> QED
    BY <1>11, <1>13, <1>15, <2>1, <2>2 DEF SetupSized
<1>20. SetupPlanned(c)'
  <2>1. SUFFICES ASSUME NEW j \in 1..i
        PROVE /\ p[j].before.body \in SetupBody(j)
              /\ p[j].before.is # "file" => p[j].before.body = <<>>
              /\ p[j].body = Setup!Computed(j, p[j].before.body)
              /\ p[j].body # Setup!Wrong
    BY <1>11, <1>13, <1>15 DEF SetupPlanned
  <2>2. CASE j = i
    BY <1>4, <1>6, <1>7, <1>9, <1>11, <2>2
  <2>3. CASE j # i
    BY <1>1, <1>11, <2>3 DEF SetupPlanned
  <2> QED
    BY <2>2, <2>3
<1>21. SetupCame(c)'
  <2>1. run[c].at = 1 /\ run[c].written = <<>> /\ ~run[c].unclean /\ verdict[c] = "none"
    BY <1>1, <1>6 DEF SetupCame
  <2>2. DOMAIN q.written = {} /\ Len(q.plan) = i
    BY <1>11, <1>13, <2>1
  <2> QED
    BY <1>6, <1>13, <1>15, <1>17, <2>1, <2>2 DEF SetupCame
<1>22. SetupHolds(c)'
  <2>1. run[c].at = 1 /\ run[c].written = <<>> /\ verdict[c] = "none"
    BY <1>1, <1>6 DEF SetupCame
  <2>2. ASSUME NEW j \in 1..i, j \notin past'[c]
        PROVE world'[j] = run'[c].plan[j].before /\ ~(j < run'[c].at) /\ ~SetupWrote(c, j)'
    <3>1. ~(j < q.at) /\ ~SetupWrote(c, j)'
      BY <1>13, <1>15, <2>1 DEF SetupWrote
    <3>2. CASE j = i
      BY <1>6, <1>9, <1>11, <1>13, <1>15, <3>1, <3>2
    <3>3. CASE j # i
      <4>1. j \in DOMAIN run[c].plan \ past[c]
        BY <1>11, <1>16, <2>2, <3>3
      <4>2. world[j] = run[c].plan[j].before
        BY <1>1, <1>6, <4>1 DEF SetupHolds
      <4> QED
        BY <1>6, <1>11, <1>13, <1>15, <3>1, <3>3, <4>2
    <3> QED
      BY <3>2, <3>3
  <2>3. DOMAIN run'[c].plan = 1..i /\ verdict'[c] = "none"
    BY <1>6, <1>11, <1>13, <1>15, <2>1
  <2> QED
    BY <1>17, <2>2, <2>3 DEF SetupHolds
<1> QED
  BY <1>6, <1>15, <1>16, <1>17, <1>18, <1>19, <1>20, <1>21, <1>22, SetupStep

\* A file is put in place: what is new about it is news to the others only.
LEMMA SetupPuts ==
  ASSUME SetupTyped, SetupFound, NEW c \in Invocation, NEW i \in Setup!Index, NEW f \in Setup!File,
         f.is # "file" => f.body = <<>>, f.body \in SetupBody(i), Setup!Puts(c, i, f)
  PROVE /\ (world \in [Setup!Index -> Setup!File])' /\ world'[i] = f
        /\ \A j \in Setup!Index \ {i} : world'[j] = world[j]
        /\ SetupFound'
        /\ (past \in [Invocation -> SUBSET Setup!Index])' /\ past'[c] = past[c] \ {i}
        /\ \A d \in Invocation \ {c} : \A j \in Setup!Index :
             j \notin past'[d] => j \notin past[d] /\ world'[j] = world[j]
<1>1. /\ world' = [world EXCEPT ![i] = f]
      /\ past' = [d \in Invocation |-> IF d = c THEN past[d] \ {i}
                                       ELSE IF world[i] = f THEN past[d] ELSE past[d] \cup {i}]
  BY DEF Setup!Puts
<1>2. /\ world' \in [Setup!Index -> Setup!File] /\ world'[i] = f
      /\ \A j \in Setup!Index \ {i} : world'[j] = world[j]
  BY <1>1 DEF SetupTyped
<1>3. SetupFound'
  BY <1>2 DEF SetupFound
<1>4. past \in [Invocation -> SUBSET Setup!Index]
  BY DEF SetupTyped
<1>5. /\ past' \in [Invocation -> SUBSET Setup!Index] /\ past'[c] = past[c] \ {i}
      /\ \A d \in Invocation \ {c} :
           past'[d] = IF world[i] = f THEN past[d] ELSE past[d] \cup {i}
  BY <1>1, <1>4
<1>6. ASSUME NEW d \in Invocation \ {c}, NEW j \in Setup!Index, j \notin past'[d]
      PROVE j \notin past[d] /\ world'[j] = world[j]
  BY <1>2, <1>5, <1>6
<1> QED
  BY <1>2, <1>3, <1>5, <1>6

\* What is planned for a file can be put there and back.
LEMMA SetupItems ==
  ASSUME SetupInv, NEW c \in Invocation, NEW i \in DOMAIN run[c].plan
  PROVE /\ i \in Setup!Index
        /\ run[c].plan[i].before \in Setup!File /\ run[c].plan[i].before.body \in SetupBody(i)
        /\ run[c].plan[i].before.is # "file" => run[c].plan[i].before.body = <<>>
        /\ SetupPut(c, i) \in Setup!File /\ SetupPut(c, i).is = "file"
        /\ SetupPut(c, i).body = run[c].plan[i].body
        /\ SetupPut(c, i).body \in SetupBody(i)
        /\ Setup!Unrelated(i, run[c].plan[i].body)
             = Setup!Unrelated(i, run[c].plan[i].before.body)
        /\ Setup!Understood(i, run[c].plan[i].before.body) =>
             Setup!Enabled(i, run[c].plan[i].body)
<1>1. SetupTyped /\ SetupSized(c) /\ SetupPlanned(c)
  BY SetupFacts
<1>2. /\ i \in Setup!Index /\ run[c].plan[i].before \in Setup!File
      /\ run[c].plan[i].body \in Seq(Setup!Word)
  BY <1>1, SetupFields
<1>3. /\ run[c].plan[i].before.body \in SetupBody(i)
      /\ run[c].plan[i].before.is # "file" => run[c].plan[i].before.body = <<>>
      /\ run[c].plan[i].body = Setup!Computed(i, run[c].plan[i].before.body)
      /\ run[c].plan[i].body # Setup!Wrong
  BY <1>1 DEF SetupPlanned
<1>4. /\ run[c].plan[i].body \in SetupBody(i)
      /\ Setup!Unrelated(i, run[c].plan[i].body)
           = Setup!Unrelated(i, run[c].plan[i].before.body)
      /\ Setup!Understood(i, run[c].plan[i].before.body) =>
           Setup!Enabled(i, run[c].plan[i].body)
  BY <1>2, <1>3, SetupComputes
<1>5. /\ SetupPut(c, i) \in Setup!File /\ SetupPut(c, i).is = "file"
      /\ SetupPut(c, i).body = run[c].plan[i].body
  BY <1>2, SetupFiles DEF SetupPut
<1> QED
  BY <1>2, <1>3, <1>4, <1>5

\* Where a run that writes or undoes is.
LEMMA SetupAt ==
  ASSUME SetupInv, NEW c \in Invocation, pc[c] \in {"write", "undo"}
  PROVE /\ DOMAIN run[c].plan = Setup!Index
        /\ \A j \in DOMAIN run[c].written : run[c].written[j] \in DOMAIN run[c].plan
        /\ run[c].at \in Nat /\ ~SetupWrote(c, run[c].at)
<1>1. SetupTyped /\ SetupSized(c) /\ SetupCame(c)
  BY SetupFacts
<1>2. /\ Len(run[c].plan) \in Nat /\ DOMAIN run[c].plan = 1..Len(run[c].plan)
      /\ run[c].at \in 1..Len(Targets) + 1 /\ Len(Targets) \in Nat
      /\ Setup!Index = 1..Len(Targets)
      /\ \A j \in DOMAIN run[c].written : run[c].written[j] \in Setup!Index
  BY <1>1, SetupFields, SetupSize
<1>3. Len(run[c].plan) = Len(Targets)
  BY <1>1 DEF SetupCame
<1>4. ~SetupWrote(c, run[c].at)
  BY <1>1, <1>2 DEF SetupCame, SetupWrote
<1> QED
  BY <1>2, <1>3, <1>4

\* A file that has what it should is not written.
LEMMA SetupSkips ==
  ASSUME SetupInv, NEW c \in Invocation, Setup!Skip(c)
  PROVE SetupInv'
<1>1. /\ SetupTyped /\ SetupFound /\ run[c] \in SetupRecord
      /\ SetupSized(c) /\ SetupPlanned(c) /\ SetupCame(c) /\ SetupHolds(c)
      /\ \A j \in DOMAIN run[c].written : run[c].written[j] \in Setup!Index
  BY SetupFacts, SetupFields
<1>2. /\ pc[c] = "write" /\ run[c].at \in Setup!Index
      /\ run[c].plan[run[c].at].before = SetupPut(c, run[c].at)
      /\ run' = [run EXCEPT ![c].at = @ + 1]
      /\ UNCHANGED <<world, pc, verdict, others, past>>
  BY DEF Setup!Skip, Setup!Unchanged, Setup!Item, SetupPut, Setup!Continue
<1>3. /\ DOMAIN run[c].plan = Setup!Index /\ ~SetupWrote(c, run[c].at)
      /\ Len(Targets) \in Nat /\ Setup!Index = 1..Len(Targets)
  BY <1>2, SetupAt, SetupSize
<1>4. PICK n \in 1..Len(Targets) + 1 : n = run[c].at + 1
  BY <1>2, <1>3
<1>5. PICK q : q = [run[c] EXCEPT !.at = n]
  OBVIOUS
<1>6. /\ q \in SetupRecord /\ q.plan = run[c].plan /\ q.at = n /\ q.written = run[c].written
      /\ q.unclean = run[c].unclean
  BY ONLY <1>1, <1>4, <1>5, n \in 1..Len(Targets) + 1 DEF SetupRecord
<1>7. run' = [run EXCEPT ![c] = q]
  BY <1>1, <1>2, <1>4, <1>5 DEF SetupTyped
<1>8. /\ run' \in [Invocation -> SetupRecord] /\ run'[c] = q
      /\ \A d \in Invocation \ {c} : run'[d] = run[d]
  BY <1>1, <1>6, <1>7, SetupSets
<1>9. SetupTyped' /\ SetupFound'
  BY <1>1, <1>2, <1>8 DEF SetupTyped, SetupFound
<1>10. SetupSized(c)' /\ SetupPlanned(c)'
  BY <1>1, <1>6, <1>8 DEF SetupSized, SetupPlanned
<1>11. SetupCame(c)'
  <2>1. ASSUME NEW j \in DOMAIN run[c].written PROVE run[c].written[j] < n
    <3>1. run[c].written[j] < run[c].at /\ run[c].written[j] \in Nat
      BY <1>1, <1>3 DEF SetupCame
    <3> QED
      BY <1>2, <1>3, <1>4, <3>1
  <2> QED
    BY <1>1, <1>2, <1>6, <1>8, <2>1 DEF SetupCame
<1>12. SetupHolds(c)'
  <2>1. ASSUME NEW i \in Setup!Index, i \notin past[c]
        PROVE /\ SetupWrote(c, i) => world[i] = SetupPut(c, i)
              /\ ~SetupWrote(c, i) =>
                   /\ world[i] = run[c].plan[i].before
                   /\ i < n => world[i] = SetupPut(c, i)
              /\ verdict[c] = "none"
    <3>1. /\ SetupWrote(c, i) => world[i] = SetupPut(c, i)
          /\ ~SetupWrote(c, i) =>
               /\ world[i] = run[c].plan[i].before
               /\ i < run[c].at => world[i] = SetupPut(c, i)
          /\ verdict[c] = "none"
      BY <1>1, <1>2, <1>3, <2>1 DEF SetupHolds, SetupCame
    <3>2. i < n => i = run[c].at \/ i < run[c].at
      BY <1>2, <1>3, <1>4
    <3> QED
      BY <1>2, <3>1, <3>2
  <2>2. ASSUME NEW i \in Setup!Index, i \notin past[c]
        PROVE /\ SetupWrote(c, i)' => world'[i] = SetupPut(c, i)'
              /\ ~SetupWrote(c, i)' =>
                   /\ world'[i] = run'[c].plan[i].before
                   /\ i < run'[c].at => world'[i] = SetupPut(c, i)'
    <3>1. SetupPut(c, i)' = SetupPut(c, i)
      BY <1>6, <1>8 DEF SetupPut
    <3>2. (SetupWrote(c, i)' => SetupWrote(c, i)) /\ (SetupWrote(c, i) => SetupWrote(c, i)')
      BY <1>6, <1>8 DEF SetupWrote
    <3>3. world'[i] = world[i] /\ run'[c].plan = run[c].plan /\ run'[c].at = n
      BY <1>2, <1>6, <1>8
    <3> QED
      BY <2>1, <2>2, <3>1, <3>2, <3>3
  <2>3. DOMAIN run'[c].plan \ past'[c] = Setup!Index \ past[c] /\ pc'[c] = "write"
        /\ verdict'[c] = "none"
    BY <1>1, <1>2, <1>3, <1>6, <1>8 DEF SetupCame
  <2> QED
    BY <2>2, <2>3 DEF SetupHolds
<1> QED
  BY <1>2, <1>8, <1>9, <1>10, <1>11, <1>12, SetupStep

\* A file is written, and remembered.
LEMMA SetupWrites ==
  ASSUME SetupInv, NEW c \in Invocation, Setup!Write(c)
  PROVE SetupInv'
<1>1. /\ SetupTyped /\ SetupFound /\ run[c] \in SetupRecord
      /\ SetupSized(c) /\ SetupPlanned(c) /\ SetupCame(c) /\ SetupHolds(c)
      /\ run[c].written \in Seq(Setup!Index) /\ Len(run[c].written) \in Nat
      /\ DOMAIN run[c].written = 1..Len(run[c].written)
      /\ \A j \in DOMAIN run[c].written : run[c].written[j] \in Setup!Index
  BY SetupFacts, SetupFields
<1>2. PICK a : a = run[c].at
  OBVIOUS
<1>3. /\ pc[c] = "write" /\ a \in Setup!Index
      /\ Setup!Puts(c, a, SetupPut(c, a))
      /\ run' = [run EXCEPT ![c].at = @ + 1, ![c].written = Append(@, run[c].at)]
      /\ UNCHANGED <<pc, verdict, others>>
  BY <1>2 DEF Setup!Write, Setup!Item, SetupPut, Setup!Continue
<1>4. /\ DOMAIN run[c].plan = Setup!Index /\ ~SetupWrote(c, a)
      /\ Len(Targets) \in Nat /\ Setup!Index = 1..Len(Targets)
  BY <1>2, <1>3, SetupAt, SetupSize
<1>5. PICK n \in 1..Len(Targets) + 1 : n = a + 1
  BY <1>3, <1>4
<1>6. PICK w : w = Append(run[c].written, a)
  OBVIOUS
<1>7. PICK m \in Nat : m = Len(run[c].written)
  BY <1>1
<1>8. /\ w \in Seq(Setup!Index) /\ DOMAIN w = 1..m + 1 /\ w[m + 1] = a
      /\ \A j \in 1..m : w[j] = run[c].written[j]
  <2>1. /\ w \in Seq(Setup!Index) /\ Len(w) = m + 1 /\ w[m + 1] = a
        /\ \A j \in 1..m : w[j] = run[c].written[j]
    BY <1>1, <1>3, <1>6, <1>7, Longer
  <2> QED
    BY <2>1
<1>9. PICK q : q = [run[c] EXCEPT !.at = n, !.written = w]
  OBVIOUS
<1>10. /\ q \in SetupRecord /\ q.plan = run[c].plan /\ q.at = n /\ q.written = w
       /\ q.unclean = run[c].unclean
  BY ONLY <1>1, <1>8, <1>9, n \in 1..Len(Targets) + 1 DEF SetupRecord
<1>11. run' = [run EXCEPT ![c] = q]
  BY <1>1, <1>2, <1>3, <1>5, <1>6, <1>9 DEF SetupTyped
<1>12. /\ run' \in [Invocation -> SetupRecord] /\ run'[c] = q
       /\ \A d \in Invocation \ {c} : run'[d] = run[d]
  BY <1>1, <1>10, <1>11, SetupSets
<1>13. /\ SetupPut(c, a) \in Setup!File /\ SetupPut(c, a).is = "file"
       /\ SetupPut(c, a).body \in SetupBody(a)
  BY <1>3, <1>4, SetupItems
<1>14. /\ world' \in [Setup!Index -> Setup!File] /\ world'[a] = SetupPut(c, a)
       /\ \A j \in Setup!Index \ {a} : world'[j] = world[j]
       /\ SetupFound'
       /\ past' \in [Invocation -> SUBSET Setup!Index] /\ past'[c] = past[c] \ {a}
       /\ \A d \in Invocation \ {c} : \A j \in Setup!Index :
            j \notin past'[d] => j \notin past[d] /\ world'[j] = world[j]
  BY <1>1, <1>3, <1>13, SetupPuts
<1>15. SetupTyped'
  BY <1>1, <1>3, <1>12, <1>14 DEF SetupTyped
<1>16. SetupSized(c)' /\ SetupPlanned(c)'
  BY <1>1, <1>10, <1>12 DEF SetupSized, SetupPlanned
<1>17. SetupCame(c)'
  <2>1. ASSUME NEW j \in 1..m PROVE w[j] < a /\ w[j] < n
    <3>1. w[j] = run[c].written[j] /\ j \in DOMAIN run[c].written
      BY <1>1, <1>7, <1>8
    <3>2. run[c].written[j] < a
      BY <1>1, <1>2, <3>1 DEF SetupCame
    <3>3. w[j] \in Nat
      <4>1. w[j] \in Setup!Index
        BY <1>1, <3>1
      <4> QED
        BY <1>4, <4>1
    <3> QED
      BY <1>3, <1>4, <1>5, <3>1, <3>2, <3>3
  <2>2. \A j \in 1..m + 1 : w[j] < n
    <3>1. a < n
      BY <1>3, <1>4, <1>5
    <3>2. \A j \in 1..m + 1 : j \in 1..m \/ j = m + 1
      OBVIOUS
    <3> QED
      BY <1>8, <2>1, <3>1, <3>2
  <2>3. ASSUME NEW j \in 1..m + 1, NEW k \in 1..m + 1, j < k PROVE w[j] < w[k]
    <3>1. j \in 1..m
      BY <2>3
    <3>2. CASE k = m + 1
      BY <1>8, <2>1, <3>1, <3>2
    <3>3. CASE k # m + 1
      <4>1. k \in 1..m
        BY <3>3
      <4>2. run[c].written[j] < run[c].written[k]
        BY <1>1, <1>7, <2>3, <3>1, <4>1 DEF SetupCame
      <4> QED
        BY <1>8, <3>1, <4>1, <4>2
    <3> QED
      BY <3>2, <3>3
  <2> QED
    BY <1>1, <1>3, <1>8, <1>10, <1>12, <2>2, <2>3 DEF SetupCame
<1>18. SetupHolds(c)'
  <2>1. ASSUME NEW i \in Setup!Index, i \notin past'[c]
        PROVE /\ SetupWrote(c, i)' => world'[i] = SetupPut(c, i)'
              /\ ~SetupWrote(c, i)' =>
                   /\ world'[i] = run'[c].plan[i].before
                   /\ i < run'[c].at => world'[i] = SetupPut(c, i)'
    <3>1. SetupPut(c, i)' = SetupPut(c, i) /\ run'[c].plan = run[c].plan /\ run'[c].at = n
      BY <1>10, <1>12 DEF SetupPut
    <3>2. CASE i = a
      <4>1. SetupWrote(c, i)'
        <5>1. m + 1 \in DOMAIN run'[c].written /\ run'[c].written[m + 1] = i
          BY <1>8, <1>10, <1>12, <3>2
        <5> QED
          BY <5>1 DEF SetupWrote
      <4> QED
        BY <1>14, <3>1, <3>2, <4>1
    <3>3. CASE i # a
      <4>1. i \notin past[c] /\ world'[i] = world[i]
        BY <1>14, <2>1, <3>3
      <4>2. /\ SetupWrote(c, i) => world[i] = SetupPut(c, i)
            /\ ~SetupWrote(c, i) =>
                 /\ world[i] = run[c].plan[i].before
                 /\ i < a => world[i] = SetupPut(c, i)
        BY <1>1, <1>2, <1>3, <1>4, <4>1 DEF SetupHolds
      <4>3. i < n => i < a
        BY <1>3, <1>4, <1>5, <3>3
      <4>4. SetupWrote(c, i)' => SetupWrote(c, i)
        <5>1. \A j \in 1..m + 1 : w[j] = i => j \in 1..m
          BY <1>8, <3>3
        <5> QED
          BY <1>1, <1>7, <1>8, <1>10, <1>12, <5>1 DEF SetupWrote
      <4>5. SetupWrote(c, i) => SetupWrote(c, i)'
        <5>1. \A j \in 1..m : j \in 1..m + 1
          OBVIOUS
        <5> QED
          BY <1>1, <1>7, <1>8, <1>10, <1>12, <5>1 DEF SetupWrote
      <4> QED
        BY <3>1, <4>1, <4>2, <4>3, <4>4, <4>5
    <3> QED
      BY <3>2, <3>3
  <2>2. DOMAIN run'[c].plan = Setup!Index /\ pc'[c] = "write" /\ verdict'[c] = "none"
    BY <1>1, <1>3, <1>4, <1>10, <1>12 DEF SetupCame
  <2> QED
    BY <2>1, <2>2 DEF SetupHolds
<1> QED
  BY <1>3, <1>12, <1>14, <1>15, <1>16, <1>17, <1>18, SetupStep

\* The last file written is put back, or cannot be.
LEMMA SetupUndoes ==
  ASSUME SetupInv, NEW c \in Invocation, Setup!Undo(c)
  PROVE SetupInv'
<1>1. /\ SetupTyped /\ SetupFound /\ run[c] \in SetupRecord
      /\ SetupSized(c) /\ SetupPlanned(c) /\ SetupCame(c) /\ SetupHolds(c)
      /\ run[c].written \in Seq(Setup!Index) /\ Len(run[c].written) \in Nat
      /\ DOMAIN run[c].written = 1..Len(run[c].written)
      /\ \A j \in DOMAIN run[c].written : run[c].written[j] \in Setup!Index
  BY SetupFacts, SetupFields
<1>2. pc[c] = "undo" /\ run[c].written # <<>> /\ UNCHANGED <<pc, verdict, others>>
  BY DEF Setup!Undo, Setup!Continue
<1>3. PICK m \in Nat \ {0} : m = Len(run[c].written)
  BY <1>1, <1>2
<1>4. PICK a \in Setup!Index : a = run[c].written[m]
  BY <1>1, <1>3
<1>5. PICK w : w = SubSeq(run[c].written, 1, m - 1)
  OBVIOUS
<1>6. /\ w \in Seq(Setup!Index) /\ DOMAIN w = 1..m - 1
      /\ \A j \in 1..m - 1 : w[j] = run[c].written[j]
  <2>1. \A j \in 1..m - 1 : run[c].written[j] \in Setup!Index
    BY <1>1, <1>3
  <2>2. /\ w \in Seq(Setup!Index) /\ Len(w) = IF 1 <= m - 1 THEN m - 1 - 1 + 1 ELSE 0
        /\ \A j \in 1..m - 1 - 1 + 1 : w[j] = run[c].written[1 + j - 1]
    BY <1>5, <2>1, SubSeqProperties
  <2>3. Len(w) = m - 1
    BY <2>2
  <2>4. ASSUME NEW j \in 1..m - 1 PROVE w[j] = run[c].written[j]
    <3>1. j \in 1..m - 1 - 1 + 1 /\ 1 + j - 1 = j
      OBVIOUS
    <3> QED
      BY <2>2, <3>1
  <2> QED
    BY <2>2, <2>3, <2>4
<1>7. DOMAIN run[c].plan = Setup!Index
  BY <1>2, SetupAt
<1>8. PICK u \in BOOLEAN :
        /\ run' = [run EXCEPT ![c].written = Setup!Front(@), ![c].unclean = u]
        /\ \/ Setup!Puts(c, a, run[c].plan[a].before) /\ u = run[c].unclean
           \/ UNCHANGED <<world, past>> /\ u = TRUE
  <2>1. Setup!Last(run[c].written) = a
    BY <1>3, <1>4 DEF Setup!Last
  <2>2. \/ /\ Setup!Puts(c, a, run[c].plan[a].before)
           /\ run' = [run EXCEPT ![c].written = Setup!Front(@)]
        \/ /\ run' = [run EXCEPT ![c].written = Setup!Front(@), ![c].unclean = TRUE]
           /\ UNCHANGED <<world, past>>
    BY <2>1 DEF Setup!Undo, Setup!Restored
  <2>3. CASE Setup!Puts(c, a, run[c].plan[a].before)
             /\ run' = [run EXCEPT ![c].written = Setup!Front(@)]
    <3>1. run[c].unclean \in BOOLEAN
      BY <1>1, SetupFields
    <3>2. PICK x : x = Setup!Front(run[c].written)
      OBVIOUS
    <3>3. PICK q : q = [run[c] EXCEPT !.written = x]
      OBVIOUS
    <3>4. PICK p : p = [run[c] EXCEPT !.written = x, !.unclean = run[c].unclean]
      OBVIOUS
    <3>5. q = p
      BY ONLY <1>1, <3>3, <3>4 DEF SetupRecord
    <3>6. run' = [run EXCEPT ![c] = q]
      BY <1>1, <2>3, <3>2, <3>3 DEF SetupTyped
    <3>7. run' = [run EXCEPT ![c].written = Setup!Front(@), ![c].unclean = run[c].unclean]
      BY <1>1, <3>2, <3>4, <3>5, <3>6 DEF SetupTyped
    <3> QED
      BY <2>3, <3>1, <3>7
  <2>4. CASE /\ run' = [run EXCEPT ![c].written = Setup!Front(@), ![c].unclean = TRUE]
             /\ UNCHANGED <<world, past>>
    BY <2>4
  <2> QED
    BY <2>2, <2>3, <2>4
<1>9. PICK q : q = [run[c] EXCEPT !.written = w, !.unclean = u]
  OBVIOUS
<1>10. /\ q \in SetupRecord /\ q.plan = run[c].plan /\ q.at = run[c].at /\ q.written = w
       /\ q.unclean = u
  BY ONLY <1>1, <1>6, <1>9, u \in BOOLEAN DEF SetupRecord
<1>11. run' = [run EXCEPT ![c] = q]
  <2>1. Setup!Front(run[c].written) = w
    BY <1>3, <1>5 DEF Setup!Front
  <2> QED
    BY <1>1, <1>8, <1>9, <2>1 DEF SetupTyped
<1>12. /\ run' \in [Invocation -> SetupRecord] /\ run'[c] = q
       /\ \A d \in Invocation \ {c} : run'[d] = run[d]
  BY <1>1, <1>10, <1>11, SetupSets
<1>13. SetupSized(c)' /\ SetupPlanned(c)'
  BY <1>1, <1>10, <1>12 DEF SetupSized, SetupPlanned
<1>14. SetupCame(c)'
  <2>1. \A j \in 1..m - 1 : j \in 1..m
    OBVIOUS
  <2>2. \A j \in 1..m - 1 : w[j] < run[c].at
    BY <1>1, <1>3, <1>6, <2>1 DEF SetupCame
  <2>3. \A j, k \in 1..m - 1 : j < k => w[j] < w[k]
    BY <1>1, <1>3, <1>6, <2>1 DEF SetupCame
  <2> QED
    BY <1>1, <1>2, <1>6, <1>10, <1>12, <2>2, <2>3 DEF SetupCame
<1>15. ASSUME NEW i \in Setup!Index
       PROVE /\ SetupWrote(c, i)' => SetupWrote(c, i) /\ i # a
             /\ SetupWrote(c, i) /\ i # a => SetupWrote(c, i)'
             /\ SetupPut(c, i)' = SetupPut(c, i)
  <2>1. SetupPut(c, i)' = SetupPut(c, i)
    BY <1>10, <1>12 DEF SetupPut
  <2>2. ASSUME NEW j \in 1..m - 1 PROVE w[j] = run[c].written[j] /\ w[j] # a /\ j \in 1..m
    <3>1. j \in 1..m /\ m \in 1..m /\ j < m
      OBVIOUS
    <3>2. run[c].written[j] < run[c].written[m]
      BY <1>1, <1>3, <3>1 DEF SetupCame
    <3>3. run[c].written[j] \in Nat /\ run[c].written[m] \in Nat
      <4>1. run[c].written[j] \in Setup!Index /\ run[c].written[m] \in Setup!Index
        BY <1>1, <1>3, <3>1
      <4> QED
        BY <4>1, SetupSize
    <3>4. run[c].written[j] # run[c].written[m]
      BY <3>2, <3>3
    <3> QED
      BY <1>4, <1>6, <3>1, <3>4
  <2>3. SetupWrote(c, i)' => SetupWrote(c, i) /\ i # a
    BY <1>1, <1>3, <1>6, <1>10, <1>12, <2>2 DEF SetupWrote
  <2>4. SetupWrote(c, i) /\ i # a => SetupWrote(c, i)'
    <3>1. SUFFICES ASSUME NEW j \in DOMAIN run[c].written, run[c].written[j] = i, i # a
          PROVE SetupWrote(c, i)'
      BY DEF SetupWrote
    <3>2. j \in 1..m /\ j # m
      BY <1>1, <1>3, <1>4, <3>1
    <3>3. j \in 1..m - 1
      BY <3>2
    <3> QED
      BY <1>6, <1>10, <1>12, <3>1, <3>3 DEF SetupWrote
  <2> QED
    BY <2>1, <2>3, <2>4
<1>16. ASSUME NEW i \in Setup!Index, i \notin past[c]
       PROVE /\ SetupWrote(c, i) => world[i] = SetupPut(c, i)
             /\ ~SetupWrote(c, i) /\ ~run[c].unclean => world[i] = run[c].plan[i].before
  BY <1>1, <1>2, <1>7, <1>16 DEF SetupHolds
<1>17. run'[c].plan = run[c].plan /\ run'[c].unclean = u
       /\ DOMAIN run'[c].plan = Setup!Index /\ pc'[c] = "undo" /\ verdict'[c] = "none"
  BY <1>1, <1>2, <1>7, <1>10, <1>12 DEF SetupCame
<1>18. CASE Setup!Puts(c, a, run[c].plan[a].before) /\ u = run[c].unclean
  <2>1. /\ world' \in [Setup!Index -> Setup!File] /\ world'[a] = run[c].plan[a].before
        /\ \A j \in Setup!Index \ {a} : world'[j] = world[j]
        /\ SetupFound'
        /\ past' \in [Invocation -> SUBSET Setup!Index] /\ past'[c] = past[c] \ {a}
        /\ \A d \in Invocation \ {c} : \A j \in Setup!Index :
             j \notin past'[d] => j \notin past[d] /\ world'[j] = world[j]
    <3>1. /\ run[c].plan[a].before \in Setup!File /\ run[c].plan[a].before.body \in SetupBody(a)
          /\ run[c].plan[a].before.is # "file" => run[c].plan[a].before.body = <<>>
      BY <1>7, SetupItems
    <3> QED
      BY <1>1, <1>18, <3>1, SetupPuts
  <2>2. SetupTyped'
    BY <1>1, <1>2, <1>12, <2>1 DEF SetupTyped
  <2>3. ASSUME NEW i \in Setup!Index, i \notin past'[c]
        PROVE /\ SetupWrote(c, i)' => world'[i] = SetupPut(c, i)'
              /\ ~SetupWrote(c, i)' /\ ~run'[c].unclean => world'[i] = run'[c].plan[i].before
    <3>1. CASE i = a
      BY <1>15, <1>17, <2>1, <3>1
    <3>2. CASE i # a
      <4>1. i \notin past[c] /\ world'[i] = world[i]
        BY <2>1, <2>3, <3>2
      <4> QED
        BY <1>15, <1>16, <1>17, <1>18, <3>2, <4>1
    <3> QED
      BY <3>1, <3>2
  <2>4. SetupHolds(c)'
    BY <1>17, <2>3 DEF SetupHolds
  <2> QED
    BY <1>2, <1>12, <1>13, <1>14, <2>1, <2>2, <2>4, SetupStep
<1>19. CASE UNCHANGED <<world, past>> /\ u = TRUE
  <2>1. SetupTyped' /\ SetupFound'
    BY <1>1, <1>2, <1>12, <1>19 DEF SetupTyped, SetupFound
  <2>2. ASSUME NEW i \in Setup!Index, i \notin past'[c]
        PROVE SetupWrote(c, i)' => world'[i] = SetupPut(c, i)'
    BY <1>15, <1>16, <1>19, <2>2
  <2>3. SetupHolds(c)'
    BY <1>17, <1>19, <2>2 DEF SetupHolds
  <2> QED
    BY <1>2, <1>12, <1>13, <1>14, <1>19, <2>1, <2>3, SetupStep
<1> QED
  BY <1>8, <1>18, <1>19

\* Another program changes a file: nobody knows any more what that one holds.
LEMMA SetupEdits ==
  ASSUME SetupInv, Setup!OtherEdits
  PROVE SetupInv'
<1>1. /\ SetupTyped /\ SetupFound
      /\ \A c \in Invocation : SetupSized(c) /\ SetupPlanned(c) /\ SetupCame(c) /\ SetupHolds(c)
  BY SetupFacts
<1>2. /\ UNCHANGED <<pc, run, verdict>>
      /\ others < MaxSetupActors /\ others' = others + 1
  BY DEF Setup!OtherEdits
<1>3. PICK i, f :
        /\ i \in Setup!Index
        /\ f \in {Setup!Missing, Setup!Unsafe} \cup {Setup!Holding(b) : b \in Setup!Bodies(i)}
        /\ world' = [world EXCEPT ![i] = f]
        /\ past' = [c \in Invocation |-> past[c] \cup {i}]
  BY DEF Setup!OtherEdits
<1>4. f \in Setup!File /\ (f.is # "file" => f.body = <<>>) /\ f.body \in SetupBody(i)
  <2>1. CASE f \in {Setup!Missing, Setup!Unsafe}
    BY <1>3, <2>1, SetupFiles
  <2>2. CASE f \notin {Setup!Missing, Setup!Unsafe}
    <3>1. PICK b \in Setup!Bodies(i) : f = Setup!Holding(b)
      BY <1>3, <2>2
    <3>2. b \in SetupBody(i) /\ b \in Seq(Setup!Word)
      BY <1>3, <3>1, SetupBodies, SetupFiles
    <3> QED
      BY <3>1, <3>2, SetupFiles
  <2> QED
    BY <2>1, <2>2
<1>5. /\ world' \in [Setup!Index -> Setup!File] /\ world'[i] = f
      /\ \A j \in Setup!Index \ {i} : world'[j] = world[j]
  BY <1>1, <1>3, <1>4 DEF SetupTyped
<1>6. SetupFound'
  BY <1>1, <1>4, <1>5 DEF SetupFound
<1>7. /\ past' \in [Invocation -> SUBSET Setup!Index]
      /\ \A c \in Invocation : past'[c] = past[c] \cup {i}
  BY <1>1, <1>3 DEF SetupTyped
<1>8. others' \in 0..MaxSetupActors
  <2>1. others \in 0..MaxSetupActors
    BY <1>1 DEF SetupTyped
  <2> QED
    BY <1>2, <2>1, SetupSize
<1>9. SetupTyped'
  BY <1>1, <1>2, <1>5, <1>7, <1>8 DEF SetupTyped
<1>10. ASSUME NEW d \in Invocation
       PROVE (SetupSized(d) /\ SetupPlanned(d) /\ SetupCame(d) /\ SetupHolds(d))'
  <2>1. \A j \in Setup!Index : j \notin past'[d] => j \notin past[d] /\ world'[j] = world[j]
    BY <1>5, <1>7
  <2> QED
    BY <1>2, <2>1, SetupOthers
<1> QED
  BY <1>6, <1>9, <1>10
  DEF SetupInv, SetupTyped, SetupFound, SetupSized, SetupRecord, SetupItem, Setup!TypeOK,
      Setup!Nothing

\* SetupInv is an invariant of setup.
LEMMA SetupInvHolds ==
  /\ Setup!Init => SetupInv
  /\ SetupInv /\ Setup!Next => SetupInv'
<1>1. ASSUME SetupInv, Setup!Next PROVE SetupInv'
  <2>1. CASE Setup!OtherEdits
    BY <1>1, <2>1, SetupEdits
  <2>2. CASE ~Setup!OtherEdits
    <3>1. PICK c \in Invocation : Setup!Step(c)
      BY <1>1, <2>2 DEF Setup!Next
    <3>2. CASE Setup!Plan(c)
      BY <1>1, <3>2, SetupPlans
    <3>3. CASE Setup!Skip(c)
      BY <1>1, <3>3, SetupSkips
    <3>4. CASE Setup!Write(c)
      BY <1>1, <3>4, SetupWrites
    <3>5. CASE Setup!Undo(c)
      BY <1>1, <3>5, SetupUndoes
    <3>6. CASE \/ Setup!RefusePlan(c) \/ Setup!WriteFails(c) \/ Setup!Installs(c)
               \/ Setup!Undone(c) \/ Setup!Crash(c)
      BY <1>1, <3>6, SetupAnswers
    <3> QED
      BY <3>1, <3>2, <3>3, <3>4, <3>5, <3>6 DEF Setup!Step
  <2> QED
    BY <2>1, <2>2
<1> QED
  BY <1>1, SetupInit

\* What the invariant says of setup's answers.
LEMMA SetupInvSays ==
  SetupInv => Setup!TypeOK /\ Setup!SetupVerdictIsTrue
<1> SUFFICES ASSUME SetupInv PROVE Setup!TypeOK /\ Setup!SetupVerdictIsTrue
  OBVIOUS
<1>1. Setup!TypeOK
  BY DEF SetupInv
<1>2. ASSUME NEW c \in Invocation, NEW i \in DOMAIN run[c].plan \ past[c]
      PROVE /\ verdict[c] = "installed" /\ Setup!Understood(i, run[c].plan[i].before.body) =>
                 world[i].is = "file" /\ Setup!Enabled(i, world[i].body)
            /\ verdict[c] = "refused" => world[i] = run[c].plan[i].before
  <2>1. SetupHolds(c)
    BY SetupFacts
  <2>2. /\ verdict[c] = "installed" => world[i] = SetupPut(c, i)
        /\ verdict[c] = "refused" => world[i] = run[c].plan[i].before
    BY <2>1 DEF SetupHolds
  <2>3. /\ SetupPut(c, i).is = "file" /\ SetupPut(c, i).body = run[c].plan[i].body
        /\ Setup!Understood(i, run[c].plan[i].before.body) =>
             Setup!Enabled(i, run[c].plan[i].body)
    BY SetupItems
  <2> QED
    BY <2>2, <2>3
<1> QED
  BY <1>1, <1>2 DEF Setup!SetupVerdictIsTrue

\* What a write or its undoing leaves of a file is the rest of what was there.
LEMMA SetupInvKeeps ==
  ASSUME SetupInv, Setup!Next
  PROVE Setup!KeepsConfiguration
<1> SUFFICES ASSUME NEW c \in Invocation, NEW i \in Setup!Index \ past[c], run'[c] # run[c]
      PROVE Setup!Unrelated(i, world'[i].body) = Setup!Unrelated(i, world[i].body)
  BY DEF Setup!KeepsConfiguration
<1>1. SetupTyped /\ SetupHolds(c) /\ SetupSized(c) /\ SetupCame(c)
  BY SetupFacts
<1>2. CASE world' = world
  BY <1>2
<1>3. CASE world' # world
  <2>1. PICK d \in Invocation : Setup!Write(d) \/ Setup!Undo(d)
    BY <1>3 DEF Setup!Next, Setup!Step, Setup!Plan, Setup!RefusePlan, Setup!Skip,
                Setup!WriteFails, Setup!Installs, Setup!Undone, Setup!Crash, Setup!OtherEdits
  <2>2. run \in [Invocation -> SetupRecord]
    BY <1>1 DEF SetupTyped
  <2>3. c = d
    BY <2>1, <2>2 DEF Setup!Write, Setup!Undo
  <2>4. pc[c] \in {"write", "undo"}
    BY <2>1, <2>3 DEF Setup!Write, Setup!Undo
  <2>5. /\ DOMAIN run[c].plan = Setup!Index /\ ~SetupWrote(c, run[c].at)
        /\ \A j \in DOMAIN run[c].written : run[c].written[j] \in DOMAIN run[c].plan
    BY <2>4, SetupAt
  <2>6. /\ SetupPut(c, i).body = run[c].plan[i].body
        /\ Setup!Unrelated(i, run[c].plan[i].body)
             = Setup!Unrelated(i, run[c].plan[i].before.body)
    BY <2>5, SetupItems
  <2>7. CASE Setup!Write(c)
    <3>1. PICK a : a = run[c].at
      OBVIOUS
    <3>2. /\ pc[c] = "write" /\ a \in Setup!Index
          /\ world' = [world EXCEPT ![a] = SetupPut(c, a)]
      BY <2>7, <3>1 DEF Setup!Write, Setup!Item, SetupPut, Setup!Puts
    <3>3. CASE i = a
      <4>1. world[i] = run[c].plan[i].before
        BY <1>1, <2>5, <3>1, <3>2, <3>3 DEF SetupHolds
      <4>2. world'[i] = SetupPut(c, i)
        BY <1>1, <3>2, <3>3 DEF SetupTyped
      <4> QED
        BY <2>6, <4>1, <4>2
    <3>4. CASE i # a
      <4>1. world'[i] = world[i]
        BY <1>1, <3>2, <3>4 DEF SetupTyped
      <4> QED
        BY <4>1
    <3> QED
      BY <3>3, <3>4
  <2>8. CASE Setup!Undo(c)
    <3>1. PICK a : a = Setup!Last(run[c].written)
      OBVIOUS
    <3>2. /\ pc[c] = "undo" /\ run[c].written # <<>>
          /\ world' = [world EXCEPT ![a] = run[c].plan[a].before]
      BY <1>3, <2>8, <3>1 DEF Setup!Undo, Setup!Restored, Setup!Puts
    <3>3. SetupWrote(c, a)
      <4>1. PICK m : m = Len(run[c].written)
        OBVIOUS
      <4>2. m \in DOMAIN run[c].written /\ a = run[c].written[m]
        <5>1. DOMAIN run[c].written = 1..m /\ m \in Nat
          BY <1>1, <4>1, SetupFields
        <5>2. m # 0
          BY <1>1, <3>2, <4>1, SetupFields
        <5> QED
          BY <3>1, <4>1, <5>1, <5>2 DEF Setup!Last
      <4> QED
        BY <4>2 DEF SetupWrote
    <3>4. CASE i = a
      <4>1. world[i] = SetupPut(c, i)
        BY <1>1, <2>5, <3>2, <3>3, <3>4 DEF SetupHolds
      <4>2. world'[i] = run[c].plan[i].before
        BY <1>1, <3>2, <3>4 DEF SetupTyped
      <4> QED
        BY <2>6, <4>1, <4>2
    <3>5. CASE i # a
      <4>1. world'[i] = world[i]
        BY <1>1, <3>2, <3>5 DEF SetupTyped
      <4> QED
        BY <4>1
    <3> QED
      BY <3>4, <3>5
  <2> QED
    BY <2>1, <2>3, <2>7, <2>8
<1> QED
  BY <1>2, <1>3
-----------------------------------------------------------------------------
(***************************************************************************)
(* The import of a token (TokenImport).                                    *)
(* The native configuration and the official store, and the token in each. *)
(***************************************************************************)

\* What an import has read: the configuration with its own entry put in, the others as
\* they still are where nobody changed them, and the item that was there before.
ImportKnown(c) ==
  /\ pc[c] \in {"validate", "get", "set", "save", "delete", "restore"} =>
       /\ run[c].cfg[run[c].host] = run[c].api
       /\ \A h \in Host \ ({run[c].host} \cup past[c].entries) : run[c].cfg[h] = world.config[h]
  /\ pc[c] \in {"load", "validate", "get", "open", "lookup"} => run[c].previous = Import!Unread
  /\ pc[c] \in {"set", "save", "delete", "restore"} => run[c].previous # Import!Unread

\* Which credentials the provider has accepted at the authority they are held for.
ImportValid(c) ==
  /\ run[c].api \in Api
  /\ pc[c] \in {"get", "set", "save", "delete", "restore"} => <<run[c].token, run[c].api>> \in Valid
  /\ run[c].previous \in Token => <<run[c].previous, run[c].api>> \in Valid
  /\ verdict[c] = "opened" /\ run[c].env = Import!None => <<run[c].token, run[c].api>> \in Valid

ImportRing ==
  \A i \in Host \X Api : world.ring[i] # Import!None => <<world.ring[i], i[2]>> \in Valid

\* What the stores hold for an import, where nobody else has changed them.
ImportItem(c) ==
  /\ pc[c] = "set" \/ (verdict[c] = "refused" /\ run[c].previous # Import!Unread) =>
       past[c].item \/ world.ring[Import!Key(c)] = run[c].previous
  /\ pc[c] = "save" \/ verdict[c] = "stored" =>
       past[c].item \/ world.ring[Import!Key(c)] = run[c].token
  /\ pc[c] = "restore" /\ ~run[c].failed =>
       past[c].item \/ world.ring[Import!Key(c)] = Import!None
  /\ verdict[c] = "stored" =>
       run[c].host \in past[c].entries \/ world.config[run[c].host] = run[c].api
  /\ pc[c] # "imported" => verdict[c] = "none"

ImportInv ==
  /\ Import!TypeOK /\ ImportRing
  /\ \A c \in Invocation : ImportKnown(c) /\ ImportValid(c) /\ ImportItem(c)

\* What a token, an entry and the history of a run are.
LEMMA ImportWords ==
  /\ Import!None = "none" /\ Import!Unread = "unread"
  /\ Import!None \notin Token /\ Import!Unread \notin Token /\ Import!None \notin Api
  /\ Import!None \notin Invocation
  /\ PublicHost \in Host /\ PublicApi \in Api
  /\ \A t, a : <<t, a>> \in Valid => t \in Token /\ a \in Api
<1>1. \A t, a : <<t, a>> \in Token \X Api => t \in Token /\ a \in Api
  OBVIOUS
<1> QED
  BY <1>1, LocalAssumption DEF Import!None, Import!Unread

\* The invariant holds before a token is looked at.
LEMMA ImportInit == Import!Init => ImportInv
<1> SUFFICES ASSUME Import!Init PROVE ImportInv
  OBVIOUS
<1>1. others \in 0..MaxImportActors
  <2>1. {c \in Invocation : pc[c] # "imported"} \in SUBSET Invocation
    OBVIOUS
  <2>2. MaxImportActors \in {MaxUpdateActors, MaxSetupActors, MaxImportActors}
    OBVIOUS
  <2>3. Cardinality({c \in Invocation : pc[c] # "imported"}) \in 0..MaxImportActors
    BY <2>1, <2>2, Few
  <2> QED
    BY <2>3 DEF Import!Init, Import!Cardinality, Cardinality
<1>2. PICK config \in Configured, t \in Token \cup {Import!None} :
        world = [config |-> config,
                 ring |-> [i \in Host \X Api |->
                   IF <<t, i[2]>> \in Valid /\ config[i[1]] = i[2] THEN t ELSE Import!None]]
  BY DEF Import!Init
<1>3. /\ world \in [config : Import!Config, ring : [Host \X Api -> Token \cup {Import!None}]]
      /\ ImportRing
  BY <1>2, LocalAssumption, ImportWords DEF Import!Config, ImportRing
<1>4. /\ run \in [Invocation ->
           [host : Host, api : Api, token : Token, env : Token \cup {Import!None},
            cfg : Import!Config, previous : {Import!Unread}, failed : BOOLEAN]]
      /\ pc \in [Invocation -> {"load", "open", "imported"}]
  BY <1>3 DEF Import!Init
<1>5. Import!TypeOK
  BY <1>1, <1>3, <1>4, ImportWords DEF Import!Init, Import!TypeOK, Import!Steps
<1>6. \A c \in Invocation : ImportKnown(c) /\ ImportValid(c) /\ ImportItem(c)
  BY <1>4, ImportWords DEF Import!Init, ImportKnown, ImportValid, ImportItem
<1> QED
  BY <1>3, <1>5, <1>6 DEF ImportInv

\* The key of a run whose authority is known is an item's.
LEMMA ImportKeys ==
  \A c \in Invocation : Import!TypeOK /\ ImportValid(c) =>
    /\ Import!Key(c) \in Host \X Api /\ Import!Key(c)[2] = run[c].api
    /\ world.ring[Import!Key(c)] \in Token \cup {Import!None}
BY DEF Import!TypeOK, ImportValid, Import!Key, Import!ServiceName

\* The stores and the history of what others changed in them.
ImportStoresTyped ==
  /\ world \in [config : Import!Config, ring : [Host \X Api -> Token \cup {Import!None}]]
  /\ past \in [Invocation -> [entries : SUBSET Host, item : BOOLEAN]]

\* What writing an item does, and what it is to the other runs.
LEMMA ImportSetsItem ==
  ASSUME Import!TypeOK, NEW c, NEW i \in Host \X Api, NEW t \in Token \cup {Import!None},
         Import!SetsItem(c, i, t)
  PROVE /\ world'.config = world.config
        /\ ImportStoresTyped'
        /\ world'.ring[i] = t
        /\ \A j \in (Host \X Api) \ {i} : world'.ring[j] = world.ring[j]
        /\ \A d \in Invocation :
             /\ past'[d].entries = past[d].entries
             /\ d = c => ~past'[d].item
             /\ d # c =>
                  /\ past[d].item => past'[d].item
                  /\ i = <<run[d].host, run[d].api>> => past'[d].item \/ world.ring[i] = t
<1>t. /\ world \in [config : Import!Config, ring : [Host \X Api -> Token \cup {Import!None}]]
      /\ past \in [Invocation -> [entries : SUBSET Host, item : BOOLEAN]]
  BY DEF Import!TypeOK
<1>r. \A x : \A r \in [entries : SUBSET Host, item : BOOLEAN] :
        /\ [r EXCEPT !.item = x] = [entries |-> r.entries, item |-> x]
        /\ [r EXCEPT !.entries = x] = [entries |-> x, item |-> r.item]
  OBVIOUS
<1>1. \A d \in Invocation :
        (IF d = c THEN FALSE ELSE past[d].item \/ (i = <<run[d].host, run[d].api>> /\ world.ring[i] # t))
          \in BOOLEAN
  BY <1>t
<1>2. \A d \in Invocation :
        [past[d] EXCEPT !.item = IF d = c THEN FALSE
           ELSE past[d].item \/ (i = <<run[d].host, run[d].api>> /\ world.ring[i] # t)]
          = [entries |-> past[d].entries, item |-> IF d = c THEN FALSE
           ELSE past[d].item \/ (i = <<run[d].host, run[d].api>> /\ world.ring[i] # t)]
  BY <1>r, <1>t
<1>3. past' = [d \in Invocation |->
        [entries |-> past[d].entries, item |-> IF d = c THEN FALSE
           ELSE past[d].item \/ (i = <<run[d].host, run[d].api>> /\ world.ring[i] # t)]]
  BY <1>2 DEF Import!SetsItem, Import!Key, Import!ServiceName
<1>4. \A d \in Invocation : past[d].entries \in SUBSET Host
  BY <1>t
<1>5. past' \in [Invocation -> [entries : SUBSET Host, item : BOOLEAN]]
  BY <1>1, <1>3, <1>4
<1>6. world' = [config |-> world.config, ring |-> [world.ring EXCEPT ![i] = t]]
  BY <1>t DEF Import!SetsItem, Import!Key, Import!ServiceName
<1>7. ImportStoresTyped'
  BY <1>t, <1>5, <1>6 DEF ImportStoresTyped
<1> QED
  BY <1>t, <1>3, <1>5, <1>6, <1>7

\* And writing a configuration.
LEMMA ImportSavesConfig ==
  ASSUME Import!TypeOK, NEW c, NEW new \in Import!Config, Import!SavesConfig(c, new)
  PROVE /\ world'.ring = world.ring /\ world'.config = new
        /\ ImportStoresTyped'
        /\ \A d \in Invocation :
             /\ past'[d].item = past[d].item
             /\ d = c => past'[d].entries = {}
             /\ d # c => \A h \in Host : h \in past'[d].entries <=>
                  h \in past[d].entries \/ world.config[h] # new[h]
<1>t. /\ world \in [config : Import!Config, ring : [Host \X Api -> Token \cup {Import!None}]]
      /\ past \in [Invocation -> [entries : SUBSET Host, item : BOOLEAN]]
  BY DEF Import!TypeOK
<1>r. \A x : \A r \in [entries : SUBSET Host, item : BOOLEAN] :
        /\ [r EXCEPT !.item = x] = [entries |-> r.entries, item |-> x]
        /\ [r EXCEPT !.entries = x] = [entries |-> x, item |-> r.item]
  OBVIOUS
<1>8. \A d \in Invocation :
        [past[d] EXCEPT !.entries = IF d = c THEN {}
           ELSE Import!Changed(world.config, new, @)]
          = [entries |-> IF d = c THEN {} ELSE Import!Changed(world.config, new, past[d].entries),
             item |-> past[d].item]
  BY <1>r, <1>t
<1>9. past' = [d \in Invocation |->
        [entries |-> IF d = c THEN {} ELSE Import!Changed(world.config, new, past[d].entries),
         item |-> past[d].item]]
  BY <1>8 DEF Import!SavesConfig
<1>1. past' = [d \in Invocation |->
        [entries |-> IF d = c THEN {}
           ELSE past[d].entries \cup {h \in Host : world.config[h] # new[h]},
         item |-> past[d].item]]
  BY <1>9 DEF Import!Changed
<1>2. world' = [config |-> new, ring |-> world.ring]
  BY <1>t DEF Import!SavesConfig
<1>3. \A d \in Invocation : past[d].entries \in SUBSET Host /\ past[d].item \in BOOLEAN
  BY <1>t
<1>4. \A d \in Invocation :
        (IF d = c THEN {} ELSE past[d].entries \cup {h \in Host : world.config[h] # new[h]})
          \in SUBSET Host
  BY <1>3
<1>7. ImportStoresTyped'
  BY <1>t, <1>1, <1>2, <1>3, <1>4 DEF ImportStoresTyped
<1> QED
  BY <1>t, <1>1, <1>2, <1>3, <1>4, <1>7

\* The calls of c that write.
LEMMA ImportStores ==
  ASSUME Import!TypeOK, NEW c \in Invocation, ImportValid(c)
  PROVE /\ Import!Set(c) => Import!SetsItem(c, Import!Key(c), run[c].token)
        /\ Import!Save(c) => Import!SavesConfig(c, run[c].cfg)
        /\ Import!Delete(c) => \/ Import!SetsItem(c, Import!Key(c), Import!None) /\ UNCHANGED run
                               \/ /\ run' = [run EXCEPT ![c].failed = TRUE]
                                  /\ UNCHANGED <<world, past>>
        /\ Import!Restore(c) =>
             \/ UNCHANGED <<world, past>>
             \/ /\ Import!SetsItem(c, Import!Key(c), run[c].previous)
                /\ verdict' = [verdict EXCEPT ![c] = "refused"]
        /\ run[c].token \in Token /\ run[c].cfg \in Import!Config
        /\ run[c].previous \in Token \cup {Import!None, Import!Unread}
BY DEF Import!Set, Import!Save, Import!Delete, Import!Restore, Import!TypeOK, Import!Answer

\* A step of another: what it may do to d's item and entries is in d's history.
LEMMA ImportFrame ==
  ASSUME ImportInv, NEW d \in Invocation,
         NEW c \in Invocation \cup {Import!None}, c # d,
         \/ c \in Invocation /\ Import!Step(c)
         \/ c = Import!None /\ (Import!OtherEdits \/ Import!OtherForgets)
  PROVE /\ pc'[d] = pc[d] /\ run'[d] = run[d] /\ verdict'[d] = verdict[d]
        /\ past[d].item => past'[d].item
        /\ past'[d].item \/ world'.ring[Import!Key(d)] = world.ring[Import!Key(d)]
        /\ past[d].entries \subseteq past'[d].entries
        /\ \A h \in Host : h \in past'[d].entries \/ world'.config[h] = world.config[h]
<1>1. Import!TypeOK /\ ImportValid(d)
  BY DEF ImportInv
<1>2. Import!Key(d) \in Host \X Api
  BY <1>1, ImportKeys
<1>a. ASSUME NEW i \in Host \X Api, NEW t \in Token \cup {Import!None}, Import!SetsItem(c, i, t)
      PROVE /\ past[d].item => past'[d].item
            /\ past'[d].item \/ world'.ring[Import!Key(d)] = world.ring[Import!Key(d)]
            /\ past[d].entries \subseteq past'[d].entries
            /\ \A h \in Host : h \in past'[d].entries \/ world'.config[h] = world.config[h]
  <2>1. /\ world'.config = world.config
        /\ world'.ring[i] = t
        /\ \A j \in (Host \X Api) \ {i} : world'.ring[j] = world.ring[j]
        /\ past'[d].entries = past[d].entries
        /\ past[d].item => past'[d].item
        /\ i = <<run[d].host, run[d].api>> => past'[d].item \/ world.ring[i] = t
    BY <1>1, <1>a, ImportSetsItem
  <2> QED
    BY <1>2, <2>1 DEF Import!Key, Import!ServiceName
<1>b. ASSUME NEW new \in Import!Config, Import!SavesConfig(c, new)
      PROVE /\ past[d].item => past'[d].item
            /\ past'[d].item \/ world'.ring[Import!Key(d)] = world.ring[Import!Key(d)]
            /\ past[d].entries \subseteq past'[d].entries
            /\ \A h \in Host : h \in past'[d].entries \/ world'.config[h] = world.config[h]
  <2>1. /\ world'.ring = world.ring /\ world'.config = new
        /\ past'[d].item = past[d].item
        /\ \A h \in Host : h \in past'[d].entries <=>
             h \in past[d].entries \/ world.config[h] # new[h]
    BY <1>1, <1>b, ImportSavesConfig
  <2>2. past[d].entries \subseteq Host
    BY <1>1 DEF Import!TypeOK
  <2> QED
    BY <2>1, <2>2
<1>e. ASSUME UNCHANGED world, past'[d] = past[d]
      PROVE /\ past[d].item => past'[d].item
            /\ past'[d].item \/ world'.ring[Import!Key(d)] = world.ring[Import!Key(d)]
            /\ past[d].entries \subseteq past'[d].entries
            /\ \A h \in Host : h \in past'[d].entries \/ world'.config[h] = world.config[h]
  BY <1>e
<1>3. CASE c \in Invocation /\ Import!Step(c)
  <2>1. pc'[d] = pc[d] /\ run'[d] = run[d] /\ verdict'[d] = verdict[d]
    BY <1>1, <1>3 DEF Import!TypeOK, Import!Step, Import!Load, Import!Validate, Import!Get,
       Import!Set,
       Import!Refuse, Import!Save, Import!SaveFails, Import!Delete, Import!Restore, Import!Open,
       Import!Lookup, Import!LookupEnvironment, Import!Goto, Import!Answer
  <2>2. ImportValid(c) /\ Import!Key(c) \in Host \X Api
    BY <1>1, <1>3, ImportKeys DEF ImportInv
  <2>3. CASE Import!Set(c) \/ Import!Save(c) \/ Import!Delete(c)
    BY <1>1, <1>3, <1>a, <1>b, <1>e, <2>1, <2>2, <2>3, ImportStores
  <2>4. CASE Import!Restore(c)
    <3>1. run[c].previous # Import!Unread
      BY <1>3, <2>4 DEF ImportInv, ImportKnown, Import!Restore
    <3> QED
      BY <1>1, <1>3, <1>a, <1>e, <2>1, <2>2, <2>4, <3>1, ImportStores
  <2>5. CASE Import!Load(c) \/ Import!Get(c)
    <3>1. UNCHANGED world /\ past'[d] = past[d]
      BY <1>1, <1>3, <2>5 DEF Import!Load, Import!Get, Import!TypeOK
    <3> QED
      BY <1>e, <2>1, <3>1
  <2>6. CASE UNCHANGED <<world, past>>
    BY <1>e, <2>1, <2>6
  <2> QED
    BY <1>3, <2>3, <2>4, <2>5, <2>6
    DEF Import!Step, Import!Validate, Import!Refuse, Import!SaveFails,
        Import!Open, Import!Lookup, Import!LookupEnvironment
<1>4. CASE c = Import!None /\ (Import!OtherEdits \/ Import!OtherForgets)
  <2>1. pc' = pc /\ run' = run /\ verdict' = verdict
    BY <1>4 DEF Import!OtherEdits, Import!OtherForgets, Import!Act
  <2>2. \/ \E new \in Import!Config : Import!SavesConfig(c, new)
        \/ \E i \in Host \X Api : Import!SetsItem(c, i, Import!None)
    BY <1>1, <1>4 DEF Import!OtherEdits, Import!OtherForgets, Import!TypeOK, Import!Config
  <2> QED
    BY <1>a, <1>b, <2>1, <2>2
<1> QED
  BY <1>3, <1>4

\* The types stay.
LEMMA ImportTypes ==
  ASSUME ImportInv, Import!Next
  PROVE Import!TypeOK'
<1>1. Import!TypeOK
  BY DEF ImportInv
<1>2. ImportStoresTyped
  BY <1>1 DEF Import!TypeOK, ImportStoresTyped
<1>c. ASSUME NEW c \in Invocation, Import!Step(c) PROVE Import!TypeOK'
  <2>1. ImportValid(c) /\ ImportKnown(c) /\ Import!Key(c) \in Host \X Api
    BY <1>1, ImportKeys DEF ImportInv
  <2>2. ImportStoresTyped'
    <3>1. CASE Import!Set(c) \/ Import!Save(c) \/ Import!Delete(c) \/ Import!Restore(c)
      <4>1. Import!Restore(c) => run[c].previous # Import!Unread
        BY <2>1 DEF ImportKnown, Import!Restore
      <4>2. \/ UNCHANGED <<world, past>>
            \/ \E t \in Token \cup {Import!None} : Import!SetsItem(c, Import!Key(c), t)
            \/ \E new \in Import!Config : Import!SavesConfig(c, new)
        BY <1>1, <2>1, <3>1, <4>1, ImportStores
      <4>3. ASSUME UNCHANGED <<world, past>> PROVE ImportStoresTyped'
        BY <1>2, <4>3 DEF ImportStoresTyped
      <4>4. ASSUME NEW t \in Token \cup {Import!None}, Import!SetsItem(c, Import!Key(c), t)
            PROVE ImportStoresTyped'
        BY <1>1, <2>1, <4>4, ImportSetsItem
      <4>5. ASSUME NEW new \in Import!Config, Import!SavesConfig(c, new)
            PROVE ImportStoresTyped'
        BY <1>1, <4>5, ImportSavesConfig
      <4> QED
        BY <4>2, <4>3, <4>4, <4>5
    <3>2. CASE Import!Load(c) \/ Import!Get(c)
      <4>1. /\ [past EXCEPT ![c].entries = {}] \in [Invocation -> [entries : SUBSET Host, item : BOOLEAN]]
            /\ [past EXCEPT ![c].item = FALSE] \in [Invocation -> [entries : SUBSET Host, item : BOOLEAN]]
        BY <1>2 DEF ImportStoresTyped
      <4> QED
        BY <1>2, <3>2, <4>1 DEF ImportStoresTyped, Import!Load, Import!Get
    <3>3. CASE UNCHANGED <<world, past>>
      BY <1>2, <3>3 DEF ImportStoresTyped
    <3> QED
      BY <1>c, <3>1, <3>2, <3>3
      DEF Import!Step, Import!Validate, Import!Refuse, Import!SaveFails,
          Import!Open, Import!Lookup, Import!LookupEnvironment
  <2>3. run' \in [Invocation ->
          [host : Host, api : Api \cup {Import!None}, token : Token,
           env : Token \cup {Import!None}, cfg : Import!Config,
           previous : Token \cup {Import!None, Import!Unread}, failed : BOOLEAN]]
    <3>0. run \in [Invocation ->
          [host : Host, api : Api \cup {Import!None}, token : Token,
           env : Token \cup {Import!None}, cfg : Import!Config,
           previous : Token \cup {Import!None, Import!Unread}, failed : BOOLEAN]]
      BY <1>1 DEF Import!TypeOK
    <3>1. CASE Import!Load(c)
      <4>1. [world.config EXCEPT ![run[c].host] = run[c].api] \in Import!Config
        BY <1>2, <3>0 DEF ImportStoresTyped, Import!Config
      <4> QED
        BY <3>0, <3>1, <4>1 DEF Import!Load
    <3>2. CASE Import!Get(c)
      <4>1. world.ring[Import!Key(c)] \in Token \cup {Import!None}
        BY <1>2, <2>1 DEF ImportStoresTyped
      <4> QED
        BY <3>0, <3>2, <4>1 DEF Import!Get
    <3>3. CASE Import!Delete(c)
      BY <3>0, <3>3 DEF Import!Delete
    <3>4. CASE Import!Open(c)
      <4>1. Import!Resolve(world.config, run[c].host) \in Api \cup {Import!None}
        BY <1>2, <3>0, ImportWords DEF ImportStoresTyped, Import!Resolve, Import!Config
      <4> QED
        BY <3>0, <3>4, <4>1 DEF Import!Open
    <3>5. CASE Import!Lookup(c)
      <4>1. world.ring[Import!Key(c)] \in Token
        BY <1>2, <2>1, <3>5 DEF ImportStoresTyped, Import!Lookup
      <4> QED
        BY <3>0, <3>5, <4>1 DEF Import!Lookup
    <3>6. CASE Import!LookupEnvironment(c)
      <4>1. run[c].env \in Token
        BY <3>0, <3>6 DEF Import!LookupEnvironment
      <4> QED
        BY <3>0, <3>6, <4>1 DEF Import!LookupEnvironment
    <3>7. CASE UNCHANGED run
      BY <3>0, <3>7
    <3> QED
      BY <1>c, <3>1, <3>2, <3>3, <3>4, <3>5, <3>6, <3>7
      DEF Import!Step, Import!Validate, Import!Set, Import!Refuse, Import!Save, Import!SaveFails,
          Import!Restore
  <2>4. /\ pc' \in [Invocation -> Import!Steps \cup {"imported"}]
        /\ verdict' \in [Invocation -> {"none", "stored", "opened", "refused", "incomplete"}]
        /\ others' = others
    BY <1>1, <1>c DEF Import!TypeOK, Import!Steps, Import!Step, Import!Load, Import!Validate,
       Import!Get, Import!Set, Import!Refuse, Import!Save, Import!SaveFails, Import!Delete,
       Import!Restore, Import!Open, Import!Lookup, Import!LookupEnvironment, Import!Goto, Import!Answer
  <2>5. \A d \in Invocation : run'[d].api # Import!None
    <3>1. \A d \in Invocation : run[d].api # Import!None
      BY ImportWords DEF ImportInv, ImportValid
    <3>2. run'[c].api # Import!None
      BY <1>1, <1>c, <3>1 DEF Import!TypeOK, Import!Step, Import!Load, Import!Validate,
       Import!Get, Import!Set, Import!Refuse, Import!Save, Import!SaveFails, Import!Delete,
       Import!Restore, Import!Open, Import!Lookup, Import!LookupEnvironment
    <3>3. \A d \in Invocation \ {c} : run'[d] = run[d]
      BY <1>1, <1>c DEF Import!TypeOK, Import!Step, Import!Load, Import!Validate,
       Import!Get, Import!Set, Import!Refuse, Import!Save, Import!SaveFails, Import!Delete,
       Import!Restore, Import!Open, Import!Lookup, Import!LookupEnvironment
    <3> QED
      BY <3>1, <3>2, <3>3
  <2>6. others' \in 0..MaxImportActors
    BY <1>1, <2>4 DEF Import!TypeOK
  <2> QED
    BY <2>2, <2>3, <2>4, <2>5, <2>6 DEF Import!TypeOK, ImportStoresTyped
<1>o. ASSUME Import!OtherEdits \/ Import!OtherForgets PROVE Import!TypeOK'
  <2>1. /\ pc' = pc /\ run' = run /\ verdict' = verdict
        /\ others < MaxImportActors /\ others' = others + 1
    BY <1>o DEF Import!OtherEdits, Import!OtherForgets, Import!Act
  <2>2. \/ \E new \in Import!Config : Import!SavesConfig(Import!None, new)
        \/ \E i \in Host \X Api : Import!SetsItem(Import!None, i, Import!None)
    BY <1>1, <1>o DEF Import!OtherEdits, Import!OtherForgets, Import!TypeOK, Import!Config
  <2>3. ImportStoresTyped'
    BY <1>1, <2>2, ImportSetsItem, ImportSavesConfig
  <2>4. others' \in 0..MaxImportActors
    <3>1. MaxImportActors \in Nat
      BY LocalAssumption
    <3>2. others \in 0..MaxImportActors
      BY <1>1 DEF Import!TypeOK
    <3> QED
      BY <2>1, <3>1, <3>2
  <2> QED
    BY <1>1, <2>1, <2>3, <2>4 DEF Import!TypeOK, ImportStoresTyped
<1> QED
  BY <1>c, <1>o DEF Import!Next

\* An item of the keyring, if there is one, is a token valid at its API.
LEMMA ImportRingStays ==
  ASSUME ImportInv, Import!Next
  PROVE ImportRing'
<1>1. Import!TypeOK /\ ImportRing
  BY DEF ImportInv
<1>s. ASSUME NEW c, NEW i \in Host \X Api, NEW t \in Token \cup {Import!None},
             Import!SetsItem(c, i, t), t # Import!None => <<t, i[2]>> \in Valid
      PROVE ImportRing'
  <2>1. /\ world'.ring[i] = t
        /\ \A j \in (Host \X Api) \ {i} : world'.ring[j] = world.ring[j]
    BY <1>1, <1>s, ImportSetsItem
  <2> QED
    BY <1>1, <1>s, <2>1 DEF ImportRing
<1>g. ASSUME world'.ring = world.ring PROVE ImportRing'
  BY <1>1, <1>g DEF ImportRing
<1>c. ASSUME NEW c \in Invocation, Import!Step(c) PROVE ImportRing'
  <2>1. ImportValid(c) /\ ImportKnown(c) /\ Import!Key(c) \in Host \X Api
        /\ Import!Key(c)[2] = run[c].api
    BY <1>1, ImportKeys DEF ImportInv
  <2>2. CASE Import!Set(c)
    <3>1. <<run[c].token, run[c].api>> \in Valid
      BY <2>1, <2>2 DEF ImportValid, Import!Set
    <3> QED
      BY <1>1, <1>s, <2>1, <2>2, <3>1, ImportStores
  <2>3. CASE Import!Save(c)
    BY <1>1, <1>g, <2>1, <2>3, ImportStores, ImportSavesConfig
  <2>4. CASE Import!Delete(c)
    BY <1>1, <1>s, <1>g, <2>1, <2>4, ImportStores
  <2>5. CASE Import!Restore(c)
    <3>1. run[c].previous # Import!Unread
      BY <2>1, <2>5 DEF ImportKnown, Import!Restore
    <3>2. run[c].previous \in Token => <<run[c].previous, run[c].api>> \in Valid
      BY <2>1 DEF ImportValid
    <3> QED
      BY <1>1, <1>s, <1>g, <2>1, <2>5, <3>1, <3>2, ImportStores
  <2>6. CASE UNCHANGED world
    BY <1>g, <2>6
  <2> QED
    BY <1>c, <2>2, <2>3, <2>4, <2>5, <2>6
    DEF Import!Step, Import!Load, Import!Validate, Import!Get, Import!Refuse, Import!SaveFails,
        Import!Open, Import!Lookup, Import!LookupEnvironment
<1>o. ASSUME Import!OtherEdits \/ Import!OtherForgets PROVE ImportRing'
  <2>2. \/ \E new \in Import!Config : Import!SavesConfig(Import!None, new)
        \/ \E i \in Host \X Api : Import!SetsItem(Import!None, i, Import!None)
    BY <1>1, <1>o DEF Import!OtherEdits, Import!OtherForgets, Import!TypeOK, Import!Config
  <2>3. CASE \E new \in Import!Config : Import!SavesConfig(Import!None, new)
    BY <1>1, <1>g, <2>3, ImportSavesConfig
  <2> QED
    BY <1>s, <2>2, <2>3
<1> QED
  BY <1>c, <1>o DEF Import!Next

\* The runs that take no step.
LEMMA ImportOthers ==
  ASSUME ImportInv, NEW d \in Invocation,
         NEW c \in Invocation \cup {Import!None}, c # d,
         \/ c \in Invocation /\ Import!Step(c)
         \/ c = Import!None /\ (Import!OtherEdits \/ Import!OtherForgets)
  PROVE ImportKnown(d)' /\ ImportValid(d)' /\ ImportItem(d)'
<1>1. /\ pc'[d] = pc[d] /\ run'[d] = run[d] /\ verdict'[d] = verdict[d]
      /\ past[d].item => past'[d].item
      /\ past'[d].item \/ world'.ring[Import!Key(d)] = world.ring[Import!Key(d)]
      /\ past[d].entries \subseteq past'[d].entries
      /\ \A h \in Host : h \in past'[d].entries \/ world'.config[h] = world.config[h]
  BY ImportFrame
<1>2. ImportKnown(d) /\ ImportValid(d) /\ ImportItem(d) /\ run[d].host \in Host
  BY DEF ImportInv, Import!TypeOK
<1>3. Import!Key(d)' = Import!Key(d)
  BY <1>1 DEF Import!Key, Import!ServiceName
<1>4. ImportKnown(d)'
  BY <1>1, <1>2 DEF ImportKnown
<1>5. ImportValid(d)'
  BY <1>1, <1>2 DEF ImportValid
<1>6. ImportItem(d)'
  BY <1>1, <1>2, <1>3 DEF ImportItem
<1> QED
  BY <1>4, <1>5, <1>6

\* What the steps of c tell of its own run.
LEMMA ImportOwn ==
  ASSUME ImportInv, NEW c \in Invocation, Import!Step(c)
  PROVE ImportKnown(c)' /\ ImportValid(c)' /\ ImportItem(c)'
<1>1. /\ Import!TypeOK /\ ImportRing /\ ImportKnown(c) /\ ImportValid(c) /\ ImportItem(c)
      /\ Import!Key(c) \in Host \X Api /\ Import!Key(c)[2] = run[c].api
  BY ImportKeys DEF ImportInv
<1>2. /\ pc \in [Invocation -> Import!Steps \cup {"imported"}]
      /\ run \in [Invocation ->
          [host : Host, api : Api \cup {Import!None}, token : Token,
           env : Token \cup {Import!None}, cfg : Import!Config,
           previous : Token \cup {Import!None, Import!Unread}, failed : BOOLEAN]]
      /\ verdict \in [Invocation -> {"none", "stored", "opened", "refused", "incomplete"}]
      /\ world \in [config : Import!Config, ring : [Host \X Api -> Token \cup {Import!None}]]
      /\ past \in [Invocation -> [entries : SUBSET Host, item : BOOLEAN]]
  BY <1>1 DEF Import!TypeOK
<1>3. CASE Import!Load(c)
  <2>1. /\ pc[c] = "load" /\ pc'[c] = "validate" /\ world' = world /\ verdict' = verdict
        /\ past'[c].entries = {}
        /\ run'[c].host = run[c].host /\ run'[c].api = run[c].api
        /\ run'[c].previous = run[c].previous /\ run'[c].token = run[c].token
        /\ run'[c].cfg = [world.config EXCEPT ![run[c].host] = run[c].api]
    BY <1>2, <1>3 DEF Import!Load, Import!Goto
  <2>2. /\ run'[c].cfg[run[c].host] = run[c].api
        /\ \A h \in Host \ {run[c].host} : run'[c].cfg[h] = world.config[h]
    BY <1>2, <2>1 DEF Import!Config
  <2> QED
    BY <1>1, <2>1, <2>2, ImportWords DEF ImportKnown, ImportValid, ImportItem
<1>4. CASE Import!Validate(c)
  <2>1. /\ pc[c] = "validate" /\ pc'[c] = "get" /\ UNCHANGED <<world, run, verdict, past>>
        /\ <<run[c].token, run[c].api>> \in Valid
    BY <1>2, <1>4 DEF Import!Validate, Import!Goto, Import!Authenticates
  <2> QED
    BY <1>1, <2>1, ImportWords DEF ImportKnown, ImportValid, ImportItem
<1>5. CASE Import!Get(c)
  <2>1. /\ pc[c] = "get" /\ pc'[c] = "set" /\ world' = world /\ verdict' = verdict
        /\ past'[c].entries = past[c].entries
        /\ run'[c].host = run[c].host /\ run'[c].api = run[c].api
        /\ run'[c].token = run[c].token /\ run'[c].cfg = run[c].cfg
        /\ run'[c].previous = world.ring[Import!Key(c)]
    BY <1>2, <1>5 DEF Import!Get, Import!Goto
  <2>2. /\ run'[c].previous \in Token \cup {Import!None}
        /\ run'[c].previous \in Token => <<run'[c].previous, run[c].api>> \in Valid
    BY <1>1, <1>2, <2>1, ImportWords DEF ImportRing
  <2>3. Import!Key(c)' = Import!Key(c)
    BY <2>1 DEF Import!Key, Import!ServiceName
  <2>4. ImportKnown(c)'
    BY <1>1, <2>1, <2>2, ImportWords DEF ImportKnown
  <2>5. ImportValid(c)'
    BY <1>1, <2>1, <2>2, ImportWords DEF ImportValid, ImportItem
  <2>6. ImportItem(c)'
    BY <1>1, <2>1, <2>2, <2>3, ImportWords DEF ImportItem
  <2> QED
    BY <2>4, <2>5, <2>6
<1>6. CASE Import!Set(c)
  <2>1. /\ pc[c] = "set" /\ pc'[c] = "save" /\ run' = run /\ verdict' = verdict
    BY <1>2, <1>6 DEF Import!Set, Import!Goto
  <2>2. /\ Import!SetsItem(c, Import!Key(c), run[c].token) /\ run[c].token \in Token
    BY <1>1, <1>6, ImportStores
  <2>3. /\ world'.config = world.config /\ world'.ring[Import!Key(c)] = run[c].token
        /\ past'[c].entries = past[c].entries
    BY <1>1, <2>2, ImportSetsItem
  <2>4. Import!Key(c)' = Import!Key(c)
    BY <2>1 DEF Import!Key, Import!ServiceName
  <2> QED
    BY <1>1, <2>1, <2>3, <2>4, ImportWords DEF ImportKnown, ImportValid, ImportItem
<1>7. CASE Import!Refuse(c)
  <2>1. /\ pc[c] \in {"load", "validate", "get", "set", "open", "lookup"}
        /\ pc'[c] = "imported" /\ verdict'[c] = "refused" /\ UNCHANGED <<world, run, past>>
    BY <1>2, <1>7 DEF Import!Refuse, Import!Answer, Import!Goto
  <2>2. Import!Key(c)' = Import!Key(c)
    BY <2>1 DEF Import!Key, Import!ServiceName
  <2> QED
    BY <1>1, <2>1, <2>2, ImportWords DEF ImportKnown, ImportValid, ImportItem
<1>8. CASE Import!Save(c)
  <2>1. /\ pc[c] = "save" /\ pc'[c] = "imported" /\ run' = run /\ verdict'[c] = "stored"
    BY <1>2, <1>8 DEF Import!Save, Import!Answer, Import!Goto
  <2>2. /\ Import!SavesConfig(c, run[c].cfg) /\ run[c].cfg \in Import!Config
    BY <1>1, <1>8, ImportStores
  <2>3. /\ world'.config = run[c].cfg /\ world'.ring = world.ring
        /\ past'[c].item = past[c].item
    BY <1>1, <2>2, ImportSavesConfig
  <2>4. Import!Key(c)' = Import!Key(c)
    BY <2>1 DEF Import!Key, Import!ServiceName
  <2> QED
    BY <1>1, <2>1, <2>3, <2>4, ImportWords DEF ImportKnown, ImportValid, ImportItem
<1>9. CASE Import!SaveFails(c)
  <2>1. /\ pc[c] = "save" /\ pc'[c] = "delete" /\ UNCHANGED <<world, run, verdict, past>>
    BY <1>2, <1>9 DEF Import!SaveFails, Import!Goto
  <2> QED
    BY <1>1, <2>1, ImportWords DEF ImportKnown, ImportValid, ImportItem
<1>10. CASE Import!Delete(c)
  <2>1. /\ pc[c] = "delete" /\ pc'[c] = "restore" /\ verdict' = verdict
    BY <1>2, <1>10 DEF Import!Delete, Import!Goto
  <2>2. CASE Import!SetsItem(c, Import!Key(c), Import!None) /\ UNCHANGED run
    <3>1. /\ world'.config = world.config /\ world'.ring[Import!Key(c)] = Import!None
          /\ past'[c].entries = past[c].entries
      BY <1>1, <2>2, ImportSetsItem
    <3>2. Import!Key(c)' = Import!Key(c)
      BY <2>2 DEF Import!Key, Import!ServiceName
    <3> QED
      BY <1>1, <2>1, <2>2, <3>1, <3>2, ImportWords DEF ImportKnown, ImportValid, ImportItem
  <2>3. CASE run' = [run EXCEPT ![c].failed = TRUE] /\ UNCHANGED <<world, past>>
    <3>1. /\ run'[c].host = run[c].host /\ run'[c].api = run[c].api /\ run'[c].failed
          /\ run'[c].token = run[c].token /\ run'[c].cfg = run[c].cfg
          /\ run'[c].previous = run[c].previous
      BY <1>2, <2>3
    <3> QED
      BY <1>1, <2>1, <2>3, <3>1, ImportWords DEF ImportKnown, ImportValid, ImportItem
  <2> QED
    BY <1>1, <1>10, <2>2, <2>3, ImportStores
<1>11. CASE Import!Restore(c)
  <2>1. /\ pc[c] = "restore" /\ pc'[c] = "imported" /\ run' = run
        /\ verdict'[c] \in {"refused", "incomplete"}
    BY <1>2, <1>11 DEF Import!Restore, Import!Answer, Import!Goto
  <2>2. Import!Key(c)' = Import!Key(c)
    BY <2>1 DEF Import!Key, Import!ServiceName
  <2>3. run[c].previous # Import!Unread
    BY <1>1, <2>1 DEF ImportKnown
  <2>4. CASE UNCHANGED <<world, past>>
               /\ (verdict'[c] = "refused" => run[c].previous = Import!None /\ ~run[c].failed)
    BY <1>1, <2>1, <2>2, <2>4, ImportWords DEF ImportKnown, ImportValid, ImportItem
  <2>5. CASE Import!SetsItem(c, Import!Key(c), run[c].previous)
    <3>1. world'.ring[Import!Key(c)] = run[c].previous
      BY <1>1, <1>2, <2>3, <2>5, ImportSetsItem
    <3> QED
      BY <1>1, <2>1, <2>2, <3>1, ImportWords DEF ImportKnown, ImportValid, ImportItem
  <2>6. \/ Import!SetsItem(c, Import!Key(c), run[c].previous)
        \/ /\ UNCHANGED <<world, past>>
           /\ verdict'[c] = "refused" => run[c].previous = Import!None /\ ~run[c].failed
    BY <1>2, <1>11 DEF Import!Restore, Import!Answer, Import!NothingBefore
  <2> QED
    BY <2>4, <2>5, <2>6
<1>12. CASE Import!Open(c)
  <2>1. /\ pc[c] = "open" /\ pc'[c] = "lookup" /\ UNCHANGED <<world, verdict, past>>
        /\ run'[c].api = Import!Resolve(world.config, run[c].host)
        /\ run'[c].api # Import!None
        /\ run'[c].previous = run[c].previous
    BY <1>2, <1>12 DEF Import!Open, Import!Goto
  <2>2. run'[c].api \in Api
    BY <1>2, <2>1, ImportWords DEF Import!Resolve, Import!Config
  <2> QED
    BY <1>1, <2>1, <2>2, ImportWords DEF ImportKnown, ImportValid, ImportItem
<1>13. CASE Import!Lookup(c)
  <2>1. /\ pc[c] = "lookup" /\ pc'[c] = "imported" /\ UNCHANGED <<world, past>>
        /\ run'[c].api = run[c].api /\ verdict'[c] = "opened"
        /\ run'[c].previous = run[c].previous
        /\ run'[c].token = world.ring[Import!Key(c)] /\ world.ring[Import!Key(c)] # Import!None
    BY <1>2, <1>13 DEF Import!Lookup, Import!Answer, Import!Goto
  <2>2. <<run'[c].token, run[c].api>> \in Valid
    BY <1>1, <2>1 DEF ImportRing
  <2> QED
    BY <1>1, <2>1, <2>2, ImportWords DEF ImportKnown, ImportValid, ImportItem
<1>14. CASE Import!LookupEnvironment(c)
  <2>1. /\ pc[c] = "lookup" /\ pc'[c] = "imported" /\ UNCHANGED <<world, past>>
        /\ run'[c].api = run[c].api /\ verdict'[c] = "opened"
        /\ run'[c].previous = run[c].previous
        /\ run'[c].env = run[c].env /\ run[c].env # Import!None
    BY <1>2, <1>14 DEF Import!LookupEnvironment, Import!Answer, Import!Goto
  <2> QED
    BY <1>1, <2>1, ImportWords DEF ImportKnown, ImportValid, ImportItem
<1> QED
  BY <1>3, <1>4, <1>5, <1>6, <1>7, <1>8, <1>9, <1>10, <1>11, <1>12, <1>13, <1>14 DEF Import!Step

\* ImportInv is an invariant of imports.
LEMMA ImportInvHolds ==
  /\ Import!Init => ImportInv
  /\ ImportInv /\ Import!Next => ImportInv'
<1>1. ASSUME ImportInv, Import!Next
      PROVE \A d \in Invocation : ImportKnown(d)' /\ ImportValid(d)' /\ ImportItem(d)'
  <2>1. CASE Import!OtherEdits \/ Import!OtherForgets
    BY <1>1, <2>1, ImportOthers, ImportWords
  <2>2. ASSUME NEW c \in Invocation, Import!Step(c), NEW d \in Invocation
        PROVE ImportKnown(d)' /\ ImportValid(d)' /\ ImportItem(d)'
    <3>1. CASE c = d
      BY <1>1, <2>2, <3>1, ImportOwn
    <3>2. CASE c # d
      BY <1>1, <2>2, <3>2, ImportOthers
    <3> QED
      BY <3>1, <3>2
  <2> QED
    BY <1>1, <2>1, <2>2 DEF Import!Next
<1> QED
  BY <1>1, ImportInit, ImportTypes, ImportRingStays DEF ImportInv

\* It says that tokens stay with their authority and that answers are true.
LEMMA ImportInvSays ==
  ImportInv => /\ Import!TypeOK /\ Import!TokensStayWithTheirAuthority
               /\ Import!ImportVerdictIsTrue
<1> SUFFICES ASSUME ImportInv
             PROVE Import!TokensStayWithTheirAuthority /\ Import!ImportVerdictIsTrue
  BY DEF ImportInv
<1>1. Import!TokensStayWithTheirAuthority
  BY DEF ImportInv, ImportValid, Import!TokensStayWithTheirAuthority
<1>2. Import!ImportVerdictIsTrue
  BY DEF ImportInv, ImportItem, Import!ImportVerdictIsTrue
<1> QED
  BY <1>1, <1>2

\* And that a step changes its own entry and item only.
LEMMA ImportInvKeeps ==
  ASSUME ImportInv, Import!Next
  PROVE Import!KeepsTheRest
<1> SUFFICES ASSUME NEW c \in Invocation, pc'[c] # pc[c]
             PROVE /\ \A h \in Host \ ({run[c].host} \cup past[c].entries) :
                        world'.config[h] = world.config[h]
                   /\ \A i \in (Host \X Api) \ {Import!Key(c)} : world'.ring[i] = world.ring[i]
  BY DEF Import!KeepsTheRest
<1>1. /\ Import!TypeOK /\ ImportKnown(c) /\ ImportValid(c) /\ Import!Key(c) \in Host \X Api
  BY ImportKeys DEF ImportInv
<1>2. Import!Step(c)
  <2>1. ~(Import!OtherEdits \/ Import!OtherForgets)
    BY DEF Import!OtherEdits, Import!OtherForgets, Import!Act
  <2>2. PICK d \in Invocation : Import!Step(d)
    BY <2>1 DEF Import!Next
  <2>3. d = c
    BY <2>2, ImportFrame
  <2> QED
    BY <2>2, <2>3
<1>3. ASSUME NEW t \in Token \cup {Import!None}, Import!SetsItem(c, Import!Key(c), t)
      PROVE /\ world'.config = world.config
            /\ \A i \in (Host \X Api) \ {Import!Key(c)} : world'.ring[i] = world.ring[i]
  BY <1>1, <1>3, ImportSetsItem
<1>4. CASE Import!Save(c)
  <2>1. Import!SavesConfig(c, run[c].cfg) /\ run[c].cfg \in Import!Config
    BY <1>1, <1>4, ImportStores
  <2>2. world'.config = run[c].cfg /\ world'.ring = world.ring
    BY <1>1, <2>1, ImportSavesConfig
  <2>3. pc[c] = "save"
    BY <1>4 DEF Import!Save
  <2> QED
    BY <1>1, <2>2, <2>3 DEF ImportKnown
<1>5. CASE Import!Set(c) \/ Import!Delete(c)
  BY <1>1, <1>3, <1>5, ImportStores
<1>6. CASE Import!Restore(c)
  <2>1. run[c].previous # Import!Unread
    BY <1>1, <1>6 DEF ImportKnown, Import!Restore
  <2> QED
    BY <1>1, <1>3, <1>6, <2>1, ImportStores
<1>7. CASE UNCHANGED world
  BY <1>7
<1> QED
  BY <1>2, <1>4, <1>5, <1>6, <1>7
  DEF Import!Step, Import!Load, Import!Validate, Import!Get, Import!Refuse, Import!SaveFails,
      Import!Open, Import!Lookup, Import!LookupEnvironment
-----------------------------------------------------------------------------
(***************************************************************************)
(* The native v1 lane (NativeMR).                                          *)
(* Which merge requests were there, and what a run knows of its own.       *)
(***************************************************************************)

\* What a run of the lane knows of its merge request and of its request.
LaneRun(c) ==
  /\ pc[c] \in {"list", "again", "post", "posting", "relist"} => run[c].iid = Lane!None
  /\ pc[c] \in {"view", "put", "putting", "reread"} => run[c].iid # Lane!None
  /\ pc[c] = "ready" => run[c].iid = IF run[c].kind = "update" THEN 1 ELSE Lane!None
  /\ pc[c] \in {"ready", "list", "again", "post", "view", "put"} => run[c].wire = "unsent"
  /\ pc[c] \notin Lane!Sending \cup Lane!Reconciling => run[c].echo = Lane!Nothing
  /\ pc[c] = "put" \/ (run[c].wire = "inflight" /\ run[c].iid # Lane!None) =>
       world[run[c].iid] # Lane!Missing

\* What it asks for has been there, if it is or if an answer said so.
LaneHeld(c) ==
  /\ (pc[c] \in Lane!Active /\ Lane!Fulfilled(c)) \/ run[c].echo = Wanted => past.held[c]
  /\ pc[c] # "served" => verdict[c] = "none"
  /\ verdict[c] \in Lane!Successes => past.held[c]
  /\ verdict[c] = "created" => run[c].wire = "applied"
  /\ verdict[c] = "rejected" => run[c].wire = "refused"

\* As long as writers have not overlapped, one is at work at most, one merge request is
\* open at most, and none while a POST is to be made or is on its way.
LaneQuiet ==
  ~past.raced =>
    /\ \A c, d \in Invocation : Lane!AtWork(c) /\ Lane!AtWork(d) => c = d
    /\ \A i, j \in Lane!Opened : i = j
    /\ \A c \in Invocation :
         pc[c] = "post" \/ (run[c].wire = "inflight" /\ run[c].iid = Lane!None) =>
           Lane!Opened = {}

LaneInv == Lane!TypeOK /\ LaneQuiet /\ \A c \in Invocation : LaneRun(c) /\ LaneHeld(c)

\* The parts of the state.
LaneRecord ==
  [kind : Lane!Kind, iid : {Lane!None} \cup Lane!IID,
   ctx : {"live", "late", "cancelled"},
   wire : {"unsent", "inflight", "applied", "refused", "lost"},
   echo : Content \cup {Lane!Nothing}]
LanePast == [held : [Invocation -> BOOLEAN], raced : BOOLEAN]
LaneVerdicts == {"none", "unchanged", "created", "updated", "replayed",
                 "conflict", "ambiguous", "rejected", "cancelled", "error"}
LaneTyped ==
  /\ pc \in [Invocation -> Lane!Steps \cup {"served"}]
  /\ world \in [Lane!IID -> Lane!MR \cup {Lane!Missing}]
  /\ run \in [Invocation -> LaneRecord]
  /\ verdict \in [Invocation -> LaneVerdicts]
  /\ others \in 0..MaxMRActors
  /\ past \in LanePast

\* The types, by what they are of.
LEMMA LaneTypes == Lane!TypeOK <=> LaneTyped
BY DEF Lane!TypeOK, LaneTyped, LaneRecord, LanePast, LaneVerdicts

\* The parts of the invariant.
LEMMA LaneFacts ==
  ASSUME LaneInv
  PROVE LaneTyped /\ LaneQuiet /\ \A c \in Invocation : LaneRun(c) /\ LaneHeld(c)
BY LaneTypes DEF LaneInv

\* What is not there is not a merge request, and is not open.
LEMMA LaneMissing ==
  /\ Lane!Missing \notin Lane!MR /\ Lane!Nothing # Wanted
  /\ \A m \in Lane!MR : m \in [open : BOOLEAN, content : Content] /\ m # Lane!Missing
  /\ Lane!Missing.open = FALSE /\ Lane!Missing.content = "nothing"
<1>1. "nothing" \notin Content /\ Wanted \in Content
  BY LocalAssumption
<1> QED
  BY <1>1 DEF Lane!Missing, Lane!MR, Lane!Nothing

\* What a typed run remembers, field by field.
LEMMA LaneFields ==
  ASSUME LaneTyped, NEW c \in Invocation
  PROVE /\ run[c] \in LaneRecord /\ run[c].kind \in Lane!Kind
        /\ run[c].iid \in {Lane!None} \cup Lane!IID
        /\ run[c].echo \in Content \cup {Lane!Nothing}
        /\ pc[c] \in Lane!Steps \cup {"served"} /\ verdict[c] \in LaneVerdicts
        /\ past \in LanePast /\ past.held[c] \in BOOLEAN /\ past.raced \in BOOLEAN
<1>1. run[c] \in LaneRecord /\ past \in LanePast
  BY DEF LaneTyped
<1>2. run[c].kind \in Lane!Kind /\ run[c].iid \in {Lane!None} \cup Lane!IID
      /\ run[c].echo \in Content \cup {Lane!Nothing}
  BY <1>1 DEF LaneRecord
<1>3. past.held[c] \in BOOLEAN /\ past.raced \in BOOLEAN
  BY <1>1 DEF LanePast
<1> QED
  BY <1>1, <1>2, <1>3 DEF LaneTyped

\* Replacing a run's record and its step.
LEMMA LaneSets ==
  ASSUME LaneTyped, NEW c \in Invocation, NEW r \in LaneRecord, run' = [run EXCEPT ![c] = r]
  PROVE /\ (run \in [Invocation -> LaneRecord])' /\ run'[c] = r
        /\ \A d \in Invocation \ {c} : run'[d] = run[d]
BY DEF LaneTyped

\* A run that goes on is where it goes, and the others are where they were.
LEMMA LaneGoes ==
  ASSUME LaneTyped, NEW c \in Invocation, NEW s \in Lane!Steps \cup {"served"}, Lane!Goto(c, s)
  PROVE /\ (pc \in [Invocation -> Lane!Steps \cup {"served"}])' /\ pc'[c] = s
        /\ \A d \in Invocation \ {c} : pc'[d] = pc[d]
BY DEF LaneTyped, Lane!Goto

\* What is observed of the history.
LEMMA LaneObserved ==
  ASSUME LaneTyped, NEW b \in BOOLEAN, Lane!Observed(b)
  PROVE /\ (past \in LanePast)' /\ past'.raced = b
        /\ \A d \in Invocation : past.held[d] => past'.held[d]
        /\ \A d \in Invocation : pc'[d] \in Lane!Active /\ Lane!Fulfilled(d)' => past'.held[d]
<1>1. PICK h : h = [d \in Invocation |->
                      past.held[d] \/ (pc'[d] \in Lane!Active /\ Lane!Fulfilled(d)')]
  OBVIOUS
<1>2. h \in [Invocation -> BOOLEAN]
      /\ \A d \in Invocation :
           h[d] = (past.held[d] \/ (pc'[d] \in Lane!Active /\ Lane!Fulfilled(d)'))
  BY <1>1
<1>3. past' = [held |-> h, raced |-> b]
  BY <1>1 DEF Lane!Observed
<1>4. past' \in LanePast /\ past'.raced = b /\ past'.held = h
  BY <1>2, <1>3 DEF LanePast
<1> QED
  BY <1>2, <1>4

\* A run that was at work returns.
LEMMA LaneReturns ==
  ASSUME LaneInv, NEW c \in Invocation, pc[c] \in Lane!Active,
         NEW v \in LaneVerdicts, Lane!Return(c, v), UNCHANGED <<world, others>>,
         v \in Lane!Successes => past.held[c],
         v = "created" => run[c].wire = "applied", v = "rejected" => run[c].wire = "refused"
  PROVE LaneInv'
<1>1. LaneTyped /\ LaneQuiet /\ \A d \in Invocation : LaneRun(d) /\ LaneHeld(d)
  BY LaneFacts
<1>2. /\ Lane!Goto(c, "served")
      /\ run' = [run EXCEPT ![c].ctx = "live", ![c].echo = Lane!Nothing]
      /\ verdict' = [verdict EXCEPT ![c] = v]
      /\ past' = [past EXCEPT !.held[c] = @ /\ v \in Lane!Successes]
  BY DEF Lane!Return
<1>3. /\ pc' \in [Invocation -> Lane!Steps \cup {"served"}] /\ pc'[c] = "served"
      /\ \A d \in Invocation \ {c} : pc'[d] = pc[d]
  BY <1>1, <1>2, LaneGoes
<1>4. PICK q : q = [run[c] EXCEPT !.ctx = "live", !.echo = Lane!Nothing]
  OBVIOUS
<1>5. run[c] \in LaneRecord
  BY <1>1, LaneFields
<1>6. /\ q \in LaneRecord /\ q.kind = run[c].kind /\ q.iid = run[c].iid /\ q.wire = run[c].wire
      /\ q.echo = Lane!Nothing
  BY ONLY <1>4, <1>5 DEF LaneRecord
<1>7. run' = [run EXCEPT ![c] = q]
  BY <1>1, <1>2, <1>4 DEF LaneTyped
<1>8. /\ run' \in [Invocation -> LaneRecord] /\ run'[c] = q
      /\ \A d \in Invocation \ {c} : run'[d] = run[d]
  BY <1>1, <1>6, <1>7, LaneSets
<1>9. /\ verdict' \in [Invocation -> LaneVerdicts] /\ verdict'[c] = v
      /\ \A d \in Invocation \ {c} : verdict'[d] = verdict[d]
  BY <1>1, <1>2 DEF LaneTyped
<1>10. /\ past' \in LanePast /\ past'.raced = past.raced
       /\ past'.held[c] = (past.held[c] /\ v \in Lane!Successes)
       /\ \A d \in Invocation \ {c} : past'.held[d] = past.held[d]
  <2>1. PICK b \in BOOLEAN : b = (past.held[c] /\ v \in Lane!Successes)
    OBVIOUS
  <2>2. past' = [past EXCEPT !.held[c] = b] /\ past \in LanePast
    BY <1>1, <1>2, <2>1 DEF LaneTyped, LanePast
  <2>3. /\ past' \in LanePast /\ past'.raced = past.raced
        /\ past'.held[c] = b /\ \A d \in Invocation \ {c} : past'.held[d] = past.held[d]
    BY <2>2 DEF LanePast
  <2> QED
    BY <2>1, <2>3
<1>11. LaneTyped'
  BY <1>1, <1>3, <1>8, <1>9, <1>10 DEF LaneTyped
<1>12. LaneRun(c)' /\ LaneHeld(c)'
  <2>1. LaneRun(c) /\ Lane!Nothing # Wanted
    BY <1>1, LaneMissing
  <2>2. LaneRun(c)'
    BY <1>3, <1>6, <1>8, <2>1
       DEF LaneRun, Lane!Sending, Lane!Reconciling
  <2>3. LaneHeld(c)'
    BY <1>3, <1>6, <1>8, <1>9, <1>10, <2>1
       DEF LaneHeld, Lane!Active, Lane!Sending, Lane!Reconciling, Lane!Successes
  <2> QED
    BY <2>2, <2>3
<1>13. ASSUME NEW d \in Invocation \ {c} PROVE LaneRun(d)' /\ LaneHeld(d)'
  <2>1. /\ pc'[d] = pc[d] /\ run'[d] = run[d] /\ verdict'[d] = verdict[d]
        /\ past'.held[d] = past.held[d] /\ world' = world /\ LaneRun(d) /\ LaneHeld(d)
    BY <1>1, <1>3, <1>8, <1>9, <1>10
  <2>2. Lane!Fulfilled(d)' = Lane!Fulfilled(d)
    BY <2>1 DEF Lane!Fulfilled
  <2> QED
    BY <2>1, <2>2 DEF LaneRun, LaneHeld
<1>14. LaneQuiet'
  <2>1. \A d \in Invocation : Lane!AtWork(d)' => Lane!AtWork(d)
    BY <1>3, <1>6, <1>8 DEF Lane!AtWork, Lane!Active, Lane!Sending, Lane!Reconciling
  <2>2. Lane!Opened' = Lane!Opened
    BY DEF Lane!Opened
  <2>3. \A d \in Invocation :
          pc'[d] = "post" \/ (run'[d].wire = "inflight" /\ run'[d].iid = Lane!None) =>
            pc[d] = "post" \/ (run[d].wire = "inflight" /\ run[d].iid = Lane!None)
    BY <1>3, <1>6, <1>8
  <2> QED
    BY <1>1, <1>10, <2>1, <2>2, <2>3 DEF LaneQuiet
<1>15. Lane!TypeOK'
  BY <1>11 DEF Lane!TypeOK, LaneTyped, LaneRecord, LanePast, LaneVerdicts
<1> QED
  BY <1>12, <1>13, <1>14, <1>15 DEF LaneInv

\* What a run finds among the merge requests was observed by the history.
LEMMA LaneFulfilled ==
  ASSUME LaneInv, NEW c \in Invocation, pc[c] \in Lane!Active, NEW i \in Lane!IID,
         world[i].content = Wanted,
         (run[c].iid = Lane!None /\ i \in Lane!Opened) \/ i = run[c].iid
  PROVE past.held[c]
<1>1. LaneHeld(c)
  BY LaneFacts
<1>2. Lane!None \notin Lane!IID
  BY DEF Lane!None, Lane!IID
<1>3. Lane!Fulfilled(c)
  BY <1>2 DEF Lane!Fulfilled, Lane!Opened
<1> QED
  BY <1>1, <1>3 DEF LaneHeld

\* The steps that return.
LEMMA LaneLists ==
  ASSUME LaneInv, NEW c \in Invocation, Lane!Found(c),
         \/ Lane!Return(c, "conflict")
         \/ (Lane!Return(c, IF pc[c] = "list" THEN "unchanged" ELSE "replayed")
             /\ \E i \in Lane!Opened : world[i].content = Wanted)
  PROVE LaneInv'
<1>1. /\ pc[c] \in {"list", "again"} /\ pc[c] \in Lane!Active /\ UNCHANGED <<world, others>>
      /\ LaneRun(c)
  BY LaneFacts DEF Lane!Found, Lane!Active
<1>2. CASE Lane!Return(c, "conflict")
  BY <1>1, <1>2, LaneReturns DEF LaneVerdicts, Lane!Successes
<1>3. CASE Lane!Return(c, IF pc[c] = "list" THEN "unchanged" ELSE "replayed")
           /\ \E i \in Lane!Opened : world[i].content = Wanted
  <2>1. past.held[c]
    <3>1. run[c].iid = Lane!None
      BY <1>1 DEF LaneRun
    <3>2. PICK i \in Lane!Opened : world[i].content = Wanted
      BY <1>3
    <3>3. i \in Lane!IID
      BY DEF Lane!Opened
    <3> QED
      BY <1>1, <3>1, <3>2, <3>3, LaneFulfilled
  <2>2. PICK v \in {"unchanged", "replayed"} : Lane!Return(c, v)
    BY <1>3
  <2> QED
    BY <1>1, <2>1, <2>2, LaneReturns DEF LaneVerdicts
<1> QED
  BY <1>2, <1>3

\* The merge request is as asked: nothing is to be sent.
LEMMA LaneViews ==
  ASSUME LaneInv, NEW c \in Invocation, Lane!View(c),
         world[run[c].iid].content = Wanted, Lane!Return(c, Lane!Says(c, "unchanged"))
  PROVE LaneInv'
<1>1. /\ pc[c] = "view" /\ pc[c] \in Lane!Active /\ UNCHANGED <<world, others>>
      /\ LaneRun(c) /\ LaneTyped
  BY LaneFacts DEF Lane!View, Lane!Active
<1>2. run[c].iid \in Lane!IID
  BY <1>1, LaneFields DEF LaneRun
<1>3. past.held[c]
  BY <1>1, <1>2, LaneFulfilled
<1>4. PICK v \in {"unchanged", "updated"} : Lane!Return(c, v)
  BY DEF Lane!Says
<1> QED
  BY <1>1, <1>3, <1>4, LaneReturns DEF LaneVerdicts

\* A run ends without having looked again.
LEMMA LaneAnswers ==
  ASSUME LaneInv, NEW c \in Invocation,
         \/ Lane!Several(c) \/ Lane!Refuse(c) \/ Lane!Answered(c) \/ Lane!AnswerUnusable(c)
         \/ Lane!RefusalArrives(c) \/ Lane!Interrupted(c) \/ Lane!ReconcileFails(c)
         \/ Lane!Crash(c)
  PROVE LaneInv'
<1> USE DEF Lane!Active, Lane!Sending, Lane!Reconciling
<1>1. CASE Lane!Several(c)
  BY <1>1, LaneReturns DEF Lane!Several, LaneVerdicts, Lane!Successes
<1>2. CASE Lane!Refuse(c)
  <2>1. PICK v \in {"error", "cancelled"} : Lane!Return(c, v)
    BY <1>2 DEF Lane!Refuse
  <2> QED
    BY <1>2, <2>1, LaneReturns DEF Lane!Refuse, LaneVerdicts, Lane!Successes
<1>3. CASE Lane!Answered(c)
  <2>1. run[c].echo = Wanted => past.held[c]
    BY LaneFacts DEF LaneHeld
  <2>2. run[c].wire = "applied" /\ pc[c] \in Lane!Active /\ UNCHANGED <<world, others>>
    BY <1>3 DEF Lane!Answered
  <2>3. PICK v \in {"error", "created", "updated"} :
          Lane!Return(c, v) /\ (v # "error" => run[c].echo = Wanted)
    BY <1>3 DEF Lane!Answered, Lane!Accepted
  <2> QED
    BY <2>1, <2>2, <2>3, LaneReturns DEF LaneVerdicts, Lane!Successes
<1>4. CASE Lane!AnswerUnusable(c)
  BY <1>4, LaneReturns DEF Lane!AnswerUnusable, LaneVerdicts, Lane!Successes
<1>5. CASE Lane!RefusalArrives(c)
  BY <1>5, LaneReturns DEF Lane!RefusalArrives, LaneVerdicts, Lane!Successes
<1>6. CASE Lane!Interrupted(c)
  BY <1>6, LaneReturns DEF Lane!Interrupted, LaneVerdicts, Lane!Successes
<1>7. CASE Lane!ReconcileFails(c)
  BY <1>7, LaneReturns DEF Lane!ReconcileFails, LaneVerdicts, Lane!Successes
<1>8. CASE Lane!Crash(c)
  BY <1>8, LaneReturns DEF Lane!Crash, LaneVerdicts, Lane!Successes
<1> QED
  BY <1>1, <1>2, <1>3, <1>4, <1>5, <1>6, <1>7, <1>8

\* A run whose answer was lost looks again and ends.
LEMMA LaneReconciles ==
  ASSUME LaneInv, NEW c \in Invocation, Lane!Relist(c) \/ Lane!Reread(c)
  PROVE LaneInv'
<1>1. LaneRun(c) /\ LaneTyped
  BY LaneFacts
<1>2. CASE Lane!Relist(c)
  <2>1. /\ pc[c] = "relist" /\ pc[c] \in Lane!Active /\ UNCHANGED <<world, others>>
        /\ run[c].iid = Lane!None
    BY <1>1, <1>2 DEF Lane!Relist, LaneRun, Lane!Active, Lane!Reconciling
  <2>2. PICK v \in {"replayed", "conflict", "ambiguous"} :
          /\ Lane!Return(c, v)
          /\ v = "replayed" => \E i \in Lane!Opened : world[i].content = Wanted
    BY <1>2 DEF Lane!Relist, Lane!Matches
  <2>3. v = "replayed" => past.held[c]
    <3>1. SUFFICES ASSUME v = "replayed" PROVE past.held[c]
      OBVIOUS
    <3>2. PICK i \in Lane!Opened : world[i].content = Wanted
      BY <2>2, <3>1
    <3>3. i \in Lane!IID
      BY DEF Lane!Opened
    <3> QED
      BY <2>1, <3>2, <3>3, LaneFulfilled
  <2> QED
    BY <2>1, <2>2, <2>3, LaneReturns DEF LaneVerdicts, Lane!Successes
<1>3. CASE Lane!Reread(c)
  <2>1. /\ pc[c] = "reread" /\ pc[c] \in Lane!Active /\ UNCHANGED <<world, others>>
        /\ run[c].iid # Lane!None
    BY <1>1, <1>3 DEF Lane!Reread, LaneRun, Lane!Active, Lane!Reconciling
  <2>2. run[c].iid \in Lane!IID
    BY <1>1, <2>1, LaneFields
  <2>3. PICK v \in {"replayed", "updated", "ambiguous"} :
          /\ Lane!Return(c, v)
          /\ v # "ambiguous" => world[run[c].iid].content = Wanted
    BY <1>3 DEF Lane!Reread, Lane!Says
  <2>4. v # "ambiguous" => past.held[c]
    BY <2>1, <2>2, <2>3, LaneFulfilled
  <2> QED
    BY <2>1, <2>3, <2>4, LaneReturns DEF LaneVerdicts, Lane!Successes
<1> QED
  BY <1>2, <1>3

\* A run moves on and changes no merge request.
LEMMA LaneMoves ==
  ASSUME LaneInv, NEW c \in Invocation, LaneTyped', UNCHANGED <<world, verdict, past>>,
         \A d \in Invocation \ {c} : pc'[d] = pc[d] /\ run'[d] = run[d],
         run'[c].iid = run[c].iid, run'[c].echo = run[c].echo,
         pc'[c] = pc[c] \/ (pc[c] \in Lane!Active /\ pc'[c] \in Lane!Active),
         verdict[c] \in {"created", "rejected"} => run'[c].wire = run[c].wire,
         Lane!AtWork(c)' => Lane!AtWork(c), LaneRun(c)',
         pc'[c] = "post" \/ (run'[c].wire = "inflight" /\ run'[c].iid = Lane!None) =>
           \/ pc[c] = "post"
           \/ run[c].wire = "inflight" /\ run[c].iid = Lane!None
           \/ Lane!Opened = {}
  PROVE LaneInv'
<1>1. LaneTyped /\ LaneQuiet /\ \A d \in Invocation : LaneRun(d) /\ LaneHeld(d)
  BY LaneFacts
<1>2. LaneHeld(c)'
  <2>1. Lane!Fulfilled(c)' = Lane!Fulfilled(c)
    BY DEF Lane!Fulfilled
  <2>2. (pc'[c] = "served") <=> (pc[c] = "served")
    BY DEF Lane!Active, Lane!Sending, Lane!Reconciling
  <2>3. LaneHeld(c)
    BY <1>1
  <2>4. ((pc'[c] \in Lane!Active /\ Lane!Fulfilled(c)') \/ run'[c].echo = Wanted) => past'.held[c]
    BY <2>1, <2>3 DEF LaneHeld
  <2>5. /\ verdict'[c] \in Lane!Successes => past'.held[c]
        /\ pc'[c] # "served" => verdict'[c] = "none"
    BY <2>2, <2>3 DEF LaneHeld
  <2>6. /\ verdict'[c] = "created" => run'[c].wire = "applied"
        /\ verdict'[c] = "rejected" => run'[c].wire = "refused"
    BY <2>3 DEF LaneHeld
  <2> QED
    BY <2>4, <2>5, <2>6 DEF LaneHeld
<1>3. ASSUME NEW d \in Invocation \ {c} PROVE LaneRun(d)' /\ LaneHeld(d)'
  <2>1. pc'[d] = pc[d] /\ run'[d] = run[d] /\ LaneRun(d) /\ LaneHeld(d)
    BY <1>1
  <2>2. Lane!Fulfilled(d)' = Lane!Fulfilled(d)
    BY <2>1 DEF Lane!Fulfilled
  <2> QED
    BY <2>1, <2>2 DEF LaneRun, LaneHeld
<1>4. LaneQuiet'
  <2>1. \A d \in Invocation : Lane!AtWork(d)' => Lane!AtWork(d)
    BY DEF Lane!AtWork
  <2>2. Lane!Opened' = Lane!Opened
    BY DEF Lane!Opened
  <2> QED
    BY <1>1, <2>1, <2>2 DEF LaneQuiet
<1>5. Lane!TypeOK'
  BY DEF Lane!TypeOK, LaneTyped, LaneRecord, LanePast, LaneVerdicts
<1> QED
  BY <1>2, <1>3, <1>4, <1>5 DEF LaneInv

\* A run goes on to a place whose conditions hold.
LEMMA LaneGoesOn ==
  ASSUME LaneInv, NEW c \in Invocation, NEW s \in Lane!Active, pc[c] \in Lane!Active,
         Lane!Goto(c, s), UNCHANGED <<world, run, verdict, others, past>>, LaneRun(c)',
         s = "post" => Lane!Opened = {}
  PROVE LaneInv'
<1>1. LaneTyped /\ s \in Lane!Steps \cup {"served"}
  BY LaneFacts DEF Lane!Steps
<1>2. /\ pc' \in [Invocation -> Lane!Steps \cup {"served"}] /\ pc'[c] = s
      /\ \A d \in Invocation \ {c} : pc'[d] = pc[d]
  BY <1>1, LaneGoes
<1>3. LaneTyped'
  BY <1>1, <1>2 DEF LaneTyped
<1>4. Lane!AtWork(c)
  BY DEF Lane!AtWork
<1> QED
  BY <1>2, <1>3, <1>4, LaneMoves

\* A run goes on without having found anything.
LEMMA LaneSteps ==
  ASSUME LaneInv, NEW c \in Invocation,
         \/ Lane!Absent(c) \/ Lane!AnswerLost(c)
         \/ Lane!View(c) /\ Lane!Goto(c, "put") /\ UNCHANGED <<run, verdict, past>>
  PROVE LaneInv'
<1>1. LaneTyped /\ LaneRun(c)
  BY LaneFacts
<1> USE DEF Lane!Active, Lane!Sending, Lane!Reconciling
<1>2. CASE Lane!Absent(c)
  <2>1. /\ pc[c] \in {"list", "again"} /\ Lane!Opened = {}
        /\ UNCHANGED <<world, run, verdict, others, past>>
        /\ Lane!Goto(c, IF pc[c] = "list" THEN "again" ELSE "post")
    BY <1>2 DEF Lane!Absent, Lane!Matches, Lane!Continue
  <2>2. PICK s \in {"again", "post"} : Lane!Goto(c, s)
    BY <2>1
  <2>3. pc'[c] = s
    BY <1>1, <2>2, LaneGoes DEF Lane!Steps
  <2>4. LaneRun(c)'
    BY <1>1, <2>1, <2>3 DEF LaneRun
  <2> QED
    BY <2>1, <2>2, <2>4, LaneGoesOn
<1>3. CASE Lane!AnswerLost(c)
  <2>1. /\ pc[c] \in Lane!Sending /\ UNCHANGED <<world, run, verdict, others, past>>
        /\ Lane!Goto(c, IF pc[c] = "posting" THEN "relist" ELSE "reread")
    BY <1>3 DEF Lane!AnswerLost, Lane!Reconcile, Lane!Continue
  <2>2. PICK s \in {"relist", "reread"} :
          Lane!Goto(c, s) /\ s = IF pc[c] = "posting" THEN "relist" ELSE "reread"
    BY <2>1
  <2>3. pc'[c] = s
    BY <1>1, <2>2, LaneGoes DEF Lane!Steps
  <2>4. LaneRun(c)'
    BY <1>1, <2>1, <2>2, <2>3 DEF LaneRun
  <2> QED
    BY <2>1, <2>2, <2>4, LaneGoesOn
<1>4. CASE Lane!View(c) /\ Lane!Goto(c, "put") /\ UNCHANGED <<run, verdict, past>>
  <2>1. pc[c] = "view" /\ world[run[c].iid] # Lane!Missing /\ UNCHANGED <<world, others>>
    BY <1>4 DEF Lane!View
  <2>2. pc'[c] = "put"
    BY <1>1, <1>4, LaneGoes DEF Lane!Steps
  <2>3. LaneRun(c)'
    BY <1>1, <1>4, <2>1, <2>2 DEF LaneRun
  <2> QED
    BY <1>4, <2>1, <2>3, LaneGoesOn
<1> QED
  BY <1>2, <1>3, <1>4

\* A request leaves.
LEMMA LaneSends ==
  ASSUME LaneInv, NEW c \in Invocation, Lane!Send(c)
  PROVE LaneInv'
<1>1. LaneTyped /\ LaneRun(c) /\ LaneHeld(c) /\ run[c] \in LaneRecord
  BY LaneFacts, LaneFields
<1>2. /\ pc[c] \in {"post", "put"} /\ UNCHANGED <<world, others, past, verdict>>
      /\ Lane!Goto(c, IF pc[c] = "post" THEN "posting" ELSE "putting")
  BY DEF Lane!Send, Lane!Continue
<1>3. PICK s \in {"posting", "putting"} :
        Lane!Goto(c, s) /\ s = IF pc[c] = "post" THEN "posting" ELSE "putting"
  BY <1>2
<1>4. /\ pc' \in [Invocation -> Lane!Steps \cup {"served"}] /\ pc'[c] = s
      /\ \A d \in Invocation \ {c} : pc'[d] = pc[d]
  BY <1>1, <1>3, LaneGoes DEF Lane!Steps, Lane!Active, Lane!Sending
<1>5. PICK w \in {"inflight", "lost"} : run' = [run EXCEPT ![c].wire = w]
  BY DEF Lane!Send
<1>6. PICK q : q = [run[c] EXCEPT !.wire = w]
  OBVIOUS
<1>7. /\ q \in LaneRecord /\ q.kind = run[c].kind /\ q.iid = run[c].iid /\ q.wire = w
      /\ q.echo = run[c].echo
  BY ONLY <1>1, <1>5, <1>6 DEF LaneRecord
<1>8. run' = [run EXCEPT ![c] = q]
  BY <1>1, <1>5, <1>6 DEF LaneTyped
<1>9. /\ run' \in [Invocation -> LaneRecord] /\ run'[c] = q
      /\ \A d \in Invocation \ {c} : run'[d] = run[d]
  BY <1>1, <1>7, <1>8, LaneSets
<1>10. LaneTyped'
  BY <1>1, <1>2, <1>4, <1>9 DEF LaneTyped
<1>11. pc[c] \in Lane!Active /\ pc'[c] \in Lane!Active /\ Lane!AtWork(c)
  BY <1>2, <1>3, <1>4 DEF Lane!AtWork, Lane!Active, Lane!Sending
<1>12. LaneRun(c)'
  BY <1>1, <1>2, <1>3, <1>4, <1>7, <1>9 DEF LaneRun, Lane!Sending, Lane!Reconciling
<1>13. verdict[c] = "none"
  BY <1>1, <1>2 DEF LaneHeld
<1>14. pc'[c] = "post" \/ (run'[c].wire = "inflight" /\ run'[c].iid = Lane!None) =>
         pc[c] = "post"
  BY <1>1, <1>2, <1>3, <1>4, <1>7, <1>9 DEF LaneRun
<1> QED
  BY <1>2, <1>4, <1>7, <1>9, <1>10, <1>11, <1>12, <1>13, <1>14, LaneMoves

\* The deadline passes, or a request is dropped.
LEMMA LaneEnds ==
  ASSUME LaneInv, NEW c \in Invocation, Lane!Expire(c) \/ Lane!Drop(c)
  PROVE LaneInv'
<1>1. LaneTyped /\ LaneRun(c) /\ LaneHeld(c) /\ run[c] \in LaneRecord
  BY LaneFacts, LaneFields
<1>2. PICK q :
        /\ run' = [run EXCEPT ![c] = q]
        /\ q \in LaneRecord /\ q.kind = run[c].kind /\ q.iid = run[c].iid
        /\ q.echo = run[c].echo
        /\ \/ q.wire = run[c].wire
           \/ run[c].wire = "inflight" /\ q.wire \in {"refused", "lost"}
  <2>1. CASE Lane!Expire(c)
    <3>1. PICK why \in {"late", "cancelled"} : run' = [run EXCEPT ![c].ctx = why]
      BY <2>1 DEF Lane!Expire
    <3>2. PICK q : q = [run[c] EXCEPT !.ctx = why]
      OBVIOUS
    <3>3. /\ q \in LaneRecord /\ q.kind = run[c].kind /\ q.iid = run[c].iid
          /\ q.echo = run[c].echo /\ q.wire = run[c].wire
      BY ONLY <1>1, <3>1, <3>2 DEF LaneRecord
    <3>4. run' = [run EXCEPT ![c] = q]
      BY <1>1, <3>1, <3>2 DEF LaneTyped
    <3> QED
      BY <3>3, <3>4
  <2>2. CASE Lane!Drop(c)
    <3>1. PICK e \in {"refused", "lost"} : run' = [run EXCEPT ![c].wire = e]
      BY <2>2 DEF Lane!Drop
    <3>2. PICK q : q = [run[c] EXCEPT !.wire = e]
      OBVIOUS
    <3>3. /\ q \in LaneRecord /\ q.kind = run[c].kind /\ q.iid = run[c].iid
          /\ q.echo = run[c].echo /\ q.wire = e
      BY ONLY <1>1, <3>1, <3>2 DEF LaneRecord
    <3>4. run' = [run EXCEPT ![c] = q]
      BY <1>1, <3>1, <3>2 DEF LaneTyped
    <3>5. run[c].wire = "inflight"
      BY <2>2 DEF Lane!Drop, Lane!Sent
    <3> QED
      BY <3>3, <3>4, <3>5
  <2> QED
    BY <2>1, <2>2
<1>3. UNCHANGED <<world, pc, verdict, others, past>>
  BY DEF Lane!Expire, Lane!Drop
<1>4. /\ run' \in [Invocation -> LaneRecord] /\ run'[c] = q
      /\ \A d \in Invocation \ {c} : run'[d] = run[d]
  BY <1>1, <1>2, LaneSets
<1>5. LaneTyped'
  BY <1>1, <1>3, <1>4 DEF LaneTyped
<1>6. Lane!AtWork(c)' => Lane!AtWork(c)
  BY <1>2, <1>3, <1>4 DEF Lane!AtWork
<1>7. LaneRun(c)'
  BY <1>1, <1>2, <1>3, <1>4 DEF LaneRun
<1>8. verdict[c] \in {"created", "rejected"} => q.wire = run[c].wire
  BY <1>1, <1>2 DEF LaneHeld
<1> QED
  BY <1>2, <1>3, <1>4, <1>5, <1>6, <1>7, <1>8, LaneMoves

\* It turns to the merge request it found, which is not as asked for.
LEMMA LaneTurns ==
  ASSUME LaneInv, NEW c \in Invocation, Lane!Found(c), NEW i \in Lane!IID,
         world[i].content # Wanted, run' = [run EXCEPT ![c].iid = i],
         past' = [past EXCEPT !.held[c] = FALSE], Lane!Goto(c, "view"),
         UNCHANGED verdict, pc[c] = "list"
  PROVE LaneInv'
<1>1. /\ LaneTyped /\ LaneQuiet /\ run[c] \in LaneRecord
      /\ \A d \in Invocation : LaneRun(d) /\ LaneHeld(d)
  BY LaneFacts, LaneFields
<1>2. UNCHANGED <<world, others>> /\ Lane!Nothing # Wanted
  BY LaneMissing DEF Lane!Found
<1>3. /\ pc' \in [Invocation -> Lane!Steps \cup {"served"}] /\ pc'[c] = "view"
      /\ \A d \in Invocation \ {c} : pc'[d] = pc[d]
  BY <1>1, LaneGoes DEF Lane!Steps, Lane!Active
<1>4. PICK q : q = [run[c] EXCEPT !.iid = i]
  OBVIOUS
<1>5. /\ q \in LaneRecord /\ q.kind = run[c].kind /\ q.iid = i /\ q.wire = run[c].wire
      /\ q.echo = run[c].echo
  BY ONLY <1>1, <1>4, i \in Lane!IID DEF LaneRecord
<1>6. run' = [run EXCEPT ![c] = q]
  BY <1>1, <1>4 DEF LaneTyped
<1>7. /\ run' \in [Invocation -> LaneRecord] /\ run'[c] = q
      /\ \A d \in Invocation \ {c} : run'[d] = run[d]
  BY <1>1, <1>5, <1>6, LaneSets
<1>8. /\ past' \in LanePast /\ past'.raced = past.raced
      /\ \A d \in Invocation \ {c} : past'.held[d] = past.held[d]
  BY <1>1 DEF LaneTyped, LanePast
<1>9. LaneTyped'
  BY <1>1, <1>2, <1>3, <1>7, <1>8 DEF LaneTyped
<1>10. run[c].wire = "unsent" /\ run[c].echo = Lane!Nothing /\ verdict[c] = "none"
  BY <1>1 DEF LaneRun, LaneHeld, Lane!Sending, Lane!Reconciling
<1>11. Lane!None \notin Lane!IID
  BY DEF Lane!None, Lane!IID
<1>12. LaneRun(c)' /\ LaneHeld(c)'
  <2>1. ~Lane!Fulfilled(c)'
    BY <1>2, <1>5, <1>7, <1>11 DEF Lane!Fulfilled
  <2>2. LaneRun(c)'
    BY <1>3, <1>5, <1>7, <1>10, <1>11 DEF LaneRun
  <2>3. LaneHeld(c)'
    BY <1>2, <1>3, <1>5, <1>7, <1>10, <2>1 DEF LaneHeld, Lane!Successes
  <2> QED
    BY <2>2, <2>3
<1>13. ASSUME NEW d \in Invocation \ {c} PROVE LaneRun(d)' /\ LaneHeld(d)'
  <2>1. /\ pc'[d] = pc[d] /\ run'[d] = run[d] /\ past'.held[d] = past.held[d]
        /\ world' = world /\ verdict' = verdict /\ LaneRun(d) /\ LaneHeld(d)
    BY <1>1, <1>2, <1>3, <1>7, <1>8
  <2>2. Lane!Fulfilled(d)' = Lane!Fulfilled(d)
    BY <2>1 DEF Lane!Fulfilled
  <2> QED
    BY <2>1, <2>2 DEF LaneRun, LaneHeld
<1>14. LaneQuiet'
  <2>1. \A d \in Invocation : Lane!AtWork(d)' => Lane!AtWork(d)
    BY <1>3, <1>7 DEF Lane!AtWork, Lane!Active
  <2>2. Lane!Opened' = Lane!Opened
    BY <1>2 DEF Lane!Opened
  <2>3. \A d \in Invocation :
          pc'[d] = "post" \/ (run'[d].wire = "inflight" /\ run'[d].iid = Lane!None) =>
            pc[d] = "post" \/ (run[d].wire = "inflight" /\ run[d].iid = Lane!None)
    BY <1>3, <1>5, <1>7, <1>10
  <2> QED
    BY <1>1, <1>8, <2>1, <2>2, <2>3 DEF LaneQuiet
<1>15. Lane!TypeOK'
  BY <1>9 DEF Lane!TypeOK, LaneTyped, LaneRecord, LanePast, LaneVerdicts
<1> QED
  BY <1>12, <1>13, <1>14, <1>15 DEF LaneInv

\* A run finds its merge request, or views it.
LEMMA LaneFinds ==
  ASSUME LaneInv, NEW c \in Invocation, Lane!Found(c) \/ Lane!View(c)
  PROVE LaneInv'
<1>1. CASE Lane!Found(c)
  <2>1. PICK i \in Lane!Opened :
          \/ /\ world[i].content = Wanted
             /\ Lane!Return(c, IF pc[c] = "list" THEN "unchanged" ELSE "replayed")
          \/ /\ world[i].content # Wanted /\ pc[c] = "list"
             /\ run' = [run EXCEPT ![c].iid = i]
             /\ past' = [past EXCEPT !.held[c] = FALSE]
             /\ Lane!Goto(c, "view") /\ UNCHANGED verdict
          \/ Lane!Return(c, "conflict")
    BY <1>1 DEF Lane!Found, Lane!Matches, Lane!Continue
  <2>2. i \in Lane!IID
    BY DEF Lane!Opened
  <2>3. CASE world[i].content = Wanted
             /\ Lane!Return(c, IF pc[c] = "list" THEN "unchanged" ELSE "replayed")
    BY <1>1, <2>3, LaneLists
  <2>4. CASE Lane!Return(c, "conflict")
    BY <1>1, <2>4, LaneLists
  <2> QED
    BY <1>1, <2>1, <2>2, <2>3, <2>4, LaneTurns
<1>2. CASE Lane!View(c)
  <2>1. \/ world[run[c].iid].content = Wanted /\ Lane!Return(c, Lane!Says(c, "unchanged"))
        \/ Lane!Goto(c, "put") /\ UNCHANGED <<run, verdict, past>>
    BY <1>2 DEF Lane!View, Lane!Continue
  <2> QED
    BY <1>2, <2>1, LaneViews, LaneSteps
<1> QED
  BY <1>1, <1>2

\* The steps that the history observes keep what the runs hold.
LEMMA LaneHolds ==
  ASSUME LaneInv, NEW b \in BOOLEAN, Lane!Observed(b), UNCHANGED verdict, NEW d \in Invocation,
         pc'[d] = "served" \/ pc[d] # "served",
         run'[d].wire = run[d].wire \/ verdict[d] \notin {"created", "rejected"},
         run'[d].echo = run[d].echo
           \/ (run'[d].echo = Wanted => pc'[d] \in Lane!Active /\ Lane!Fulfilled(d)')
  PROVE LaneHeld(d)'
<1>1. LaneTyped /\ LaneHeld(d)
  BY LaneFacts
<1>2. /\ past.held[d] => past'.held[d]
      /\ pc'[d] \in Lane!Active /\ Lane!Fulfilled(d)' => past'.held[d]
  BY <1>1, LaneObserved
<1>3. run'[d].echo = Wanted => past'.held[d]
  BY <1>1, <1>2 DEF LaneHeld
<1>4. /\ pc'[d] # "served" => verdict'[d] = "none"
      /\ verdict'[d] \in Lane!Successes => past'.held[d]
      /\ verdict'[d] = "created" => run'[d].wire = "applied"
      /\ verdict'[d] = "rejected" => run'[d].wire = "refused"
  BY <1>1, <1>2 DEF LaneHeld
<1> QED
  BY <1>2, <1>3, <1>4 DEF LaneHeld

\* A run begins.
LEMMA LaneBegins ==
  ASSUME LaneInv, NEW c \in Invocation, Lane!Begin(c)
  PROVE LaneInv'
<1>1. /\ LaneTyped /\ LaneQuiet /\ run[c].kind \in Lane!Kind /\ past.raced \in BOOLEAN
      /\ \A d \in Invocation : LaneRun(d) /\ LaneHeld(d)
  BY LaneFacts, LaneFields
<1>2. /\ pc[c] = "ready" /\ others < MaxMRActors /\ others' = others + 1
      /\ UNCHANGED <<world, run, verdict>>
  BY DEF Lane!Begin
<1>3. PICK s \in {"list", "again", "view"} :
        Lane!Goto(c, s) /\ (s = "view" <=> run[c].kind = "update")
  BY <1>1 DEF Lane!Begin, Lane!Kind
<1>4. /\ pc' \in [Invocation -> Lane!Steps \cup {"served"}] /\ pc'[c] = s
      /\ \A d \in Invocation \ {c} : pc'[d] = pc[d]
  BY <1>1, <1>3, LaneGoes DEF Lane!Steps, Lane!Active
<1>5. PICK b \in BOOLEAN : /\ b = (past.raced \/ \E d \in Invocation \ {c} : Lane!AtWork(d))
                           /\ Lane!Observed(b)
  <2>1. PICK b \in BOOLEAN : b = (past.raced \/ \E d \in Invocation \ {c} : Lane!AtWork(d))
    OBVIOUS
  <2>2. Lane!Observed(b)
    BY <2>1 DEF Lane!Begin
  <2> QED
    BY <2>1, <2>2
<1>6. past' \in LanePast /\ past'.raced = b
  BY <1>1, <1>5, LaneObserved
<1>7. others' \in 0..MaxMRActors
  <2>1. MaxMRActors \in Nat /\ others \in 0..MaxMRActors
    BY <1>1, LocalAssumption DEF LaneTyped
  <2> QED
    BY <1>2, <2>1
<1>8. LaneTyped'
  BY <1>1, <1>2, <1>4, <1>6, <1>7 DEF LaneTyped
<1>9. LaneRun(c)'
  BY <1>1, <1>2, <1>3, <1>4
     DEF LaneRun, Lane!Sending, Lane!Reconciling, Lane!None
<1>10. \A d \in Invocation \ {c} : LaneRun(d)'
  BY <1>1, <1>2, <1>4 DEF LaneRun
<1>11. \A d \in Invocation : LaneHeld(d)'
  BY <1>2, <1>3, <1>4, <1>5, LaneHolds
<1>12. LaneQuiet'
  <2>1. \A d \in Invocation \ {c} : Lane!AtWork(d)' => Lane!AtWork(d)
    BY <1>2, <1>4 DEF Lane!AtWork
  <2>2. Lane!Opened' = Lane!Opened
    BY <1>2 DEF Lane!Opened
  <2>3. \A d \in Invocation :
          pc'[d] = "post" \/ (run'[d].wire = "inflight" /\ run'[d].iid = Lane!None) =>
            pc[d] = "post" \/ (run[d].wire = "inflight" /\ run[d].iid = Lane!None)
    BY <1>2, <1>3, <1>4
  <2>4. ~b => ~past.raced /\ \A d \in Invocation \ {c} : ~Lane!AtWork(d)
    BY <1>5
  <2>5. ~b => \A d, e \in Invocation : Lane!AtWork(d)' /\ Lane!AtWork(e)' => d = e
    BY <2>1, <2>4
  <2> QED
    BY <1>1, <1>6, <2>2, <2>3, <2>4, <2>5 DEF LaneQuiet
<1>13. Lane!TypeOK'
  BY <1>8 DEF Lane!TypeOK, LaneTyped, LaneRecord, LanePast, LaneVerdicts
<1> QED
  BY <1>9, <1>10, <1>11, <1>12, <1>13 DEF LaneInv

\* Merge requests are added and changed, and do not disappear.
LEMMA LaneWorld ==
  ASSUME LaneTyped, NEW i \in Lane!IID, NEW m \in Lane!MR, world' = [world EXCEPT ![i] = m]
  PROVE /\ (world \in [Lane!IID -> Lane!MR \cup {Lane!Missing}])' /\ world'[i] = m
        /\ \A j \in Lane!IID \ {i} : world'[j] = world[j]
        /\ \A j \in Lane!IID : world[j] # Lane!Missing => world'[j] # Lane!Missing
BY LaneMissing DEF LaneTyped

\* What a run knows of its merge request stays known when one is changed.
LEMMA LaneRunKept ==
  ASSUME LaneInv, NEW i \in Lane!IID, NEW m \in Lane!MR, world' = [world EXCEPT ![i] = m],
         NEW d \in Invocation, pc'[d] = pc[d], run'[d] = run[d]
  PROVE LaneRun(d)'
<1>1. /\ LaneTyped /\ LaneRun(d) /\ run[d].iid \in {Lane!None} \cup Lane!IID
  BY LaneFacts, LaneFields
<1>2. run[d].iid # Lane!None /\ world[run[d].iid] # Lane!Missing =>
        world'[run[d].iid] # Lane!Missing
  BY <1>1, LaneWorld
<1>3. pc[d] = "put" => run[d].iid # Lane!None
  BY <1>1 DEF LaneRun
<1> QED
  BY <1>1, <1>2, <1>3 DEF LaneRun

\* Others open and change merge requests.
LEMMA LaneOthers ==
  ASSUME LaneInv, Lane!OtherOpens \/ Lane!OtherChanges
  PROVE LaneInv'
<1>1. /\ LaneTyped /\ LaneQuiet /\ \A d \in Invocation : LaneRun(d) /\ LaneHeld(d)
      /\ past.raced \in BOOLEAN
  BY LaneFacts DEF LaneTyped, LanePast
<1>2. /\ others < MaxMRActors /\ others' = others + 1 /\ UNCHANGED <<pc, run, verdict>>
  BY DEF Lane!OtherOpens, Lane!OtherChanges, Lane!Act
<1>3. PICK b \in BOOLEAN, i \in Lane!IID, m \in Lane!MR :
        /\ world' = [world EXCEPT ![i] = m] /\ Lane!Observed(b)
        /\ \/ i \in Lane!Opened /\ b = past.raced
           \/ /\ ~b => ~past.raced
              /\ ~b => Lane!Opened = {} /\ \A d \in Invocation : ~Lane!AtWork(d)
  <2>1. CASE Lane!OtherOpens
    <3>1. PICK b \in BOOLEAN :
            b = (past.raced \/ Lane!Opened # {} \/ \E d \in Invocation : Lane!AtWork(d))
      OBVIOUS
    <3>2. Lane!Observed(b)
      BY <2>1, <3>1 DEF Lane!OtherOpens
    <3> QED
      BY <2>1, <3>1, <3>2 DEF Lane!OtherOpens
  <2>2. CASE Lane!OtherChanges
    <3>1. PICK i \in Lane!Opened, m \in Lane!MR : world' = [world EXCEPT ![i] = m]
      BY <2>2 DEF Lane!OtherChanges
    <3>2. i \in Lane!IID
      BY DEF Lane!Opened
    <3> QED
      BY <1>1, <2>2, <3>1, <3>2 DEF Lane!OtherChanges
  <2> QED
    BY <2>1, <2>2
<1>4. past' \in LanePast /\ past'.raced = b
  BY <1>1, <1>3, LaneObserved
<1>5. others' \in 0..MaxMRActors
  <2>1. MaxMRActors \in Nat /\ others \in 0..MaxMRActors
    BY <1>1, LocalAssumption DEF LaneTyped
  <2> QED
    BY <1>2, <2>1
<1>6. /\ world' \in [Lane!IID -> Lane!MR \cup {Lane!Missing}] /\ world'[i] = m
      /\ \A j \in Lane!IID \ {i} : world'[j] = world[j]
  BY <1>1, <1>3, LaneWorld
<1>7. LaneTyped'
  BY <1>1, <1>2, <1>4, <1>5, <1>6 DEF LaneTyped
<1>8. \A d \in Invocation : LaneRun(d)'
  BY <1>2, <1>3, LaneRunKept
<1>9. \A d \in Invocation : LaneHeld(d)'
  BY <1>2, <1>3, LaneHolds
<1>10. LaneQuiet'
  <2>1. ASSUME ~b PROVE /\ ~past.raced
                        /\ \A j \in Lane!Opened' : j \in Lane!Opened \/ (Lane!Opened = {} /\ j = i)
                        /\ Lane!Opened = {} /\ Lane!Opened' # {} =>
                             \A d \in Invocation : ~Lane!AtWork(d)
    <3>1. ~past.raced
      BY <1>3, <2>1
    <3>2. \A j \in Lane!Opened' : j \in Lane!Opened \/ j = i
      BY <1>6 DEF Lane!Opened
    <3> QED
      BY <1>3, <2>1, <3>1, <3>2
  <2>2. \A d \in Invocation : Lane!AtWork(d)' = Lane!AtWork(d)
    BY <1>2 DEF Lane!AtWork
  <2>3. \A d \in Invocation :
          pc[d] = "post" \/ run[d].wire = "inflight" => Lane!AtWork(d)
    BY DEF Lane!AtWork, Lane!Active
  <2>4. ASSUME ~b PROVE \A j, k \in Lane!Opened' : j = k
    BY <1>1, <2>1, <2>4 DEF LaneQuiet
  <2>5. ASSUME ~b, NEW d \in Invocation,
               pc'[d] = "post" \/ (run'[d].wire = "inflight" /\ run'[d].iid = Lane!None)
        PROVE Lane!Opened' = {}
    <3>1. pc[d] = "post" \/ (run[d].wire = "inflight" /\ run[d].iid = Lane!None)
      BY <1>2, <2>5
    <3>2. Lane!Opened = {} /\ Lane!AtWork(d)
      BY <1>1, <2>1, <2>3, <2>5, <3>1 DEF LaneQuiet
    <3> QED
      BY <2>1, <2>5, <3>2
  <2>6. ASSUME ~b PROVE \A d, e \in Invocation : Lane!AtWork(d)' /\ Lane!AtWork(e)' => d = e
    BY <1>1, <2>1, <2>2, <2>6 DEF LaneQuiet
  <2> QED
    BY <1>4, <2>4, <2>5, <2>6 DEF LaneQuiet
<1>11. Lane!TypeOK'
  BY <1>7 DEF Lane!TypeOK, LaneTyped, LaneRecord, LanePast, LaneVerdicts
<1> QED
  BY <1>8, <1>9, <1>10, <1>11 DEF LaneInv

\* The provider applies a run's request.
LEMMA LaneApplies ==
  ASSUME LaneInv, NEW c \in Invocation, Lane!Apply(c)
  PROVE LaneInv'
<1>1. /\ LaneTyped /\ LaneQuiet /\ \A d \in Invocation : LaneRun(d) /\ LaneHeld(d)
      /\ past.raced \in BOOLEAN /\ run[c] \in LaneRecord
      /\ run[c].iid \in {Lane!None} \cup Lane!IID /\ run[c].echo \in Content \cup {Lane!Nothing}
  BY LaneFacts, LaneFields
<1>2. /\ run[c].wire = "inflight" /\ UNCHANGED <<pc, verdict, others>>
      /\ pc[c] \in Lane!Sending \cup Lane!Reconciling \cup {"served"}
      /\ Lane!Observed(past.raced)
  BY DEF Lane!Apply, Lane!Sent
<1>3. PICK i \in Lane!IID, new \in Content :
        /\ IF run[c].iid = Lane!None THEN Lane!Free(i) ELSE i = run[c].iid
        /\ world' = [world EXCEPT ![i] = [open |-> @ = Lane!Missing \/ @.open, content |-> new]]
        /\ run' = [run EXCEPT ![c].wire = "applied",
                              ![c].echo = IF pc[c] \in Lane!Sending THEN new ELSE @]
  BY DEF Lane!Apply
<1>4. PICK e \in Content \cup {Lane!Nothing} :
        e = IF pc[c] \in Lane!Sending THEN new ELSE run[c].echo
  BY <1>1
<1>5. PICK q : q = [run[c] EXCEPT !.wire = "applied", !.echo = e]
  OBVIOUS
<1>6. /\ q \in LaneRecord /\ q.kind = run[c].kind /\ q.iid = run[c].iid /\ q.wire = "applied"
      /\ q.echo = e
  BY ONLY <1>1, <1>4, <1>5 DEF LaneRecord
<1>7. run' = [run EXCEPT ![c] = q]
  BY <1>1, <1>3, <1>4, <1>5 DEF LaneTyped
<1>8. /\ run' \in [Invocation -> LaneRecord] /\ run'[c] = q
      /\ \A d \in Invocation \ {c} : run'[d] = run[d]
  BY <1>1, <1>6, <1>7, LaneSets
<1>9. PICK o \in BOOLEAN : o = (world[i] = Lane!Missing \/ world[i].open)
  <2>1. world[i] \in Lane!MR \cup {Lane!Missing}
    BY <1>1 DEF LaneTyped
  <2> QED
    BY <2>1 DEF Lane!MR, Lane!Missing
<1>10. PICK m : m = [open |-> o, content |-> new]
  OBVIOUS
<1>11. m \in Lane!MR /\ m.open = o /\ m.content = new
  BY <1>10 DEF Lane!MR
<1>12. world' = [world EXCEPT ![i] = m]
  BY <1>1, <1>3, <1>9, <1>10 DEF LaneTyped
<1>13. /\ world' \in [Lane!IID -> Lane!MR \cup {Lane!Missing}] /\ world'[i] = m
       /\ \A j \in Lane!IID \ {i} : world'[j] = world[j]
       /\ \A j \in Lane!IID : world[j] # Lane!Missing => world'[j] # Lane!Missing
  BY <1>1, <1>11, <1>12, LaneWorld
<1>14. past' \in LanePast /\ past'.raced = past.raced
  BY <1>1, <1>2, LaneObserved
<1>15. LaneTyped'
  BY <1>1, <1>2, <1>8, <1>13, <1>14 DEF LaneTyped
<1>16. Lane!None \notin Lane!IID
  BY DEF Lane!None, Lane!IID
<1>17. LaneRun(c)'
  BY <1>1, <1>2, <1>4, <1>6, <1>8
     DEF LaneRun, Lane!Sending, Lane!Reconciling
<1>18. \A d \in Invocation \ {c} : LaneRun(d)'
  BY <1>2, <1>8, <1>11, <1>12, LaneRunKept
<1>19. LaneHeld(c)'
  <2>1. CASE pc[c] \in Lane!Sending
    <3>1. new = Wanted => Lane!Fulfilled(c)'
      BY <1>3, <1>6, <1>8, <1>9, <1>11, <1>13 DEF Lane!Fulfilled, Lane!Free
    <3>2. verdict[c] = "none" /\ pc[c] \in Lane!Active /\ pc[c] # "served" /\ e = new
      BY <1>1, <1>4, <2>1 DEF LaneHeld, Lane!Active, Lane!Sending
    <3> QED
      BY <1>1, <1>2, <1>6, <1>8, <3>1, <3>2, LaneHolds
  <2>2. CASE pc[c] \notin Lane!Sending
    <3>1. e = run[c].echo
      BY <1>4, <2>2
    <3>2. verdict[c] # "created" /\ verdict[c] # "rejected"
      BY <1>1, <1>2 DEF LaneHeld
    <3> QED
      BY <1>1, <1>2, <1>6, <1>8, <3>1, <3>2, LaneHolds
  <2> QED
    BY <2>1, <2>2
<1>20. \A d \in Invocation \ {c} : LaneHeld(d)'
  BY <1>1, <1>2, <1>8, LaneHolds
<1>21. LaneQuiet'
  <2>1. \A d \in Invocation : Lane!AtWork(d)' => Lane!AtWork(d)
    BY <1>2, <1>6, <1>8 DEF Lane!AtWork
  <2>2. Lane!AtWork(c)
    BY <1>2 DEF Lane!AtWork
  <2>3. CASE run[c].iid = Lane!None
    <3>1. ~past.raced => Lane!Opened = {}
      BY <1>1, <1>2, <2>3 DEF LaneQuiet
    <3>2. \A j \in Lane!Opened' : j \in Lane!Opened \/ j = i
      BY <1>13 DEF Lane!Opened
    <3>3. ~past.raced => \A j, k \in Lane!Opened' : j = k
      BY <3>1, <3>2
    <3>4. ASSUME ~past.raced, NEW d \in Invocation,
                 pc'[d] = "post" \/ (run'[d].wire = "inflight" /\ run'[d].iid = Lane!None)
          PROVE FALSE
      <4>1. pc[d] = "post" \/ run[d].wire = "inflight"
        BY <1>2, <1>6, <1>8, <3>4
      <4>2. Lane!AtWork(d)
        BY <4>1 DEF Lane!AtWork, Lane!Active
      <4>3. d = c
        BY <1>1, <2>2, <3>4, <4>2 DEF LaneQuiet
      <4> QED
        BY <1>2, <1>6, <1>8, <3>4, <4>3 DEF Lane!Sending, Lane!Reconciling
    <3> QED
      BY <1>1, <1>14, <2>1, <3>3, <3>4 DEF LaneQuiet
  <2>4. CASE run[c].iid # Lane!None
    <3>1. i = run[c].iid /\ world[i] # Lane!Missing
      BY <1>1, <1>2, <1>3, <2>4 DEF LaneRun
    <3>2. \A j \in Lane!Opened' : j \in Lane!Opened
      BY <1>9, <1>11, <1>13, <3>1 DEF Lane!Opened
    <3>3. \A d \in Invocation :
            pc'[d] = "post" \/ (run'[d].wire = "inflight" /\ run'[d].iid = Lane!None) =>
              pc[d] = "post" \/ (run[d].wire = "inflight" /\ run[d].iid = Lane!None)
      BY <1>2, <1>6, <1>8
    <3>4. Lane!Opened = {} => Lane!Opened' = {}
      BY <3>2
    <3> QED
      BY <1>1, <1>14, <2>1, <3>2, <3>3, <3>4 DEF LaneQuiet
  <2> QED
    BY <2>3, <2>4
<1>22. Lane!TypeOK'
  BY <1>15 DEF Lane!TypeOK, LaneTyped, LaneRecord, LanePast, LaneVerdicts
<1> QED
  BY <1>17, <1>18, <1>19, <1>20, <1>21, <1>22 DEF LaneInv

\* The invariant holds before anybody begins.
LEMMA LaneInit ==
  Lane!Init => LaneInv
<1> SUFFICES ASSUME Lane!Init PROVE LaneInv
  OBVIOUS
<1>1. PICK kind \in Lane!Kind :
        run = [c \in Invocation |->
          [kind |-> IF c = Lane!First THEN kind ELSE "ensure",
           iid |-> IF c = Lane!First /\ kind = "update" THEN 1 ELSE Lane!None,
           ctx |-> "live", wire |-> "unsent", echo |-> Lane!Nothing]]
  BY DEF Lane!Init
<1>2. MaxIID \in Nat \ {0} /\ 1 \in Lane!IID /\ MaxMRActors \in Nat
  BY LocalAssumption DEF Lane!IID
<1>3. ASSUME NEW c \in Invocation
      PROVE /\ run[c] \in LaneRecord /\ run[c].wire = "unsent" /\ run[c].echo = Lane!Nothing
            /\ run[c].iid = IF run[c].kind = "update" THEN 1 ELSE Lane!None
  <2>1. PICK k \in Lane!Kind, n \in {Lane!None} \cup Lane!IID :
          /\ k = IF c = Lane!First THEN kind ELSE "ensure"
          /\ n = IF c = Lane!First /\ kind = "update" THEN 1 ELSE Lane!None
    BY <1>1, <1>2 DEF Lane!Kind
  <2>2. run[c] = [kind |-> k, iid |-> n, ctx |-> "live", wire |-> "unsent",
                  echo |-> Lane!Nothing]
    BY <1>1, <2>1
  <2>3. /\ run[c] \in LaneRecord /\ run[c].wire = "unsent" /\ run[c].echo = Lane!Nothing
        /\ run[c].kind = k /\ run[c].iid = n
    BY ONLY <2>1, <2>2, k \in Lane!Kind, n \in {Lane!None} \cup Lane!IID DEF LaneRecord
  <2> QED
    BY <2>1, <2>3
<1>4. run \in [Invocation -> LaneRecord]
  <2>1. run = [c \in Invocation |-> run[c]]
    BY <1>1
  <2> QED
    BY <1>3, <2>1
<1>5. /\ pc = [c \in Invocation |-> "ready"] /\ verdict = [c \in Invocation |-> "none"]
      /\ others = 0 /\ past = [held |-> [c \in Invocation |-> FALSE], raced |-> FALSE]
      /\ world \in [Lane!IID -> Lane!MR \cup {Lane!Missing}]
      /\ \A i \in Lane!IID \ {1} : world[i] = Lane!Missing
  BY DEF Lane!Init
<1>6. LaneTyped
  <2>1. past \in LanePast
    BY <1>5 DEF LanePast
  <2>2. others \in 0..MaxMRActors
    BY <1>2, <1>5
  <2> QED
    BY <1>4, <1>5, <2>1, <2>2 DEF LaneTyped, LaneVerdicts, Lane!Steps
<1>7. \A c \in Invocation : LaneRun(c) /\ LaneHeld(c)
  BY <1>3, <1>5, LaneMissing
     DEF LaneRun, LaneHeld, Lane!Active, Lane!Sending, Lane!Reconciling, Lane!Successes
<1>8. LaneQuiet
  <2>1. \A i \in Lane!Opened : i = 1
    BY <1>5, LaneMissing DEF Lane!Opened
  <2>2. \A c \in Invocation : ~Lane!AtWork(c) /\ pc[c] # "post" /\ run[c].wire # "inflight"
    BY <1>3, <1>5 DEF Lane!AtWork, Lane!Active, Lane!Sending, Lane!Reconciling
  <2> QED
    BY <2>1, <2>2 DEF LaneQuiet
<1> QED
  BY <1>6, <1>7, <1>8, LaneTypes DEF LaneInv

\* The lane's invariant.
LEMMA LaneInvHolds ==
  /\ Lane!Init => LaneInv
  /\ LaneInv /\ Lane!Next => LaneInv'
<1>1. ASSUME LaneInv, NEW c \in Invocation, Lane!Step(c) PROVE LaneInv'
  BY <1>1, LaneBegins, LaneSteps, LaneFinds, LaneAnswers, LaneSends, LaneReconciles, LaneEnds
     DEF Lane!Step
<1>2. ASSUME LaneInv, Lane!Next PROVE LaneInv'
  BY <1>1, <1>2, LaneOthers, LaneApplies, LaneEnds DEF Lane!Next
<1> QED
  BY <1>2, LaneInit

\* It says that answers are true.
LEMMA LaneInvSays ==
  ASSUME LaneInv
  PROVE Lane!TypeOK /\ Lane!NativeVerdictIsTrue
<1>1. Lane!TypeOK /\ \A c \in Invocation : LaneHeld(c)
  BY DEF LaneInv
<1> QED
  BY <1>1 DEF LaneHeld, Lane!NativeVerdictIsTrue, Lane!Successes

\* Where at most one is open, the provider's count says so.
LEMMA LaneInvOnce ==
  ASSUME LaneInv'
  PROVE Lane!CreatesNoSecond
<1>1. SUFFICES ASSUME ~past'.raced PROVE Lane!Cardinality(Lane!Opened') <= 1
  BY DEF Lane!CreatesNoSecond
<1>2. \A i, j \in Lane!Opened' : i = j
  BY <1>1 DEF LaneInv, LaneQuiet
<1>3. Lane!Cardinality(Lane!Opened') = Cardinality(Lane!Opened')
  BY DEF Lane!Cardinality, Cardinality
<1>4. Cardinality(Lane!Opened') <= 1
  <2>1. CASE Lane!Opened' = {}
    BY <2>1, FS_EmptySet
  <2>2. CASE Lane!Opened' # {}
    <3>1. PICK i : i \in Lane!Opened'
      BY <2>2
    <3>2. Lane!Opened' = {i}
      BY <1>2, <3>1
    <3>3. Cardinality({i}) = 1
      BY FS_Singleton
    <3>4. Cardinality(Lane!Opened') = 1
      BY <3>2, <3>3
    <3> QED
      BY <3>4
  <2> QED
    BY <2>1, <2>2
<1> QED
  BY <1>3, <1>4
-----------------------------------------------------------------------------
(***************************************************************************)
(* The official child (GlabChild).                                         *)
(* The child, its output, and the goroutines of the parent that relay it.  *)
(***************************************************************************)

\* How much of the output the command has taken.
ChildTaken == Len(past.printed) - Len(world.pipe)

\* One command runs.
ChildAlone ==
  /\ \A c \in Invocation : c # Child!Caller => pc[c] = "answered" /\ verdict[c] = "none"
  /\ pc[Child!Caller] # "answered" => verdict[Child!Caller] = "none"

\* What it has not taken is the end of what was printed.
ChildOutput ==
  /\ Len(world.pipe) <= Len(past.printed)
  /\ \A i \in 1..Len(world.pipe) : past.printed[ChildTaken + i] = world.pipe[i]

\* The terminal was given what was taken, from its beginning, but for the piece in the
\* relay's hands, until the relay failed.
ChildShown(c) ==
  /\ Len(past.shown) <= ChildTaken
  /\ \A i \in 1..Len(past.shown) :
       /\ past.shown[i] = past.printed[i] /\ past.shown[i] # "malformed"
       /\ i < Len(past.shown) \/ ~run[c].failed => past.shown[i] = "text"
  /\ run[c].relay \in Child!Chunk =>
       /\ ~run[c].failed /\ run[c].kind \in Child!Login /\ run[c].relay # "malformed"
       /\ ChildTaken = Len(past.shown) + 1 /\ past.printed[ChildTaken] = run[c].relay
  /\ run[c].kind \in Child!Login /\ ~run[c].failed /\ run[c].relay \notin Child!Chunk =>
       ChildTaken = Len(past.shown)

\* What the goroutines recorded of it.
ChildSeen(c) ==
  /\ \A i \in 1..Len(past.printed) :
       IF run[c].kind \in Child!Login THEN past.printed[i] # "refusal"
       ELSE past.printed[i] \in {"text", "flood", "refusal"}
  /\ run[c].warning => \E i \in 1..Len(past.printed) : past.printed[i] = "warning"
  /\ run[c].refusal => \E i \in 1..Len(past.printed) : past.printed[i] = "refusal"
  /\ run[c].failed => run[c].err \/ run[c].warning
  /\ run[c].relay = "warning" => run[c].warning
  /\ run[c].kind \notin Child!Login =>
       /\ ~run[c].warning
       /\ \A i \in 1..ChildTaken : past.printed[i] = "flood" => run[c].err

\* How the child ended, and what a relay that has stopped means.
ChildEnded(c) ==
  /\ pc[c] \in {"afterwait", "input", "output", "closing", "closed", "decide"}
       => world.proc # "running"
  /\ pc[c] \in {"afterwait", "input"} => run[c].kind = "console"
  /\ run[c].closed => past.late /\ (run[c].kind \in Child!Login \/ run[c].stuck)
  /\ run[c].relay = "stopped" =>
       \/ run[c].closed \/ run[c].err \/ run[c].warning
       \/ world.pipe = <<>> /\ world.proc # "running"
  /\ pc[c] = "decide" => run[c].relay = "stopped" \/ run[c].stuck
  /\ (\E i \in 1..Len(past.printed) : past.printed[i] = "refusal") =>
       ~world.applied /\ world.proc # "ok"
  /\ world.proc = "ok" /\ run[c].kind = "write" => world.applied

ChildInv ==
  /\ Child!TypeOK /\ ChildAlone /\ ChildOutput /\ Child!ChildVerdictIsTrue
  /\ ChildShown(Child!Caller) /\ ChildSeen(Child!Caller) /\ ChildEnded(Child!Caller)

\* The parts of the state.
ChildRun ==
  [kind : Child!Kind, ctx : BOOLEAN, cancel : BOOLEAN, closed : BOOLEAN,
   relay : {"read", "stopped"} \cup Child!Chunk, failed : BOOLEAN, warning : BOOLEAN,
   err : BOOLEAN, refusal : BOOLEAN, stuck : BOOLEAN,
   input : {"open", "stopped"}, inputErr : BOOLEAN, interrupt : BOOLEAN]
ChildWorld == [proc : {"running", "ok", "failed", "killed"}, helper : BOOLEAN,
               pipe : Seq(Child!Chunk), applied : BOOLEAN]
ChildPast == [printed : Seq(Child!Chunk), shown : Seq(Child!Chunk), late : BOOLEAN]
ChildTyped ==
  /\ pc \in [Invocation -> Child!Steps \cup {"answered"}]
  /\ world \in ChildWorld /\ past \in ChildPast
  /\ run \in [Invocation -> ChildRun]
  /\ verdict \in [Invocation -> {"none", "ok", "insecure", "cancelled", "refused", "rejected"}]
  /\ others \in 0..MaxChunks

\* The types, by what they are of.
LEMMA ChildTypes == Child!TypeOK <=> ChildTyped
BY DEF Child!TypeOK, ChildTyped, ChildRun, ChildWorld, ChildPast

\* Somebody has called the child.
LEMMA ChildCaller == Child!Caller \in Invocation
BY LocalAssumption DEF Child!Caller

\* What a run's record holds.
LEMMA ChildFields ==
  ASSUME ChildTyped, NEW c \in Invocation
  PROVE /\ run[c] \in ChildRun /\ run[c].kind \in Child!Kind
        /\ run[c].relay \in {"read", "stopped"} \cup Child!Chunk
        /\ run[c].closed \in BOOLEAN /\ run[c].failed \in BOOLEAN /\ run[c].warning \in BOOLEAN
        /\ run[c].err \in BOOLEAN /\ run[c].refusal \in BOOLEAN /\ run[c].stuck \in BOOLEAN
        /\ run[c].cancel \in BOOLEAN
        /\ world.pipe \in Seq(Child!Chunk) /\ past.printed \in Seq(Child!Chunk)
        /\ past.shown \in Seq(Child!Chunk) /\ world.applied \in BOOLEAN
        /\ Len(world.pipe) \in Nat /\ Len(past.printed) \in Nat /\ Len(past.shown) \in Nat
<1>1. run[c] \in ChildRun
  BY DEF ChildTyped
<1>2. world \in ChildWorld /\ past \in ChildPast
  BY DEF ChildTyped
<1>3. /\ world.pipe \in Seq(Child!Chunk) /\ past.printed \in Seq(Child!Chunk)
      /\ past.shown \in Seq(Child!Chunk) /\ world.applied \in BOOLEAN
  BY <1>2 DEF ChildWorld, ChildPast
<1>4. Len(world.pipe) \in Nat /\ Len(past.printed) \in Nat /\ Len(past.shown) \in Nat
  BY <1>3
<1>5. /\ run[c].kind \in Child!Kind
      /\ run[c].relay \in {"read", "stopped"} \cup Child!Chunk
      /\ run[c].closed \in BOOLEAN /\ run[c].failed \in BOOLEAN /\ run[c].warning \in BOOLEAN
      /\ run[c].err \in BOOLEAN /\ run[c].refusal \in BOOLEAN /\ run[c].stuck \in BOOLEAN
      /\ run[c].cancel \in BOOLEAN
  BY <1>1 DEF ChildRun
<1> QED
  BY <1>1, <1>3, <1>4, <1>5

\* Replacing fields of the run's record or the world.
LEMMA ChildSets ==
  ASSUME ChildTyped, NEW c \in Invocation, NEW r \in ChildRun, run' = [run EXCEPT ![c] = r]
  PROVE /\ (run \in [Invocation -> ChildRun])' /\ run'[c] = r
        /\ \A d \in Invocation \ {c} : run'[d] = run[d]
BY DEF ChildTyped

\* A piece of output is taken.
LEMMA ChildTakes ==
  ASSUME ChildTyped, ChildOutput, NEW c \in Invocation, Child!TakesNext(c), past' = past
  PROVE /\ Head(world.pipe) \in Child!Chunk
        /\ (world \in ChildWorld)' /\ world'.proc = world.proc /\ world'.applied = world.applied
        /\ ChildTaken \in Nat /\ ChildTaken' = ChildTaken + 1 /\ ChildTaken + 1 <= Len(past.printed)
        /\ past.printed[ChildTaken + 1] = Head(world.pipe)
        /\ ChildOutput'
<1>1. /\ world \in ChildWorld /\ world.pipe \in Seq(Child!Chunk) /\ Len(world.pipe) \in Nat
      /\ Len(past.printed) \in Nat
  BY ChildFields DEF ChildTyped
<1>2. /\ world.pipe # <<>> /\ world' = [world EXCEPT !.pipe = Tail(world.pipe)]
  BY DEF Child!TakesNext
<1>3. /\ Tail(world.pipe) \in Seq(Child!Chunk) /\ Len(Tail(world.pipe)) = Len(world.pipe) - 1
      /\ \A i \in 1..Len(world.pipe) - 1 : Tail(world.pipe)[i] = world.pipe[i + 1]
      /\ Head(world.pipe) = world.pipe[1] /\ Head(world.pipe) \in Child!Chunk
      /\ Len(world.pipe) > 0
  BY <1>1, <1>2
<1>4. /\ world' \in ChildWorld /\ world'.proc = world.proc /\ world'.applied = world.applied
      /\ world'.pipe = Tail(world.pipe)
  BY <1>1, <1>2, <1>3 DEF ChildWorld
<1>5. /\ Len(world.pipe) <= Len(past.printed)
      /\ \A i \in 1..Len(world.pipe) : past.printed[ChildTaken + i] = world.pipe[i]
  BY DEF ChildOutput
<1>6. ChildTaken \in Nat /\ ChildTaken' = ChildTaken + 1 /\ ChildTaken + 1 <= Len(past.printed)
  <2>1. ChildTaken = Len(past.printed) - Len(world.pipe)
    BY DEF ChildTaken
  <2>2. ChildTaken' = Len(past.printed) - Len(world'.pipe) /\ Len(world'.pipe) = Len(world.pipe) - 1
    BY <1>3, <1>4 DEF ChildTaken
  <2> HIDE DEF ChildTaken
  <2> QED
    BY <1>1, <1>3, <1>5, <2>1, <2>2
<1>7. past.printed[ChildTaken + 1] = Head(world.pipe)
  BY <1>1, <1>3, <1>5
<1>8. ASSUME NEW i \in 1..Len(world'.pipe) PROVE past.printed[ChildTaken' + i] = world'.pipe[i]
  <2>1. i + 1 \in 1..Len(world.pipe) /\ i \in 1..Len(world.pipe) - 1
    BY <1>1, <1>3, <1>4
  <2>2. past.printed[ChildTaken + (i + 1)] = world.pipe[i + 1]
    BY <1>5, <2>1
  <2>3. ChildTaken + (i + 1) = ChildTaken' + i
    BY <1>6, <2>1
  <2> QED
    BY <1>3, <1>4, <2>1, <2>2, <2>3
<1>9. ChildOutput'
  BY <1>1, <1>3, <1>4, <1>5, <1>8 DEF ChildOutput
<1> QED
  BY <1>3, <1>4, <1>6, <1>7, <1>9

\* A step of the caller that answers nothing.
LEMMA ChildMoves ==
  ASSUME ChildInv, NEW c \in Invocation, c = Child!Caller, pc[c] \in Child!Steps,
         ChildTyped', verdict' = verdict, \A d \in Invocation \ {c} : pc'[d] = pc[d],
         pc'[c] \in Child!Steps,
         ChildOutput', ChildShown(c)', ChildSeen(c)', ChildEnded(c)'
  PROVE ChildInv'
<1>1. ChildAlone /\ pc[c] # "answered"
  BY DEF ChildInv, Child!Steps
<1>2. \A d \in Invocation : verdict'[d] = "none"
  BY <1>1 DEF ChildAlone
<1>3. ChildAlone' /\ Child!ChildVerdictIsTrue'
  BY <1>1, <1>2 DEF ChildAlone, Child!ChildVerdictIsTrue
<1>4. Child!TypeOK'
  BY DEF Child!TypeOK, ChildTyped, ChildRun, ChildWorld, ChildPast
<1> QED
  BY <1>3, <1>4 DEF ChildInv

\* What the caller's invariant says, in the terms of the lemmas.
LEMMA ChildFacts ==
  ASSUME ChildInv, NEW c \in Invocation, c = Child!Caller
  PROVE /\ ChildTyped /\ ChildAlone /\ ChildOutput
        /\ ChildShown(c) /\ ChildSeen(c) /\ ChildEnded(c)
BY ChildTypes DEF ChildInv

\* The child prints.
LEMMA ChildPrints ==
  ASSUME ChildInv, NEW c \in Invocation, c = Child!Caller, Child!Prints(c)
  PROVE ChildInv'
<1>1. /\ ChildTyped /\ ChildOutput /\ ChildShown(c) /\ ChildSeen(c) /\ ChildEnded(c)
      /\ world \in ChildWorld /\ past \in ChildPast
  BY ChildFacts DEF ChildTyped
<1>2. /\ pc[c] \in Child!Steps /\ world.proc = "running"
      /\ others < MaxChunks /\ others' = others + 1 /\ UNCHANGED <<pc, run, verdict>>
  BY DEF Child!Prints, Child!Lives, Child!OnlyChild
<1>3. PICK k \in Child!Chunk :
        /\ k = "refusal" => run[c].kind \notin Child!Login /\ ~world.applied
        /\ run[c].kind \notin Child!Login => k \in {"text", "flood", "refusal"}
        /\ world' = [world EXCEPT !.pipe = Append(world.pipe, k)]
        /\ past' = [past EXCEPT !.printed = Append(past.printed, k)]
  BY DEF Child!Prints, Child!Chunk
<1>4. /\ world.pipe \in Seq(Child!Chunk) /\ past.printed \in Seq(Child!Chunk)
      /\ past.shown \in Seq(Child!Chunk)
      /\ Len(world.pipe) \in Nat /\ Len(past.printed) \in Nat /\ Len(past.shown) \in Nat
      /\ run[c].kind \in Child!Kind /\ run[c].err \in BOOLEAN
  BY <1>1, ChildFields
<1>5. /\ Append(world.pipe, k) \in Seq(Child!Chunk) /\ Append(past.printed, k) \in Seq(Child!Chunk)
      /\ Len(Append(world.pipe, k)) = Len(world.pipe) + 1
      /\ Len(Append(past.printed, k)) = Len(past.printed) + 1
      /\ \A i \in 1..Len(world.pipe) : Append(world.pipe, k)[i] = world.pipe[i]
      /\ \A i \in 1..Len(past.printed) : Append(past.printed, k)[i] = past.printed[i]
      /\ Append(world.pipe, k)[Len(world.pipe) + 1] = k
      /\ Append(past.printed, k)[Len(past.printed) + 1] = k
  BY <1>4, Longer
<1>6. /\ world' \in ChildWorld /\ world'.proc = world.proc /\ world'.applied = world.applied
      /\ world'.pipe = Append(world.pipe, k)
      /\ past' \in ChildPast /\ past'.shown = past.shown /\ past'.late = past.late
      /\ past'.printed = Append(past.printed, k)
  BY <1>1, <1>3, <1>5 DEF ChildWorld, ChildPast
<1>7. ChildTyped'
  <2>1. others' \in 0..MaxChunks
    <3>1. MaxChunks \in Nat
      BY LocalAssumption
    <3>2. others \in 0..MaxChunks
      BY <1>1 DEF ChildTyped
    <3> QED
      BY <1>2, <3>1, <3>2
  <2> QED
    BY <1>1, <1>2, <1>6, <2>1 DEF ChildTyped
<1> DEFINE N == Len(past.printed)
           M == Len(world.pipe)
<1>8. /\ Len(past'.printed) = N + 1 /\ Len(world'.pipe) = M + 1
      /\ \A i \in 1..N : past'.printed[i] = past.printed[i]
      /\ \A i \in 1..M : world'.pipe[i] = world.pipe[i]
      /\ past'.printed[N + 1] = k /\ world'.pipe[M + 1] = k
      /\ N \in Nat /\ M \in Nat
  BY <1>4, <1>5, <1>6
<1>9. /\ ChildTaken = N - M /\ M <= N /\ ChildTaken \in 0..N
      /\ \A i \in 1..M : past.printed[ChildTaken + i] = world.pipe[i]
  <2>1. M <= N /\ \A i \in 1..M : past.printed[ChildTaken + i] = world.pipe[i]
    BY <1>1 DEF ChildOutput
  <2>2. ChildTaken = N - M
    BY DEF ChildTaken
  <2> HIDE DEF N, M
  <2>3. N \in Nat /\ M \in Nat
    BY <1>8
  <2>4. ChildTaken \in 0..N
    BY <2>1, <2>2, <2>3
  <2> QED
    BY <2>1, <2>2, <2>4
<1>10. ChildTaken' = ChildTaken
  BY <1>8, <1>9 DEF ChildTaken
<1> HIDE DEF N, M
<1>11. ChildOutput'
  <2>1. Len(world'.pipe) <= Len(past'.printed)
    BY <1>8, <1>9
  <2>2. ASSUME NEW i \in 1..Len(world'.pipe) PROVE past'.printed[ChildTaken + i] = world'.pipe[i]
    <3>1. CASE i = M + 1
      <4>1. ChildTaken + i = N + 1
        BY <1>8, <1>9, <3>1
      <4> QED
        BY <1>8, <3>1, <4>1
    <3>2. CASE i # M + 1
      <4>1. i \in 1..M /\ ChildTaken + i \in 1..N
        BY <1>8, <1>9, <3>2
      <4> QED
        BY <1>8, <1>9, <4>1
    <3> QED
      BY <3>1, <3>2
  <2> QED
    BY <1>10, <2>1, <2>2 DEF ChildOutput
<1>12. \A i \in 1..N + 1 : i \in 1..N \/ i = N + 1
  BY <1>8
<1>13. ChildShown(c)'
  <2>1. Len(past.shown) <= ChildTaken /\ \A i \in 1..Len(past.shown) : i \in 1..N
    BY <1>1, <1>4, <1>8, <1>9 DEF ChildShown
  <2>2. run[c].relay \in Child!Chunk => ChildTaken \in 1..N
    BY <1>1, <1>4, <1>8, <1>9 DEF ChildShown
  <2> QED
    BY <1>1, <1>2, <1>6, <1>8, <1>10, <2>1, <2>2 DEF ChildShown
<1>14. ChildSeen(c)'
  <2>1. \A i \in 1..N + 1 :
          IF run[c].kind \in Child!Login THEN past'.printed[i] # "refusal"
          ELSE past'.printed[i] \in {"text", "flood", "refusal"}
    BY <1>1, <1>3, <1>8, <1>12 DEF ChildSeen, N
  <2>2. /\ (\E i \in 1..N : past.printed[i] = "warning") =>
             \E i \in 1..N + 1 : past'.printed[i] = "warning"
        /\ (\E i \in 1..N : past.printed[i] = "refusal") =>
             \E i \in 1..N + 1 : past'.printed[i] = "refusal"
    <3>1. \A i \in 1..N : i \in 1..N + 1
      BY <1>8
    <3> QED
      BY <1>8, <3>1
  <2>3. \A i \in 1..ChildTaken : past'.printed[i] = past.printed[i]
    BY <1>8, <1>9
  <2> QED
    BY <1>1, <1>2, <1>8, <1>10, <2>1, <2>2, <2>3 DEF ChildSeen, N
<1>15. ChildEnded(c)'
  <2>1. (\E i \in 1..N + 1 : past'.printed[i] = "refusal") => ~world.applied
    BY <1>1, <1>3, <1>8, <1>12 DEF ChildEnded, N
  <2> QED
    BY <1>1, <1>2, <1>6, <1>8, <2>1 DEF ChildEnded
<1> QED
  BY <1>2, <1>7, <1>11, <1>13, <1>14, <1>15, ChildMoves

\* Steps that take, show and record none of the output.
LEMMA ChildSame ==
  ASSUME ChildInv, NEW c \in Invocation, c = Child!Caller, pc[c] \in Child!Steps,
         ChildTyped', verdict' = verdict, \A d \in Invocation \ {c} : pc'[d] = pc[d],
         pc'[c] \in Child!Steps,
         past'.printed = past.printed, past'.shown = past.shown, world'.pipe = world.pipe,
         run'[c].kind = run[c].kind, run'[c].relay = run[c].relay,
         run'[c].failed = run[c].failed, run'[c].warning = run[c].warning,
         run'[c].err = run[c].err, run'[c].refusal = run[c].refusal,
         ChildEnded(c)'
  PROVE ChildInv'
<1>1. ChildOutput /\ ChildShown(c) /\ ChildSeen(c)
  BY ChildFacts
<1>2. ChildTaken' = ChildTaken
  BY DEF ChildTaken
<1>3. ChildOutput'
  BY <1>1, <1>2 DEF ChildOutput
<1>4. ChildShown(c)'
  BY <1>1, <1>2 DEF ChildShown
<1>5. ChildSeen(c)'
  BY <1>1, <1>2 DEF ChildSeen
<1> QED
  BY <1>3, <1>4, <1>5, ChildMoves

\* The child changes the provider, or ends, or is killed.
LEMMA ChildLives ==
  ASSUME ChildInv, NEW c \in Invocation, c = Child!Caller,
         \/ Child!Applies(c) \/ Child!Exits(c) \/ Child!HelperEnds(c) \/ Child!Kills(c)
  PROVE ChildInv'
<1>1. /\ ChildTyped /\ ChildSeen(c) /\ ChildEnded(c)
      /\ world \in ChildWorld /\ past \in ChildPast /\ run[c] \in ChildRun
      /\ past.printed \in Seq(Child!Chunk) /\ Len(past.printed) \in Nat
      /\ run[c].kind \in Child!Kind /\ run[c].closed \in BOOLEAN
  BY ChildFacts, ChildFields DEF ChildTyped
<1>2. Child!Printed("refusal") <=> \E i \in 1..Len(past.printed) : past.printed[i] = "refusal"
  BY DEF Child!Printed
<1>3. ASSUME pc[c] \in Child!Steps, UNCHANGED <<pc, run, verdict, others, past>>,
             world' \in ChildWorld, world'.pipe = world.pipe,
             world.proc # "running" => world'.proc = world.proc /\ world'.applied = world.applied,
             Child!Printed("refusal") => world'.proc # "ok" /\ ~world'.applied,
             world'.proc = "ok" /\ run[c].kind = "write" => world'.applied
      PROVE ChildInv'
  <2>1. ChildTyped'
    BY <1>1, <1>3 DEF ChildTyped
  <2>2. ChildEnded(c)'
    BY <1>1, <1>2, <1>3 DEF ChildEnded
  <2> QED
    BY <1>3, <2>1, <2>2, ChildSame
<1>4. CASE Child!Applies(c)
  <2>1. /\ pc[c] \in Child!Steps /\ world.proc = "running" /\ UNCHANGED <<pc, run, verdict, others, past>>
        /\ world' = [world EXCEPT !.applied = TRUE] /\ ~Child!Printed("refusal")
    BY <1>4 DEF Child!Applies, Child!Lives, Child!OnlyChild
  <2>2. world' \in ChildWorld /\ world'.pipe = world.pipe /\ world'.proc = world.proc /\ world'.applied
    BY <1>1, <2>1 DEF ChildWorld
  <2> QED
    BY <1>3, <2>1, <2>2
<1>5. CASE Child!Exits(c)
  <2>1. PICK p \in {"ok", "failed"}, h \in BOOLEAN :
          /\ p = "ok" => ~Child!Printed("refusal")
          /\ p = "ok" /\ run[c].kind = "write" => world.applied
          /\ world' = [world EXCEPT !.proc = p, !.helper = h]
    BY ZenonT(40), <1>5 DEF Child!Exits
  <2>2. pc[c] \in Child!Steps /\ world.proc = "running" /\ UNCHANGED <<pc, run, verdict, others, past>>
    BY <1>5 DEF Child!Exits, Child!Lives, Child!OnlyChild
  <2>3. /\ world' \in ChildWorld /\ world'.pipe = world.pipe /\ world'.proc = p
        /\ world'.applied = world.applied
    BY <1>1, <2>1 DEF ChildWorld
  <2>4. Child!Printed("refusal") => ~world.applied
    BY <1>1, <1>2 DEF ChildEnded
  <2> QED
    BY <1>3, <2>1, <2>2, <2>3, <2>4
<1>6. CASE Child!HelperEnds(c)
  <2>1. /\ pc[c] \in Child!Steps /\ UNCHANGED <<pc, run, verdict, others, past>>
        /\ world' = [world EXCEPT !.helper = FALSE]
    BY <1>6 DEF Child!HelperEnds, Child!OnlyChild
  <2>2. /\ world' \in ChildWorld /\ world'.pipe = world.pipe /\ world'.proc = world.proc
        /\ world'.applied = world.applied
    BY <1>1, <2>1 DEF ChildWorld
  <2>3. /\ Child!Printed("refusal") => world.proc # "ok" /\ ~world.applied
        /\ world.proc = "ok" /\ run[c].kind = "write" => world.applied
    BY <1>1, <1>2 DEF ChildEnded
  <2> QED
    BY <1>3, <2>1, <2>2, <2>3
<1>7. CASE Child!Kills(c)
  <2>1. PICK h \in BOOLEAN : world' = [world EXCEPT !.proc = "killed", !.helper = h]
    BY ZenonT(40), <1>7 DEF Child!Kills
  <2>2. /\ pc[c] \in Child!Steps /\ world.proc = "running" /\ UNCHANGED <<pc, run, verdict, others, past>>
    BY <1>7 DEF Child!Kills, Child!Lives, Child!OnlyRun, Child!Steps
  <2>3. /\ world' \in ChildWorld /\ world'.pipe = world.pipe /\ world'.proc = "killed"
        /\ world'.applied = world.applied
    BY <1>1, <2>1 DEF ChildWorld
  <2>4. Child!Printed("refusal") => ~world.applied
    BY <1>1, <1>2 DEF ChildEnded
  <2> QED
    BY <1>3, <2>2, <2>3, <2>4
<1> QED
  BY <1>4, <1>5, <1>6, <1>7

\* A step of the caller that leaves the output and what was recorded of it.
LEMMA ChildRuns ==
  ASSUME ChildInv, NEW c \in Invocation, c = Child!Caller,
         \/ Child!Cancelled(c) \/ Child!Interrupts(c) \/ Child!InputEnds(c) \/ Child!Waited(c)
         \/ Child!AfterWait(c) \/ Child!TerminalClosed(c)
         \/ Child!InputWaited(c) \/ Child!OutputWaited(c) \/ Child!Closes(c)
         \/ Child!LeavesRelay(c)
  PROVE ChildInv'
<1>1. /\ ChildTyped /\ ChildSeen(c) /\ ChildEnded(c)
      /\ world \in ChildWorld /\ past \in ChildPast /\ run[c] \in ChildRun
      /\ run[c].kind \in Child!Kind /\ run[c].closed \in BOOLEAN /\ run[c].stuck \in BOOLEAN
      /\ run[c].cancel \in BOOLEAN
      /\ pc \in [Invocation -> Child!Steps \cup {"answered"}] /\ run \in [Invocation -> ChildRun]
  BY ChildFacts, ChildFields DEF ChildTyped
<1>2. ASSUME pc[c] \in Child!Steps, NEW r \in ChildRun, run' = [run EXCEPT ![c] = r],
             r.kind = run[c].kind, r.relay = run[c].relay, r.failed = run[c].failed,
             r.warning = run[c].warning, r.err = run[c].err, r.refusal = run[c].refusal,
             NEW s \in Child!Steps, pc' = [pc EXCEPT ![c] = s], UNCHANGED <<verdict, others>>,
             past' \in ChildPast, past'.printed = past.printed, past'.shown = past.shown,
             world' \in ChildWorld, world'.pipe = world.pipe, world'.proc = world.proc,
             world'.applied = world.applied,
             s \in {"afterwait", "input", "output", "closing", "closed", "decide"}
               => world.proc # "running",
             s \in {"afterwait", "input"} => run[c].kind = "console",
             run[c].closed => r.closed,
             r.closed => past'.late /\ (run[c].kind \in Child!Login \/ r.stuck),
             s = "decide" => run[c].relay = "stopped" \/ r.stuck
      PROVE ChildInv'
  <2>1. run' \in [Invocation -> ChildRun] /\ run'[c] = r
    BY <1>1, <1>2
  <2>2. /\ pc' \in [Invocation -> Child!Steps \cup {"answered"}] /\ pc'[c] = s
        /\ \A d \in Invocation \ {c} : pc'[d] = pc[d]
    BY <1>1, <1>2
  <2>3. ChildTyped'
    BY <1>1, <1>2, <2>1, <2>2 DEF ChildTyped
  <2>4. ChildEnded(c)'
    BY <1>1, <1>2, <2>1, <2>2 DEF ChildEnded
  <2> QED
    BY <1>2, <2>1, <2>2, <2>3, <2>4, ChildSame
<1>3. /\ pc[c] \in {"afterwait", "input", "output", "closing", "closed", "decide"}
           => world.proc # "running"
      /\ pc[c] \in {"afterwait", "input"} => run[c].kind = "console"
      /\ run[c].closed => past.late /\ (run[c].kind \in Child!Login \/ run[c].stuck)
      /\ pc[c] = "decide" => run[c].relay = "stopped" \/ run[c].stuck
  BY <1>1 DEF ChildEnded
<1>4. pc' = pc => pc' = [pc EXCEPT ![c] = pc[c]]
  BY <1>1
<1>5. run' = run => run' = [run EXCEPT ![c] = run[c]]
  BY <1>1
<1>a. ASSUME NEW q, NEW x \in BOOLEAN, NEW y \in BOOLEAN, q = [run[c] EXCEPT !.ctx = x]
      PROVE q \in ChildRun /\ q.kind = run[c].kind /\ q.relay = run[c].relay
        /\ q.failed = run[c].failed /\ q.warning = run[c].warning /\ q.err = run[c].err
        /\ q.refusal = run[c].refusal
        /\ q.closed = run[c].closed /\ q.stuck = run[c].stuck
  BY <1>1, <1>a DEF ChildRun
<1>b. ASSUME NEW q, NEW x \in BOOLEAN, NEW y \in BOOLEAN,
             q = [run[c] EXCEPT !.input = "stopped", !.interrupt = x, !.cancel = y]
      PROVE q \in ChildRun /\ q.kind = run[c].kind /\ q.relay = run[c].relay
        /\ q.failed = run[c].failed /\ q.warning = run[c].warning /\ q.err = run[c].err
        /\ q.refusal = run[c].refusal
        /\ q.closed = run[c].closed /\ q.stuck = run[c].stuck
  BY ZenonT(40), <1>1, <1>b DEF ChildRun
<1>d. ASSUME NEW q, NEW x \in BOOLEAN, NEW y \in BOOLEAN,
             q = [run[c] EXCEPT !.input = "stopped", !.inputErr = x, !.cancel = y]
      PROVE q \in ChildRun /\ q.kind = run[c].kind /\ q.relay = run[c].relay
        /\ q.failed = run[c].failed /\ q.warning = run[c].warning /\ q.err = run[c].err
        /\ q.refusal = run[c].refusal
        /\ q.closed = run[c].closed /\ q.stuck = run[c].stuck
  BY ZenonT(40), <1>1, <1>d DEF ChildRun
<1>e. ASSUME NEW q, NEW x \in BOOLEAN, NEW y \in BOOLEAN, q = [run[c] EXCEPT !.stuck = x]
      PROVE q \in ChildRun /\ q.kind = run[c].kind /\ q.relay = run[c].relay
        /\ q.failed = run[c].failed /\ q.warning = run[c].warning /\ q.err = run[c].err
        /\ q.refusal = run[c].refusal
        /\ q.closed = run[c].closed /\ q.stuck = x
  BY <1>1, <1>e DEF ChildRun
<1>f. ASSUME NEW q, NEW x \in BOOLEAN, NEW y \in BOOLEAN, q = [run[c] EXCEPT !.closed = y, !.stuck = x]
      PROVE q \in ChildRun /\ q.kind = run[c].kind /\ q.relay = run[c].relay
        /\ q.failed = run[c].failed /\ q.warning = run[c].warning /\ q.err = run[c].err
        /\ q.refusal = run[c].refusal
        /\ q.closed = y /\ q.stuck = x
  BY ZenonT(40), <1>1, <1>f DEF ChildRun
<1>7. CASE Child!Cancelled(c) \/ Child!Interrupts(c) \/ Child!InputEnds(c)
  <2>1. pc[c] \in Child!Steps /\ UNCHANGED <<pc, verdict, others, world, past>>
    BY <1>7 DEF Child!Cancelled, Child!Interrupts, Child!InputEnds, Child!OnlyRun
  <2>2. ASSUME NEW r, run' = [run EXCEPT ![c] = r], r \in ChildRun,
               r.kind = run[c].kind, r.relay = run[c].relay,
               r.failed = run[c].failed, r.warning = run[c].warning, r.err = run[c].err,
               r.refusal = run[c].refusal, r.closed = run[c].closed, r.stuck = run[c].stuck
        PROVE ChildInv'
    BY ZenonT(40), <1>1, <1>2, <1>3, <1>4, <2>1, <2>2
  <2>3. CASE Child!Cancelled(c)
    <3>1. PICK q : q = [run[c] EXCEPT !.ctx = FALSE]
      OBVIOUS
    <3>2. run' = [run EXCEPT ![c] = q]
      BY <2>3, <3>1 DEF Child!Cancelled
    <3> QED
      BY <1>a, <2>2, <3>1, <3>2
  <2>4. CASE Child!Interrupts(c)
    <3>1. PICK q : q = [run[c] EXCEPT !.input = "stopped", !.interrupt = TRUE, !.cancel = TRUE]
      OBVIOUS
    <3>2. run' = [run EXCEPT ![c] = q]
      BY <1>1, <2>4, <3>1 DEF Child!Interrupts
    <3> QED
      BY <1>b, <2>2, <3>1, <3>2
  <2>5. CASE Child!InputEnds(c)
    <3>1. PICK x \in BOOLEAN : x = (pc[c] = "waiting")
      OBVIOUS
    <3>2. PICK y \in BOOLEAN : y = (run[c].cancel \/ pc[c] = "waiting")
      OBVIOUS
    <3>3. PICK q : q = [run[c] EXCEPT !.input = "stopped", !.inputErr = x, !.cancel = y]
      OBVIOUS
    <3>4. run' = [run EXCEPT ![c] = q]
      BY <1>1, <2>5, <3>1, <3>2, <3>3 DEF Child!InputEnds
    <3> QED
      BY ZenonT(40), <1>d, <2>2, <3>3, <3>4
  <2> QED
    BY <1>7, <2>3, <2>4, <2>5
<1>8. CASE Child!Waited(c)
  <2>1. /\ pc[c] = "waiting" /\ world.proc # "running"
        /\ UNCHANGED <<world, run, past, verdict, others>>
        /\ pc' = [pc EXCEPT ![c] = IF run[c].kind = "console" THEN "afterwait" ELSE "output"]
    BY <1>8 DEF Child!Waited, Child!Goto, Child!OnlyMain
  <2>2. /\ (IF run[c].kind = "console" THEN "afterwait" ELSE "output") \in Child!Steps
        /\ pc[c] \in Child!Steps
    BY <2>1 DEF Child!Steps
  <2> QED
    BY <1>1, <1>2, <1>3, <1>5, <2>1, <2>2
<1>9. CASE Child!AfterWait(c)
  <2>1. /\ pc[c] = "afterwait" /\ UNCHANGED <<run, past, verdict, others>>
        /\ pc' = [pc EXCEPT ![c] = "input"]
        /\ world' = [world EXCEPT !.helper = FALSE]
    BY <1>9 DEF Child!AfterWait, Child!Goto, Child!OnlyMain
  <2>2. /\ world' \in ChildWorld /\ world'.pipe = world.pipe /\ world'.proc = world.proc
        /\ world'.applied = world.applied
    BY <1>1, <2>1 DEF ChildWorld
  <2>3. "input" \in Child!Steps /\ pc[c] \in Child!Steps
    BY <2>1 DEF Child!Steps
  <2>4. world.proc # "running" /\ run[c].kind = "console"
    BY <1>3, <2>1
  <2> QED
    BY <1>1, <1>2, <1>3, <1>5, <2>1, <2>2, <2>3, <2>4
<1>10. CASE Child!InputWaited(c)
  <2>1. /\ pc[c] = "input" /\ UNCHANGED <<world, past, verdict, others>>
        /\ pc' = [pc EXCEPT ![c] = "output"]
        /\ run' = [run EXCEPT ![c].stuck = (run[c].input = "open")]
    BY <1>10 DEF Child!InputWaited, Child!Goto, Child!OnlyMain
  <2>2. PICK x \in BOOLEAN : x = (run[c].input = "open")
    OBVIOUS
  <2>5. PICK q : q = [run[c] EXCEPT !.stuck = x]
    OBVIOUS
  <2>3. run' = [run EXCEPT ![c] = q]
    BY <1>1, <2>1, <2>2, <2>5
  <2>4. "output" \in Child!Steps /\ pc[c] \in Child!Steps /\ run[c].kind \in Child!Login
    BY <1>3, <2>1 DEF Child!Steps, Child!Login
  <2>6. /\ q \in ChildRun /\ q.kind = run[c].kind /\ q.relay = run[c].relay
        /\ q.failed = run[c].failed /\ q.warning = run[c].warning /\ q.err = run[c].err
        /\ q.refusal = run[c].refusal /\ q.closed = run[c].closed /\ q.stuck = x
    BY <1>e, <2>5
  <2>7. /\ world.proc # "running" /\ world' \in ChildWorld /\ past' \in ChildPast
        /\ run[c].closed => past'.late
    BY <1>1, <1>3, <2>1
  <2> QED
    BY <1>2, <2>1, <2>3, <2>4, <2>6, <2>7
<1>11. CASE Child!OutputWaited(c)
  <2>1. /\ pc[c] \in {"output", "closed"} /\ UNCHANGED <<world, run, past, verdict, others>>
        /\ pc' = [pc EXCEPT ![c] = "decide"] /\ run[c].relay = "stopped"
    BY <1>11 DEF Child!OutputWaited, Child!Goto, Child!OnlyMain
  <2>2. "decide" \in Child!Steps /\ pc[c] \in Child!Steps
    BY <2>1 DEF Child!Steps
  <2> QED
    BY <1>1, <1>2, <1>3, <1>5, <2>1, <2>2
<1>12. CASE Child!Closes(c)
  <2>1. /\ pc[c] = "output" /\ UNCHANGED <<world, verdict, others>>
        /\ pc' = [pc EXCEPT ![c] = IF run[c].kind = "console" THEN "closing" ELSE "closed"]
        /\ past' = [past EXCEPT !.late = TRUE]
        /\ run' = [run EXCEPT ![c].closed = TRUE, ![c].stuck = run[c].stuck \/ run[c].kind \notin Child!Login]
    BY <1>1, <1>12 DEF Child!Closes, Child!OutputIsLate, Child!Goto, Child!OnlyMain
  <2>2. PICK x \in BOOLEAN : x = (run[c].stuck \/ run[c].kind \notin Child!Login)
    OBVIOUS
  <2>7. PICK q : q = [run[c] EXCEPT !.closed = TRUE, !.stuck = x]
    OBVIOUS
  <2>3. run' = [run EXCEPT ![c] = q]
    BY <1>1, <2>1, <2>2, <2>7
  <2>4. /\ past' \in ChildPast /\ past'.printed = past.printed /\ past'.shown = past.shown
        /\ past'.late
    BY <1>1, <2>1 DEF ChildPast
  <2>5. /\ (IF run[c].kind = "console" THEN "closing" ELSE "closed") \in Child!Steps
        /\ pc[c] \in Child!Steps
    BY <2>1 DEF Child!Steps
  <2>6. run[c].kind \in Child!Login \/ x
    BY <2>2
  <2>8. /\ q \in ChildRun /\ q.kind = run[c].kind /\ q.relay = run[c].relay
        /\ q.failed = run[c].failed /\ q.warning = run[c].warning /\ q.err = run[c].err
        /\ q.refusal = run[c].refusal /\ q.closed = TRUE /\ q.stuck = x
    BY ZenonT(40), <1>f, <2>7
  <2>9. world.proc # "running" /\ world' \in ChildWorld
    BY <1>1, <1>3, <2>1
  <2> QED
    BY <1>2, <2>1, <2>3, <2>4, <2>5, <2>6, <2>8, <2>9
<1>14. CASE Child!TerminalClosed(c)
  <2>1. /\ pc[c] = "closing" /\ UNCHANGED <<world, run, past, verdict, others>>
        /\ pc' = [pc EXCEPT ![c] = "closed"]
    BY <1>14 DEF Child!TerminalClosed, Child!Goto, Child!OnlyMain
  <2>2. "closed" \in Child!Steps /\ pc[c] \in Child!Steps
    BY <2>1 DEF Child!Steps
  <2> QED
    BY <1>1, <1>2, <1>3, <1>5, <2>1, <2>2
<1>13. CASE Child!LeavesRelay(c)
  <2>1. /\ pc[c] = "closed" /\ UNCHANGED <<world, past, verdict, others>>
        /\ pc' = [pc EXCEPT ![c] = "decide"] /\ run[c].kind \in Child!Login
        /\ run' = [run EXCEPT ![c].stuck = TRUE]
    BY <1>13 DEF Child!LeavesRelay, Child!Goto, Child!OnlyMain
  <2>4. PICK q : q = [run[c] EXCEPT !.stuck = TRUE]
    OBVIOUS
  <2>2. run' = [run EXCEPT ![c] = q]
    BY <1>1, <2>1, <2>4
  <2>3. "decide" \in Child!Steps /\ pc[c] \in Child!Steps
    BY <2>1 DEF Child!Steps
  <2>5. /\ q \in ChildRun /\ q.kind = run[c].kind /\ q.relay = run[c].relay
        /\ q.failed = run[c].failed /\ q.warning = run[c].warning /\ q.err = run[c].err
        /\ q.refusal = run[c].refusal /\ q.closed = run[c].closed /\ q.stuck = TRUE
    BY <1>e, <2>4
  <2>6. /\ world.proc # "running" /\ world' \in ChildWorld /\ past' \in ChildPast
        /\ run[c].closed => past'.late
    BY <1>1, <1>3, <2>1
  <2> QED
    BY <1>2, <2>1, <2>2, <2>3, <2>5, <2>6
<1> QED
  BY <1>7, <1>8, <1>9, <1>10, <1>11, <1>12, <1>13, <1>14

\* The relay of the output stops, or fails.
LEMMA ChildStops ==
  ASSUME ChildInv, NEW c \in Invocation, c = Child!Caller,
         Child!EndOfOutput(c) \/ Child!RelayFails(c)
  PROVE ChildInv'
<1>1. /\ ChildTyped /\ ChildOutput /\ ChildShown(c) /\ ChildSeen(c) /\ ChildEnded(c)
      /\ run[c] \in ChildRun
      /\ run[c].kind \in Child!Kind /\ run[c].err \in BOOLEAN /\ run[c].failed \in BOOLEAN
      /\ run[c].relay \in {"read", "stopped"} \cup Child!Chunk
      /\ pc \in [Invocation -> Child!Steps \cup {"answered"}] /\ run \in [Invocation -> ChildRun]
      /\ Len(past.shown) \in Nat
  BY ChildFacts, ChildFields DEF ChildTyped
<1>2. pc[c] \in Child!Steps /\ UNCHANGED <<pc, verdict, others, world, past>>
  BY DEF Child!EndOfOutput, Child!RelayFails, Child!OnlyRun
<1>3. "read" \notin Child!Chunk /\ "stopped" \notin Child!Chunk /\ "warning" \notin {"read", "stopped"}
  BY DEF Child!Chunk
<1>4. ChildTaken' = ChildTaken /\ ChildOutput'
  BY <1>1, <1>2 DEF ChildTaken, ChildOutput
<1>5. CASE Child!EndOfOutput(c)
  <2>1. PICK q : q = [run[c] EXCEPT !.relay = "stopped"]
    OBVIOUS
  <2>2. /\ run' = [run EXCEPT ![c] = q] /\ run[c].relay = "read"
        /\ run[c].closed \/ (world.pipe = <<>> /\ world.proc # "running")
    BY <1>1, <1>5, <2>1 DEF Child!EndOfOutput
  <2>3. /\ q \in ChildRun /\ q.kind = run[c].kind /\ q.relay = "stopped"
        /\ q.failed = run[c].failed /\ q.warning = run[c].warning /\ q.err = run[c].err
        /\ q.refusal = run[c].refusal /\ q.closed = run[c].closed /\ q.stuck = run[c].stuck
    BY <1>1, <2>1 DEF ChildRun
  <2>4. run' \in [Invocation -> ChildRun] /\ run'[c] = q
    BY <1>1, <2>2, <2>3
  <2>5. ChildTyped'
    BY <1>1, <1>2, <2>4 DEF ChildTyped
  <2>6. ChildShown(c)'
    BY <1>1, <1>2, <1>3, <1>4, <2>2, <2>3, <2>4 DEF ChildShown
  <2>7. ChildSeen(c)'
    BY <1>1, <1>2, <1>4, <2>3, <2>4 DEF ChildSeen
  <2>8. ChildEnded(c)'
    BY <1>1, <1>2, <2>2, <2>3, <2>4 DEF ChildEnded
  <2> QED
    BY <1>2, <1>4, <2>5, <2>6, <2>7, <2>8, ChildMoves
<1>6. CASE Child!RelayFails(c)
  <2>1. PICK x \in {"stopped", "read"} : x = IF run[c].relay = "read" THEN "stopped" ELSE "read"
    OBVIOUS
  <2>2. PICK e \in BOOLEAN : e = (run[c].err \/ ~run[c].failed)
    OBVIOUS
  <2>3. PICK q : q = [run[c] EXCEPT !.relay = x, !.err = e, !.failed = TRUE, !.cancel = TRUE]
    OBVIOUS
  <2>4. /\ run' = [run EXCEPT ![c] = q] /\ run[c].relay # "stopped"
        /\ run[c].kind \in Child!Login
    BY <1>1, <1>6, <2>1, <2>2, <2>3 DEF Child!RelayFails
  <2>5. /\ q \in ChildRun /\ q.kind = run[c].kind /\ q.relay = x
        /\ q.failed = TRUE /\ q.warning = run[c].warning /\ q.err = e
        /\ q.refusal = run[c].refusal /\ q.closed = run[c].closed /\ q.stuck = run[c].stuck
    BY <1>1, <2>3 DEF ChildRun
  <2>6. run' \in [Invocation -> ChildRun] /\ run'[c] = q
    BY <1>1, <2>4, <2>5
  <2>7. ChildTyped'
    BY <1>1, <1>2, <2>6 DEF ChildTyped
  <2>8. ChildShown(c)'
    <3>1. Len(past.shown) <= ChildTaken /\ \A i \in 1..Len(past.shown) :
            past.shown[i] = past.printed[i] /\ past.shown[i] # "malformed"
            /\ (i < Len(past.shown) => past.shown[i] = "text")
      BY <1>1 DEF ChildShown
    <3> QED
      BY <1>2, <1>3, <1>4, <2>1, <2>5, <2>6, <3>1 DEF ChildShown
  <2>9. e \/ run[c].warning
    BY <1>1, <2>2 DEF ChildSeen
  <2>10. ChildSeen(c)'
    BY <1>1, <1>2, <1>4, <2>1, <2>2, <2>4, <2>5, <2>6, <2>9 DEF ChildSeen
  <2>11. ChildEnded(c)'
    BY <1>1, <1>2, <2>4, <2>5, <2>6, <2>9 DEF ChildEnded
  <2> QED
    BY <1>2, <1>4, <2>7, <2>8, <2>10, <2>11, ChildMoves
<1> QED
  BY <1>5, <1>6

\* A captured piece of output.
LEMMA ChildCaptures ==
  ASSUME ChildInv, NEW c \in Invocation, c = Child!Caller, Child!Captures(c)
  PROVE ChildInv'
<1>1. /\ ChildTyped /\ ChildOutput /\ ChildShown(c) /\ ChildSeen(c) /\ ChildEnded(c)
      /\ run[c] \in ChildRun
      /\ run[c].kind \in Child!Kind /\ run[c].err \in BOOLEAN /\ run[c].cancel \in BOOLEAN
      /\ run[c].refusal \in BOOLEAN /\ run[c].closed \in BOOLEAN
      /\ pc \in [Invocation -> Child!Steps \cup {"answered"}] /\ run \in [Invocation -> ChildRun]
      /\ Len(past.shown) \in Nat /\ Len(past.printed) \in Nat
  BY ChildFacts, ChildFields DEF ChildTyped
<1>2. /\ Child!TakesNext(c) /\ pc[c] \in Child!Steps /\ UNCHANGED <<pc, verdict, others, past>>
      /\ run[c].relay = "read" /\ run[c].kind \notin Child!Login /\ world.pipe # <<>>
  BY DEF Child!Captures, Child!TakesNext, Child!OnlyRun
<1> DEFINE k == Head(world.pipe)
<1>3. /\ k \in Child!Chunk /\ (world \in ChildWorld)' /\ world'.proc = world.proc
      /\ world'.applied = world.applied
      /\ ChildTaken \in Nat /\ ChildTaken' = ChildTaken + 1 /\ ChildTaken + 1 <= Len(past.printed)
      /\ past.printed[ChildTaken + 1] = k
      /\ ChildOutput'
  BY <1>1, <1>2, ChildTakes
<1>4. PICK e \in BOOLEAN : e = (run[c].err \/ k = "flood")
  OBVIOUS
<1>5. PICK a \in BOOLEAN : a = (run[c].cancel \/ k = "flood")
  OBVIOUS
<1>6. PICK f \in BOOLEAN : f = (run[c].refusal \/ k = "refusal")
  OBVIOUS
<1>7. PICK q : q = [run[c] EXCEPT !.err = e, !.cancel = a, !.refusal = f]
  OBVIOUS
<1>8. run' = [run EXCEPT ![c] = q]
  BY <1>1, <1>4, <1>5, <1>6, <1>7 DEF Child!Captures
<1>9. /\ q \in ChildRun /\ q.kind = run[c].kind /\ q.relay = run[c].relay
      /\ q.failed = run[c].failed /\ q.warning = run[c].warning /\ q.err = e
      /\ q.refusal = f /\ q.closed = run[c].closed /\ q.stuck = run[c].stuck
  <2>1. e \in BOOLEAN /\ a \in BOOLEAN /\ f \in BOOLEAN /\ run[c] \in ChildRun
    BY <1>1
  <2> QED
    BY ONLY ZenonT(40), <1>7, <2>1 DEF ChildRun
<1>10. run' \in [Invocation -> ChildRun] /\ run'[c] = q
  BY <1>1, <1>8, <1>9
<1> HIDE DEF k
<1>11. ChildTyped'
  BY <1>1, <1>2, <1>3, <1>10 DEF ChildTyped
<1>12. ChildShown(c)'
  BY <1>1, <1>2, <1>3, <1>9, <1>10 DEF ChildShown
<1>13. ChildSeen(c)'
  <2>1. \A i \in 1..ChildTaken + 1 : i \in 1..ChildTaken \/ i = ChildTaken + 1
    BY <1>3
  <2>2. \A i \in 1..ChildTaken + 1 : past.printed[i] = "flood" => e
    BY <1>1, <1>2, <1>3, <1>4, <2>1 DEF ChildSeen
  <2>3. f => \E i \in 1..Len(past.printed) : past.printed[i] = "refusal"
    <3>1. ChildTaken + 1 \in 1..Len(past.printed)
      BY <1>1, <1>3
    <3> QED
      BY <1>1, <1>3, <1>6, <3>1 DEF ChildSeen
  <2>4. run[c].err => e
    BY <1>4
  <2> QED
    BY <1>1, <1>2, <1>3, <1>9, <1>10, <2>2, <2>3, <2>4 DEF ChildSeen
<1>14. ChildEnded(c)'
  BY <1>1, <1>2, <1>3, <1>9, <1>10 DEF ChildEnded
<1> QED
  BY <1>2, <1>3, <1>11, <1>12, <1>13, <1>14, ChildMoves

\* A piece of output goes into the relay's hands, or is drained.
LEMMA ChildRelays ==
  ASSUME ChildInv, NEW c \in Invocation, c = Child!Caller, Child!Relays(c)
  PROVE ChildInv'
<1>1. /\ ChildTyped /\ ChildOutput /\ ChildShown(c) /\ ChildSeen(c) /\ ChildEnded(c)
      /\ run[c] \in ChildRun
      /\ run[c].kind \in Child!Kind /\ run[c].err \in BOOLEAN /\ run[c].failed \in BOOLEAN
      /\ run[c].warning \in BOOLEAN /\ run[c].closed \in BOOLEAN
      /\ pc \in [Invocation -> Child!Steps \cup {"answered"}] /\ run \in [Invocation -> ChildRun]
      /\ Len(past.shown) \in Nat /\ Len(past.printed) \in Nat
  BY ChildFacts, ChildFields DEF ChildTyped
<1>2. /\ Child!TakesNext(c) /\ pc[c] \in Child!Steps /\ UNCHANGED <<pc, verdict, others, past>>
      /\ run[c].relay = "read" /\ run[c].kind \in Child!Login /\ world.pipe # <<>>
  BY DEF Child!Relays, Child!TakesNext, Child!OnlyRun
<1> DEFINE k == Head(world.pipe)
<1>3. /\ k \in Child!Chunk /\ (world \in ChildWorld)' /\ world'.proc = world.proc
      /\ world'.applied = world.applied
      /\ ChildTaken \in Nat /\ ChildTaken' = ChildTaken + 1 /\ ChildTaken + 1 <= Len(past.printed)
      /\ past.printed[ChildTaken + 1] = k
      /\ ChildOutput'
  BY <1>1, <1>2, ChildTakes
<1>4. PICK w \in BOOLEAN : w = (run[c].warning \/ k = "warning")
  OBVIOUS
<1>5. PICK p : p = [run[c] EXCEPT !.err = TRUE, !.cancel = TRUE, !.failed = TRUE]
  OBVIOUS
<1>6. PICK q : q = [run[c] EXCEPT !.relay = k, !.warning = w]
  OBVIOUS
<1>7. run[c] \in ChildRun /\ w \in BOOLEAN /\ k \in {"read", "stopped"} \cup Child!Chunk
  BY <1>1, <1>3
<1>8. /\ p \in ChildRun /\ p.kind = run[c].kind /\ p.relay = run[c].relay
      /\ p.failed /\ p.warning = run[c].warning /\ p.err
      /\ p.refusal = run[c].refusal /\ p.closed = run[c].closed /\ p.stuck = run[c].stuck
  BY ONLY <1>5, <1>7 DEF ChildRun
<1> HIDE DEF k
<1>9. /\ q \in ChildRun /\ q.kind = run[c].kind /\ q.relay = k
      /\ q.failed = run[c].failed /\ q.warning = w /\ q.err = run[c].err
      /\ q.refusal = run[c].refusal /\ q.closed = run[c].closed /\ q.stuck = run[c].stuck
  BY ONLY <1>6, <1>7 DEF ChildRun
<1>10. ASSUME NEW r \in ChildRun, run' = [run EXCEPT ![c] = r]
       PROVE run'[c] = r /\ ChildTyped'
  <2>1. run' \in [Invocation -> ChildRun] /\ run'[c] = r
    BY <1>1, <1>10
  <2> QED
    BY <1>1, <1>2, <1>3, <2>1 DEF ChildTyped
<1>11. \/ run[c].failed /\ run' = [run EXCEPT ![c] = run[c]]
       \/ ~run[c].failed /\ k = "malformed" /\ run' = [run EXCEPT ![c] = p]
       \/ ~run[c].failed /\ k # "malformed" /\ run' = [run EXCEPT ![c] = q]
  <2>1. run' = [run EXCEPT ![c] =
          IF run[c].failed THEN run[c]
          ELSE IF k = "malformed"
               THEN [run[c] EXCEPT !.err = TRUE, !.cancel = TRUE, !.failed = Child!StopsRelaying(run[c], k)]
          ELSE [run[c] EXCEPT !.relay = k, !.warning = run[c].warning \/ k = "warning"]]
    BY <1>1 DEF Child!Relays, k
  <2>2. k = "malformed" => Child!StopsRelaying(run[c], k) = TRUE
    BY DEF Child!StopsRelaying
  <2>3. CASE run[c].failed
    BY <2>1, <2>3
  <2>4. CASE ~run[c].failed /\ k = "malformed"
    BY <1>5, <2>1, <2>2, <2>4
  <2>5. CASE ~run[c].failed /\ k # "malformed"
    BY <1>4, <1>6, <2>1, <2>5
  <2> QED
    BY <2>3, <2>4, <2>5
<1>12. "read" \notin Child!Chunk /\ ChildTaken + 1 \in 1..Len(past.printed)
  BY <1>1, <1>3 DEF Child!Chunk
<1>13. /\ Len(past.shown) <= ChildTaken'
       /\ \A i \in 1..Len(past.shown) :
            /\ past.shown[i] = past.printed[i] /\ past.shown[i] # "malformed"
            /\ i < Len(past.shown) \/ ~run[c].failed => past.shown[i] = "text"
  BY <1>1, <1>3 DEF ChildShown
<1>14. CASE run[c].failed /\ run' = [run EXCEPT ![c] = run[c]]
  <2>1. run'[c] = run[c] /\ ChildTyped'
    BY <1>1, <1>10, <1>14
  <2>2. ChildShown(c)'
    BY <1>2, <1>12, <1>13, <1>14, <2>1 DEF ChildShown
  <2>3. ChildSeen(c)'
    BY <1>1, <1>2, <2>1 DEF ChildSeen
  <2>4. ChildEnded(c)'
    BY <1>1, <1>2, <1>3, <2>1 DEF ChildEnded
  <2> QED
    BY <1>2, <1>3, <2>1, <2>2, <2>3, <2>4, ChildMoves
<1>15. CASE ~run[c].failed /\ k = "malformed" /\ run' = [run EXCEPT ![c] = p]
  <2>1. run'[c] = p /\ ChildTyped'
    BY <1>8, <1>10, <1>15
  <2>2. ChildShown(c)'
    BY <1>2, <1>8, <1>12, <1>13, <2>1 DEF ChildShown
  <2>3. ChildSeen(c)'
    BY <1>1, <1>2, <1>8, <2>1 DEF ChildSeen
  <2>4. ChildEnded(c)'
    BY <1>1, <1>2, <1>3, <1>8, <2>1 DEF ChildEnded
  <2> QED
    BY <1>2, <1>3, <2>1, <2>2, <2>3, <2>4, ChildMoves
<1>16. CASE ~run[c].failed /\ k # "malformed" /\ run' = [run EXCEPT ![c] = q]
  <2>1. run'[c] = q /\ ChildTyped'
    BY <1>9, <1>10, <1>16
  <2>2. ChildTaken = Len(past.shown)
    BY <1>1, <1>2, <1>12, <1>16 DEF ChildShown
  <2>3. ChildShown(c)'
    BY <1>1, <1>2, <1>3, <1>9, <1>12, <1>13, <1>16, <2>1, <2>2 DEF ChildShown
  <2>4. w => \E i \in 1..Len(past.printed) : past.printed[i] = "warning"
    BY <1>1, <1>3, <1>4, <1>12 DEF ChildSeen
  <2>5. run[c].warning => w
    BY <1>4
  <2>6. k = "warning" => w
    BY <1>4
  <2>7. ChildSeen(c)'
    BY <1>1, <1>2, <1>9, <2>1, <2>4, <2>5, <2>6 DEF ChildSeen
  <2>8. k # "stopped"
    BY <1>3 DEF Child!Chunk
  <2>9. ChildEnded(c)'
    BY <1>1, <1>2, <1>3, <1>9, <2>1, <2>8 DEF ChildEnded
  <2> QED
    BY <1>2, <1>3, <2>1, <2>3, <2>7, <2>9, ChildMoves
<1> QED
  BY <1>11, <1>14, <1>15, <1>16

\* The terminal takes the piece.
LEMMA ChildShows ==
  ASSUME ChildInv, NEW c \in Invocation, c = Child!Caller, Child!Shows(c)
  PROVE ChildInv'
<1>1. /\ ChildTyped /\ ChildOutput /\ ChildShown(c) /\ ChildSeen(c) /\ ChildEnded(c)
      /\ run[c] \in ChildRun /\ past \in ChildPast
      /\ run[c].kind \in Child!Kind /\ run[c].err \in BOOLEAN /\ run[c].failed \in BOOLEAN
      /\ run[c].warning \in BOOLEAN /\ run[c].cancel \in BOOLEAN
      /\ pc \in [Invocation -> Child!Steps \cup {"answered"}] /\ run \in [Invocation -> ChildRun]
      /\ past.shown \in Seq(Child!Chunk) /\ Len(past.shown) \in Nat /\ Len(past.printed) \in Nat
      /\ Len(world.pipe) \in Nat
  BY ChildFacts, ChildFields DEF ChildTyped
<1> DEFINE k == run[c].relay
           s == Append(past.shown, k)
           f == Child!StopsRelaying(run[c], k)
<1>2. /\ pc[c] \in Child!Steps /\ k \in Child!Chunk /\ UNCHANGED <<pc, verdict, others, world>>
  BY DEF Child!Shows, Child!OnlyRun
<1>3. PICK e \in BOOLEAN : e = (run[c].err \/ k = "flood")
  OBVIOUS
<1>4. PICK a \in BOOLEAN : a = (run[c].cancel \/ k \in {"warning", "flood"})
  OBVIOUS
<1>f. PICK g \in BOOLEAN : g = f
  BY DEF Child!StopsRelaying
<1>5. PICK q : q = [run[c] EXCEPT !.relay = "read", !.failed = g, !.err = e, !.cancel = a]
  OBVIOUS
<1>6. run[c] \in ChildRun /\ e \in BOOLEAN /\ a \in BOOLEAN /\ g \in BOOLEAN
  BY <1>1
<1>7. /\ q \in ChildRun /\ q.kind = run[c].kind /\ q.relay = "read"
      /\ q.failed = g /\ q.warning = run[c].warning /\ q.err = e
      /\ q.refusal = run[c].refusal /\ q.closed = run[c].closed /\ q.stuck = run[c].stuck
  BY ONLY ZenonT(40), <1>5, <1>6 DEF ChildRun
<1>8. run' = [run EXCEPT ![c] = q]
  BY <1>1, <1>3, <1>4, <1>f, <1>5 DEF Child!Shows
<1>9. /\ s \in Seq(Child!Chunk) /\ Len(s) = Len(past.shown) + 1
      /\ \A i \in 1..Len(past.shown) : s[i] = past.shown[i]
      /\ s[Len(past.shown) + 1] = k
  BY <1>1, <1>2, Longer
<1>10. past' = [past EXCEPT !.shown = s]
  BY DEF Child!Shows
<1>11. /\ past' \in ChildPast /\ past'.shown = s /\ past'.printed = past.printed
       /\ past'.late = past.late
  BY <1>1, <1>9, <1>10 DEF ChildPast
<1>12. run' \in [Invocation -> ChildRun] /\ run'[c] = q
  BY <1>1, <1>7, <1>8
<1>13. ChildTyped'
  BY <1>1, <1>2, <1>11, <1>12 DEF ChildTyped
<1>14. /\ ~run[c].failed /\ run[c].kind \in Child!Login /\ k # "malformed"
       /\ ChildTaken = Len(past.shown) + 1 /\ past.printed[ChildTaken] = k
       /\ \A i \in 1..Len(past.shown) :
            past.shown[i] = past.printed[i] /\ past.shown[i] # "malformed" /\ past.shown[i] = "text"
  BY <1>1, <1>2 DEF ChildShown
<1> HIDE DEF k, s, f
<1>15. ChildTaken' = ChildTaken /\ ChildOutput'
  BY <1>1, <1>2, <1>11 DEF ChildTaken, ChildOutput
<1>16. ~g => k = "text"
  <2>1. ChildTaken \in 1..Len(past.printed)
    <3>1. ChildTaken <= Len(past.printed)
      <4>1. Len(past.printed) \in Nat /\ Len(world.pipe) \in Nat
        BY <1>1
      <4>2. \A m, n \in Nat : m - n <= m
        OBVIOUS
      <4> QED
        BY <4>1, <4>2 DEF ChildTaken
    <3> QED
      BY <1>1, <1>14, <3>1
  <2>2. k # "refusal"
    BY <1>1, <1>14, <2>1 DEF ChildSeen
  <2>3. ~g => k \notin {"warning", "malformed", "flood"}
    BY <1>f DEF f, Child!StopsRelaying
  <2> QED
    BY <1>2, <2>2, <2>3 DEF Child!Chunk
<1>17. g => e \/ run[c].warning
  <2>1. g => k \in {"warning", "flood"}
    BY <1>f, <1>14 DEF f, Child!StopsRelaying
  <2>2. k = "warning" => run[c].warning
    BY <1>1 DEF ChildSeen, k
  <2> QED
    BY <1>3, <2>1, <2>2
<1>18. ChildShown(c)'
  <2>1. \A i \in 1..Len(s) :
          /\ s[i] = past.printed[i] /\ s[i] # "malformed"
          /\ i < Len(s) \/ ~g => s[i] = "text"
    <3>1. \A i \in 1..Len(s) : i \in 1..Len(past.shown) \/ i = Len(past.shown) + 1
      BY <1>1, <1>9
    <3>2. ~(Len(past.shown) + 1 < Len(s))
      BY <1>1, <1>9
    <3> QED
      BY <1>9, <1>14, <1>16, <3>1, <3>2
  <2>2. "read" \notin Child!Chunk
    BY DEF Child!Chunk
  <2>3. Len(s) <= ChildTaken /\ ChildTaken = Len(s)
    BY <1>1, <1>9, <1>14
  <2> QED
    BY <1>7, <1>11, <1>12, <1>15, <2>1, <2>2, <2>3 DEF ChildShown
<1>19. ChildSeen(c)'
  <2>1. run[c].err => e
    BY <1>3
  <2> QED
    BY <1>1, <1>7, <1>11, <1>12, <1>14, <1>15, <1>17, <2>1 DEF ChildSeen
<1>20. ChildEnded(c)'
  <2>1. run[c].relay # "stopped"
    BY <1>2 DEF k, Child!Chunk
  <2>2. run[c].relay = "stopped" \/ run[c].stuck \/ pc[c] # "decide"
    BY <1>1 DEF ChildEnded
  <2> QED
    BY <1>1, <1>2, <1>7, <1>11, <1>12, <2>1, <2>2 DEF ChildEnded
<1> QED
  BY <1>2, <1>13, <1>15, <1>18, <1>19, <1>20, ChildMoves

\* The command answers.
LEMMA ChildAnswers ==
  ASSUME ChildInv, NEW c \in Invocation, c = Child!Caller,
         Child!AnswersLogin(c) \/ Child!AnswersCapture(c)
  PROVE ChildInv'
<1>1. /\ ChildTyped /\ ChildAlone /\ ChildOutput
      /\ ChildShown(c) /\ ChildSeen(c) /\ ChildEnded(c)
      /\ pc \in [Invocation -> Child!Steps \cup {"answered"}]
      /\ verdict \in [Invocation -> {"none", "ok", "insecure", "cancelled", "refused", "rejected"}]
      /\ Len(past.printed) \in Nat /\ past.printed \in Seq(Child!Chunk) /\ Len(past.shown) \in Nat
      /\ run[c].kind \in Child!Kind
      /\ run[c].relay \in {"read", "stopped"} \cup Child!Chunk
  BY ChildFacts, ChildFields DEF ChildTyped
<1>2. /\ pc[c] = "decide" /\ UNCHANGED <<world, run, others, past>>
  BY DEF Child!AnswersLogin, Child!AnswersCapture, Child!Answer
<1>3. PICK v \in {"ok", "insecure", "cancelled", "refused", "rejected"} :
        /\ pc' = [pc EXCEPT ![c] = "answered"] /\ verdict' = [verdict EXCEPT ![c] = v]
        /\ v = "ok" => /\ world.proc = "ok" /\ ~run[c].err /\ ~run[c].stuck
                       /\ run[c].kind \in Child!Login => ~run[c].warning
        /\ v = "insecure" => run[c].warning
        /\ v = "rejected" => run[c].refusal
  <2>1. CASE Child!AnswersLogin(c)
    BY <2>1 DEF Child!AnswersLogin, Child!Answer, Child!Goto
  <2>2. CASE Child!AnswersCapture(c)
    BY <2>2 DEF Child!AnswersCapture, Child!Answer, Child!Goto, Child!FramedRefusal
  <2> QED
    BY <2>1, <2>2
<1>4. /\ world.proc # "running"
      /\ run[c].closed => past.late /\ (run[c].kind \in Child!Login \/ run[c].stuck)
      /\ run[c].relay = "stopped" =>
           \/ run[c].closed \/ run[c].err \/ run[c].warning
           \/ world.pipe = <<>> /\ world.proc # "running"
      /\ run[c].relay = "stopped" \/ run[c].stuck
      /\ (\E i \in 1..Len(past.printed) : past.printed[i] = "refusal") =>
           ~world.applied /\ world.proc # "ok"
      /\ world.proc = "ok" /\ run[c].kind = "write" => world.applied
  BY <1>1, <1>2 DEF ChildEnded
<1>5. \A d \in Invocation :
        /\ d = c => verdict'[d] = v /\ pc'[d] = "answered"
        /\ d # c => verdict'[d] = "none" /\ pc'[d] = pc[d]
  BY <1>1, <1>3 DEF ChildAlone
<1>6. ASSUME v = "ok"
      PROVE \/ past.late /\ run[c].kind \in Child!Login
            \/ world.pipe = <<>> /\ \A i \in DOMAIN past.printed : past.printed[i] = "text"
  <2>1. CASE run[c].closed
    BY <1>3, <1>4, <1>6, <2>1
  <2>2. CASE ~run[c].closed
    <3>1. /\ run[c].relay = "stopped" /\ ~run[c].err /\ ~run[c].warning /\ world.pipe = <<>>
      <4>1. ~run[c].err /\ ~run[c].warning
        BY <1>1, <1>3, <1>6 DEF ChildSeen
      <4> QED
        BY <1>3, <1>4, <1>6, <2>2, <4>1
    <3>2. ChildTaken = Len(past.printed)
      <4>1. Len(world.pipe) = 0
        BY <3>1
      <4>2. Len(past.printed) \in Nat
        BY <1>1
      <4> QED
        BY ONLY <4>1, <4>2 DEF ChildTaken
    <3>3. \A i \in 1..Len(past.printed) : past.printed[i] = "text"
      <4>1. CASE run[c].kind \in Child!Login
        <5>1. ~run[c].failed /\ run[c].relay \notin Child!Chunk
          BY <1>1, <3>1 DEF ChildSeen, Child!Chunk
        <5>2. Len(past.shown) = Len(past.printed)
          BY <1>1, <3>2, <4>1, <5>1 DEF ChildShown
        <5> QED
          BY <1>1, <5>1, <5>2 DEF ChildShown
      <4>2. CASE run[c].kind \notin Child!Login
        <5>1. \A i \in 1..Len(past.printed) :
                past.printed[i] \in {"text", "flood", "refusal"} /\ past.printed[i] # "flood"
          BY <1>1, <3>1, <3>2, <4>2 DEF ChildSeen
        <5>2. \A i \in 1..Len(past.printed) : past.printed[i] # "refusal"
          BY <1>3, <1>4, <1>6
        <5> QED
          BY <5>1, <5>2
      <4> QED
        BY <4>1, <4>2
    <3>4. DOMAIN past.printed = 1..Len(past.printed)
      BY <1>1
    <3> QED
      BY <3>1, <3>3, <3>4
  <2> QED
    BY <2>1, <2>2
<1>7. v = "insecure" => Child!Printed("warning")
  BY <1>1, <1>3 DEF ChildSeen, Child!Printed
<1>8. v = "rejected" => ~world.applied /\ world.proc # "running"
  BY <1>1, <1>3, <1>4 DEF ChildSeen
<1>9. Child!ChildVerdictIsTrue'
  <2>1. ASSUME NEW d \in Invocation
        PROVE /\ verdict'[d] = "ok" =>
                   /\ world.proc = "ok" /\ (run[d].kind = "write" => world.applied)
                   /\ \/ past.late /\ run[d].kind \in Child!Login
                      \/ world.pipe = <<>> /\ \A i \in DOMAIN past.printed : past.printed[i] = "text"
              /\ verdict'[d] = "insecure" => Child!Printed("warning")
              /\ verdict'[d] = "rejected" => ~world.applied /\ world.proc # "running"
    <3>1. CASE d = c
      <4>1. verdict'[d] = v
        BY <1>5, <3>1
      <4>2. v = "ok" => world.proc = "ok" /\ (run[c].kind = "write" => world.applied)
        BY <1>3, <1>4
      <4> QED
        BY <1>6, <1>7, <1>8, <3>1, <4>1, <4>2
    <3>2. CASE d # c
      BY <1>5, <3>2
    <3> QED
      BY <3>1, <3>2
  <2> QED
    BY <1>2, <2>1 DEF Child!ChildVerdictIsTrue, Child!Printed
<1>10. ChildAlone'
  BY <1>1, <1>5 DEF ChildAlone
<1>11. ChildTyped'
  BY <1>1, <1>2, <1>3 DEF ChildTyped
<1>12. ChildOutput' /\ ChildShown(c)' /\ ChildSeen(c)' /\ ChildEnded(c)'
  <2>1. ChildTaken' = ChildTaken /\ pc'[c] = "answered"
    BY <1>2, <1>5 DEF ChildTaken
  <2> QED
    BY ZenonT(40), <1>1, <1>2, <2>1 DEF ChildOutput, ChildShown, ChildSeen, ChildEnded
<1>13. Child!TypeOK'
  BY <1>11 DEF Child!TypeOK, ChildTyped, ChildRun, ChildWorld, ChildPast
<1> QED
  BY <1>9, <1>10, <1>12, <1>13 DEF ChildInv

\* ChildInv is an invariant of the child and its parent.
LEMMA ChildInvHolds ==
  /\ Child!Init => ChildInv
  /\ ChildInv /\ Child!Next => ChildInv'
<1>1. ASSUME Child!Init PROVE ChildInv
  <2>1. PICK k \in Child!Kind : run = [c \in Invocation |->
         [kind |-> k, ctx |-> TRUE, cancel |-> FALSE, closed |-> FALSE,
          relay |-> "read", failed |-> FALSE, warning |-> FALSE, err |-> FALSE,
          refusal |-> FALSE, stuck |-> FALSE,
          input |-> IF k = "console" THEN "open" ELSE "stopped",
          inputErr |-> FALSE, interrupt |-> FALSE]]
    BY <1>1 DEF Child!Init
  <2>2. /\ world = [proc |-> "running", helper |-> FALSE, pipe |-> <<>>, applied |-> FALSE]
        /\ pc = [c \in Invocation |-> IF c = Child!Caller THEN "waiting" ELSE "answered"]
        /\ verdict = [c \in Invocation |-> "none"] /\ others = 0
        /\ past = [printed |-> <<>>, shown |-> <<>>, late |-> FALSE]
    BY <1>1 DEF Child!Init
  <2>3. /\ run \in [Invocation -> ChildRun]
        /\ \A c \in Invocation : /\ run[c].relay = "read" /\ ~run[c].failed /\ ~run[c].warning
                                 /\ ~run[c].refusal /\ ~run[c].closed
    BY <2>1 DEF ChildRun
  <2>4. /\ world \in ChildWorld /\ world.pipe = <<>> /\ world.proc = "running"
    BY <2>2 DEF ChildWorld
  <2>5. past \in ChildPast /\ past.printed = <<>> /\ past.shown = <<>>
    BY <2>2 DEF ChildPast
  <2>6. MaxChunks \in Nat /\ Child!Caller \in Invocation
    BY LocalAssumption, ChildCaller
  <2>7. ChildTyped
    BY <2>2, <2>3, <2>4, <2>5, <2>6 DEF ChildTyped, Child!Steps
  <2>8. ChildAlone /\ Child!ChildVerdictIsTrue
    BY <2>2, <2>6 DEF ChildAlone, Child!ChildVerdictIsTrue
  <2>9. ChildOutput /\ ChildTaken = 0 /\ Len(past.printed) = 0 /\ Len(past.shown) = 0
    BY <2>4, <2>5 DEF ChildOutput, ChildTaken
  <2>10. "read" \notin Child!Chunk
    BY DEF Child!Chunk
  <2>11. ChildShown(Child!Caller)
    BY <2>3, <2>6, <2>9, <2>10 DEF ChildShown
  <2>12. ChildSeen(Child!Caller)
    BY <2>3, <2>6, <2>9 DEF ChildSeen
  <2>13. ChildEnded(Child!Caller)
    BY <2>2, <2>3, <2>4, <2>6, <2>9 DEF ChildEnded
  <2> QED
    BY <2>7, <2>8, <2>9, <2>11, <2>12, <2>13, ChildTypes DEF ChildInv
<1>2. ASSUME ChildInv, NEW c \in Invocation,
             Child!Child(c) \/ Child!Goroutines(c) \/ Child!Main(c)
      PROVE ChildInv'
  <2>1. pc[c] \in Child!Steps
    BY ZenonT(40), <1>2 DEF Child!Child, Child!Goroutines, Child!Main, Child!Prints, Child!Applies,
      Child!Exits, Child!HelperEnds, Child!Cancelled, Child!Kills, Child!Captures, Child!Relays,
      Child!TakesNext, Child!Shows, Child!RelayFails, Child!EndOfOutput, Child!Interrupts,
      Child!InputEnds, Child!Waited, Child!AfterWait, Child!InputWaited, Child!OutputWaited,
      Child!Closes, Child!TerminalClosed, Child!OutputIsLate,
      Child!LeavesRelay, Child!AnswersLogin, Child!AnswersCapture, Child!Steps
  <2>2. c = Child!Caller
    BY <1>2, <2>1 DEF ChildInv, ChildAlone, Child!Steps
  <2>3. CASE Child!Child(c)
    BY <1>2, <2>2, <2>3, ChildPrints, ChildLives DEF Child!Child
  <2>4. CASE Child!Goroutines(c)
    BY <1>2, <2>2, <2>4, ChildLives, ChildRuns, ChildCaptures, ChildRelays, ChildShows, ChildStops
    DEF Child!Goroutines
  <2>5. CASE Child!Main(c)
    BY SMTT(30), <1>2, <2>2, <2>5, ChildRuns, ChildAnswers DEF Child!Main
  <2> QED
    BY <1>2, <2>3, <2>4, <2>5
<1> QED
  BY <1>1, <1>2 DEF Child!Next

\* It says what the terminal shows, and that answers are true.
LEMMA ChildInvSays ==
  ChildInv => Child!TypeOK /\ Child!ShowsUpToTheWarning /\ Child!ChildVerdictIsTrue
<1> SUFFICES ASSUME ChildInv PROVE Child!ShowsUpToTheWarning
  BY DEF ChildInv
<1>1. /\ ChildTyped /\ ChildShown(Child!Caller) /\ ChildOutput
      /\ past.shown \in Seq(Child!Chunk) /\ past.printed \in Seq(Child!Chunk)
      /\ Len(past.shown) \in Nat /\ Len(past.printed) \in Nat /\ Len(world.pipe) \in Nat
  BY ChildFacts, ChildFields, ChildCaller
<1>2. Len(past.shown) <= Len(past.printed)
  <2>1. Len(past.shown) <= ChildTaken
    BY <1>1 DEF ChildShown
  <2>2. Len(past.printed) \in Nat /\ Len(world.pipe) \in Nat /\ Len(past.shown) \in Nat
    BY <1>1
  <2>3. \A a, b, k \in Nat : k <= a - b => k <= a
    OBVIOUS
  <2> QED
    BY <2>1, <2>2, <2>3 DEF ChildTaken
<1>3. \A i \in 1..Len(past.shown) :
        /\ past.shown[i] = past.printed[i] /\ past.shown[i] # "malformed"
        /\ i < Len(past.shown) => past.shown[i] = "text"
  BY <1>1 DEF ChildShown
<1>4. DOMAIN past.shown = 1..Len(past.shown)
  BY <1>1
<1> QED
  BY <1>2, <1>3, <1>4 DEF Child!ShowsUpToTheWarning

-----------------------------------------------------------------------------
(***************************************************************************)
(* The native client (NativeTransfer).                                     *)
(* The turn, the budget, and what is kept of a body read in pieces.        *)
(***************************************************************************)

\* The last piece of a body, if there is one.
NativeLast(body) == IF body = <<>> THEN <<>> ELSE <<body[Len(body)]>>

\* A call that has the turn is the only one; it may take no more than what is left, and
\* it keeps of the body what the scanner needs.
NativeCall(c) ==
  /\ pc[c] \in {"sent", "copying"} =>
       /\ world.turn = c
       /\ run[c].bound <= run[c].max /\ run[c].bound <= Native!Remaining(c)
       /\ Len(run[c].body) <= run[c].bound + 1
  /\ pc[c] \in {"queued", "sent", "copying"} => run[c].tail = NativeLast(run[c].body)
  /\ pc[c] \in {"queued", "sent"} => run[c].body = <<>>
  /\ pc[c] # "idle" => verdict[c] = "none"
  /\ ~Native!Holds(run[c].body)
  /\ verdict[c] = "ok" =>
       /\ ~run[c].stream => ~Native!Hides(run[c].body)
       /\ Len(run[c].body) <= run[c].max
       /\ run[c].length \in {Native!Unknown, Len(run[c].body)}

\* Accepted bodies are within what was counted, and within the budget.
NativeCount == \A s \in BOOLEAN : past[s] <= world.used[s] /\ past[s] <= Native!Budget(s)

NativeInv == Native!TypeOK /\ NativeCount /\ \A c \in Invocation : NativeCall(c)

\* Nobody is not one of the callers, and the budgets are numbers.
LEMMA NativeNames ==
  /\ \A c \in Invocation : c # Native!Nobody
  /\ MaxRequests \in Nat /\ MaxCalls \in Nat /\ \A s \in BOOLEAN : Native!Budget(s) \in Nat
BY Names, LocalAssumption DEF Native!Nobody, Native!Budget

\* A body grows by a piece: its last one is the tail that is kept, and the credential
\* is in it only if it was or if the tail and the piece make it up.
LEMMA NativeTails ==
  ASSUME NEW body \in Seq(Native!Piece), NEW p \in Native!Piece
  PROVE LET tail == NativeLast(body)
            seen == Append(tail, p) IN
        /\ Append(body, p) \in Seq(Native!Piece) /\ Len(Append(body, p)) = Len(body) + 1
        /\ Native!KeptTail(seen) \in Seq(Native!Piece)
        /\ Native!KeptTail(seen) = NativeLast(Append(body, p))
        /\ Native!Holds(Append(body, p)) => Native!Holds(body) \/ Native!Holds(seen)
<1> DEFINE tail == NativeLast(body)
           seen == Append(tail, p)
           more == Append(body, p)
<1>1. /\ more \in Seq(Native!Piece) /\ Len(more) = Len(body) + 1
      /\ more[Len(more)] = p /\ \A i \in 1..Len(body) : more[i] = body[i]
      /\ more # <<>> /\ Len(body) \in Nat
  OBVIOUS
<1>2. /\ seen \in Seq(Native!Piece) /\ Len(seen) \in Nat \ {0} /\ seen[Len(seen)] = p
      /\ body # <<>> => Len(seen) = 2 /\ seen[1] = body[Len(body)] /\ seen[2] = p
  <2>1. CASE body = <<>>
    <3>1. tail = <<>>
      BY <2>1 DEF NativeLast
    <3> HIDE DEF tail
    <3> QED
      BY <2>1, <3>1
  <2>2. CASE body # <<>>
    <3>1. body[Len(body)] \in Native!Piece
      BY <2>2
    <3>2. tail \in Seq(Native!Piece) /\ Len(tail) = 1 /\ tail[1] = body[Len(body)]
      BY <2>2, <3>1 DEF NativeLast
    <3>3. \A s \in Seq(Native!Piece) : Len(s) = 1 =>
            /\ Append(s, p) \in Seq(Native!Piece) /\ Len(Append(s, p)) = 2
            /\ Append(s, p)[1] = s[1] /\ Append(s, p)[2] = p
      BY Longer
    <3> HIDE DEF tail
    <3> QED
      BY <3>2, <3>3
  <2> QED
    BY <2>1, <2>2
<1>3. Native!KeptTail(seen) = NativeLast(more)
  <2>1. Native!KeptTail(seen) = <<p>>
    <3> HIDE DEF seen
    <3>1. seen # <<>>
      BY <1>2
    <3> QED
      BY <1>2, <3>1, LastOne DEF Native!KeptTail
  <2> HIDE DEF more
  <2> QED
    BY <1>1, <2>1 DEF NativeLast
<1>4. Native!KeptTail(seen) \in Seq(Native!Piece)
  <2>1. <<more[Len(more)]>> \in Seq(Native!Piece) /\ more # <<>>
    BY <1>1
  <2> QED
    BY <1>3, <2>1 DEF NativeLast
<1>5. ASSUME Native!Holds(more) PROVE Native!Holds(body) \/ Native!Holds(seen)
  <2>1. PICK i \in 1..Len(more) - 1 : SubSeq(more, i, i + 1) = Native!Secret
    BY <1>5 DEF Native!Holds
  <2>2. i \in 1..Len(body) /\ SubSeq(more, i, i + 1) = <<more[i], more[i + 1]>>
    <3>1. i \in 1..Len(body)
      BY <1>1, <2>1
    <3> HIDE DEF more
    <3> QED
      BY <1>1, <2>1, <3>1, Neighbours
  <2>3. CASE i = Len(body)
    <3>1. body # <<>> /\ more[i] = body[Len(body)] /\ more[i + 1] = p
      BY <1>1, <2>2, <2>3
    <3>2. seen \in Seq(Native!Piece) /\ Len(seen) = 2 /\ seen[1] = more[i] /\ seen[2] = more[i + 1]
      BY <1>2, <3>1
    <3> HIDE DEF seen
    <3>3. 1 \in 1..Len(seen) - 1 /\ SubSeq(seen, 1, 1 + 1) = <<more[i], more[i + 1]>>
      <4>1. 1 \in 1..Len(seen) - 1
        BY <3>2
      <4>2. SubSeq(seen, 1, 1 + 1) = <<seen[1], seen[1 + 1]>>
        BY <3>2, <4>1, Neighbours
      <4> QED
        BY <3>2, <4>1, <4>2
    <3> QED
      BY <2>1, <2>2, <3>3 DEF Native!Holds
  <2>4. CASE i < Len(body)
    <3>1. i \in 1..Len(body) - 1
      BY <1>1, <2>2, <2>4
    <3>2. SubSeq(body, i, i + 1) = <<body[i], body[i + 1]>>
      BY <3>1, Neighbours
    <3>3. more[i] = body[i] /\ more[i + 1] = body[i + 1]
      BY <1>1, <2>2, <2>4
    <3> QED
      BY <2>1, <2>2, <3>1, <3>2, <3>3 DEF Native!Holds
  <2> QED
    BY <1>1, <2>2, <2>3, <2>4
<1> QED
  BY <1>1, <1>3, <1>4, <1>5

\* A call's state, and the client's.
NativeRun == [stream : BOOLEAN, max : Nat, bound : Nat, length : Int,
              body : Seq(Native!Piece), tail : Seq(Native!Piece)]
NativeClient == [turn : Invocation \cup {Native!Nobody}, requests : 0..MaxRequests,
                 used : [BOOLEAN -> Int], open : BOOLEAN]
NativeTyped ==
  /\ pc \in [Invocation -> Native!Steps \cup {"idle"}]
  /\ world \in NativeClient
  /\ run \in [Invocation -> NativeRun]
  /\ verdict \in [Invocation -> {"none", "ok", "refused", "cancelled"}]
  /\ others \in 0..MaxCalls
  /\ past \in [BOOLEAN -> Nat]
NativeUsed == \A s \in BOOLEAN : world.used[s] \in 0..Native!Budget(s) + 1

\* The types, and what was used is within the budget.
LEMMA NativeTypes == Native!TypeOK <=> NativeTyped /\ NativeUsed
BY DEF Native!TypeOK, NativeTyped, NativeUsed, NativeRun, NativeClient

\* What the steps of c leave of d, and of the client.
LEMMA NativeFrame ==
  ASSUME NativeTyped, NEW c \in Invocation, Native!Step(c)
  PROVE \A d \in Invocation \ {c} :
          pc'[d] = pc[d] /\ run'[d] = run[d] /\ verdict'[d] = verdict[d]
BY DEF NativeTyped, Native!Step, Native!Calls, Native!Admitted, Native!Refused,
       Native!AnswerRefused, Native!AnswerAccepted, Native!Copies, Native!CopyFails, Native!Ends,
       Native!Cancelled, Native!Goto, Native!Answer, Native!NoBody

\* Giving the turn back, with what was read.
LEMMA NativeGivesBack ==
  ASSUME NativeTyped, NativeUsed, NEW c \in Invocation,
         NEW used, used \in {world.used, Native!Spent(c)}, Native!GiveBack(used),
         Len(run[c].body) <= run[c].bound + 1, run[c].bound <= Native!Remaining(c)
  PROVE /\ (world \in NativeClient)' /\ NativeUsed'
        /\ world'.turn = Native!Nobody /\ world'.used = used
        /\ \A s \in BOOLEAN : world.used[s] <= used[s]
        /\ used = Native!Spent(c) =>
             /\ used[run[c].stream] = world.used[run[c].stream] + Len(run[c].body)
             /\ Len(run[c].body) <= run[c].bound =>
                  used[run[c].stream] <= Native!Budget(run[c].stream)
<1>1. /\ world \in NativeClient /\ run[c] \in NativeRun /\ Len(run[c].body) \in Nat
      /\ run[c].stream \in BOOLEAN /\ world.used \in [BOOLEAN -> Int] /\ run[c].bound \in Nat
  <2>1. world \in NativeClient /\ run[c] \in NativeRun
    BY DEF NativeTyped
  <2>2. /\ run[c].body \in Seq(Native!Piece) /\ run[c].stream \in BOOLEAN
        /\ run[c].bound \in Nat /\ world.used \in [BOOLEAN -> Int]
    BY <2>1 DEF NativeRun, NativeClient
  <2> QED
    BY <2>1, <2>2
<1>2. \A s \in BOOLEAN : world.used[s] \in 0..Native!Budget(s) + 1 /\ Native!Budget(s) \in Nat
  BY NativeNames DEF NativeUsed
<1>3. /\ used \in [BOOLEAN -> Int]
      /\ \A s \in BOOLEAN : used[s] \in 0..Native!Budget(s) + 1 /\ world.used[s] <= used[s]
      /\ used = Native!Spent(c) =>
             /\ used[run[c].stream] = world.used[run[c].stream] + Len(run[c].body)
             /\ Len(run[c].body) <= run[c].bound =>
                  used[run[c].stream] <= Native!Budget(run[c].stream)
  <2>1. CASE used = world.used /\ used # Native!Spent(c)
    BY <1>1, <1>2, <2>1
  <2>2. CASE used = Native!Spent(c)
    <3>1. used = [world.used EXCEPT ![run[c].stream] = world.used[run[c].stream] + Len(run[c].body)]
      BY <2>2 DEF Native!Spent
    <3>2. run[c].bound <= Native!Budget(run[c].stream) - world.used[run[c].stream]
      BY DEF Native!Remaining
    <3>3. world.used[run[c].stream] + Len(run[c].body) \in Int
      BY <1>1
    <3>4. /\ used \in [BOOLEAN -> Int]
          /\ used[run[c].stream] = world.used[run[c].stream] + Len(run[c].body)
          /\ \A s \in BOOLEAN : s # run[c].stream => used[s] = world.used[s]
      BY <1>1, <3>1, <3>3
    <3>5. /\ used[run[c].stream] \in 0..Native!Budget(run[c].stream) + 1
          /\ world.used[run[c].stream] <= used[run[c].stream]
          /\ Len(run[c].body) <= run[c].bound =>
               used[run[c].stream] <= Native!Budget(run[c].stream)
      <4>1. \A u, b, n, k \in Int : u >= 0 /\ u <= b + 1 /\ k <= b - u /\ n >= 0 /\ n <= k + 1 =>
              u + n \in 0..b + 1 /\ u <= u + n /\ (n <= k => u + n <= b)
        OBVIOUS
      <4>2. /\ world.used[run[c].stream] \in 0..Native!Budget(run[c].stream) + 1
            /\ Native!Budget(run[c].stream) \in Nat
        BY <1>1, <1>2
      <4> DEFINE u == world.used[run[c].stream]
                 b == Native!Budget(run[c].stream)
                 n == Len(run[c].body)
                 k == run[c].bound
      <4>3. /\ u \in Int /\ b \in Int /\ n \in Int /\ k \in Int
            /\ u >= 0 /\ u <= b + 1 /\ k <= b - u /\ n >= 0 /\ n <= k + 1
            /\ used[run[c].stream] = u + n
        BY <1>1, <3>2, <3>4, <4>2
      <4> HIDE DEF u, b, n, k
      <4>4. used[run[c].stream] \in 0..b + 1 /\ u <= used[run[c].stream]
            /\ (n <= k => used[run[c].stream] <= b)
        BY <4>1, <4>3
      <4> QED
        BY <4>4 DEF u, b, n, k
    <3>6. \A s \in BOOLEAN : s # run[c].stream =>
            used[s] \in 0..Native!Budget(s) + 1 /\ world.used[s] <= used[s]
      BY <1>1, <1>2, <3>4
    <3> QED
      BY <3>4, <3>5, <3>6
  <2> QED
    BY <2>1, <2>2
<1>4. Native!Nobody \in Invocation \cup {Native!Nobody}
  OBVIOUS
<1>5. world' \in NativeClient /\ world'.used = used /\ world'.turn = Native!Nobody
  BY <1>1, <1>3, <1>4 DEF Native!GiveBack, NativeClient
<1>6. NativeUsed'
  BY <1>3, <1>5 DEF NativeUsed, Native!Budget
<1> QED
  BY <1>3, <1>5, <1>6

\* What the steps of c make of it.
LEMMA NativeOwn ==
  ASSUME NativeInv, NEW c \in Invocation, Native!Step(c)
  PROVE NativeTyped' /\ NativeUsed' /\ NativeCount' /\ NativeCall(c)'
<1>1. /\ NativeTyped /\ NativeUsed /\ NativeCount /\ NativeCall(c)
      /\ run[c] \in NativeRun /\ world \in NativeClient
  BY NativeTypes DEF NativeInv, NativeTyped
<1>2. /\ pc \in [Invocation -> Native!Steps \cup {"idle"}] /\ world \in NativeClient
      /\ run \in [Invocation -> NativeRun]
      /\ verdict \in [Invocation -> {"none", "ok", "refused", "cancelled"}]
      /\ others \in 0..MaxCalls /\ past \in [BOOLEAN -> Nat]
  BY <1>1 DEF NativeTyped
<1>3. /\ run[c].stream \in BOOLEAN /\ run[c].max \in Nat /\ run[c].bound \in Nat
      /\ run[c].length \in Int /\ run[c].body \in Seq(Native!Piece)
      /\ run[c].tail \in Seq(Native!Piece) /\ Len(run[c].body) \in Nat
  <2>1. /\ run[c].stream \in BOOLEAN /\ run[c].max \in Nat /\ run[c].bound \in Nat
        /\ run[c].length \in Int /\ run[c].body \in Seq(Native!Piece)
        /\ run[c].tail \in Seq(Native!Piece)
    BY <1>1 DEF NativeRun
  <2> QED
    BY <2>1
<1>4. \A s \in BOOLEAN : \A m \in Nat :
        /\ Native!Call(s, m) \in NativeRun
        /\ Native!Call(s, m).stream = s /\ Native!Call(s, m).max = m
        /\ Native!Call(s, m).body = <<>> /\ Native!Call(s, m).tail = <<>>
        /\ Native!Call(s, m).bound = 0 /\ Native!Call(s, m).length = Native!Unknown
  BY DEF Native!Call, NativeRun, Native!Unknown
<1>5. NativeLast(<<>>) = <<>> /\ ~Native!Holds(<<>>) /\ Len(<<>>) = 0
  BY DEF NativeLast, Native!Holds
<1>6. CASE Native!Calls(c)
  <2>0. PICK s \in BOOLEAN : \E m \in 1..Native!Budget(s) : run' = [run EXCEPT ![c] = Native!Call(s, m)]
    BY <1>6 DEF Native!Calls
  <2>1. PICK m \in 1..Native!Budget(s) : run' = [run EXCEPT ![c] = Native!Call(s, m)]
    BY <2>0
  <2>2. m \in Nat
    BY NativeNames
  <2>3. /\ pc' = [pc EXCEPT ![c] = "queued"] /\ verdict' = [verdict EXCEPT ![c] = "none"]
        /\ UNCHANGED <<world, past>> /\ others' \in 0..MaxCalls
    BY <1>2, <1>6, NativeNames DEF Native!Calls, Native!Goto
  <2>4. /\ run'[c] = Native!Call(s, m) /\ run' \in [Invocation -> NativeRun]
        /\ pc'[c] = "queued" /\ verdict'[c] = "none"
    BY <1>2, <1>4, <2>1, <2>2, <2>3
  <2>5. NativeTyped' /\ NativeUsed' /\ NativeCount'
    BY <1>1, <1>2, <2>3, <2>4 DEF NativeTyped, NativeUsed, NativeCount, Native!Steps,
       Native!Budget, NativeClient
  <2> QED
    BY <1>4, <1>5, <2>2, <2>4, <2>5 DEF NativeCall
<1>7. CASE Native!Admitted(c)
  <2>1. /\ pc[c] = "queued" /\ pc' = [pc EXCEPT ![c] = "sent"]
        /\ run' = [run EXCEPT ![c].bound = Native!Allowance(c)]
        /\ world' = [world EXCEPT !.turn = c, !.requests = @ + 1]
        /\ UNCHANGED <<verdict, others, past>>
        /\ Native!Remaining(c) > 0 /\ world.requests < MaxRequests
    BY <1>7 DEF Native!Admitted, Native!Goto
  <2>2. /\ Native!Allowance(c) \in Nat /\ Native!Allowance(c) <= run[c].max
        /\ Native!Allowance(c) <= Native!Remaining(c)
    <3>1. Native!Remaining(c) \in Int
      <4>1. world.used \in [BOOLEAN -> Int]
        BY <1>2 DEF NativeClient
      <4> QED
        BY <1>3, <4>1, NativeNames DEF Native!Remaining
    <3> QED
      BY <1>3, <2>1, <3>1 DEF Native!Allowance, Native!Smaller
  <2>3. \A x \in Nat : \A r \in NativeRun :
          /\ [r EXCEPT !.bound = x] \in NativeRun /\ [r EXCEPT !.bound = x].bound = x
          /\ [r EXCEPT !.bound = x].stream = r.stream /\ [r EXCEPT !.bound = x].max = r.max
          /\ [r EXCEPT !.bound = x].body = r.body /\ [r EXCEPT !.bound = x].tail = r.tail
    BY DEF NativeRun
  <2>4. /\ run'[c] = [run[c] EXCEPT !.bound = Native!Allowance(c)]
        /\ \A d \in Invocation : run'[d] = IF d = c THEN [run[c] EXCEPT !.bound = Native!Allowance(c)] ELSE run[d]
        /\ run' = [d \in Invocation |-> run'[d]]
    BY <1>2, <2>1
  <2>5. /\ run' \in [Invocation -> NativeRun]
        /\ run'[c].bound = Native!Allowance(c) /\ run'[c].stream = run[c].stream
        /\ run'[c].max = run[c].max /\ run'[c].body = run[c].body /\ run'[c].tail = run[c].tail
    <3>1. \A d \in Invocation : run'[d] \in NativeRun
      BY <1>2, <2>2, <2>3, <2>4
    <3> QED
      BY <1>1, <2>2, <2>3, <2>4, <3>1
  <2>6. world' \in NativeClient /\ world'.turn = c /\ world'.used = world.used
    <3>1. world.requests + 1 \in 0..MaxRequests /\ c \in Invocation \cup {Native!Nobody}
      <4>1. world.requests \in 0..MaxRequests
        BY <1>2 DEF NativeClient
      <4> QED
        BY <2>1, <4>1, NativeNames
    <3> QED
      BY <1>2, <2>1, <3>1 DEF NativeClient
  <2>7. Native!Remaining(c)' = Native!Remaining(c)
    BY <2>5, <2>6 DEF Native!Remaining, Native!Budget
  <2>8. pc'[c] = "sent" /\ pc' \in [Invocation -> Native!Steps \cup {"idle"}] /\ verdict' = verdict
    BY <1>2, <2>1 DEF Native!Steps
  <2>9. NativeTyped' /\ NativeUsed' /\ NativeCount'
    BY <1>1, <1>2, <2>1, <2>5, <2>6, <2>8 DEF NativeTyped, NativeUsed, NativeCount, Native!Budget,
       NativeClient
  <2>10. NativeCall(c)'
    <3>1. run[c].body = <<>> /\ run[c].tail = <<>> /\ verdict[c] = "none"
      BY <1>1, <1>5, <2>1 DEF NativeCall
    <3>2. Len(run'[c].body) <= run'[c].bound + 1
      BY <1>5, <2>2, <2>5, <3>1
    <3> QED
      BY <1>1, <1>5, <2>2, <2>5, <2>6, <2>7, <2>8, <3>1, <3>2 DEF NativeCall
  <2> QED
    BY <2>9, <2>10
<1>8. CASE pc'[c] = "idle" /\ pc' = [pc EXCEPT ![c] = "idle"] /\ run' = [run EXCEPT ![c] = Native!Call(FALSE, 0)]
           /\ (\E v \in {"refused", "cancelled"} : verdict' = [verdict EXCEPT ![c] = v])
           /\ (world' = world \/ (pc[c] \in {"sent", "copying"} /\ \E used \in {world.used, Native!Spent(c)} : Native!GiveBack(used)))
           /\ UNCHANGED <<others, past>>
  <2>1. /\ run'[c] = Native!Call(FALSE, 0) /\ run' \in [Invocation -> NativeRun]
    BY <1>2, <1>4, <1>8
  <2>2. /\ verdict'[c] # "ok" /\ pc'[c] = "idle"
        /\ verdict' \in [Invocation -> {"none", "ok", "refused", "cancelled"}]
        /\ pc' \in [Invocation -> Native!Steps \cup {"idle"}]
    BY <1>2, <1>8
  <2>3. (world \in NativeClient)' /\ NativeUsed' /\ \A s \in BOOLEAN : world.used[s] <= world'.used[s]
    <3>1. CASE world' = world
      <4>1. \A s \in BOOLEAN : world.used[s] \in Int
        BY <1>2 DEF NativeClient
      <4> QED
        BY <1>1, <3>1, <4>1 DEF NativeUsed, Native!Budget, NativeClient
    <3>2. CASE pc[c] \in {"sent", "copying"} /\ \E used \in {world.used, Native!Spent(c)} : Native!GiveBack(used)
      <4>1. Len(run[c].body) <= run[c].bound + 1 /\ run[c].bound <= Native!Remaining(c)
        BY <1>1, <3>2 DEF NativeCall
      <4> QED
        BY <1>1, <3>2, <4>1, NativeGivesBack
    <3> QED
      BY <1>8, <3>1, <3>2
  <2>4. NativeTyped'
    BY <1>2, <1>8, <2>1, <2>2, <2>3 DEF NativeTyped, NativeClient
  <2>5. NativeCount'
    <3>1. \A s \in BOOLEAN : /\ past[s] \in Nat /\ past[s] <= world.used[s] /\ past[s] <= Native!Budget(s)
                             /\ world.used[s] \in Int /\ world'.used[s] \in Int
      BY <1>1, <1>2, <2>3 DEF NativeCount, NativeClient
    <3>2. \A s \in BOOLEAN : past'[s] <= world'.used[s]
      BY <1>8, <2>3, <3>1
    <3> QED
      BY <1>8, <3>1, <3>2 DEF NativeCount, Native!Budget
  <2>6. NativeCall(c)'
    BY ZenonT(40), <1>4, <1>5, <2>1, <2>2 DEF NativeCall
  <2> QED
    BY <2>3, <2>4, <2>5, <2>6
<1>9. CASE Native!AnswerAccepted(c)
  <2>1. PICK n \in {Native!Unknown} \cup 0..run[c].bound : run' = [run EXCEPT ![c].length = n]
    BY <1>9 DEF Native!AnswerAccepted
  <2>2. /\ pc[c] = "sent" /\ pc' = [pc EXCEPT ![c] = "copying"]
        /\ UNCHANGED <<world, verdict, others, past>>
    BY <1>9 DEF Native!AnswerAccepted, Native!Goto
  <2>3. \A x \in Int : \A r \in NativeRun :
          /\ [r EXCEPT !.length = x] \in NativeRun /\ [r EXCEPT !.length = x].bound = r.bound
          /\ [r EXCEPT !.length = x].stream = r.stream /\ [r EXCEPT !.length = x].max = r.max
          /\ [r EXCEPT !.length = x].body = r.body /\ [r EXCEPT !.length = x].tail = r.tail
    BY DEF NativeRun
  <2>4. /\ run'[c] = [run[c] EXCEPT !.length = n]
        /\ \A d \in Invocation \ {c} : run'[d] = run[d]
        /\ run' = [d \in Invocation |-> run'[d]]
    BY <1>2, <2>1
  <2>5. /\ run' \in [Invocation -> NativeRun]
        /\ run'[c].bound = run[c].bound /\ run'[c].stream = run[c].stream
        /\ run'[c].max = run[c].max /\ run'[c].body = run[c].body /\ run'[c].tail = run[c].tail
    <3>1. n \in Int
      BY <1>3 DEF Native!Unknown
    <3>2. \A d \in Invocation : run'[d] \in NativeRun
      BY <1>2, <2>3, <2>4, <3>1
    <3> QED
      BY <1>1, <2>3, <2>4, <3>1, <3>2
  <2>6. Native!Remaining(c)' = Native!Remaining(c)
    BY <2>2, <2>5 DEF Native!Remaining, Native!Budget
  <2>7. pc'[c] = "copying" /\ pc' \in [Invocation -> Native!Steps \cup {"idle"}] /\ verdict' = verdict
    BY <1>2, <2>2 DEF Native!Steps
  <2>8. NativeTyped' /\ NativeUsed' /\ NativeCount'
    BY <1>1, <1>2, <2>2, <2>5, <2>7 DEF NativeTyped, NativeUsed, NativeCount, Native!Budget,
       NativeClient
  <2>9. NativeCall(c)'
    BY <1>1, <2>2, <2>5, <2>6, <2>7 DEF NativeCall
  <2> QED
    BY <2>8, <2>9
<1>10. CASE Native!Copies(c)
  <2>1. PICK p \in Native!Piece :
          /\ ~Native!Holds(Append(run[c].tail, p))
          /\ run' = [run EXCEPT ![c].body = Append(@, p),
                                ![c].tail = Native!KeptTail(Append(run[c].tail, p))]
    BY <1>10 DEF Native!Copies
  <2>2. /\ pc[c] = "copying" /\ Len(run[c].body) <= run[c].bound
        /\ UNCHANGED <<world, pc, verdict, others, past>>
    BY <1>10 DEF Native!Copies
  <2>3. /\ run[c].tail = NativeLast(run[c].body) /\ ~Native!Holds(run[c].body)
    BY <1>1, <2>2 DEF NativeCall
  <2> DEFINE more == Append(run[c].body, p)
             kept == Native!KeptTail(Append(run[c].tail, p))
  <2>4. /\ more \in Seq(Native!Piece) /\ Len(more) = Len(run[c].body) + 1
        /\ kept \in Seq(Native!Piece) /\ kept = NativeLast(more) /\ ~Native!Holds(more)
    BY <1>3, <2>1, <2>3, NativeTails
  <2>5. /\ run'[c].body = more /\ run'[c].tail = kept
        /\ run'[c].bound = run[c].bound /\ run'[c].stream = run[c].stream
        /\ run'[c].max = run[c].max
        /\ run' \in [Invocation -> NativeRun]
    <3> HIDE DEF more, kept
    <3>1. run' = [run EXCEPT ![c].body = more, ![c].tail = kept]
      BY <2>1 DEF more, kept
    <3>2. run' = [run EXCEPT ![c] = [run[c] EXCEPT !.body = more, !.tail = kept]]
      BY <1>2, <3>1
    <3>3. \A q : q = [run[c] EXCEPT !.body = more, !.tail = kept] =>
            /\ q \in NativeRun /\ q.body = more /\ q.tail = kept /\ q.bound = run[c].bound
            /\ q.stream = run[c].stream /\ q.max = run[c].max
      BY <1>1, <2>4 DEF NativeRun
    <3> QED
      BY <1>2, <3>2, <3>3
  <2>6. Native!Remaining(c)' = Native!Remaining(c)
    BY <2>2, <2>5 DEF Native!Remaining, Native!Budget
  <2>7. NativeTyped' /\ NativeUsed' /\ NativeCount'
    BY <1>1, <1>2, <2>2, <2>5 DEF NativeTyped, NativeUsed, NativeCount, Native!Budget, NativeClient
  <2>8. NativeCall(c)'
    <3> HIDE DEF more, kept
    <3>1. Len(more) <= run[c].bound + 1 /\ verdict'[c] = "none"
      <4>1. verdict'[c] = "none"
        BY <1>1, <2>2 DEF NativeCall
      <4> QED
        BY <1>3, <2>2, <2>4, <4>1
    <3> QED
      BY <1>1, <2>2, <2>4, <2>5, <2>6, <3>1 DEF NativeCall
  <2> QED
    BY <2>7, <2>8
<1>11. CASE /\ pc[c] = "copying" /\ Native!GiveBack(Native!Spent(c)) /\ Native!Complete(c)
            /\ run[c].stream \/ ~Native!Hides(run[c].body)
            /\ Native!Answer(c, "ok")
            /\ past' = [past EXCEPT ![run[c].stream] = @ + Len(run[c].body)]
            /\ UNCHANGED run /\ UNCHANGED others
  <2>1. /\ pc' = [pc EXCEPT ![c] = "idle"] /\ verdict' = [verdict EXCEPT ![c] = "ok"]
        /\ Len(run[c].body) <= run[c].bound
        /\ run[c].length \in {Native!Unknown, Len(run[c].body)}
    BY <1>11 DEF Native!Answer, Native!Goto, Native!Complete
  <2>2. /\ run[c].bound <= run[c].max /\ run[c].bound <= Native!Remaining(c)
        /\ Len(run[c].body) <= run[c].bound + 1 /\ ~Native!Holds(run[c].body)
    BY <1>1, <1>11 DEF NativeCall
  <2>3. /\ (world \in NativeClient)' /\ NativeUsed'
        /\ world'.used = Native!Spent(c)
        /\ \A s \in BOOLEAN : world.used[s] <= world'.used[s]
        /\ world'.used[run[c].stream] = world.used[run[c].stream] + Len(run[c].body)
        /\ world'.used[run[c].stream] <= Native!Budget(run[c].stream)
    BY <1>1, <1>11, <2>1, <2>2, NativeGivesBack
  <2>4. /\ pc'[c] = "idle" /\ verdict'[c] = "ok"
        /\ pc' \in [Invocation -> Native!Steps \cup {"idle"}]
        /\ verdict' \in [Invocation -> {"none", "ok", "refused", "cancelled"}]
    BY <1>2, <2>1
  <2>5. /\ past' \in [BOOLEAN -> Nat]
        /\ past'[run[c].stream] = past[run[c].stream] + Len(run[c].body)
        /\ \A s \in BOOLEAN : s # run[c].stream => past'[s] = past[s]
    BY <1>2, <1>3, <1>11
  <2>6. NativeCount'
    <3>1. \A s \in BOOLEAN : /\ past[s] \in Nat /\ past[s] <= world.used[s] /\ past[s] <= Native!Budget(s)
                             /\ world.used[s] \in Int /\ world'.used[s] \in Int /\ Native!Budget(s) \in Nat
      BY <1>1, <1>2, <2>3, NativeNames DEF NativeCount, NativeClient
    <3>2. ASSUME NEW s \in BOOLEAN PROVE past'[s] <= world'.used[s] /\ past'[s] <= Native!Budget(s)
      <4>1. CASE s = run[c].stream
        <5>1. /\ past[s] \in Nat /\ past[s] <= world.used[s]
              /\ world.used[s] \in Int /\ world'.used[s] \in Int /\ Native!Budget(s) \in Nat
          BY <3>1
        <5>2. Len(run[c].body) \in Nat
          BY <1>3
        <5>3. /\ past'[s] = past[s] + Len(run[c].body)
              /\ world'.used[s] = world.used[s] + Len(run[c].body)
              /\ world'.used[s] <= Native!Budget(s)
          BY <2>3, <2>5, <4>1
        <5>4. \A k, u, n \in Int : k <= u => k + n <= u + n
          OBVIOUS
        <5>5. past'[s] <= world'.used[s] /\ past'[s] \in Nat
          <6>1. past[s] + Len(run[c].body) <= world.used[s] + Len(run[c].body)
            BY ONLY <5>1, <5>2, <5>4
          <6>2. past[s] + Len(run[c].body) \in Nat
            BY ONLY <5>1, <5>2
          <6> QED
            BY ONLY <5>3, <6>1, <6>2
        <5>6. \A k, u, n \in Int : k <= u /\ u <= n => k <= n
          OBVIOUS
        <5> QED
          BY ONLY <5>1, <5>3, <5>5, <5>6
      <4>2. CASE s # run[c].stream
        <5>1. past'[s] = past[s]
          BY <2>5, <4>2
        <5>2. world.used[s] <= world'.used[s]
          BY <2>3
        <5> QED
          BY <3>1, <5>1, <5>2
      <4> QED
        BY <4>1, <4>2
    <3> QED
      BY <3>2 DEF NativeCount, Native!Budget
  <2>7. NativeTyped'
    BY <1>2, <1>11, <2>3, <2>4, <2>5 DEF NativeTyped, NativeClient
  <2>8. NativeCall(c)'
    <3>1. Len(run[c].body) <= run[c].max
      BY <1>3, <2>1, <2>2
    <3> QED
      BY <1>11, <2>1, <2>2, <2>4, <3>1 DEF NativeCall
  <2> QED
    BY <2>3, <2>6, <2>7, <2>8
<1>12. \A v : Native!Answer(c, v) => /\ pc' = [pc EXCEPT ![c] = "idle"] /\ pc'[c] = "idle"
                                     /\ verdict' = [verdict EXCEPT ![c] = v]
  BY <1>2 DEF Native!Answer, Native!Goto
<1>13. CASE Native!Refused(c) \/ Native!AnswerRefused(c) \/ Native!CopyFails(c) \/ Native!Cancelled(c)
  BY <1>8, <1>12, <1>13
  DEF Native!Refused, Native!AnswerRefused, Native!CopyFails, Native!Cancelled, Native!NoBody
<1>14. CASE Native!Ends(c)
  BY <1>8, <1>11, <1>12, <1>14 DEF Native!Ends, Native!NoBody
<1> QED
  BY <1>6, <1>7, <1>9, <1>10, <1>13, <1>14 DEF Native!Step

\* And of a call that takes no step.
LEMMA NativeOthers ==
  ASSUME NativeInv, NEW c \in Invocation, Native!Step(c), NEW d \in Invocation \ {c}
  PROVE NativeCall(d)'
<1>1. /\ NativeTyped /\ NativeCall(d) /\ NativeCall(c) /\ d \in Invocation
      /\ pc'[d] = pc[d] /\ run'[d] = run[d] /\ verdict'[d] = verdict[d]
  BY NativeTypes, NativeFrame DEF NativeInv
<1>2. ASSUME pc[d] \in {"sent", "copying"} PROVE world' = world
  <2>1. world.turn = d /\ d # Native!Nobody
    BY <1>1, <1>2, NativeNames DEF NativeCall
  <2>2. ~Native!Admitted(c) /\ pc[c] \notin {"sent", "copying"}
    BY <1>1, <2>1 DEF NativeCall, Native!Admitted, Native!MyTurn
  <2> QED
    BY <2>2 DEF Native!Step, Native!Calls, Native!Refused, Native!AnswerRefused,
                Native!AnswerAccepted, Native!Copies, Native!CopyFails, Native!Ends,
                Native!Cancelled
<1>3. pc[d] \in {"sent", "copying"} => world'.turn = world.turn /\ Native!Remaining(d)' = Native!Remaining(d)
  BY <1>1, <1>2 DEF Native!Remaining, Native!Budget
<1> QED
  BY <1>1, <1>3 DEF NativeCall

\* NativeInv is an invariant of the native client.
LEMMA NativeInvHolds ==
  /\ Native!Init => NativeInv
  /\ NativeInv /\ Native!Next => NativeInv'
<1>1. ASSUME Native!Init PROVE NativeInv
  <2>1. /\ pc = [c \in Invocation |-> "idle"]
        /\ world = [turn |-> Native!Nobody, requests |-> 0, used |-> [s \in BOOLEAN |-> 0], open |-> TRUE]
        /\ run = [c \in Invocation |-> Native!Call(FALSE, 0)]
        /\ verdict = [c \in Invocation |-> "none"]
        /\ others = 0 /\ past = [s \in BOOLEAN |-> 0]
    BY <1>1 DEF Native!Init
  <2>2. /\ Native!Call(FALSE, 0) \in NativeRun /\ Native!Call(FALSE, 0).body = <<>>
    BY DEF Native!Call, NativeRun, Native!Unknown
  <2>3. run \in [Invocation -> NativeRun] /\ \A c \in Invocation : run[c].body = <<>>
    BY <2>1, <2>2
  <2>4. world \in NativeClient /\ \A s \in BOOLEAN : world.used[s] = 0
    BY <2>1, NativeNames DEF NativeClient
  <2>5. NativeTyped /\ NativeUsed
    <3>1. others \in 0..MaxCalls /\ past \in [BOOLEAN -> Nat]
      BY <2>1, NativeNames
    <3>2. NativeUsed
      BY <2>4, NativeNames DEF NativeUsed
    <3> QED
      BY <2>1, <2>3, <2>4, <3>1, <3>2 DEF NativeTyped
  <2>6. NativeCount
    BY <2>1, <2>4, NativeNames DEF NativeCount
  <2>7. ~Native!Holds(<<>>)
    BY DEF Native!Holds
  <2>8. \A c \in Invocation : NativeCall(c)
    BY <2>1, <2>3, <2>7 DEF NativeCall
  <2> QED
    BY <2>5, <2>6, <2>8, NativeTypes DEF NativeInv
<1>2. ASSUME NativeInv, NEW c \in Invocation, Native!Step(c) PROVE NativeInv'
  <2>1. NativeTyped' /\ NativeUsed' /\ NativeCount' /\ \A d \in Invocation : NativeCall(d)'
    BY <1>2, NativeOwn, NativeOthers
  <2> QED
    BY <2>1 DEF NativeInv, Native!TypeOK, NativeTyped, NativeUsed, NativeRun, NativeClient
<1>3. ASSUME NativeInv, Native!Closed PROVE NativeInv'
  <2>1. NativeTyped /\ NativeUsed /\ NativeCount /\ (\A d \in Invocation : NativeCall(d))
    BY <1>3, NativeTypes DEF NativeInv
  <2>2. /\ world' = [world EXCEPT !.open = FALSE] /\ UNCHANGED <<pc, run, verdict, others, past>>
        /\ world \in NativeClient
    BY <1>3, <2>1 DEF Native!Closed, NativeTyped
  <2>3. world' \in NativeClient /\ world'.turn = world.turn /\ world'.used = world.used
    BY <2>2 DEF NativeClient
  <2>4. NativeTyped' /\ NativeUsed' /\ NativeCount'
    BY <2>1, <2>2, <2>3 DEF NativeTyped, NativeUsed, NativeCount, Native!Budget, NativeClient
  <2>5. ASSUME NEW d \in Invocation PROVE NativeCall(d)'
    <3>1. Native!Remaining(d)' = Native!Remaining(d)
      BY <2>2, <2>3 DEF Native!Remaining, Native!Budget
    <3> QED
      BY <2>1, <2>2, <2>3, <3>1 DEF NativeCall
  <2> QED
    BY <2>4, <2>5 DEF NativeInv, Native!TypeOK, NativeTyped, NativeUsed, NativeRun, NativeClient
<1> QED
  BY <1>1, <1>2, <1>3 DEF Native!Next

\* It says that no credential is delivered, and that answers are true.
LEMMA NativeInvSays ==
  NativeInv => Native!TypeOK /\ Native!CredentialNeverDelivered /\ Native!TransferVerdictIsTrue
BY DEF NativeInv, NativeCall, NativeCount, Native!CredentialNeverDelivered,
       Native!TransferVerdictIsTrue
-----------------------------------------------------------------------------
(***************************************************************************)
(* The composition: a behaviour is one of one part, and its steps are that  *)
(* part's alone, since no two parts share a step.                           *)
(***************************************************************************)
ToolsInv == UpdateInv \/ SetupInv \/ ImportInv \/ LaneInv \/ ChildInv \/ NativeInv

\* A step's name tells the part it belongs to.
UpdateStep(s) == s \in Update!Steps \cup {"updated"}
SetupStepOf(s) == s \in Setup!Steps \cup {"setup"}
ImportStep(s) == s \in Import!Steps \cup {"imported"}
LaneStep(s) == s \in Lane!Steps \cup {"served"}
ChildStep(s) == s \in Child!Steps \cup {"answered"}
NativeStep(s) == s \in Native!Steps \cup {"idle"}

\* No step belongs to two parts.
LEMMA PartsApart ==
  ASSUME NEW s
  PROVE /\ UpdateStep(s) => ~SetupStepOf(s) /\ ~ImportStep(s) /\ ~LaneStep(s)
                            /\ ~ChildStep(s) /\ ~NativeStep(s)
        /\ SetupStepOf(s) => ~ImportStep(s) /\ ~LaneStep(s) /\ ~ChildStep(s) /\ ~NativeStep(s)
        /\ ImportStep(s) => ~LaneStep(s) /\ ~ChildStep(s) /\ ~NativeStep(s)
        /\ LaneStep(s) => ~ChildStep(s) /\ ~NativeStep(s)
        /\ ChildStep(s) => ~NativeStep(s)
BY DEF UpdateStep, SetupStepOf, ImportStep, LaneStep, ChildStep, NativeStep,
       Update!Steps, Setup!Steps, Import!Steps, Lane!Steps, Lane!Active, Lane!Sending,
       Lane!Reconciling, Child!Steps, Native!Steps

\* Somebody runs.
LEMMA Somebody == \E c \in Invocation : TRUE
BY LocalAssumption

\* Where everybody is while a part runs.
LEMMA PartRuns ==
  /\ UpdateInv => \A c \in Invocation : UpdateStep(pc[c])
  /\ SetupInv => \A c \in Invocation : SetupStepOf(pc[c])
  /\ ImportInv => \A c \in Invocation : ImportStep(pc[c])
  /\ LaneInv => \A c \in Invocation : LaneStep(pc[c])
  /\ ChildInv => \A c \in Invocation : ChildStep(pc[c])
  /\ NativeInv => \A c \in Invocation : NativeStep(pc[c])
<1>1. UpdateInv => \A c \in Invocation : UpdateStep(pc[c])
  BY DEF UpdateInv, Update!TypeOK, UpdateStep
<1>2. SetupInv => \A c \in Invocation : SetupStepOf(pc[c])
  BY DEF SetupInv, Setup!TypeOK, SetupStepOf
<1>3. ImportInv => \A c \in Invocation : ImportStep(pc[c])
  BY DEF ImportInv, Import!TypeOK, ImportStep
<1>4. LaneInv => \A c \in Invocation : LaneStep(pc[c])
  BY DEF LaneInv, Lane!TypeOK, LaneStep
<1>5. ChildInv => \A c \in Invocation : ChildStep(pc[c])
  BY DEF ChildInv, Child!TypeOK, ChildStep
<1>6. NativeInv => \A c \in Invocation : NativeStep(pc[c])
  BY DEF NativeInv, Native!TypeOK, NativeStep
<1> QED
  BY <1>1, <1>2, <1>3, <1>4, <1>5, <1>6

\* A part's step is taken while that part runs.
LEMMA PartActs ==
  /\ Update!Next => \E c \in Invocation : UpdateStep(pc[c])
  /\ Setup!Next => \E c \in Invocation : SetupStepOf(pc[c])
  /\ Import!Next => \E c \in Invocation : ImportStep(pc[c])
  /\ Lane!Next => \E c \in Invocation : LaneStep(pc[c])
  /\ Child!Next => \E c \in Invocation : ChildStep(pc[c])
  /\ Native!Next => \E c \in Invocation : NativeStep(pc[c])
<1>1. ASSUME Update!Next PROVE \E c \in Invocation : UpdateStep(pc[c])
  <2>1. CASE Update!OtherInstalls \/ Update!OtherRemoves
    BY <2>1 DEF Update!OtherInstalls, Update!OtherRemoves, Update!Act, UpdateStep
  <2>2. CASE ~(Update!OtherInstalls \/ Update!OtherRemoves)
    <3>1. PICK c \in Invocation : Update!Step(c)
      BY <1>1, <2>2 DEF Update!Next
    <3>2. pc[c] \in Update!Steps
      BY <3>1 DEF Update!Step, Update!Steps, Update!Start, Update!Manifest, Update!Confirm,
                  Update!Look, Update!Create, Update!Download, Update!VerifyCandidate,
                  Update!Recheck, Update!EnsureNoBackup, Update!Stage, Update!Swap,
                  Update!SwapFails, Update!Rollback, Update!Cleanup, Update!Refuse,
                  Update!Crash
    <3> QED
      BY <3>2 DEF UpdateStep
  <2> QED
    BY <2>1, <2>2
<1>2. ASSUME Setup!Next PROVE \E c \in Invocation : SetupStepOf(pc[c])
  BY <1>2 DEF Setup!Next, Setup!OtherEdits, Setup!Step, Setup!Plan, Setup!RefusePlan,
              Setup!Skip, Setup!Write, Setup!WriteFails, Setup!Installs, Setup!Undo,
              Setup!Undone, Setup!Crash, Setup!Steps, SetupStepOf
<1>3. ASSUME Import!Next PROVE \E c \in Invocation : ImportStep(pc[c])
  <2>1. CASE Import!OtherEdits \/ Import!OtherForgets
    BY <2>1 DEF Import!OtherEdits, Import!OtherForgets, Import!Act, ImportStep
  <2>2. CASE ~(Import!OtherEdits \/ Import!OtherForgets)
    <3>1. PICK c \in Invocation : Import!Step(c)
      BY <1>3, <2>2 DEF Import!Next
    <3>2. pc[c] \in Import!Steps
      BY <3>1 DEF Import!Step, Import!Steps, Import!Load, Import!Validate, Import!Get,
                  Import!Set, Import!Refuse, Import!Save, Import!SaveFails, Import!Delete,
                  Import!Restore, Import!Open, Import!Lookup, Import!LookupEnvironment
    <3> QED
      BY <3>2 DEF ImportStep
  <2> QED
    BY <2>1, <2>2
<1>4. ASSUME Lane!Next PROVE \E c \in Invocation : LaneStep(pc[c])
  <2>1. CASE Lane!OtherOpens \/ Lane!OtherChanges
    BY <2>1 DEF Lane!OtherOpens, Lane!OtherChanges, Lane!Act, LaneStep
  <2>2. CASE ~(Lane!OtherOpens \/ Lane!OtherChanges)
    <3>1. PICK c \in Invocation : Lane!Step(c) \/ Lane!Apply(c) \/ Lane!Drop(c)
      BY <1>4, <2>2 DEF Lane!Next
    <3>2. pc[c] \in Lane!Steps \cup {"served"}
      BY <3>1
      DEF Lane!Apply, Lane!Drop, Lane!Sent, Lane!Step, Lane!Begin, Lane!Absent, Lane!Found,
          Lane!Several, Lane!View, Lane!Refuse, Lane!Send, Lane!Answered,
          Lane!AnswerUnusable, Lane!RefusalArrives, Lane!AnswerLost, Lane!Interrupted,
          Lane!Relist, Lane!Reread, Lane!ReconcileFails, Lane!Expire, Lane!Crash,
          Lane!Steps, Lane!Active, Lane!Sending, Lane!Reconciling
    <3> QED
      BY <3>2 DEF LaneStep
  <2> QED
    BY <2>1, <2>2
<1>5. ASSUME Child!Next PROVE \E c \in Invocation : ChildStep(pc[c])
  <2>1. PICK c \in Invocation : Child!Child(c) \/ Child!Goroutines(c) \/ Child!Main(c)
    BY Zenon, <1>5 DEF Child!Next
  <2>2. pc[c] \in Child!Steps
    BY Zenon, <2>1
    DEF Child!Child, Child!Prints, Child!Applies, Child!Exits, Child!HelperEnds,
        Child!Goroutines, Child!Cancelled, Child!Kills, Child!Captures, Child!Relays,
        Child!Shows, Child!RelayFails, Child!EndOfOutput, Child!Interrupts,
        Child!InputEnds, Child!TakesNext, Child!Main, Child!Waited, Child!AfterWait,
        Child!InputWaited, Child!OutputWaited, Child!Closes, Child!TerminalClosed,
        Child!OutputIsLate, Child!LeavesRelay,
        Child!AnswersLogin, Child!AnswersCapture, Child!Steps
  <2> QED
    BY <2>2 DEF ChildStep
<1>6. ASSUME Native!Next PROVE \E c \in Invocation : NativeStep(pc[c])
  <2>1. CASE Native!Closed
    BY <2>1 DEF Native!Closed, NativeStep
  <2>2. CASE ~Native!Closed
    <3>1. PICK c \in Invocation : Native!Step(c)
      BY <1>6, <2>2 DEF Native!Next
    <3>2. pc[c] \in Native!Steps \cup {"idle"}
      BY <3>1 DEF Native!Step, Native!Steps, Native!Calls, Native!Admitted, Native!Refused,
                  Native!AnswerRefused, Native!AnswerAccepted, Native!Copies,
                  Native!CopyFails, Native!Ends, Native!Cancelled
    <3> QED
      BY <3>2 DEF NativeStep
  <2> QED
    BY <2>1, <2>2
<1> QED
  BY <1>1, <1>2, <1>3, <1>4, <1>5, <1>6

\* So the part that acts is the one whose invariant holds.
LEMMA ItsInvariant ==
  ASSUME ToolsInv
  PROVE /\ Update!Next => UpdateInv
        /\ Setup!Next => SetupInv
        /\ Import!Next => ImportInv
        /\ Lane!Next => LaneInv
        /\ Child!Next => ChildInv
        /\ Native!Next => NativeInv
BY PartActs, PartRuns, PartsApart DEF ToolsInv

\* And so is the part everybody is in.
LEMMA ItsPart ==
  ASSUME ToolsInv
  PROVE /\ Updating => UpdateInv
        /\ SettingUp => SetupInv
        /\ Importing => ImportInv
        /\ Serving => LaneInv
        /\ Delegating => ChildInv
        /\ Transferring => NativeInv
<1>1. PICK c \in Invocation : TRUE
  BY Somebody
<1>2. /\ Updating => UpdateStep(pc[c])
      /\ SettingUp => SetupStepOf(pc[c])
      /\ Importing => ImportStep(pc[c])
      /\ Serving => LaneStep(pc[c])
      /\ Delegating => ChildStep(pc[c])
      /\ Transferring => NativeStep(pc[c])
  BY DEF Updating, SettingUp, Importing, Serving, Delegating, Transferring, Ours,
         UpdateStep, SetupStepOf, ImportStep, LaneStep, ChildStep, NativeStep
<1> QED
  BY <1>2, PartRuns, PartsApart DEF ToolsInv

\* Nothing changes while nobody acts.
LEMMA ToolsStay ==
  ASSUME ToolsInv, UNCHANGED vars
  PROVE ToolsInv'
<1>1. UpdateInv => UpdateInv'
  BY DEF vars, UpdateInv, UpdateHistory, UpdateKnown, UpdateAgreed, UpdateLeft,
         UpdateDirectory, UpdateCalm, UpdateWhole, UpdatePlaced, UpdateAnswers,
         Update!TypeOK
<1>2. SetupInv => SetupInv'
  <2> SUFFICES ASSUME SetupInv PROVE SetupInv'
    OBVIOUS
  <2>1. PICK c \in Invocation : TRUE
    BY Somebody
  <2>2. SetupTyped /\ SetupFound
    BY SetupFacts
  <2>3. SetupTyped' /\ SetupFound'
    BY <2>2 DEF vars, SetupTyped, SetupFound
  <2>4. \A d \in Invocation : (SetupSized(d) /\ SetupPlanned(d) /\ SetupCame(d) /\ SetupHolds(d))'
    BY SetupOthers DEF vars
  <2> QED
    BY <2>1, <2>3, <2>4, SetupStep DEF vars
<1>3. ImportInv => ImportInv'
  BY DEF vars, ImportInv, ImportKnown, ImportValid, ImportRing, ImportItem,
         Import!TypeOK, Import!Key
<1>4. LaneInv => LaneInv'
  <2> SUFFICES ASSUME LaneInv PROVE LaneInv'
    OBVIOUS
  <2>1. Lane!TypeOK'
    BY DEF vars, LaneInv, Lane!TypeOK
  <2>2. LaneQuiet'
    BY LaneFacts DEF vars, LaneQuiet, Lane!AtWork, Lane!Opened
  <2>3. ASSUME NEW c \in Invocation PROVE LaneRun(c)' /\ LaneHeld(c)'
    <3>1. LaneRun(c)'
      BY LaneFacts DEF vars, LaneRun
    <3>2. LaneHeld(c)'
      BY LaneFacts DEF vars, LaneHeld, Lane!Fulfilled
    <3> QED
      BY <3>1, <3>2
  <2> QED
    BY <2>1, <2>2, <2>3 DEF LaneInv
<1>5. ChildInv => ChildInv'
  <2> SUFFICES ASSUME ChildInv PROVE ChildInv'
    OBVIOUS
  <2>1. Child!TypeOK' /\ Child!ChildVerdictIsTrue'
    BY DEF vars, ChildInv, Child!TypeOK, Child!ChildVerdictIsTrue, Child!Printed
  <2>2. ChildAlone' /\ ChildOutput'
    BY DEF vars, ChildInv, ChildAlone, ChildOutput, ChildTaken
  <2>3. PICK c \in Invocation : c = Child!Caller
    BY ChildCaller
  <2>4. ChildShown(c)'
    BY <2>3 DEF vars, ChildInv, ChildShown, ChildTaken
  <2>5. ChildSeen(c)' /\ ChildEnded(c)'
    BY <2>3 DEF vars, ChildInv, ChildSeen, ChildEnded, ChildTaken
  <2> QED
    BY <2>1, <2>2, <2>3, <2>4, <2>5 DEF ChildInv
<1>6. NativeInv => NativeInv'
  BY DEF vars, NativeInv, NativeCall, NativeCount, Native!TypeOK, Native!Remaining
<1> QED
  BY <1>1, <1>2, <1>3, <1>4, <1>5, <1>6 DEF ToolsInv

\* The invariant of the local tools: that of the part that runs holds from the
\* start and is kept by each of its steps.
THEOREM ToolsInvariant == Spec => []ToolsInv
<1>1. Init => ToolsInv
  BY UpdateInvHolds, SetupInvHolds, ImportInvHolds, LaneInvHolds, ChildInvHolds, NativeInvHolds
  DEF Init, ToolsInv
<1>2. ASSUME ToolsInv, Next PROVE ToolsInv'
  BY <1>2, ItsInvariant, UpdateInvHolds, SetupInvHolds, ImportInvHolds, LaneInvHolds,
     ChildInvHolds, NativeInvHolds DEF Next, ToolsInv
<1>3. ToolsInv /\ [Next]_vars => ToolsInv'
  BY <1>2, ToolsStay
<1> QED
  BY <1>1, <1>3, PTL DEF Spec

\* The state of the part that runs has its type.
THEOREM LocalToolsAreTyped == Spec => []TypeOK
<1>1. ToolsInv => TypeOK
  BY UpdateInvSays, SetupInvSays, ImportInvSays, LaneInvSays, ChildInvSays, NativeInvSays
  DEF ToolsInv, TypeOK
<1> QED
  BY <1>1, ToolsInvariant, PTL

\* SelfUpdate: whatever an update does before it fails or is killed, a complete
\* executable is left, at its path or in the backup, unless others interfered.
THEOREM AnExecutableSurvives == Spec => []ExecutableSurvives
<1>1. ToolsInv => ExecutableSurvives
  BY ItsPart, UpdateInvSays DEF ExecutableSurvives
<1> QED
  BY <1>1, ToolsInvariant, PTL

\* TokenImport, NativeTransfer: no credential of the keyring is used at an authority it
\* was not validated at (one of the environment may be: nothing validates it), and no
\* credential comes back in a body that is delivered.
THEOREM CredentialsStay == Spec => []CredentialsStayHome
<1>1. ToolsInv => CredentialsStayHome
  BY ItsPart, ImportInvSays, NativeInvSays DEF CredentialsStayHome
<1> QED
  BY <1>1, ToolsInvariant, PTL

\* GlabChild: what the human's terminal was given is what official glab printed before
\* its plaintext warning.
THEOREM NothingPastTheWarning == Spec => []ShowsUpToTheWarning
<1>1. ToolsInv => ShowsUpToTheWarning
  BY ItsPart, ChildInvSays DEF ShowsUpToTheWarning
<1> QED
  BY <1>1, ToolsInvariant, PTL

\* What each part answers is true of what it leaves behind.
THEOREM ToolsAnswerTruly == Spec => []AnswersAreTrue
<1>1. ToolsInv => AnswersAreTrue
  BY ItsPart, UpdateInvSays, SetupInvSays, ImportInvSays, LaneInvSays, ChildInvSays,
     NativeInvSays DEF AnswersAreTrue
<1> QED
  BY <1>1, ToolsInvariant, PTL

\* A tool replaces only the executable it saw, by a newer one; changes only its own
\* setting of a file, its own entry and item; makes no second merge request.
THEOREM ToolsChangeWhatTheySaw == Spec => ChangesOnlyWhatItSaw
<1> DEFINE Keeps == /\ Updating => Update!ReplacesSeen
                    /\ SettingUp => Setup!KeepsConfiguration
                    /\ Importing => Import!KeepsTheRest
                    /\ Serving => Lane!CreatesNoSecond
<1>1. ASSUME ToolsInv, ToolsInv', Next PROVE Keeps
  <2>1. ASSUME Updating PROVE Update!ReplacesSeen
    <3>1. UpdateInv /\ Update!Next
      BY <1>1, <2>1, ItsPart, ItsInvariant, PartRuns, PartsApart, Somebody DEF Next
    <3> QED
      BY <3>1, UpdateInvHolds, UpdateInvReplaces
  <2>2. ASSUME SettingUp PROVE Setup!KeepsConfiguration
    <3>1. SetupInv /\ Setup!Next
      BY <1>1, <2>2, ItsPart, ItsInvariant, PartRuns, PartsApart, Somebody DEF Next
    <3> QED
      BY <3>1, SetupInvKeeps
  <2>3. ASSUME Importing PROVE Import!KeepsTheRest
    <3>1. ImportInv /\ Import!Next
      BY <1>1, <2>3, ItsPart, ItsInvariant, PartRuns, PartsApart, Somebody DEF Next
    <3> QED
      BY <3>1, ImportInvKeeps
  <2>4. ASSUME Serving PROVE Lane!CreatesNoSecond
    <3>1. LaneInv /\ Lane!Next
      BY <1>1, <2>4, ItsPart, ItsInvariant, PartRuns, PartsApart, Somebody DEF Next
    <3>2. LaneInv'
      BY <3>1, LaneInvHolds
    <3> QED
      BY <3>2, LaneInvOnce
  <2> QED
    BY <2>1, <2>2, <2>3, <2>4
<1>2. ToolsInv /\ ToolsInv' /\ [Next]_vars => [Keeps]_vars
  BY <1>1
<1> QED
  BY <1>2, ToolsInvariant, PTL DEF Spec, ChangesOnlyWhatItSaw
=============================================================================
