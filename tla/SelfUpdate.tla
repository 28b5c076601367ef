----------------------------- MODULE SelfUpdate -----------------------------
(***************************************************************************)
(* update (internal/updater/updater.go): a signed manifest names a version; *)
(* if it is newer than the running build and a human agrees, its artifact   *)
(* is staged beside the executable, checked against the manifest and by     *)
(* running it, and put in place by two renames: the executable to a backup  *)
(* of a fixed name, the candidate to the executable's path.                 *)
(*                                                                         *)
(* Two updaters may run at once from the same directory, each may be killed *)
(* between any two system calls and started again from what it left, and    *)
(* other programs (a package manager, the user) change the same names.      *)
(***************************************************************************)
EXTENDS Naturals, FiniteSets

CONSTANTS
  Invocation,
  Version,    \* release versions, triples of numbers
  Installed,  \* the version installed at first
  MaxActors   \* bound on the updaters that run plus the steps of other programs

VARIABLES
  files,    \* what each name of the directory holds; c names c's staged file
  pc,       \* pc[c]: the next request or system call of c
  run,      \* run[c]: only checking, own version, version offered, file seen
  verdict,  \* verdict[c]: what the caller was told
  others,   \* updaters that were started and steps of other programs so far
  past      \* history: looks of c at the path that are outdated, who moved the
            \* executable last, whether updates overlapped, one replaced blindly
            \* and other programs acted

vars == <<files, pc, run, verdict, others, past>>
-----------------------------------------------------------------------------
\* A file is told from others by who made it (its inode) and by the version it
\* contains; a partial or wrong content has none.
Unfinished == <<>>
File == [by : {"first", "other", "link", "none"} \cup Invocation,
         ver : Version \cup {Unfinished}]
Absent == [by |-> "none", ver |-> Unfinished]
Link == [by |-> "link", ver |-> Unfinished]
Places == {"path", "backup"} \cup Invocation
Executable(f) == f.ver # Unfinished

Steps == {"start", "manifest", "confirm", "look", "create", "download", "verify",
          "recheck", "nobackup", "stage", "swap", "rollback", "cleanup"}
\* The calls that must follow one another with nothing in between.
Replacing == {"nobackup", "stage", "swap", "rollback", "cleanup"}

TypeOK ==
  /\ pc \in [Invocation -> Steps \cup {"updated"}]
  /\ files \in [Places -> File]
  /\ \A n \in Places : files[n].by \in {"none", "link"} => ~Executable(files[n])
  /\ \A c \in Invocation : files[c] = Absent \/ files[c].by = c
  /\ run \in [Invocation -> [check : BOOLEAN, own : Version, to : Version,
                             seen : {"first", "other"} \cup Invocation]]
  /\ verdict \in [Invocation -> {"none", "current", "available", "installed",
                                 "refused", "incomplete", "uncleaned"}]
  /\ others \in 0..MaxActors
  /\ past \in [stale : [Invocation -> SUBSET {"start", "recheck"}],
               mover : Invocation \cup {"none"},
               overlap : BOOLEAN, blind : BOOLEAN, foreign : BOOLEAN]

Init ==
  /\ pc \in [Invocation -> {"start", "updated"}]
  /\ files = [n \in Places |-> IF n = "path" THEN [by |-> "first", ver |-> Installed]
                               ELSE Absent]
  /\ run \in [Invocation -> [check : BOOLEAN, own : {Installed}, to : {Installed},
                             seen : {"first"}]]
  /\ verdict = [c \in Invocation |-> "none"]
  /\ others = Cardinality({c \in Invocation : pc[c] = "start"})
  /\ past = [stale |-> [c \in Invocation |-> {}], mover |-> "none",
             overlap |-> FALSE, blind |-> FALSE, foreign |-> FALSE]
-----------------------------------------------------------------------------
\* compareVersions: major, then minor, then patch, as numbers.
Older(a, b) == \E i \in 1..3 : a[i] < b[i] /\ \A j \in 1..(i - 1) : a[j] = b[j]

\* A step of c; history notes two updaters in their replacing calls.
Goto(c, step) ==
  /\ pc' = [pc EXCEPT ![c] = step]
  /\ past' = [past EXCEPT !.overlap =
                @ \/ (step \in Replacing /\ \E d \in Invocation \ {c} : pc[d] \in Replacing)]

\* Every return of install removes the staged file, whatever happened.
Return(c, v) ==
  /\ pc' = [pc EXCEPT ![c] = "updated"]
  /\ verdict' = [verdict EXCEPT ![c] = v]
  /\ UNCHANGED past

\* Mutant: the deferred removal takes the backup too.
WithoutBoth(c, fs) == [fs EXCEPT ![c] = Absent, !["backup"] = Absent]

WithoutStaged(c, fs) == [fs EXCEPT ![c] = Absent]

\* The running build knows its own version, the one it was started as.
Start(c) ==
  /\ pc[c] = "start"
  /\ Executable(files["path"])
  /\ run' = [run EXCEPT ![c].own = files["path"].ver]
  /\ pc' = [pc EXCEPT ![c] = "manifest"]
  /\ past' = [past EXCEPT !.stale[c] = {}]
  /\ UNCHANGED <<files, verdict, others>>

\* Mutant: any other version is an update.
Different(c, v) == v # run[c].own

UpdateAvailable(c, v) == Older(run[c].own, v)

\* A signed manifest of any release, old ones too: the signature does not age.
Manifest(c) ==
  /\ pc[c] = "manifest"
  /\ \E v \in Version :
       \/ ~UpdateAvailable(c, v) /\ Return(c, "current") /\ UNCHANGED run
       \/ UpdateAvailable(c, v) /\ run[c].check /\ Return(c, "available") /\ UNCHANGED run
       \/ /\ UpdateAvailable(c, v) /\ ~run[c].check
          /\ run' = [run EXCEPT ![c].to = v]
          /\ Goto(c, "confirm")
          /\ UNCHANGED verdict
  /\ UNCHANGED <<files, others>>

Confirm(c) ==
  /\ pc[c] = "confirm"
  /\ Goto(c, "look")
  /\ UNCHANGED <<files, run, verdict, others>>

\* os.Lstat of the executable: a regular file, not a link.
Look(c) ==
  /\ pc[c] = "look"
  /\ files["path"].by \notin {"none", "link"}
  /\ run' = [run EXCEPT ![c].seen = files["path"].by]
  /\ Goto(c, "create")
  /\ UNCHANGED <<files, verdict, others>>

Create(c) ==
  /\ pc[c] = "create"
  /\ files' = [files EXCEPT ![c] = [by |-> c, ver |-> Unfinished]]
  /\ Goto(c, "download")
  /\ UNCHANGED <<run, verdict, others>>

\* The whole artifact with the manifest's size and digest, or nothing; written
\* to the open file, which has lost its name if others removed it.
Download(c) ==
  /\ pc[c] = "download"
  /\ files' = [files EXCEPT ![c] = IF @ = Absent THEN @ ELSE [@ EXCEPT !.ver = run[c].to]]
  /\ Goto(c, "verify")
  /\ UNCHANGED <<run, verdict, others>>

\* The candidate is run by its name and answers with the manifest's version.
VerifyCandidate(c) ==
  /\ pc[c] = "verify"
  /\ files[c].ver = run[c].to
  /\ Goto(c, "recheck")
  /\ UNCHANGED <<files, run, verdict, others>>

\* Mutant: the executable is not looked at again.
AnyFile(c) == TRUE

SameFile(c) == files["path"].by = run[c].seen

Recheck(c) ==
  /\ pc[c] = "recheck"
  /\ SameFile(c)
  /\ pc' = [pc EXCEPT ![c] = "nobackup"]
  /\ past' = [past EXCEPT !.stale[c] = @ \ {"recheck"},
                          !.overlap = @ \/ \E d \in Invocation \ {c} : pc[d] \in Replacing]
  /\ UNCHANGED <<files, run, verdict, others>>

NoBackup == files["backup"] = Absent

EnsureNoBackup(c) ==
  /\ pc[c] = "nobackup"
  /\ NoBackup
  /\ Goto(c, "stage")
  /\ UNCHANGED <<files, run, verdict, others>>

\* What a rename of c changes under the feet of the others.
Outdated == {"start", "recheck"}
Disturbs(c) == [past EXCEPT !.stale = [d \in Invocation |-> IF d = c THEN @[d] ELSE Outdated]]

\* os.Rename(target, backup) and os.Rename(temp, target) replace what they find.
Stage(c) ==
  /\ pc[c] = "stage"
  /\ files["path"] # Absent
  /\ files' = [files EXCEPT !["backup"] = files["path"], !["path"] = Absent]
  /\ pc' = [pc EXCEPT ![c] = "swap"]
  /\ past' = [Disturbs(c) EXCEPT !.mover = c, !.blind = @ \/ "start" \in past.stale[c]]
  /\ UNCHANGED <<run, verdict, others>>

Swap(c) ==
  /\ pc[c] = "swap"
  /\ files[c] # Absent
  /\ files' = [files EXCEPT !["path"] = files[c], ![c] = Absent]
  /\ pc' = [pc EXCEPT ![c] = "cleanup"]
  /\ past' = Disturbs(c)
  /\ UNCHANGED <<run, verdict, others>>

SwapFails(c) ==
  /\ pc[c] = "swap"
  /\ Goto(c, "rollback")
  /\ UNCHANGED <<files, run, verdict, others>>

\* Mutant: a rollback that failed is not told apart.
Forgiving(c) == "refused"

Unrestored(c) == "incomplete"

\* os.Rename(backup, target): it fails when there is no backup, or by itself.
Rollback(c) ==
  /\ pc[c] = "rollback"
  /\ \/ /\ files["backup"] # Absent
        /\ files' = WithoutStaged(c, [files EXCEPT !["path"] = files["backup"],
                                                   !["backup"] = Absent])
        /\ pc' = [pc EXCEPT ![c] = "updated"]
        /\ verdict' = [verdict EXCEPT ![c] = "refused"]
        /\ past' = Disturbs(c)
     \/ files' = WithoutStaged(c, files) /\ Return(c, Unrestored(c))
  /\ UNCHANGED <<run, others>>

\* os.Remove(backup).
Cleanup(c) ==
  /\ pc[c] = "cleanup"
  /\ \/ /\ files["backup"] # Absent
        /\ files' = WithoutStaged(c, [files EXCEPT !["backup"] = Absent])
        /\ Return(c, "installed")
     \/ files' = WithoutStaged(c, files) /\ Return(c, "uncleaned")
  /\ UNCHANGED <<run, others>>

\* An error before the executable has been moved: a request or call that fails, a
\* human who declines, a guard above that does not hold, a cancelled context.
Refuse(c) ==
  /\ pc[c] \in Steps \ {"start", "swap", "rollback", "cleanup"}
  /\ files' = WithoutStaged(c, files)
  /\ Return(c, "refused")
  /\ UNCHANGED <<run, others>>

Crash(c) ==
  /\ pc[c] \in Steps \ {"start"}
  /\ pc' = [pc EXCEPT ![c] = "updated"]
  /\ UNCHANGED <<files, run, verdict, others, past>>
-----------------------------------------------------------------------------
\* Other programs, while an updater runs.
Act ==
  /\ \E c \in Invocation : pc[c] \in Steps \ {"start"}
  /\ others < MaxActors /\ others' = others + 1
  /\ UNCHANGED <<pc, run, verdict>>

Unseen(n) ==
  past' = [past EXCEPT !.foreign = TRUE,
             !.stale = IF n = "path" THEN [c \in Invocation |-> Outdated] ELSE @]

OtherInstalls ==
  /\ Act
  /\ \E n \in {"path", "backup"}, f \in {Link} \cup [by : {"other"}, ver : Version] :
       files' = [files EXCEPT ![n] = f] /\ Unseen(n)

OtherRemoves ==
  /\ Act
  /\ \E n \in Places :
       /\ files[n] # Absent
       /\ files' = [files EXCEPT ![n] = Absent]
       /\ Unseen(n)

Step(c) ==
  \/ Start(c) \/ Manifest(c) \/ Confirm(c) \/ Look(c) \/ Create(c) \/ Download(c)
  \/ VerifyCandidate(c) \/ Recheck(c) \/ EnsureNoBackup(c) \/ Stage(c) \/ Swap(c)
  \/ SwapFails(c) \/ Rollback(c) \/ Cleanup(c) \/ Refuse(c) \/ Crash(c)

Next == OtherInstalls \/ OtherRemoves \/ \E c \in Invocation : Step(c)

Spec == Init /\ [][Next]_vars
-----------------------------------------------------------------------------
\* Whenever an update fails or is killed, a complete executable is at its path or
\* beside it under the backup's name; only other programs, or a second updater
\* inside its own replacing calls (the backup's name is shared), can lose it.
ExecutableSurvives ==
  \/ past.foreign \/ past.overlap
  \/ Executable(files["path"]) \/ Executable(files["backup"])

\* What update answers stays true of the directory.  Installed: the path or the
\* backup holds that version or a newer one, unless another run that had started
\* before it replaced it by a version older than it knew.  Refused: nothing of
\* this run is left and it has not left the path empty.
UpdateVerdictIsTrue ==
  ~past.foreign /\ ~past.overlap =>
    \A c \in Invocation :
      /\ verdict[c] = "installed" /\ ~past.blind =>
           /\ Older(run[c].own, run[c].to)
           /\ \E n \in {"path", "backup"} :
                Executable(files[n]) /\ ~Older(files[n].ver, run[c].to)
      /\ verdict[c] = "refused" =>
           /\ \A n \in Places : files[n].by # c
           /\ Executable(files["path"]) \/ past.mover # c

\* An update moves away only the executable it looked at, unless the path changed
\* after its last look; it puts in a newer version, unless it changed before the first.
ReplacesSeen ==
  \A c \in Invocation :
    pc[c] = "stage" /\ pc'[c] = "swap" =>
      /\ "recheck" \notin past.stale[c] => files["path"].by = run[c].seen
      /\ past.stale[c] = {} => Older(files["path"].ver, run[c].to)
ReplacesWhatItSaw == [][ReplacesSeen]_vars
=============================================================================
