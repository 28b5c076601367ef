----------------------------- MODULE SetupHooks -----------------------------
(***************************************************************************)
(* setup hooks (internal/setuphooks/install.go): every target file is read  *)
(* and its new content computed before anything is written; then the files  *)
(* are written one by one, each through a temporary file and a rename, and  *)
(* when one fails those written are put back in reverse.                    *)
(*                                                                         *)
(* The files belong to other programs, which edit them at any time; a run   *)
(* may be killed between two files, and runs overlap.                       *)
(***************************************************************************)
EXTENDS Naturals, Sequences, FiniteSets, SequencesExt

CONSTANTS
  Invocation,
  Targets,    \* the kinds of the target files, in order: "hooks", "features", "skill"
  Hooks,      \* the contents of a hook file considered, <<our hook, the rest>>
  Configs,    \* the contents of config.toml considered, as sequences of Lines
  MaxActors   \* bound on the runs that are started plus the edits of other programs

VARIABLES
  files,    \* files[i]: target file i
  pc,       \* pc[c]: the phase c is in
  run,      \* run[c]: planned updates, the file c is at, the files it has written
  verdict,  \* verdict[c]: what the caller was told
  others,   \* runs that were started and edits of other programs so far
  past      \* past[c]: history, the files changed by anyone else since c last read
            \* or wrote them

vars == <<files, pc, run, verdict, others, past>>
-----------------------------------------------------------------------------
(***************************************************************************)
(* The contents.  A hook file: whether its SessionStart hooks hold our      *)
(* command ("off": with another type or timeout; "odd": not the expected    *)
(* JSON) and the rest.  A skill: whose it is.  config.toml: its lines, told *)
(* apart as updateCodexConfig does, which knows the table [features] and,   *)
(* in it, hooks = true, hooks = false and other values.  "dotted" is a      *)
(* valid form it does not know: features.hooks = ..., [ features ].         *)
(***************************************************************************)
Lines == {"features", "table", "on", "off", "odd", "line", "dotted"}
Header == {"features", "table"}
Key == {"on", "off", "odd"}
Nothing == <<>>
Wrong == <<"wrong">>
Word == Lines \cup {h[2] : h \in Hooks} \cup {"none", "ours", "theirs"}
File == [is : {"missing", "link", "file"}, body : Seq(Word)]
Missing == [is |-> "missing", body |-> Nothing]
Unsafe == [is |-> "link", body |-> Nothing]
Holding(body) == [is |-> "file", body |-> body]
Index == 1..Len(Targets)

Bodies(i) ==
  CASE Targets[i] = "hooks" -> Hooks
    [] Targets[i] = "skill" -> {<<"ours">>, <<"theirs">>}
    [] OTHER -> Configs

\* The first line from there on of these kinds, or where it would be appended.
FirstOf(lines, from, kinds) ==
  Min({j \in from..Len(lines) : lines[j] \in kinds} \cup {Len(lines) + 1})

\* The header of the first [features] table, its end, and what it says of hooks.
First(lines) == FirstOf(lines, 1, {"features"})
SectionEnd(lines) == FirstOf(lines, First(lines) + 1, Header)
Section(lines) == First(lines) + 1 .. SectionEnd(lines) - 1
Keys(lines) == {k \in Section(lines) : lines[k] \in Key}

\* Mutant: the setting is put at the end of the file, under any other table.
AppendAtEnd(lines) == Append(lines, "on")

InsertSetting(lines) == InsertAt(lines, SectionEnd(lines), "on")

updateCodexConfig(lines) ==
  IF First(lines) > Len(lines) THEN lines \o <<"features", "on">>
  ELSE IF Keys(lines) = {} THEN InsertSetting(lines)
  ELSE LET k == Min(Keys(lines))
       IN IF lines[k] = "odd" THEN Wrong ELSE ReplaceAt(lines, k, "on")

updateHookJSON(body) ==
  IF body = Nothing THEN <<"on", "none">>
  ELSE IF body[1] = "odd" THEN Wrong ELSE <<"on", body[2]>>

Computed(i, body) ==
  CASE Targets[i] = "hooks" -> updateHookJSON(body)
    [] Targets[i] = "skill" -> <<"ours">>
    [] OTHER -> updateCodexConfig(body)

\* What a reader of the file makes of it: the setting is on; and the rest.
Understood(i, body) ==
  Targets[i] = "features" =>
    /\ \A j, k \in DOMAIN body : body[j] = "features" /\ body[k] = "features" => j = k
    /\ \A j, k \in Keys(body) : j = k
    /\ \A k \in DOMAIN body : body[k] # "dotted"
Enabled(i, body) ==
  CASE Targets[i] = "hooks" -> body # Nothing /\ body[1] = "on"
    [] Targets[i] = "skill" -> body = <<"ours">>
    [] OTHER -> Understood(i, body) /\ \E k \in Keys(body) : body[k] = "on"
Unrelated(i, body) ==
  CASE Targets[i] = "hooks" -> IF body = Nothing THEN <<"none">> ELSE Tail(body)
    [] Targets[i] = "skill" -> Nothing
    [] OTHER -> <<SubSeq(body, 1, First(body) - 1),
                  [k \in Section(body) \ Keys(body) |-> body[k]],
                  SubSeq(body, SectionEnd(body), Len(body))>>
-----------------------------------------------------------------------------
Steps == {"plan", "write", "undo"}

TypeOK ==
  /\ pc \in [Invocation -> Steps \cup {"setup"}]
  /\ files \in [Index -> File]
  /\ \A i \in Index : files[i].is # "file" => files[i].body = Nothing
  /\ run \in [Invocation ->
       [plan : Seq([before : File, body : Seq(Word)]), at : 1..Len(Targets) + 1,
        written : Seq(Index), unclean : BOOLEAN]]
  /\ \A c \in Invocation :
       /\ Len(run[c].plan) <= Len(Targets)
       /\ \A i \in DOMAIN run[c].plan : run[c].plan[i].before.is # "link"
  /\ verdict \in [Invocation -> {"none", "installed", "refused", "incomplete"}]
  /\ others \in 0..MaxActors
  /\ past \in [Invocation -> SUBSET Index]

Init ==
  /\ pc \in [Invocation -> {"plan", "setup"}]
  /\ files \in [Index -> {Missing} \cup {Holding(b) : b \in UNION {Bodies(i) : i \in Index}}]
  /\ \A i \in Index : files[i] = Missing \/ files[i].body \in Bodies(i)
  /\ run = [c \in Invocation |-> [plan |-> <<>>, at |-> 1, written |-> <<>>, unclean |-> FALSE]]
  /\ verdict = [c \in Invocation |-> "none"]
  /\ others = Cardinality({c \in Invocation : pc[c] = "plan"})
  /\ past = [c \in Invocation |-> {}]
-----------------------------------------------------------------------------
Answer(c, v) ==
  /\ pc' = [pc EXCEPT ![c] = "setup"]
  /\ verdict' = [verdict EXCEPT ![c] = v]
Continue == UNCHANGED <<pc, verdict>>

\* c has read or written file i; a write makes it new to the others.
Reads(c, i) == past' = [past EXCEPT ![c] = @ \ {i}]
Puts(c, i, f) ==
  /\ files' = [files EXCEPT ![i] = f]
  /\ past' = [d \in Invocation |-> IF d = c THEN past[d] \ {i}
                                   ELSE IF files[i] = f THEN past[d] ELSE past[d] \cup {i}]

\* readSafeTarget and compute for the next file.
Plan(c) ==
  LET i == Len(run[c].plan) + 1 IN
  /\ pc[c] = "plan" /\ i \in Index
  /\ files[i].is # "link"
  /\ Computed(i, files[i].body) # Wrong
  /\ run' = [run EXCEPT ![c].plan =
               Append(@, [before |-> files[i], body |-> Computed(i, files[i].body)])]
  /\ Reads(c, i)
  /\ IF i = Len(Targets) THEN pc' = [pc EXCEPT ![c] = "write"] ELSE UNCHANGED pc
  /\ UNCHANGED <<files, verdict, others>>

\* A link, a special or malformed file, a read that fails: nothing was written.
RefusePlan(c) ==
  /\ pc[c] = "plan"
  /\ Answer(c, "refused")
  /\ UNCHANGED <<files, run, others, past>>

Item(c) == run[c].plan[run[c].at]
Unchanged(c) == Item(c).before = Holding(Item(c).body)
\* A hook file that says the same may still be written, laid out anew.
Differs(c) == ~Unchanged(c) \/ Targets[run[c].at] = "hooks"

Skip(c) ==
  /\ pc[c] = "write" /\ run[c].at \in Index
  /\ Unchanged(c)
  /\ run' = [run EXCEPT ![c].at = @ + 1]
  /\ Continue
  /\ UNCHANGED <<files, others, past>>

\* writeSafeTarget: whatever regular file is there by now is replaced whole.
Write(c) ==
  /\ pc[c] = "write" /\ run[c].at \in Index
  /\ Differs(c)
  /\ files[run[c].at].is # "link"
  /\ Puts(c, run[c].at, Holding(Item(c).body))
  /\ run' = [run EXCEPT ![c].at = @ + 1, ![c].written = Append(@, run[c].at)]
  /\ Continue
  /\ UNCHANGED others

WriteFails(c) ==
  /\ pc[c] = "write" /\ run[c].at \in Index
  /\ Differs(c)
  /\ pc' = [pc EXCEPT ![c] = "undo"]
  /\ UNCHANGED <<files, run, verdict, others, past>>

Installs(c) ==
  /\ pc[c] = "write" /\ run[c].at \notin Index
  /\ Answer(c, "installed")
  /\ UNCHANGED <<files, run, others, past>>

\* Mutant: rollback removes the files it wrote, as if none had existed.
RemoveWritten(c, i) == Missing

Restored(c, i) == run[c].plan[i].before

\* rollback: the last file written is put back or removed, or cannot be; the
\* others are tried all the same.
Undo(c) ==
  /\ pc[c] = "undo" /\ run[c].written # <<>>
  /\ LET i == Last(run[c].written) IN
     \/ /\ Restored(c, i) # Missing => files[i].is # "link"
        /\ Puts(c, i, Restored(c, i))
        /\ run' = [run EXCEPT ![c].written = Front(@)]
     \/ /\ run' = [run EXCEPT ![c].written = Front(@), ![c].unclean = TRUE]
        /\ UNCHANGED <<files, past>>
  /\ Continue
  /\ UNCHANGED others

Undone(c) ==
  /\ pc[c] = "undo" /\ run[c].written = <<>>
  /\ Answer(c, IF run[c].unclean THEN "incomplete" ELSE "refused")
  /\ UNCHANGED <<files, run, others, past>>

Crash(c) ==
  /\ pc[c] \in Steps
  /\ pc' = [pc EXCEPT ![c] = "setup"]
  /\ UNCHANGED <<files, run, verdict, others, past>>

\* Another program writes, removes or links a file while a setup runs.
OtherEdits ==
  /\ \E c \in Invocation : pc[c] \in Steps
  /\ others < MaxActors /\ others' = others + 1
  /\ \E i \in Index : \E f \in {Missing, Unsafe} \cup {Holding(b) : b \in Bodies(i)} :
       /\ f # files[i]
       /\ files' = [files EXCEPT ![i] = f]
       /\ past' = [c \in Invocation |-> past[c] \cup {i}]
  /\ UNCHANGED <<pc, run, verdict>>

Step(c) ==
  \/ Plan(c) \/ RefusePlan(c) \/ Skip(c) \/ Write(c) \/ WriteFails(c)
  \/ Installs(c) \/ Undo(c) \/ Undone(c) \/ Crash(c)

Next == OtherEdits \/ \E c \in Invocation : Step(c)

Spec == Init /\ [][Next]_vars
-----------------------------------------------------------------------------
\* What setup answers is true of every file nobody else has changed since this run
\* last read or wrote it.  Installed: the setting is on, for whoever reads the
\* file (if its form was one the line scanner understands).  Refused: the file is
\* the one this run found.
SetupVerdictIsTrue ==
  \A c \in Invocation : \A i \in DOMAIN run[c].plan \ past[c] :
    /\ verdict[c] = "installed" /\ Understood(i, run[c].plan[i].before.body) =>
         files[i].is = "file" /\ Enabled(i, files[i].body)
    /\ verdict[c] = "refused" => files[i] = run[c].plan[i].before

\* No step of setup changes what else a file configures, save what someone else
\* put there after this run last looked at it.
KeepsConfiguration ==
  \A c \in Invocation : \A i \in Index \ past[c] :
    run'[c] # run[c] => Unrelated(i, files'[i].body) = Unrelated(i, files[i].body)
SetupKeepsConfiguration == [][KeepsConfiguration]_vars
=============================================================================
