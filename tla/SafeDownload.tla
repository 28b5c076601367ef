---------------------------- MODULE SafeDownload ----------------------------
(***************************************************************************)
(* job download and release download (internal/product/downloads.go) over   *)
(* one safedownload.Transaction: the destination's parent is pinned by a    *)
(* directory handle, the content is fetched between two looks at what was   *)
(* selected, staged under a private random name and published by one        *)
(* no-replace rename; a failure takes the recorded entries back in reverse. *)
(*                                                                         *)
(* The file system is a set of directory entries (links).  Other processes  *)
(* of the same account add, replace and remove entries and move the parent  *)
(* between any two system calls; the provider's object may be replaced      *)
(* between any two requests; a run may be cancelled or killed anywhere.     *)
(***************************************************************************)
EXTENDS Naturals, Sequences, SequencesExt

CONSTANTS
  Invocation,
  Dir,        \* the directories the parent path may name
  Version,    \* what the selected provider object may be
  listed,     \* listed[v]: what the provider lists of a job's archive v
  Malformed,  \* those whose bytes are not an acceptable archive
  Kind,       \* which downloads run: "job", "package", "raw"
  folder, item, \* objects of other processes: a directory, a file
  MaxOther    \* bound on the steps of other actors

ASSUME DownloadAssumption ==
  /\ Malformed \subseteq Version
  /\ listed \in [Version -> [name : STRING, size : Nat]]
  /\ Kind \subseteq {"job", "package", "raw"}
  /\ MaxOther \in Nat

VARIABLES
  path,     \* the directory the destination's parent path names
  links,    \* the directory entries: what each name of each directory is
  remote,   \* the selected object at the provider
  kind,     \* kind[c]: what c downloads
  pc,       \* pc[c]: the next system call or request of c
  ctx,      \* ctx[c]: "live" or "done" (cancelled, out of time)
  parent,   \* parent[c]: the pinned parent directory
  owned,    \* owned[c]: the entries c recorded as its own, in order
  whole,    \* whole[c]: the staged files written through to their end
  saw,      \* saw[c]: the selection of the first look
  body,     \* body[c]: the object whose bytes were transferred
  closed,   \* closed[c]: Commit has closed the staged subdirectory's handle
  unclean,  \* unclean[c]: rollback could not take an entry back
  verdict,  \* verdict[c]: what the caller was told
  others,   \* steps other actors have taken
  drift,    \* history: what others have changed since c last checked it
  uploads,  \* history: changes of the provider's object since c's first look
  checked   \* history: others at the last identity check of c's rollback

places == <<path, links, remote>>
local == <<kind, parent, saw, body, closed>>
history == <<others, drift, uploads, checked>>
vars == <<places, local, pc, ctx, owned, whole, unclean, verdict, history>>

-----------------------------------------------------------------------------
\* The random staging name of c is written c; its object, like that of every
\* entry c makes, is <<c, name>>.
Staged == {"sub", "top", "inner"}
Name(c) == Staged \cup {c}
Object == {folder, item} \cup {<<c, n>> : c \in Invocation, n \in Staged}
                         \cup {<<c, c>> : c \in Invocation}
Directory == Dir \cup {folder} \cup {<<c, "sub">> : c \in Invocation}
                 \cup {<<c, c>> : c \in Invocation}
Link == [dir : Directory, name : Staged \cup {"dest"} \cup Invocation, obj : Object]

\* Names and objects of different origin differ.
ASSUME NamesAssumption ==
  /\ Invocation \cap (Staged \cup {"dest"}) = {}
  /\ folder # item
  /\ {folder, item} \cap (Invocation \X (Staged \cup Invocation)) = {}
  /\ Object \cap Dir = {}

At(d, n) == {l \in links : l.dir = d /\ l.name = n}
Attached(o) == o \in Dir \/ \E l \in links : l.obj = o
Empty(o) == \A l \in links : l.dir # o

\* What c stages, in order: an archive's directories first, then its files.
Plan(c) == IF kind[c] = "job" THEN <<c, "sub", "top", "inner">> ELSE <<c, "top">>
NextName(c) == Plan(c)[Len(owned[c]) + 1]
IsDirectory(n) == n \notin {"top", "inner"}

\* The object c recorded under a name, and the directory it puts a name into.
Recorded(c, n) == (CHOOSE e \in Range(owned[c]) : e.name = n).obj
Into(c, n) == CASE n = c -> parent[c]
                [] n = "inner" -> Recorded(c, "sub")
                [] OTHER -> Recorded(c, c)
Place(c) == At(Into(c, NextName(c)), NextName(c))
Entry(c, n, o) == [dir |-> Into(c, n), name |-> n, obj |-> o]

\* The types; what openDirectory opens, and a run owns, is a directory exactly when
\* its name is one of a directory.
TypeOK ==
  /\ path \in Dir /\ links \subseteq Link /\ remote \in Version
  /\ kind \in [Invocation -> Kind]
  /\ pc \in [Invocation -> {"idle", "absent", "make", "open", "look",
                            "stream", "relook", "inspect", "copy", "recheck",
                            "verify", "rename", "close", "rollback", "unlink",
                            "end"}]
  /\ ctx \in [Invocation -> {"live", "done"}]
  /\ parent \in [Invocation -> Dir]
  /\ owned \in [Invocation -> Seq(Link)]
  /\ \A c \in Invocation :
       /\ Len(owned[c]) <= 4
       /\ \A e \in Range(owned[c]) : IsDirectory(e.name) <=> e.obj \in Directory
  /\ whole \in [Invocation -> SUBSET Staged]
  /\ saw \in [Invocation -> Version] /\ body \in [Invocation -> Version]
  /\ closed \in [Invocation -> BOOLEAN] /\ unclean \in [Invocation -> BOOLEAN]
  /\ verdict \in [Invocation -> {"none", "unprepared", "done", "refused", "incomplete"}]
  /\ others \in 0..MaxOther
  /\ drift \in [Invocation -> SUBSET {"path", "stage", "inside", "dest"}]
  /\ uploads \in [Invocation -> 0..MaxOther]
  /\ checked \in [Invocation -> 0..MaxOther]

Init ==
  /\ path \in Dir /\ links = {} /\ remote \in Version
  /\ kind \in [Invocation -> Kind]
  /\ pc = [c \in Invocation |-> "idle"]
  /\ ctx = [c \in Invocation |-> "live"]
  /\ parent = [c \in Invocation |-> path]
  /\ owned = [c \in Invocation |-> <<>>]
  /\ whole = [c \in Invocation |-> {}]
  /\ saw = [c \in Invocation |-> remote] /\ body = [c \in Invocation |-> remote]
  /\ closed = [c \in Invocation |-> FALSE]
  /\ unclean = [c \in Invocation |-> FALSE]
  /\ verdict = [c \in Invocation |-> "none"]
  /\ others = 0
  /\ drift = [c \in Invocation |-> {}]
  /\ uploads = [c \in Invocation |-> 0]
  /\ checked = [c \in Invocation |-> 0]
-----------------------------------------------------------------------------
Goto(c, step) == pc' = [pc EXCEPT ![c] = step]
Record(c, l) == owned' = [owned EXCEPT ![c] = Append(@, l)]
Forget(c) == owned' = [owned EXCEPT ![c] = Front(@)]
Clears(c, what) == drift' = [drift EXCEPT ![c] = @ \ {what}]

\* Where a run goes on once it has recorded one more entry.
AfterMaking(c) == IF Len(owned[c]) = 0 THEN "look"
                  ELSE IF Len(owned[c]) + 1 < Len(Plan(c)) THEN "make"
                  ELSE "recheck"

\* ctx.Err(), looked at by every request and every staging step but not by
\* Prepare, and no more once Commit has passed its second look.
Heeds == {"look", "stream", "relook", "inspect", "copy", "recheck", "verify"}
Live(c) == pc[c] \in Heeds \/ (pc[c] = "make" /\ owned[c] # <<>>) => ctx[c] = "live"

\* Prepare: open the parent's path, ensure that the name is not taken.
Pin(c) ==
  /\ pc[c] = "idle"
  /\ parent' = [parent EXCEPT ![c] = path]
  /\ Goto(c, "absent")
  /\ UNCHANGED <<places, kind, saw, body, closed, ctx, owned, whole, unclean, verdict, history>>

Absent(c) ==
  /\ pc[c] = "absent"
  /\ At(parent[c], "dest") = {}
  /\ Goto(c, "make")
  /\ UNCHANGED <<places, local, ctx, owned, whole, unclean, verdict, history>>

\* mkdirat; the handle is opened by name in a second call.
MakeDirectory(c) ==
  /\ pc[c] = "make" /\ Live(c)
  /\ IsDirectory(NextName(c))
  /\ Place(c) = {}
  /\ links' = links \cup {Entry(c, NextName(c), <<c, NextName(c)>>)}
  /\ Goto(c, "open")
  /\ UNCHANGED <<path, remote, local, ctx, owned, whole, unclean, verdict, history>>

\* Mutant: opened without asking for a directory.
OpenAnything(c) ==
  /\ pc[c] = "open"
  /\ \E l \in Place(c) : Record(c, l)
  /\ Goto(c, AfterMaking(c))
  /\ UNCHANGED <<places, local, ctx, whole, unclean, verdict, history>>

OpenDirectory(c) ==
  /\ pc[c] = "open"
  /\ \E l \in Place(c) : l.obj \in Directory /\ Record(c, l)
  /\ Goto(c, AfterMaking(c))
  /\ UNCHANGED <<places, local, ctx, whole, unclean, verdict, history>>

\* openat with O_CREAT and O_EXCL: made and opened in one call.
CreateFile(c) ==
  /\ pc[c] = "make" /\ Live(c)
  /\ ~IsDirectory(NextName(c))
  /\ Place(c) = {}
  /\ LET l == Entry(c, NextName(c), <<c, NextName(c)>>)
     IN links' = links \cup {l} /\ Record(c, l)
  /\ Goto(c, "copy")
  /\ UNCHANGED <<path, remote, local, ctx, whole, unclean, verdict, history>>

\* Mutant: a transfer that ended early is taken for the whole file.
ShortCopy(c) ==
  /\ pc[c] = "copy" /\ Live(c)
  /\ whole' \in {whole, [whole EXCEPT ![c] = @ \cup {Last(owned[c]).name}]}
  /\ Goto(c, IF Len(owned[c]) < Len(Plan(c)) THEN "make" ELSE "recheck")
  /\ UNCHANGED <<places, local, ctx, owned, unclean, verdict, history>>

\* The file is copied, synced, closed and found to have the declared size.
CopyFile(c) ==
  /\ pc[c] = "copy" /\ Live(c)
  /\ whole' = [whole EXCEPT ![c] = @ \cup {Last(owned[c]).name}]
  /\ Goto(c, IF Len(owned[c]) < Len(Plan(c)) THEN "make" ELSE "recheck")
  /\ UNCHANGED <<places, local, ctx, owned, unclean, verdict, history>>
-----------------------------------------------------------------------------
\* readDownloadJob or selectReleaseDownload, with the project.
FirstLook(c) ==
  /\ pc[c] = "look" /\ Live(c)
  /\ saw' = [saw EXCEPT ![c] = remote]
  /\ uploads' = [uploads EXCEPT ![c] = 0]
  /\ Goto(c, "stream")
  /\ UNCHANGED <<places, kind, parent, body, closed, ctx, owned, whole, unclean, verdict,
                 others, drift, checked>>

\* What is received is held against the selection: a package file's size and digest
\* tell it from every other, a job's archive has its size only, a raw artifact none.
MatchesSelection(c, v) ==
  CASE kind[c] = "package" -> v = saw[c]
    [] kind[c] = "job" -> listed[v].size = listed[saw[c]].size
    [] OTHER -> TRUE

Stream(c) ==
  /\ pc[c] = "stream" /\ Live(c)
  /\ MatchesSelection(c, remote)
  /\ body' = [body EXCEPT ![c] = remote]
  /\ Goto(c, "relook")
  /\ UNCHANGED <<places, kind, parent, saw, closed, ctx, owned, whole, unclean, verdict, history>>

\* Mutant: the selection is not looked at again after the transfer.
Unselected(c) == TRUE

\* before != after compares what was decoded: of a package the digest is part of it,
\* of a job (a raw artifact's too) the name and the size of the archive.
SameMetadata(c, v, w) == IF kind[c] = "package" THEN v = w ELSE listed[v] = listed[w]

SameSelection(c) == SameMetadata(c, remote, saw[c])

SecondLook(c) ==
  /\ pc[c] = "relook" /\ Live(c)
  /\ SameSelection(c)
  /\ Goto(c, "inspect")
  /\ UNCHANGED <<places, local, ctx, owned, whole, unclean, verdict, history>>

\* An archive is read through to its last checksum before anything is extracted.
Acceptable(c) == kind[c] = "job" => body[c] \notin Malformed

Inspect(c) ==
  /\ pc[c] = "inspect" /\ Live(c)
  /\ Acceptable(c)
  /\ Goto(c, "make")
  /\ UNCHANGED <<places, local, ctx, owned, whole, unclean, verdict, history>>
-----------------------------------------------------------------------------
\* Commit: the path still names the pinned parent; then the handles of staged
\* subdirectories are closed, and before the verification the context is
\* looked at for the last time.
\* Mutant: the parent's path is not opened again.
AnyParent(c) == TRUE

SameParent(c) == path = parent[c]

Recheck(c) ==
  /\ pc[c] = "recheck" /\ Live(c)
  /\ SameParent(c)
  /\ closed' = [closed EXCEPT ![c] = TRUE]
  /\ Clears(c, "path")
  /\ Goto(c, "verify")
  /\ UNCHANGED <<places, kind, parent, saw, body, ctx, owned, whole, unclean, verdict,
                 others, uploads, checked>>

\* verifyStage: the staging name is still the directory that was filled.
SameStage(c) == Head(owned[c]) \in links

VerifyStage(c) ==
  /\ pc[c] = "verify" /\ Live(c)
  /\ SameStage(c)
  /\ Clears(c, "stage")
  /\ Goto(c, "rename")
  /\ UNCHANGED <<places, local, ctx, owned, whole, unclean, verdict, others, uploads, checked>>

\* renameat2 with RENAME_NOREPLACE.
\* Mutant: a plain rename, which replaces what it finds.
AlwaysFree(d, n) == TRUE

Free(d, n) == At(d, n) = {}

Publish(c) ==
  /\ pc[c] = "rename"
  /\ Free(parent[c], "dest")
  /\ \E l \in At(parent[c], c) :
       links' = (links \ (At(parent[c], "dest") \cup {l}))
                  \cup {[l EXCEPT !.name = "dest"]}
  /\ Goto(c, "close")
  /\ UNCHANGED <<path, remote, local, ctx, owned, whole, unclean, verdict, history>>

\* Any call may fail by itself or find what its guard above excludes, and a
\* cancelled context is noticed: rollback.
Preparing(c) == pc[c] \in {"idle", "absent"} \/ (pc[c] \in {"make", "open"} /\ owned[c] = <<>>)

Fail(c) ==
  /\ ~Preparing(c)
  /\ pc[c] \in Heeds \cup {"make", "open", "rename"}
  /\ Goto(c, "rollback")
  /\ UNCHANGED <<places, local, ctx, owned, whole, unclean, verdict, history>>

\* Prepare fails: there is no transaction to close.
Unprepared(c) ==
  /\ Preparing(c)
  /\ Goto(c, "end")
  /\ verdict' = [verdict EXCEPT ![c] = "unprepared"]
  /\ UNCHANGED <<places, local, ctx, owned, whole, unclean, history>>
-----------------------------------------------------------------------------
\* Close without a commit: entries in reverse.  One whose directory can no
\* longer be reopened as the recorded one, or that was replaced, stays.
Reachable(c, e) ==
  e.name = "inner" /\ closed[c] => \E s \in Range(owned[c]) : s.name = "sub" /\ s \in links
\* Mutant: rollback goes by name.
ByName(c, e) == TRUE

IsOwned(c, e) == e \in links

\* Mutant: rollback ignores what it could not take back.
Silently(c) == Forget(c) /\ UNCHANGED unclean /\ Goto(c, "rollback")

Keeps(c) == Forget(c) /\ unclean' = [unclean EXCEPT ![c] = TRUE] /\ Goto(c, "rollback")
Passes(c) == Forget(c) /\ UNCHANGED unclean /\ Goto(c, "rollback")

CheckOwned(c) ==
  /\ pc[c] = "rollback" /\ owned[c] # <<>>
  /\ LET e == Last(owned[c]) IN
     \/ ~Reachable(c, e) /\ Keeps(c)
     \/ Reachable(c, e) /\ At(e.dir, e.name) = {} /\ Passes(c)
     \/ Reachable(c, e) /\ At(e.dir, e.name) # {} /\ ~IsOwned(c, e) /\ Keeps(c)
     \/ Reachable(c, e) /\ At(e.dir, e.name) # {} /\ IsOwned(c, e)
        /\ Goto(c, "unlink") /\ UNCHANGED <<owned, unclean>>
  /\ checked' = [checked EXCEPT ![c] = others]
  /\ UNCHANGED <<places, local, ctx, whole, verdict, others, drift, uploads>>

\* unlinkat removes whatever has the name by now, if it is of the kind asked for.
Unlinks(e, l) ==
  IF IsDirectory(e.name) THEN l.obj \in Directory /\ Empty(l.obj) ELSE l.obj \notin Directory

Unlink(c) ==
  /\ pc[c] = "unlink"
  /\ LET e == Last(owned[c])
         gone == {l \in At(e.dir, e.name) : Unlinks(e, l)}
     IN /\ links' = links \ gone
        /\ IF gone = {} THEN Keeps(c) ELSE Passes(c)
  /\ UNCHANGED <<path, remote, local, ctx, whole, verdict, history>>

\* Transaction.Close may still fail on a handle, after a publication too.
Answer(c) ==
  /\ \/ pc[c] = "rollback" /\ owned[c] = <<>>
     \/ pc[c] = "close"
  /\ \E v \in {"done", "refused", "incomplete"} :
       /\ v = "done" => pc[c] = "close"
       /\ v = "refused" => pc[c] = "rollback" /\ ~unclean[c]
       /\ verdict' = [verdict EXCEPT ![c] = v]
  /\ Goto(c, "end")
  /\ UNCHANGED <<places, local, ctx, owned, whole, unclean, history>>
-----------------------------------------------------------------------------
Started(c) == pc[c] \notin {"idle", "end"}

Expire(c) ==
  /\ Started(c) /\ ctx[c] = "live"
  /\ ctx' = [ctx EXCEPT ![c] = "done"]
  /\ UNCHANGED <<places, local, pc, owned, whole, unclean, verdict, history>>

Crash(c) ==
  /\ Started(c)
  /\ Goto(c, "end")
  /\ UNCHANGED <<places, local, ctx, owned, whole, unclean, verdict, history>>

\* Other actors.  What they change is new to everyone who looked before.
Act == others < MaxOther /\ others' = others + 1 /\ UNCHANGED checked
Stray(c, d, n) ==
  (IF n = c THEN {"stage"} ELSE {}) \cup
  (IF d \in {<<c, c>>, <<c, "sub">>} \cup {e.obj : e \in Range(owned[c])} THEN {"inside"} ELSE {})
  \cup (IF n = "dest" THEN {"dest"} ELSE {})
Strayed(d, n) == drift' = [c \in Invocation |-> drift[c] \cup Stray(c, d, n)]

OtherPlaces ==
  /\ Act
  /\ \E d \in Dir \cup {l.obj : l \in {k \in links : k.obj \in Directory}} :
     \E n \in Staged \cup {"dest"} \cup Invocation : \E o \in {folder, item} :
       /\ (d \in Dir) <=> (n \notin Staged)
       /\ d # folder
       /\ links' = (links \ At(d, n)) \cup {[dir |-> d, name |-> n, obj |-> o]}
       /\ Strayed(d, n)
  /\ UNCHANGED <<path, remote, local, pc, ctx, owned, whole, unclean, verdict, uploads>>

\* Removed, or renamed out of sight: a directory keeps what is in it.
OtherRemoves ==
  /\ Act
  /\ \E l \in links : links' = links \ {l} /\ Strayed(l.dir, l.name)
  /\ UNCHANGED <<path, remote, local, pc, ctx, owned, whole, unclean, verdict, uploads>>

OtherMoves ==
  /\ Act
  /\ \E d \in Dir \ {path} : path' = d
  /\ drift' = [c \in Invocation |-> drift[c] \cup {"path"}]
  /\ UNCHANGED <<links, remote, local, pc, ctx, owned, whole, unclean, verdict, uploads>>

OtherUploads ==
  /\ Act
  /\ \E v \in Version \ {remote} : remote' = v
  /\ uploads' = [c \in Invocation |-> uploads[c] + 1]
  /\ UNCHANGED <<path, links, local, pc, ctx, owned, whole, unclean, verdict, drift>>

Others == OtherPlaces \/ OtherRemoves \/ OtherMoves \/ OtherUploads

Step(c) ==
  \/ Pin(c) \/ Absent(c) \/ MakeDirectory(c) \/ OpenDirectory(c) \/ CreateFile(c)
  \/ CopyFile(c) \/ FirstLook(c) \/ Stream(c) \/ SecondLook(c) \/ Inspect(c)
  \/ Recheck(c) \/ VerifyStage(c) \/ Publish(c) \/ Fail(c) \/ Unprepared(c)
  \/ CheckOwned(c) \/ Unlink(c) \/ Answer(c) \/ Expire(c) \/ Crash(c)

Next == Others \/ \E c \in Invocation : Step(c)

Spec == Init /\ [][Next]_vars
-----------------------------------------------------------------------------
\* Every entry recorded by a finished run is in place, its files complete.
Complete(c) ==
  /\ Len(owned[c]) = Len(Plan(c))
  /\ \A i \in 2..Len(owned[c]) :
       owned[c][i] \in links /\ (~IsDirectory(owned[c][i].name) => owned[c][i].name \in whole[c])

\* What a download may deliver other than what it selected.  A package file: nothing.
\* A job's archive or a raw artifact: what replaced it between the two looks, which
\* the second look does not tell from it, or which was replaced once more before it.
Mistakable(c) ==
  /\ kind[c] # "package" /\ uploads[c] > 0
  /\ SameMetadata(c, body[c], saw[c]) \/ uploads[c] > 1
  /\ kind[c] = "job" => listed[body[c]].size = listed[saw[c]].size

\* A receipt is true: the path the caller gave names the complete staged tree,
\* unless others moved the parent after the commit looked at it, put something
\* else at the staging name after it was verified, or changed the result.  And its
\* bytes are those of the selected object, up to a replacement between the looks
\* that the metadata the code compares cannot show.
ReceiptIsTrue ==
  \A c \in Invocation :
    verdict[c] = "done" =>
      /\ drift[c] = {} => /\ [dir |-> path, name |-> "dest", obj |-> Head(owned[c]).obj] \in links
                         /\ Complete(c)
      /\ body[c] = saw[c] \/ Mistakable(c)

\* Whoever looks at the destination finds nothing of a download or all of it,
\* of an archive that was inspected, also when the run was cancelled or killed.
\* A run that reports a failure after it was prepared, and no incomplete cleanup,
\* has left nothing of its own behind, save in a directory that others moved out of
\* sight, or had put in the place of one of its own before it was opened.
WholeOrAbsent ==
  \A c \in Invocation :
    /\ \A d \in Dir :
         [dir |-> d, name |-> "dest", obj |-> <<c, c>>] \in links =>
           /\ "inside" \in drift[c] \/ Complete(c)
           /\ kind[c] = "job" => body[c] \notin Malformed
    /\ verdict[c] = "refused" =>
         \A l \in {k \in links : k.dir # folder /\ Attached(k.dir)} : \A n \in Name(c) : l.obj # <<c, n>>

\* No step of a download replaces or removes what is at the destination; and a
\* download removes nothing but what it recorded, or what others put there between
\* its identity check and the removal.
TouchesOnlyOwn ==
  [][/\ others' = others => \A d \in Dir : At(d, "dest") \subseteq links'
     /\ \A c \in Invocation : \A l \in links \ links' :
          pc[c] = "unlink" /\ pc'[c] = "rollback" =>
            l = Last(owned[c]) \/ checked[c] # others]_vars
=============================================================================
