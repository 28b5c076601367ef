------------------------ MODULE SafeDownloadProofs ------------------------
(***************************************************************************)
(* The types of SafeDownload; and for one download, with every other         *)
(* process among the others, what a receipt and a refusal say and what a     *)
(* download may touch.                                                      *)
(***************************************************************************)
EXTENDS SafeDownload, TLAPS

-----------------------------------------------------------------------------
(* Sequences *)

LEMMA Appended ==
  ASSUME NEW S, NEW s \in Seq(S), NEW e \in S
  PROVE  /\ Append(s, e) \in Seq(S) /\ Len(Append(s, e)) = Len(s) + 1
         /\ \A k \in 1..Len(s) : Append(s, e)[k] = s[k]
         /\ Append(s, e)[Len(s) + 1] = e
         /\ Last(Append(s, e)) = e
         /\ Range(Append(s, e)) = Range(s) \cup {e}
<1>1. /\ Append(s, e) \in Seq(S) /\ Len(Append(s, e)) = Len(s) + 1
      /\ \A k \in 1..Len(s) : Append(s, e)[k] = s[k]
      /\ Append(s, e)[Len(s) + 1] = e
      /\ DOMAIN s = 1..Len(s) /\ DOMAIN Append(s, e) = 1..(Len(s) + 1)
  OBVIOUS
<1>2. Last(Append(s, e)) = e
  BY <1>1 DEF Last
<1>3. Range(Append(s, e)) = Range(s) \cup {e}
  BY <1>1 DEF Range
<1> QED
  BY <1>1, <1>2, <1>3

LEMMA Fronted ==
  ASSUME NEW S, NEW s \in Seq(S), s # <<>>
  PROVE  /\ Front(s) \in Seq(S) /\ Len(Front(s)) = Len(s) - 1 /\ Len(s) \in Nat \ {0}
         /\ \A k \in 1..Len(Front(s)) : Front(s)[k] = s[k]
         /\ Last(s) = s[Len(s)] /\ Last(s) \in S
         /\ Range(s) = Range(Front(s)) \cup {Last(s)}
<1>1. Len(s) \in Nat \ {0} /\ DOMAIN s = 1..Len(s)
  OBVIOUS
<1>2. Last(s) = s[Len(s)] /\ Last(s) \in S
  BY <1>1 DEF Last
<1>3. /\ Front(s) \in Seq(S) /\ Len(Front(s)) = Len(s) - 1
      /\ \A k \in 1..(Len(s) - 1) : Front(s)[k] = s[k]
      /\ DOMAIN Front(s) = 1..(Len(s) - 1)
  BY <1>1 DEF Front
<1>4. Range(s) = Range(Front(s)) \cup {Last(s)}
  BY <1>1, <1>2, <1>3 DEF Range
<1> QED
  BY <1>1, <1>2, <1>3, <1>4

LEMMA Ranged ==
  ASSUME NEW S, NEW s \in Seq(S)
  PROVE  /\ \A k \in 1..Len(s) : s[k] \in Range(s) /\ s[k] \in S
         /\ \A e \in Range(s) : \E k \in 1..Len(s) : e = s[k]
         /\ Len(s) \in Nat
         /\ s = <<>> <=> Len(s) = 0
BY DEF Range

-----------------------------------------------------------------------------
(* What the steps preserve *)

\* The entries c recorded are a prefix of its plan, each in the directory
\* that was opened for it.
DirectoryOf(c, k) == CASE k = 1 -> parent[c]
                       [] k = 4 -> owned[c][2].obj
                       [] OTHER -> owned[c][1].obj

RecordedInOrder(c) ==
  /\ Len(owned[c]) <= Len(Plan(c))
  /\ \A k \in 1..Len(owned[c]) :
       owned[c][k].name = Plan(c)[k] /\ owned[c][k].dir = DirectoryOf(c, k)

\* How much each step finds recorded.
StepOf(c) ==
  /\ pc[c] \in {"idle", "absent"} => owned[c] = <<>>
  /\ pc[c] \in {"make", "open"} => Len(owned[c]) < Len(Plan(c))
  /\ pc[c] = "open" => IsDirectory(NextName(c))
  /\ pc[c] \in {"look", "stream", "relook", "inspect"} => Len(owned[c]) = 1
  /\ pc[c] = "copy" => Len(owned[c]) >= 2 /\ ~IsDirectory(Last(owned[c]).name)
  /\ pc[c] \in {"recheck", "verify", "rename", "close"} => Len(owned[c]) = Len(Plan(c))
  /\ pc[c] = "unlink" => owned[c] # <<>>
  /\ verdict[c] # "none" => pc[c] = "end"
  /\ verdict[c] = "done" => Len(owned[c]) = Len(Plan(c))
  /\ verdict[c] = "refused" => owned[c] = <<>>

\* What is counted for a run has been done by others.
CountsOf(c) == uploads[c] <= others /\ checked[c] <= others

ShapeOf(c) == RecordedInOrder(c) /\ StepOf(c) /\ CountsOf(c)

Shape == TypeOK /\ \A c \in Invocation : ShapeOf(c)

-----------------------------------------------------------------------------
(* The plan *)

LEMMA PlanIs ==
  ASSUME TypeOK, NEW c \in Invocation
  PROVE  /\ Plan(c)[1] = c /\ IsDirectory(c) /\ c \notin Staged
         /\ Len(Plan(c)) \in {2, 4}
         /\ \A k \in 2..Len(Plan(c)) : Plan(c)[k] \in Staged
         /\ \A j, k \in 1..Len(Plan(c)) : Plan(c)[j] = Plan(c)[k] => j = k
         /\ Len(Plan(c)) = 2 => Plan(c)[2] = "top"
         /\ Len(Plan(c)) = 4 => Plan(c)[2] = "sub" /\ Plan(c)[3] = "top" /\ Plan(c)[4] = "inner"
<1>1. c \notin Staged
  BY NamesAssumption
<1>2. CASE kind[c] = "job"
  <2>1. Plan(c) = <<c, "sub", "top", "inner">>
    BY <1>2 DEF Plan
  <2> QED
    BY <1>1, <2>1 DEF IsDirectory, Staged
<1>3. CASE kind[c] # "job"
  <2>1. Plan(c) = <<c, "top">>
    BY <1>3 DEF Plan
  <2>2. Len(Plan(c)) = 2 /\ Plan(c)[1] = c /\ Plan(c)[2] = "top"
    BY <2>1
  <2>3. \A k \in 2..2 : k = 2
    OBVIOUS
  <2>4. \A k \in 1..2 : k = 1 \/ k = 2
    OBVIOUS
  <2> QED
    BY <1>1, <2>2, <2>3, <2>4 DEF IsDirectory, Staged
<1> QED
  BY <1>2, <1>3

\* A name is looked for in the directory that was opened for it.
LEMMA IntoIs ==
  ASSUME TypeOK, NEW c \in Invocation, RecordedInOrder(c), Len(owned[c]) < Len(Plan(c))
  PROVE  /\ NextName(c) \in Name(c)
         /\ Into(c, NextName(c)) = DirectoryOf(c, Len(owned[c]) + 1)
         /\ Into(c, NextName(c)) \in Directory
<1> DEFINE s == owned[c]  n == Len(owned[c]) + 1
<1>1. s \in Seq(Link) /\ Len(s) \in Nat /\ parent[c] \in Dir
  BY DEF TypeOK
<1>2. /\ \A k \in 1..Len(s) : s[k] \in Range(s) /\ s[k] \in Link
      /\ \A e \in Range(s) : \E k \in 1..Len(s) : e = s[k]
  BY <1>1, Ranged
<1>3. \A k \in 1..Len(s) : s[k].name = Plan(c)[k] /\ k \in 1..Len(Plan(c))
  BY <1>1, PlanIs DEF RecordedInOrder
<1>4. ASSUME NEW k \in 1..Len(s) PROVE Recorded(c, Plan(c)[k]) = s[k].obj
  <2>1. \A e \in Range(s) : e.name = Plan(c)[k] => e = s[k]
    BY <1>2, <1>3, PlanIs
  <2> QED
    BY <2>1, <1>2, <1>3 DEF Recorded
<1>5. \A k \in 1..Len(s) : IsDirectory(Plan(c)[k]) => s[k].obj \in Directory
  BY <1>2, <1>3 DEF TypeOK
<1>6. n \in 1..Len(Plan(c)) /\ NextName(c) = Plan(c)[n]
  BY <1>1, PlanIs DEF NextName
<1>7. CASE n = 1
  <2>1. NextName(c) = c
    BY <1>6, <1>7, PlanIs
  <2>2. Into(c, c) = parent[c]
    BY PlanIs DEF Into, Staged
  <2>3. DirectoryOf(c, n) = parent[c]
    BY <1>7 DEF DirectoryOf
  <2> QED
    BY <1>1, <2>1, <2>2, <2>3 DEF Directory, Name
<1>8. CASE n \in {2, 3}
  <2>1. 1 \in 1..Len(s)
    BY <1>1, <1>8
  <2>2. Plan(c)[n] \in Staged /\ Plan(c)[n] # c /\ Plan(c)[n] # "inner"
    BY <1>6, <1>8, PlanIs
  <2>3. Into(c, NextName(c)) = Recorded(c, c)
    BY <1>6, <2>2 DEF Into
  <2>4. Recorded(c, c) = s[1].obj /\ s[1].obj \in Directory
    BY <1>4, <1>5, <2>1, PlanIs
  <2> QED
    BY <1>6, <1>8, <2>2, <2>3, <2>4 DEF DirectoryOf, Name
<1>9. CASE n = 4
  <2>1. 2 \in 1..Len(s) /\ Len(Plan(c)) = 4
    BY <1>1, <1>6, <1>9, PlanIs
  <2>2. Plan(c)[4] = "inner" /\ Plan(c)[2] = "sub" /\ c \notin Staged
    BY <2>1, PlanIs
  <2>3. Into(c, NextName(c)) = Recorded(c, "sub")
    BY <1>6, <1>9, <2>2 DEF Into, Staged
  <2>4. Recorded(c, "sub") = s[2].obj /\ s[2].obj \in Directory
    BY <1>4, <1>5, <2>1, <2>2 DEF IsDirectory
  <2> QED
    BY <1>6, <1>9, <2>2, <2>3, <2>4 DEF DirectoryOf, Name, Staged
<1> QED
  BY <1>6, <1>7, <1>8, <1>9, PlanIs

-----------------------------------------------------------------------------
(* The types *)

OwnedTyped ==
  /\ owned \in [Invocation -> Seq(Link)]
  /\ \A c \in Invocation :
       /\ Len(owned[c]) <= 4
       /\ \A e \in Range(owned[c]) : IsDirectory(e.name) <=> e.obj \in Directory

RestTyped ==
  /\ path \in Dir /\ links \subseteq Link /\ remote \in Version
  /\ kind \in [Invocation -> Kind]
  /\ pc \in [Invocation -> {"idle", "absent", "make", "open", "look",
                            "stream", "relook", "inspect", "copy", "recheck",
                            "verify", "rename", "close", "rollback", "unlink",
                            "end"}]
  /\ ctx \in [Invocation -> {"live", "done"}]
  /\ parent \in [Invocation -> Dir]
  /\ whole \in [Invocation -> SUBSET Staged]
  /\ saw \in [Invocation -> Version] /\ body \in [Invocation -> Version]
  /\ closed \in [Invocation -> BOOLEAN] /\ unclean \in [Invocation -> BOOLEAN]
  /\ verdict \in [Invocation -> {"none", "unprepared", "done", "refused", "incomplete"}]
  /\ others \in 0..MaxOther
  /\ drift \in [Invocation -> SUBSET {"path", "stage", "inside", "dest"}]
  /\ uploads \in [Invocation -> 0..MaxOther]
  /\ checked \in [Invocation -> 0..MaxOther]

\* One more entry recorded.
LEMMA Records ==
  ASSUME TypeOK, NEW c \in Invocation, RecordedInOrder(c), Len(owned[c]) < Len(Plan(c)),
         NEW l \in Link, l.dir = Into(c, NextName(c)), l.name = NextName(c),
         IsDirectory(l.name) <=> l.obj \in Directory,
         Record(c, l), UNCHANGED <<kind, parent>>
  PROVE  /\ OwnedTyped' /\ RecordedInOrder(c)'
         /\ Len(owned[c]) \in Nat /\ Len(owned'[c]) = Len(owned[c]) + 1
         /\ Range(owned'[c]) = Range(owned[c]) \cup {l} /\ Last(owned'[c]) = l
         /\ \A k \in 1..Len(owned[c]) : owned'[c][k] = owned[c][k]
         /\ owned'[c][Len(owned[c]) + 1] = l
         /\ owned'[c] # <<>>
<1> owned[c] \in Seq(Link)
  BY DEF TypeOK
<1>1. owned[c] \in Seq(Link) /\ Len(owned[c]) \in Nat /\ Len(Plan(c)) <= 4
  BY PlanIs
<1>2. owned'[c] = Append(owned[c], l) /\ \A d \in Invocation \ {c} : owned'[d] = owned[d]
  BY DEF Record, TypeOK
<1>3. /\ owned'[c] \in Seq(Link) /\ Len(owned'[c]) = Len(owned[c]) + 1
      /\ \A k \in 1..Len(owned[c]) : owned'[c][k] = owned[c][k]
      /\ owned'[c][Len(owned[c]) + 1] = l
      /\ Last(owned'[c]) = l
      /\ Range(owned'[c]) = Range(owned[c]) \cup {l}
  BY <1>1, <1>2, Appended
<1>4. owned' \in [Invocation -> Seq(Link)]
  BY <1>2, <1>3 DEF Record, TypeOK
<1>5. OwnedTyped'
  <2>1. ASSUME NEW d \in Invocation
        PROVE  /\ Len(owned'[d]) <= 4
               /\ \A e \in Range(owned'[d]) : IsDirectory(e.name) <=> e.obj \in Directory
    <3>1. CASE d = c
      BY <1>1, <1>3, <3>1, PlanIs DEF TypeOK
    <3>2. CASE d # c
      BY <1>2, <3>2 DEF TypeOK
    <3> QED
      BY <3>1, <3>2
  <2> QED
    BY <1>4, <2>1 DEF OwnedTyped
<1>6. Plan(c)' = Plan(c)
  BY DEF Plan
<1>7. ASSUME NEW k \in 1..(Len(owned[c]) + 1)
      PROVE  owned'[c][k].name = Plan(c)[k] /\ owned'[c][k].dir = DirectoryOf(c, k)'
  <2>1. CASE k = Len(owned[c]) + 1
    <3>1. owned'[c][k].name = Plan(c)[k] /\ owned'[c][k].dir = DirectoryOf(c, k)
      BY <1>3, <2>1, IntoIs DEF NextName
    <3>2. k = 4 => owned'[c][2] = owned[c][2]
      BY <1>1, <1>3, <2>1
    <3>3. k \notin {1, 4} => owned'[c][1] = owned[c][1]
      BY <1>1, <1>3, <2>1
    <3> QED
      BY <3>1, <3>2, <3>3 DEF DirectoryOf
  <2>2. CASE k \in 1..Len(owned[c])
    <3>1. owned'[c][k].name = Plan(c)[k] /\ owned'[c][k].dir = DirectoryOf(c, k)
      BY <1>3, <2>2 DEF RecordedInOrder
    <3>2. k = 4 => owned'[c][2] = owned[c][2]
      BY <1>1, <1>3, <2>2
    <3>3. k \notin {1, 4} => owned'[c][1] = owned[c][1]
      BY <1>1, <1>3, <2>2
    <3> QED
      BY <3>1, <3>2, <3>3 DEF DirectoryOf
  <2> QED
    BY <1>1, <2>1, <2>2
<1>8. RecordedInOrder(c)'
  BY <1>1, <1>3, <1>6, <1>7, PlanIs DEF RecordedInOrder
<1>9. owned'[c] # <<>>
  BY <1>1, <1>3
<1> QED
  BY <1>1, <1>3, <1>5, <1>8, <1>9

\* The last entry forgotten.
LEMMA Forgets ==
  ASSUME TypeOK, NEW c \in Invocation, RecordedInOrder(c), owned[c] # <<>>,
         Forget(c), UNCHANGED <<kind, parent>>
  PROVE  /\ OwnedTyped' /\ RecordedInOrder(c)'
         /\ Len(owned[c]) \in Nat \ {0} /\ Len(owned'[c]) = Len(owned[c]) - 1
         /\ Range(owned[c]) = Range(owned'[c]) \cup {Last(owned[c])}
         /\ Last(owned[c]) = owned[c][Len(owned[c])] /\ Last(owned[c]) \in Link
         /\ owned'[c] # <<>> => owned'[c][1] = owned[c][1]
         /\ owned'[c] = <<>> => Last(owned[c]) = owned[c][1]
<1>1. owned[c] \in Seq(Link) /\ Len(owned[c]) <= 4
  BY DEF TypeOK
<1>2. owned'[c] = Front(owned[c]) /\ \A d \in Invocation \ {c} : owned'[d] = owned[d]
  BY DEF Forget, TypeOK
<1>3. /\ owned'[c] \in Seq(Link) /\ Len(owned'[c]) = Len(owned[c]) - 1
      /\ Len(owned[c]) \in Nat \ {0}
      /\ \A k \in 1..Len(owned'[c]) : owned'[c][k] = owned[c][k]
      /\ Last(owned[c]) = owned[c][Len(owned[c])] /\ Last(owned[c]) \in Link
      /\ Range(owned[c]) = Range(owned'[c]) \cup {Last(owned[c])}
  BY <1>1, <1>2, Fronted
<1>4. owned' \in [Invocation -> Seq(Link)]
  BY <1>2, <1>3 DEF Forget, TypeOK
<1>5. OwnedTyped'
  <2>1. ASSUME NEW d \in Invocation
        PROVE  /\ Len(owned'[d]) <= 4
               /\ \A e \in Range(owned'[d]) : IsDirectory(e.name) <=> e.obj \in Directory
    <3>1. CASE d = c
      BY <1>1, <1>3, <3>1, PlanIs DEF TypeOK
    <3>2. CASE d # c
      BY <1>2, <3>2 DEF TypeOK
    <3> QED
      BY <3>1, <3>2
  <2> QED
    BY <1>4, <2>1 DEF OwnedTyped
<1>6. Plan(c)' = Plan(c)
  BY DEF Plan
<1>7. ASSUME NEW k \in 1..Len(owned'[c])
      PROVE  owned'[c][k].name = Plan(c)[k] /\ owned'[c][k].dir = DirectoryOf(c, k)'
  <2>1. owned'[c][k].name = Plan(c)[k] /\ owned'[c][k].dir = DirectoryOf(c, k)
    BY <1>3 DEF RecordedInOrder
  <2>2. k = 4 => owned'[c][2] = owned[c][2]
    BY <1>1, <1>3
  <2>3. k \notin {1, 4} => owned'[c][1] = owned[c][1]
    BY <1>1, <1>3
  <2> QED
    BY <2>1, <2>2, <2>3 DEF DirectoryOf
<1>8. RecordedInOrder(c)'
  BY <1>1, <1>3, <1>6, <1>7, PlanIs DEF RecordedInOrder
<1>9. /\ owned'[c] # <<>> => owned'[c][1] = owned[c][1]
      /\ owned'[c] = <<>> => Last(owned[c]) = owned[c][1]
  BY <1>3
<1> QED
  BY <1>1, <1>3, <1>5, <1>8, <1>9

\* What a step leaves alone keeps its shape.
LEMMA StillShape ==
  ASSUME NEW d \in Invocation, ShapeOf(d), TypeOK,
         owned'[d] = owned[d], kind'[d] = kind[d], parent'[d] = parent[d], pc'[d] = pc[d],
         verdict'[d] = verdict[d], uploads'[d] <= others', checked'[d] <= others'
  PROVE  ShapeOf(d)'
<1>1. Plan(d)' = Plan(d)
  BY DEF Plan
<1>2. RecordedInOrder(d)'
  BY <1>1 DEF ShapeOf, RecordedInOrder, DirectoryOf
<1>3. StepOf(d)'
  BY <1>1 DEF ShapeOf, StepOf, NextName
<1> QED
  BY <1>2, <1>3 DEF ShapeOf, CountsOf

\* The entry a run makes is one.
LEMMA EntryTyped ==
  ASSUME TypeOK, NEW c \in Invocation, RecordedInOrder(c), Len(owned[c]) < Len(Plan(c))
  PROVE  /\ Entry(c, NextName(c), <<c, NextName(c)>>) \in Link
         /\ IsDirectory(NextName(c)) <=> <<c, NextName(c)>> \in Directory
<1>1. NextName(c) \in Name(c) /\ Into(c, NextName(c)) \in Directory
  BY IntoIs
<1>2. <<c, NextName(c)>> \in Object
  BY <1>1 DEF Name, Object
<1>3. Entry(c, NextName(c), <<c, NextName(c)>>) \in Link
  BY <1>1, <1>2 DEF Entry, Link, Name
<1>4. IsDirectory(NextName(c)) => <<c, NextName(c)>> \in Directory
  BY <1>1 DEF Name, Staged, IsDirectory, Directory
<1>5. ASSUME ~IsDirectory(NextName(c)) PROVE <<c, NextName(c)>> \notin Directory
  <2>1. NextName(c) \in {"top", "inner"}
    BY <1>5 DEF IsDirectory
  <2>2. <<c, NextName(c)>> \notin Dir
    BY <1>2, NamesAssumption
  <2>3. <<c, NextName(c)>> # folder
    BY <2>1, NamesAssumption DEF Staged
  <2>4. \A d \in Invocation : <<c, NextName(c)>> # <<d, "sub">> /\ <<c, NextName(c)>> # <<d, d>>
    BY <2>1, NamesAssumption DEF Staged
  <2> QED
    BY <2>2, <2>3, <2>4 DEF Directory
<1> QED
  BY <1>3, <1>4, <1>5

\* The steps that record nothing.
Quiet(c) ==
  \/ Pin(c) \/ Absent(c) \/ MakeDirectory(c) \/ CopyFile(c) \/ FirstLook(c) \/ Stream(c)
  \/ SecondLook(c) \/ Inspect(c) \/ Recheck(c) \/ VerifyStage(c) \/ Publish(c) \/ Fail(c)
  \/ Unprepared(c) \/ Answer(c) \/ Expire(c) \/ Crash(c)

LEMMA LastStaged ==
  ASSUME TypeOK, NEW c \in Invocation, ShapeOf(c), pc[c] = "copy"
  PROVE  Last(owned[c]).name \in Staged
<1>1. Len(owned[c]) \in 2..Len(Plan(c)) /\ Last(owned[c]) = owned[c][Len(owned[c])]
  <2>1. owned[c] \in Seq(Link)
    BY DEF TypeOK
  <2> QED
    BY <2>1, PlanIs DEF ShapeOf, StepOf, RecordedInOrder, Last
<1>2. owned[c][Len(owned[c])].name = Plan(c)[Len(owned[c])]
  BY <1>1 DEF ShapeOf, RecordedInOrder
<1> QED
  BY <1>1, <1>2, PlanIs

LEMMA QuietTyped == ASSUME TypeOK, NEW c \in Invocation, ShapeOf(c), Quiet(c) PROVE RestTyped'
<1> USE DEF TypeOK, RestTyped, Goto, places, local, history
<1>1. CASE Pin(c)
  BY <1>1 DEF Pin
<1>2. CASE Absent(c)
  BY <1>2 DEF Absent
<1>3. CASE FirstLook(c)
  BY <1>3, DownloadAssumption DEF FirstLook, Clears
<1>4. CASE Stream(c)
  BY <1>4 DEF Stream
<1>5. CASE SecondLook(c)
  BY <1>5 DEF SecondLook
<1>6. CASE Inspect(c)
  BY <1>6 DEF Inspect
<1>7. CASE Recheck(c)
  BY <1>7 DEF Recheck, Clears
<1>8. CASE VerifyStage(c)
  BY <1>8 DEF VerifyStage, Clears
<1>9. CASE Fail(c)
  BY <1>9 DEF Fail
<1>10. CASE Unprepared(c)
  BY <1>10 DEF Unprepared
<1>11. CASE Answer(c)
  BY <1>11 DEF Answer
<1>12. CASE Expire(c)
  BY <1>12 DEF Expire
<1>13. CASE Crash(c)
  BY <1>13 DEF Crash
<1>14. CASE MakeDirectory(c)
  BY <1>14, EntryTyped DEF MakeDirectory, ShapeOf, StepOf
<1>15. CASE CopyFile(c)
  <2>1. Last(owned[c]).name \in Staged
    BY <1>15, LastStaged DEF CopyFile
  <2> QED
    BY <1>15, <2>1 DEF CopyFile
<1>16. CASE Publish(c)
  <2>1. \A l \in links : [l EXCEPT !.name = "dest"] \in Link
    BY DEF Link
  <2> QED
    BY <1>16, <2>1 DEF Publish, At
<1> QED
  BY <1>1, <1>2, <1>3, <1>4, <1>5, <1>6, <1>7, <1>8, <1>9, <1>10, <1>11, <1>12, <1>13, <1>14, <1>15, <1>16 DEF Quiet

LEMMA QuietStep == ASSUME TypeOK, NEW c \in Invocation, ShapeOf(c), Quiet(c) PROVE OwnedTyped' /\ ShapeOf(c)'
<1>1. UNCHANGED <<owned, kind, others>>
  BY DEF Quiet, Pin, Absent, MakeDirectory, CopyFile, FirstLook, Stream, SecondLook, Inspect, Recheck,
         VerifyStage, Publish, Fail, Unprepared, Answer, Expire, Crash, places, local, history
<1>2. OwnedTyped'
  BY <1>1 DEF OwnedTyped, TypeOK
<1>3. Plan(c)' = Plan(c) /\ NextName(c)' = NextName(c)
  BY <1>1 DEF Plan, NextName
<1>4. uploads'[c] \in {uploads[c], 0} /\ checked'[c] = checked[c]
  BY DEF Quiet, Pin, Absent, MakeDirectory, CopyFile, FirstLook, Stream, SecondLook, Inspect, Recheck,
         VerifyStage, Publish, Fail, Unprepared, Answer, Expire, Crash, places, local, history, TypeOK
<1>5. CountsOf(c)'
  BY <1>1, <1>4 DEF CountsOf, ShapeOf, TypeOK
<1>6. parent'[c] = parent[c] \/ owned[c] = <<>>
  BY DEF Quiet, Pin, Absent, MakeDirectory, CopyFile, FirstLook, Stream, SecondLook, Inspect, Recheck,
         VerifyStage, Publish, Fail, Unprepared, Answer, Expire, Crash, places, local, history, ShapeOf, StepOf
<1>7. RecordedInOrder(c)'
  <2>1. CASE parent'[c] = parent[c]
    BY <1>1, <1>3, <2>1 DEF ShapeOf, RecordedInOrder, DirectoryOf
  <2>2. CASE owned[c] = <<>>
    <3>1. 1..Len(owned[c]) = {}
      BY <2>2
    <3> QED
      BY <1>1, <1>3, <3>1 DEF ShapeOf, RecordedInOrder
  <2> QED
    BY <1>6, <2>1, <2>2
<1>8. StepOf(c)'
  <2>a. Len(Plan(c)) \in {2, 4} /\ owned[c] \in Seq(Link) /\ Len(owned[c]) \in Nat
    <3>1. owned[c] \in Seq(Link)
      BY DEF TypeOK
    <3> QED
      BY <3>1, PlanIs
  <2>b. owned[c] = <<>> => Len(owned[c]) = 0
    OBVIOUS
  <2>c. Len(owned[c]) <= Len(Plan(c))
    BY DEF ShapeOf, RecordedInOrder
  <2>d. Len(owned[c]) \in {0, 1} => Len(owned[c]) < Len(Plan(c))
    <3>1. \A n \in {0, 1} : \A m \in {2, 4} : n < m
      OBVIOUS
    <3> QED
      BY <2>a, <3>1
  <2> USE <1>1, <1>3, <2>a, <2>b, <2>c, <2>d DEF ShapeOf, StepOf, TypeOK, Goto, local
  <2>1. CASE Pin(c)
    BY <2>1 DEF Pin
  <2>2. CASE Absent(c)
    <3>1. Len(owned[c]) < Len(Plan(c)) /\ verdict[c] = "none"
      BY <2>2 DEF Absent
    <3>2. pc'[c] = "make" /\ verdict' = verdict
      BY <2>2 DEF Absent
    <3> QED
      BY <3>1, <3>2
  <2>3. CASE MakeDirectory(c)
    BY <2>3 DEF MakeDirectory
  <2>4. CASE CopyFile(c)
    BY <2>4 DEF CopyFile
  <2>5. CASE FirstLook(c)
    BY <2>5 DEF FirstLook
  <2>6. CASE Stream(c)
    BY <2>6 DEF Stream
  <2>7. CASE SecondLook(c)
    BY <2>7 DEF SecondLook
  <2>8. CASE Inspect(c)
    <3>1. Len(owned[c]) < Len(Plan(c)) /\ verdict[c] = "none"
      BY <2>8 DEF Inspect
    <3>2. pc'[c] = "make" /\ verdict' = verdict
      BY <2>8 DEF Inspect
    <3> QED
      BY <3>1, <3>2
  <2>9. CASE Recheck(c)
    BY <2>9 DEF Recheck
  <2>10. CASE VerifyStage(c)
    BY <2>10 DEF VerifyStage
  <2>11. CASE Publish(c)
    BY <2>11 DEF Publish
  <2>12. CASE Fail(c)
    BY <2>12 DEF Fail, Preparing, Heeds
  <2>13. CASE Unprepared(c)
    BY <2>13 DEF Unprepared, Preparing, Heeds
  <2>14. CASE Answer(c)
    BY <2>14 DEF Answer
  <2>15. CASE Expire(c)
    BY <2>15 DEF Expire
  <2>16. CASE Crash(c)
    BY <2>16 DEF Crash
  <2> QED
    BY <2>1, <2>2, <2>3, <2>4, <2>5, <2>6, <2>7, <2>8, <2>9, <2>10, <2>11, <2>12, <2>13, <2>14, <2>15, <2>16 DEF Quiet
<1> QED
  BY <1>2, <1>5, <1>7, <1>8 DEF ShapeOf

LEMMA OpenStep == ASSUME TypeOK, NEW c \in Invocation, ShapeOf(c), OpenDirectory(c) PROVE TypeOK' /\ ShapeOf(c)'
<1>1. PICK l \in Place(c) : l.obj \in Directory /\ Record(c, l)
  BY DEF OpenDirectory
<1>2. Len(owned[c]) < Len(Plan(c)) /\ IsDirectory(NextName(c)) /\ RecordedInOrder(c) /\ verdict[c] = "none"
  BY DEF OpenDirectory, ShapeOf, StepOf
<1>3. l \in Link /\ l.dir = Into(c, NextName(c)) /\ l.name = NextName(c)
  BY DEF Place, At, TypeOK
<1>4. UNCHANGED <<kind, parent>>
  BY DEF OpenDirectory, local
<1>5. /\ OwnedTyped' /\ RecordedInOrder(c)' /\ Len(owned'[c]) = Len(owned[c]) + 1 /\ Len(owned[c]) \in Nat
  BY <1>1, <1>2, <1>3, <1>4, Records
<1>6. pc' = [pc EXCEPT ![c] = AfterMaking(c)]
  BY DEF OpenDirectory, Goto
<1>7. RestTyped'
  BY <1>6 DEF TypeOK, RestTyped, OpenDirectory, AfterMaking, places, local, history
<1>8. StepOf(c)'
  <2>1. Plan(c)' = Plan(c) /\ verdict' = verdict /\ Len(Plan(c)) \in {2, 4}
    BY <1>4, PlanIs DEF Plan, OpenDirectory
  <2>2. pc'[c] = AfterMaking(c)
    BY <1>6 DEF TypeOK
  <2>3. Len(owned[c]) = 0 => pc'[c] = "look"
    BY <2>2 DEF AfterMaking
  <2>4. Len(owned[c]) # 0 /\ Len(owned[c]) + 1 < Len(Plan(c)) => pc'[c] = "make"
    BY <2>2 DEF AfterMaking
  <2>5. Len(owned[c]) # 0 /\ ~(Len(owned[c]) + 1 < Len(Plan(c))) => pc'[c] = "recheck"
    BY <2>2 DEF AfterMaking
  <2> QED
    BY <1>2, <1>5, <2>1, <2>3, <2>4, <2>5 DEF StepOf
<1>9. CountsOf(c)'
  BY DEF OpenDirectory, history, ShapeOf, CountsOf
<1> QED
  BY <1>5, <1>7, <1>8, <1>9 DEF ShapeOf, TypeOK, OwnedTyped, RestTyped

LEMMA CreateStep == ASSUME TypeOK, NEW c \in Invocation, ShapeOf(c), CreateFile(c) PROVE TypeOK' /\ ShapeOf(c)'
<1> DEFINE l == Entry(c, NextName(c), <<c, NextName(c)>>)
<1>1. Record(c, l) /\ links' = links \cup {l}
  BY DEF CreateFile
<1>2. Len(owned[c]) < Len(Plan(c)) /\ ~IsDirectory(NextName(c)) /\ RecordedInOrder(c) /\ verdict[c] = "none"
  BY DEF CreateFile, ShapeOf, StepOf
<1>3. l \in Link /\ (IsDirectory(NextName(c)) <=> l.obj \in Directory)
  BY <1>2, EntryTyped DEF Entry
<1>4. UNCHANGED <<kind, parent>> /\ l.dir = Into(c, NextName(c)) /\ l.name = NextName(c)
  BY DEF CreateFile, local, Entry
<1>5. /\ OwnedTyped' /\ RecordedInOrder(c)' /\ Len(owned'[c]) = Len(owned[c]) + 1 /\ Len(owned[c]) \in Nat
      /\ Last(owned'[c]) = l
  <2> HIDE DEF l
  <2> QED
    BY <1>1, <1>2, <1>3, <1>4, Records
<1>6. pc' = [pc EXCEPT ![c] = "copy"]
  BY DEF CreateFile, Goto
<1>7. RestTyped'
  BY <1>1, <1>3, <1>6 DEF TypeOK, RestTyped, CreateFile, local, history
<1>8. StepOf(c)'
  <2>1. Plan(c)' = Plan(c) /\ verdict' = verdict /\ pc'[c] = "copy" /\ Len(Plan(c)) \in {2, 4}
    BY <1>4, <1>6, PlanIs DEF Plan, CreateFile, TypeOK
  <2>2. Len(owned[c]) # 0
    <3>1. Len(owned[c]) = 0 => IsDirectory(NextName(c))
      BY PlanIs DEF NextName
    <3> QED
      BY <1>2, <3>1
  <2>3. ~IsDirectory(Last(owned'[c]).name)
    BY <1>2, <1>4, <1>5
  <2> QED
    BY <1>2, <1>5, <2>1, <2>2, <2>3 DEF StepOf
<1>9. CountsOf(c)'
  BY DEF CreateFile, history, ShapeOf, CountsOf
<1> QED
  BY <1>5, <1>7, <1>8, <1>9 DEF ShapeOf, TypeOK, OwnedTyped, RestTyped

\* An entry is passed, kept or gone on with; what is left stays in order.
LEMMA ReverseStep ==
  ASSUME TypeOK, NEW c \in Invocation, ShapeOf(c), CheckOwned(c) \/ Unlink(c)
  PROVE  TypeOK' /\ ShapeOf(c)'
<1>1. /\ owned[c] # <<>> /\ verdict[c] = "none" /\ RecordedInOrder(c)
      /\ pc' \in {[pc EXCEPT ![c] = "rollback"], [pc EXCEPT ![c] = "unlink"]}
      /\ UNCHANGED <<kind, parent, verdict>>
      /\ Forget(c) \/ owned' = owned
  BY DEF CheckOwned, Unlink, Passes, Keeps, Goto, local, ShapeOf, StepOf
<1>2. OwnedTyped' /\ RecordedInOrder(c)'
  <2>1. CASE Forget(c)
    BY <1>1, <2>1, Forgets
  <2>2. CASE owned' = owned
    <3>1. Plan(c)' = Plan(c)
      BY <1>1 DEF Plan
    <3> QED
      BY <1>1, <2>2, <3>1 DEF OwnedTyped, TypeOK, RecordedInOrder, DirectoryOf
  <2> QED
    BY <1>1, <2>1, <2>2
<1>3. RestTyped'
  <2>1. links' \subseteq Link /\ UNCHANGED <<path, remote, local, ctx, whole, verdict, others, drift, uploads>>
    BY DEF TypeOK, CheckOwned, Unlink, places, history
  <2>2. /\ unclean' \in {unclean, [unclean EXCEPT ![c] = TRUE]}
        /\ checked' \in {checked, [checked EXCEPT ![c] = others]}
    BY DEF CheckOwned, Unlink, Passes, Keeps, history
  <2>3. unclean' \in [Invocation -> BOOLEAN] /\ checked' \in [Invocation -> 0..MaxOther]
    <3>1. unclean \in [Invocation -> BOOLEAN] /\ checked \in [Invocation -> 0..MaxOther] /\ others \in 0..MaxOther
      BY DEF TypeOK
    <3> QED
      BY <2>2, <3>1
  <2>4. UNCHANGED <<kind, parent, saw, body, closed>>
    BY DEF CheckOwned, Unlink, local
  <2>5. pc' \in [Invocation -> {"idle", "absent", "make", "open", "look", "stream", "relook",
               "inspect", "copy", "recheck", "verify", "rename", "close", "rollback", "unlink", "end"}]
    BY <1>1 DEF TypeOK
  <2> QED
    BY <2>1, <2>3, <2>4, <2>5 DEF TypeOK, RestTyped
<1>4. StepOf(c)'
  <2>1. pc'[c] \in {"rollback", "unlink"} /\ (pc'[c] = "unlink" => owned' = owned)
    BY <1>1 DEF CheckOwned, Unlink, Passes, Keeps, Goto, TypeOK
  <2> QED
    BY <1>1, <2>1 DEF StepOf
<1>5. CountsOf(c)'
  <2>1. uploads' = uploads /\ others' = others /\ checked'[c] \in {checked[c], others}
    BY DEF CheckOwned, Unlink, history, TypeOK
  <2> QED
    BY <2>1 DEF ShapeOf, CountsOf, TypeOK
<1> QED
  BY <1>2, <1>3, <1>4, <1>5 DEF ShapeOf, TypeOK, OwnedTyped, RestTyped

\* What others do to names and objects is typed, and no run is moved by it.
LEMMA OthersShape == ASSUME Shape, Others PROVE Shape'
<1>1. /\ others < MaxOther /\ others' = others + 1 /\ others \in Nat /\ MaxOther \in Nat
      /\ UNCHANGED <<kind, parent, saw, body, closed, pc, ctx, owned, whole, unclean, verdict, checked>>
  BY DownloadAssumption DEF Others, OtherPlaces, OtherRemoves, OtherMoves, OtherUploads, Act, local, Shape, TypeOK
<1>2. \A d \in Invocation : uploads[d] <= others /\ checked[d] <= others /\ uploads[d] \in Nat /\ checked[d] \in Nat
  BY DEF Shape, ShapeOf, CountsOf, TypeOK
<1>3. links' \subseteq Link /\ path' \in Dir /\ remote' \in Version
  <2>1. CASE OtherPlaces
    <3>1. ASSUME NEW k \in links, k.obj \in Directory PROVE k.obj \in Directory
      BY <3>1
    <3>2. PICK d \in Directory : \E n \in Staged \cup {"dest"} \cup Invocation : \E o \in {folder, item} :
            links' = (links \ At(d, n)) \cup {[dir |-> d, name |-> n, obj |-> o]}
      BY <2>1 DEF OtherPlaces, Directory
    <3> QED
      BY <2>1, <3>2 DEF OtherPlaces, Link, Object, Shape, TypeOK
  <2>2. CASE OtherRemoves
    BY <2>2 DEF OtherRemoves, Shape, TypeOK
  <2>3. CASE OtherMoves
    BY <2>3 DEF OtherMoves, Shape, TypeOK
  <2>4. CASE OtherUploads
    BY <2>4 DEF OtherUploads, Shape, TypeOK
  <2> QED
    BY <2>1, <2>2, <2>3, <2>4 DEF Others
<1>4. uploads' \in [Invocation -> 0..MaxOther] /\ \A d \in Invocation : uploads'[d] <= others'
  <2>1. CASE uploads' = uploads
    BY <1>1, <1>2, <2>1 DEF Shape, TypeOK
  <2>2. CASE OtherUploads
    <3>1. uploads' = [d \in Invocation |-> uploads[d] + 1]
      BY <2>2 DEF OtherUploads
    <3> QED
      BY <1>1, <1>2, <3>1
  <2> QED
    BY <2>1, <2>2 DEF Others, OtherPlaces, OtherRemoves, OtherMoves
<1>5. drift' \in [Invocation -> SUBSET {"path", "stage", "inside", "dest"}]
  <2> DEFINE Drifts == SUBSET {"path", "stage", "inside", "dest"}
  <2>1. \A c \in Invocation : \A d, n : Stray(c, d, n) \in Drifts
    BY DEF Stray
  <2>2. \A c \in Invocation : drift[c] \in Drifts
    BY DEF Shape, TypeOK
  <2>3. \A d, n : Strayed(d, n) => drift' \in [Invocation -> Drifts]
    BY <2>1, <2>2 DEF Strayed
  <2>4. CASE OtherPlaces
    BY <2>3, <2>4 DEF OtherPlaces
  <2>5. CASE OtherRemoves
    BY <2>3, <2>5 DEF OtherRemoves
  <2>6. CASE OtherMoves
    BY <2>2, <2>6 DEF OtherMoves
  <2>7. CASE OtherUploads
    BY <2>7 DEF OtherUploads, Shape, TypeOK
  <2> QED
    BY <2>4, <2>5, <2>6, <2>7 DEF Others
<1>6. TypeOK'
  BY <1>1, <1>3, <1>4, <1>5 DEF Shape, TypeOK
<1>7. ASSUME NEW d \in Invocation PROVE ShapeOf(d)'
  <2>1. checked'[d] <= others'
    BY <1>1, <1>2
  <2> QED
    BY <1>1, <1>4, <2>1, StillShape DEF Shape
<1> QED
  BY <1>6, <1>7 DEF Shape

\* A step of one run moves no other.
LEMMA StepShape == ASSUME Shape, NEW c \in Invocation, Step(c) PROVE Shape'
<1>1. TypeOK' /\ ShapeOf(c)'
  <2>1. CASE Quiet(c)
    <3>1. RestTyped' /\ OwnedTyped' /\ ShapeOf(c)'
      BY <2>1, QuietTyped, QuietStep DEF Shape
    <3> QED
      BY <3>1 DEF TypeOK, OwnedTyped, RestTyped
  <2>2. CASE OpenDirectory(c)
    BY <2>2, OpenStep DEF Shape
  <2>3. CASE CreateFile(c)
    BY <2>3, CreateStep DEF Shape
  <2>4. CASE CheckOwned(c) \/ Unlink(c)
    BY <2>4, ReverseStep DEF Shape
  <2> QED
    BY <2>1, <2>2, <2>3, <2>4 DEF Step, Quiet
<1>2. ASSUME NEW d \in Invocation, d # c PROVE ShapeOf(d)'
  <2>1. owned'[d] = owned[d]
    BY <1>2 DEF Step, Pin, Absent, MakeDirectory, OpenDirectory, CreateFile, CopyFile, FirstLook, Stream,
         SecondLook, Inspect, Recheck, VerifyStage, Publish, Fail, Unprepared, CheckOwned, Unlink, Answer,
         Expire, Crash, Record, Forget, Passes, Keeps, Shape, TypeOK
  <2>2. pc'[d] = pc[d] /\ verdict'[d] = verdict[d]
    BY <1>2 DEF Step, Pin, Absent, MakeDirectory, OpenDirectory, CreateFile, CopyFile, FirstLook, Stream,
         SecondLook, Inspect, Recheck, VerifyStage, Publish, Fail, Unprepared, CheckOwned, Unlink, Answer,
         Expire, Crash, Goto, Passes, Keeps, Shape, TypeOK
  <2>3. kind'[d] = kind[d] /\ parent'[d] = parent[d]
    BY <1>2 DEF Step, Pin, Absent, MakeDirectory, OpenDirectory, CreateFile, CopyFile, FirstLook, Stream,
         SecondLook, Inspect, Recheck, VerifyStage, Publish, Fail, Unprepared, CheckOwned, Unlink, Answer,
         Expire, Crash, local, Shape, TypeOK
  <2>4. uploads'[d] = uploads[d] /\ checked'[d] = checked[d] /\ others' = others
    BY <1>2 DEF Step, Pin, Absent, MakeDirectory, OpenDirectory, CreateFile, CopyFile, FirstLook, Stream,
         SecondLook, Inspect, Recheck, VerifyStage, Publish, Fail, Unprepared, CheckOwned, Unlink, Answer,
         Expire, Crash, history, Shape, TypeOK
  <2>5. uploads'[d] <= others' /\ checked'[d] <= others'
    BY <2>4 DEF Shape, ShapeOf, CountsOf
  <2> QED
    BY <2>1, <2>2, <2>3, <2>5, StillShape DEF Shape
<1> QED
  BY <1>1, <1>2 DEF Shape

LEMMA ShapeInit == Init => Shape
<1> SUFFICES ASSUME Init PROVE Shape
  OBVIOUS
<1>1. TypeOK
  BY DownloadAssumption DEF Init, TypeOK, Range
<1>2. ASSUME NEW c \in Invocation PROVE ShapeOf(c)
  <2>1. owned[c] = <<>> /\ pc[c] = "idle" /\ verdict[c] = "none" /\ Len(owned[c]) = 0 /\ 1..Len(owned[c]) = {}
    BY DEF Init
  <2>2. CountsOf(c)
    BY DEF Init, CountsOf
  <2> QED
    BY <1>1, <2>1, <2>2, PlanIs DEF ShapeOf, RecordedInOrder, StepOf
<1> QED
  BY <1>1, <1>2 DEF Shape

LEMMA ShapeStep == Shape /\ [Next]_vars => Shape'
<1> SUFFICES ASSUME Shape, [Next]_vars PROVE Shape'
  OBVIOUS
<1>1. CASE Others
  BY <1>1, OthersShape
<1>2. ASSUME NEW c \in Invocation, Step(c) PROVE Shape'
  BY <1>2, StepShape
<1>3. CASE UNCHANGED vars
  <2>1. TypeOK'
    BY <1>3 DEF vars, places, local, history, Shape, TypeOK
  <2>2. ASSUME NEW d \in Invocation PROVE ShapeOf(d)'
    BY <1>3, StillShape DEF vars, places, local, history, Shape, ShapeOf, CountsOf
  <2> QED
    BY <2>1, <2>2 DEF Shape
<1> QED
  BY <1>1, <1>2, <1>3 DEF Next

\* Every state of every number of downloads has its types: among them that what
\* a run recorded under a directory's name is one, and under a file's name is not.
THEOREM TypeCorrect == Spec => []TypeOK
<1>1. Shape => TypeOK
  BY DEF Shape
<1> QED
  BY <1>1, ShapeInit, ShapeStep, PTL DEF Spec

-----------------------------------------------------------------------------
(* One download, with whatever else runs among the others *)

\* The histories that the properties refer to note what the others do.  A second
\* download of the model would not be noted; as one of the others it is.
OneDownload == \A c, d \in Invocation : c = d

\* A name of a directory is one entry.
Unique == \A k, l \in links : k.dir = l.dir /\ k.name = l.name => k = l

Made(c, l) == \E n \in Name(c) : l.obj = <<c, n>>
Staging(c) == pc[c] \notin {"close", "rollback", "unlink", "end"}
Published(c) == \E d \in Dir : [dir |-> d, name |-> "dest", obj |-> <<c, c>>] \in links
Stands(c) == Staging(c) \/ pc[c] = "close" \/ verdict[c] = "done" \/ Published(c)

\* While it stages, nothing of c is anywhere but where c recorded it, save the
\* directory it has made and not opened yet.
PlaceOf(c) ==
  /\ owned[c] # <<>> => owned[c][1].obj \in {folder, <<c, c>>}
  /\ \A l \in links : l.obj = <<c, c>> => l.dir \in Dir
  /\ Staging(c) => \A l \in links : Made(c, l) =>
       \/ l \in Range(owned[c])
       \/ pc[c] = "open" /\ l = Entry(c, NextName(c), <<c, NextName(c)>>)

\* What a clean rollback has not taken back is still recorded, or lies in a
\* directory that is recorded, foreign or out of sight.
LeftOf(c) ==
  (pc[c] \in {"rollback", "unlink"} /\ ~unclean[c]) \/ verdict[c] = "refused" =>
    \A l \in links : Made(c, l) =>
      \/ l \in Range(owned[c])
      \/ owned[c] # <<>> /\ l.dir = owned[c][1].obj
      \/ l.dir = folder
      \/ ~Attached(l.dir)

\* What stands is as c left it where nobody else has interfered.
StandsOf(c) ==
  Stands(c) => \A k \in 2..Len(owned[c]) :
    /\ "inside" \in drift[c] \/ owned[c][k] \in links
    /\ \/ IsDirectory(owned[c][k].name)
       \/ owned[c][k].name \in whole[c]
       \/ pc[c] = "copy" /\ k = Len(owned[c])

PublishedOf(c) == Published(c) => pc[c] \in {"close", "end"} /\ Len(owned[c]) = Len(Plan(c))

Inspected(c) == pc[c] \in {"copy", "recheck", "verify", "rename", "close"}
                  \/ (pc[c] \in {"make", "open"} /\ owned[c] # <<>>)
BodyOf(c) == Inspected(c) \/ Published(c) => Acceptable(c)

\* The two looks and the transfer between them.
WindowOf(c) ==
  /\ pc[c] \in {"stream", "relook"} /\ uploads[c] = 0 => remote = saw[c]
  /\ pc[c] = "relook" /\ body[c] # saw[c] =>
       /\ kind[c] # "package" /\ uploads[c] > 0 /\ (uploads[c] = 1 => remote = body[c])
       /\ kind[c] = "job" => listed[body[c]].size = listed[saw[c]].size
  /\ pc[c] = "inspect" \/ Inspected(c) \/ verdict[c] = "done" =>
       body[c] = saw[c] \/ Mistakable(c)

\* The checks of Commit hold as long as nobody has undone what they saw.
CommitOf(c) ==
  /\ (pc[c] \in {"verify", "rename", "close"} \/ verdict[c] = "done") /\ "path" \notin drift[c] =>
       path = parent[c]
  /\ pc[c] = "rename" /\ "stage" \notin drift[c] => owned[c][1] \in links
  /\ (pc[c] = "close" \/ verdict[c] = "done") /\ drift[c] \cap {"stage", "dest"} = {} =>
       [dir |-> parent[c], name |-> "dest", obj |-> owned[c][1].obj] \in links

\* Between the identity check and the removal nothing changes by itself.
UnlinkOf(c) == pc[c] = "unlink" /\ checked[c] = others => Last(owned[c]) \in links

IInv ==
  /\ Shape /\ Unique
  /\ \A c \in Invocation : /\ PlaceOf(c) /\ LeftOf(c) /\ StandsOf(c) /\ PublishedOf(c)
                           /\ BodyOf(c) /\ WindowOf(c) /\ CommitOf(c) /\ UnlinkOf(c)

-----------------------------------------------------------------------------
(* What the others can do *)

LEMMA OthersDo ==
  ASSUME Shape, Others
  PROVE  /\ UNCHANGED <<kind, parent, saw, body, closed, pc, ctx, owned, whole, unclean, verdict, checked>>
         /\ others' = others + 1 /\ others \in Nat
         /\ \A l \in links' \ links : l.obj \in {folder, item}
         /\ \A c \in Invocation :
              /\ drift[c] \subseteq drift'[c]
              /\ \A l \in links \ links' : Stray(c, l.dir, l.name) \subseteq drift'[c]
              /\ path' # path => "path" \in drift'[c]
              /\ (remote' = remote /\ uploads'[c] = uploads[c]) \/ uploads'[c] = uploads[c] + 1
<1>1. /\ UNCHANGED <<kind, parent, saw, body, closed, pc, ctx, owned, whole, unclean, verdict, checked>>
      /\ others' = others + 1 /\ others \in Nat
  BY DEF Others, OtherPlaces, OtherRemoves, OtherMoves, OtherUploads, Act, local, Shape, TypeOK
<1>2. CASE OtherPlaces
  <2>1. PICK d, n, o : /\ o \in {folder, item} /\ Strayed(d, n)
                       /\ links' = (links \ At(d, n)) \cup {[dir |-> d, name |-> n, obj |-> o]}
    BY <1>2 DEF OtherPlaces
  <2>2. \A l \in links' \ links : l.obj \in {folder, item}
    BY <2>1
  <2>3. \A l \in links \ links' : l.dir = d /\ l.name = n
    BY <2>1 DEF At
  <2>4. \A c \in Invocation : drift'[c] = drift[c] \cup Stray(c, d, n)
    BY <2>1 DEF Strayed
  <2>5. UNCHANGED <<path, remote, uploads>>
    BY <1>2 DEF OtherPlaces
  <2> QED
    BY <1>1, <2>2, <2>3, <2>4, <2>5
<1>3. CASE OtherRemoves
  <2>1. PICK l \in links : links' = links \ {l} /\ Strayed(l.dir, l.name)
    BY <1>3 DEF OtherRemoves
  <2>2. \A c \in Invocation : drift'[c] = drift[c] \cup Stray(c, l.dir, l.name)
    BY <2>1 DEF Strayed
  <2>3. UNCHANGED <<path, remote, uploads>>
    BY <1>3 DEF OtherRemoves
  <2> QED
    BY <1>1, <2>1, <2>2, <2>3
<1>4. CASE OtherMoves
  BY <1>1, <1>4 DEF OtherMoves
<1>5. CASE OtherUploads
  BY <1>1, <1>5 DEF OtherUploads
<1> QED
  BY <1>2, <1>3, <1>4, <1>5 DEF Others

\* Others only ever put their own objects anywhere: what is out of sight stays so.
LEMMA StaysAway ==
  ASSUME Shape, NEW o \in Directory, o # folder, ~Attached(o),
         \A l \in links' \ links : l.obj \in {folder, item}
  PROVE  ~Attached(o)'
<1>1. o # item
  BY NamesAssumption DEF Directory, Object, Staged
<1> QED
  BY <1>1 DEF Attached

LEMMA MadeIs ==
  ASSUME NEW c \in Invocation, NEW l, l.obj \in {folder, item}
  PROVE  ~Made(c, l)
BY NamesAssumption DEF Made, Name, Staged

LEMMA OthersUnique == ASSUME Shape, Unique, Others PROVE Unique'
<1>1. CASE OtherPlaces
  <2>1. PICK d, n, o : links' = (links \ At(d, n)) \cup {[dir |-> d, name |-> n, obj |-> o]}
    BY <1>1 DEF OtherPlaces
  <2> QED
    BY <2>1 DEF Unique, At
<1>2. CASE ~OtherPlaces
  BY <1>2 DEF Others, OtherRemoves, OtherMoves, OtherUploads, Unique
<1> QED
  BY <1>1, <1>2

\* What others do is told apart by the history, or touches nothing that a run
\* relies on.
LEMMA OthersStep == ASSUME IInv, Others PROVE IInv'
<1> DEFINE Same == UNCHANGED <<kind, parent, saw, body, closed, pc, ctx, owned, whole, unclean, verdict, checked>>
<1>1. /\ Same /\ others' = others + 1 /\ others \in Nat
      /\ \A l \in links' \ links : l.obj \in {folder, item}
  BY OthersDo DEF IInv
<1> SUFFICES ASSUME NEW c \in Invocation
             PROVE  /\ PlaceOf(c)' /\ LeftOf(c)' /\ StandsOf(c)' /\ PublishedOf(c)'
                    /\ BodyOf(c)' /\ WindowOf(c)' /\ CommitOf(c)' /\ UnlinkOf(c)'
  BY OthersShape, OthersUnique DEF IInv
<1>2. /\ drift[c] \subseteq drift'[c]
      /\ \A l \in links \ links' : Stray(c, l.dir, l.name) \subseteq drift'[c]
      /\ path' # path => "path" \in drift'[c]
      /\ (remote' = remote /\ uploads'[c] = uploads[c]) \/ uploads'[c] = uploads[c] + 1
  <2>1. Shape
    BY DEF IInv
  <2> QED
    BY <2>1, OthersDo
<1>3. \A l \in links' \ links : ~Made(c, l)
  BY <1>1, MadeIs
<1>4. TypeOK /\ ShapeOf(c) /\ owned[c] \in Seq(Link) /\ Len(owned[c]) \in Nat /\ uploads[c] \in Nat
  BY DEF IInv, Shape, TypeOK
<1>5. Published(c)' => Published(c)
  <2>1. \A d : LET l == [dir |-> d, name |-> "dest", obj |-> <<c, c>>] IN l \in links' => l \in links
    BY <1>3 DEF Made, Name
  <2> QED
    BY <2>1 DEF Published
<1>6. PlaceOf(c)'
  <2>1. Entry(c, NextName(c), <<c, NextName(c)>>)' = Entry(c, NextName(c), <<c, NextName(c)>>)
    BY <1>1 DEF Entry, Into, Recorded, NextName, Plan
  <2>2. \A l \in links' : Made(c, l) => l \in links
    BY <1>3
  <2>3. \A l \in links' : l.obj = <<c, c>> => l \in links
    BY <1>3 DEF Made, Name
  <2> QED
    BY <1>1, <2>1, <2>2, <2>3 DEF IInv, PlaceOf, Staging, Made
<1>7. LeftOf(c)'
  <2>1. ASSUME NEW l \in links, l.dir # folder, ~Attached(l.dir) PROVE ~Attached(l.dir)'
    <3>1. l.dir \in Directory
      BY <1>4 DEF TypeOK, Link
    <3> QED
      BY <1>1, <2>1, <3>1, StaysAway DEF IInv
  <2>2. \A l \in links' : Made(c, l) => l \in links
    BY <1>3
  <2> QED
    BY <1>1, <2>1, <2>2 DEF IInv, LeftOf, Made
<1>8. StandsOf(c)'
  <2>1. Stands(c)' => Stands(c)
    BY <1>1, <1>5 DEF Stands, Staging
  <2>2. ASSUME NEW k \in 2..Len(owned[c]), owned[c][k] \in links, owned[c][k] \notin links'
        PROVE  "inside" \in drift'[c]
    <3>1. owned[c][k].dir = DirectoryOf(c, k) /\ 1 \in 1..Len(owned[c]) /\ (k = 4 => 2 \in 1..Len(owned[c]))
      BY <1>4 DEF ShapeOf, RecordedInOrder
    <3>2. owned[c][k].dir \in {e.obj : e \in Range(owned[c])}
      <4>1. \A j \in 1..Len(owned[c]) : owned[c][j] \in Range(owned[c])
        BY <1>4, Ranged
      <4>2. DirectoryOf(c, k) = owned[c][1].obj \/ (k = 4 /\ DirectoryOf(c, k) = owned[c][2].obj)
        BY DEF DirectoryOf
      <4> QED
        BY <3>1, <4>1, <4>2
    <3>3. "inside" \in Stray(c, owned[c][k].dir, owned[c][k].name)
      BY <3>2 DEF Stray
    <3> QED
      BY <1>2, <2>2, <3>3
  <2> QED
    BY <1>1, <1>2, <2>1, <2>2 DEF IInv, StandsOf
<1>9. PublishedOf(c)'
  <2>1. Plan(c)' = Plan(c)
    BY <1>1 DEF Plan
  <2> QED
    BY <1>1, <1>5, <2>1 DEF IInv, PublishedOf
<1>10. BodyOf(c)'
  BY <1>1, <1>5 DEF IInv, BodyOf, Inspected, Acceptable
<1>11. WindowOf(c)'
  <2>1. Mistakable(c) => Mistakable(c)'
    BY <1>1, <1>2, <1>4 DEF Mistakable, SameMetadata
  <2> QED
    BY <1>1, <1>2, <1>4, <2>1 DEF IInv, WindowOf, Inspected
<1>12. CommitOf(c)'
  <2>1. "stage" \notin drift'[c] => \A l \in links : l.name = c => l \in links'
    BY <1>2 DEF Stray
  <2>2. "dest" \notin drift'[c] => \A l \in links : l.name = "dest" => l \in links'
    BY <1>2 DEF Stray
  <2>3. pc[c] = "rename" => owned[c][1].name = c
    <3>1. pc[c] = "rename" => 1 \in 1..Len(owned[c])
      BY <1>4, PlanIs DEF ShapeOf, StepOf
    <3> QED
      BY <1>4, <3>1, PlanIs DEF ShapeOf, RecordedInOrder
  <2>4. \A x \in {"path", "stage", "dest"} : x \notin drift'[c] => x \notin drift[c]
    BY <1>2
  <2> QED
    BY <1>1, <1>2, <2>1, <2>2, <2>3, <2>4 DEF IInv, CommitOf
<1>13. UnlinkOf(c)'
  <2>1. checked[c] <= others /\ checked[c] \in Nat
    BY <1>4 DEF ShapeOf, CountsOf, TypeOK
  <2> QED
    BY <1>1, <2>1 DEF UnlinkOf
<1> QED
  BY <1>6, <1>7, <1>8, <1>9, <1>10, <1>11, <1>12, <1>13

-----------------------------------------------------------------------------
(* What a run's steps do, each by itself *)

\* The names of a step's effects that the invariants ask for.
LEMMA RunDoes ==
  ASSUME Shape, NEW c \in Invocation, Step(c)
  PROVE  /\ pc[c] # "end" /\ verdict[c] = "none"
         /\ UNCHANGED <<kind, path, remote>>
         /\ links' = links \/ MakeDirectory(c) \/ CreateFile(c) \/ Publish(c) \/ Unlink(c)
         /\ owned' = owned \/ OpenDirectory(c) \/ CreateFile(c) \/ CheckOwned(c) \/ Unlink(c)
         /\ others' = others
         /\ Plan(c)' = Plan(c)
<1>1. pc[c] # "end"
  BY DEF Step, Pin, Absent, MakeDirectory, OpenDirectory, CreateFile, CopyFile, FirstLook, Stream,
       SecondLook, Inspect, Recheck, VerifyStage, Publish, Fail, Unprepared, CheckOwned, Unlink, Answer,
       Expire, Crash, Preparing, Heeds, Started
<1>2. verdict[c] = "none"
  BY <1>1 DEF Shape, ShapeOf, StepOf
<1>3. UNCHANGED <<kind, path, remote>> /\ others' = others
  BY DEF Step, Pin, Absent, MakeDirectory, OpenDirectory, CreateFile, CopyFile, FirstLook, Stream,
       SecondLook, Inspect, Recheck, VerifyStage, Publish, Fail, Unprepared, CheckOwned, Unlink, Answer,
       Expire, Crash, places, local, history
<1>4. links' = links \/ MakeDirectory(c) \/ CreateFile(c) \/ Publish(c) \/ Unlink(c)
  BY DEF Step, Pin, Absent, MakeDirectory, OpenDirectory, CreateFile, CopyFile, FirstLook, Stream,
       SecondLook, Inspect, Recheck, VerifyStage, Publish, Fail, Unprepared, CheckOwned, Unlink, Answer,
       Expire, Crash, places
<1>5. owned' = owned \/ OpenDirectory(c) \/ CreateFile(c) \/ CheckOwned(c) \/ Unlink(c)
  BY DEF Step, Pin, Absent, MakeDirectory, OpenDirectory, CreateFile, CopyFile, FirstLook, Stream,
       SecondLook, Inspect, Recheck, VerifyStage, Publish, Fail, Unprepared, CheckOwned, Unlink, Answer,
       Expire, Crash
<1> QED
  BY <1>1, <1>2, <1>3, <1>4, <1>5 DEF Plan

\* The entry that is opened, made or taken back.
LEMMA OpenDoes ==
  ASSUME Shape, NEW c \in Invocation, OpenDirectory(c)
  PROVE  \E l \in links :
           /\ l.obj \in Directory /\ l.dir = Into(c, NextName(c)) /\ l.name = NextName(c)
           /\ Len(owned[c]) \in Nat /\ Len(owned'[c]) = Len(owned[c]) + 1
           /\ Range(owned'[c]) = Range(owned[c]) \cup {l}
           /\ \A k \in 1..Len(owned[c]) : owned'[c][k] = owned[c][k]
           /\ owned'[c][Len(owned[c]) + 1] = l
           /\ owned'[c] # <<>>
<1>1. PICK l \in Place(c) : l.obj \in Directory /\ Record(c, l)
  BY DEF OpenDirectory
<1>2. Len(owned[c]) < Len(Plan(c)) /\ IsDirectory(NextName(c)) /\ RecordedInOrder(c) /\ TypeOK
  BY DEF OpenDirectory, Shape, ShapeOf, StepOf
<1>3. l \in links /\ l \in Link /\ l.dir = Into(c, NextName(c)) /\ l.name = NextName(c)
  BY <1>2 DEF Place, At, TypeOK
<1>4. UNCHANGED <<kind, parent>>
  BY DEF OpenDirectory, local
<1> QED
  BY <1>1, <1>2, <1>3, <1>4, Records

LEMMA CreateDoes ==
  ASSUME Shape, NEW c \in Invocation, CreateFile(c)
  PROVE  \E l \in Link :
           /\ links' = links \cup {l} /\ l = Entry(c, NextName(c), <<c, NextName(c)>>)
           /\ NextName(c) \in Staged /\ ~IsDirectory(NextName(c))
           /\ Len(owned[c]) \in Nat /\ Len(owned'[c]) = Len(owned[c]) + 1 /\ Len(owned[c]) > 0
           /\ Range(owned'[c]) = Range(owned[c]) \cup {l}
           /\ \A k \in 1..Len(owned[c]) : owned'[c][k] = owned[c][k]
           /\ owned'[c][Len(owned[c]) + 1] = l
           /\ owned'[c] # <<>> /\ owned[c] # <<>>
<1> DEFINE l == Entry(c, NextName(c), <<c, NextName(c)>>)
<1>1. Record(c, l) /\ links' = links \cup {l} /\ ~IsDirectory(NextName(c))
  BY DEF CreateFile
<1>2. Len(owned[c]) < Len(Plan(c)) /\ RecordedInOrder(c) /\ TypeOK
  BY DEF CreateFile, Shape, ShapeOf, StepOf
<1>3. l \in Link /\ (IsDirectory(NextName(c)) <=> l.obj \in Directory)
  BY <1>2, EntryTyped DEF Entry
<1>4. UNCHANGED <<kind, parent>> /\ l.dir = Into(c, NextName(c)) /\ l.name = NextName(c)
  BY DEF CreateFile, local, Entry
<1>5. /\ Len(owned[c]) \in Nat /\ Len(owned'[c]) = Len(owned[c]) + 1
      /\ Range(owned'[c]) = Range(owned[c]) \cup {l}
      /\ \A k \in 1..Len(owned[c]) : owned'[c][k] = owned[c][k]
      /\ owned'[c][Len(owned[c]) + 1] = l
      /\ owned'[c] # <<>>
  <2> HIDE DEF l
  <2> QED
    BY <1>1, <1>2, <1>3, <1>4, Records
<1>6. Len(owned[c]) # 0
  <2>1. Len(owned[c]) = 0 => IsDirectory(NextName(c))
    BY <1>2, PlanIs DEF NextName
  <2> QED
    BY <1>1, <2>1
<1>7. Len(owned[c]) > 0 /\ owned[c] # <<>>
  BY <1>5, <1>6
<1>8. NextName(c) \in Staged
  BY <1>1 DEF IsDirectory, Staged
<1> QED
  BY <1>1, <1>3, <1>5, <1>7, <1>8

\* mkdirat makes the one entry that is not recorded yet.
LEMMA MakeDoes ==
  ASSUME Shape, NEW c \in Invocation, MakeDirectory(c)
  PROVE  /\ links' = links \cup {Entry(c, NextName(c), <<c, NextName(c)>>)}
         /\ Entry(c, NextName(c), <<c, NextName(c)>>) \in Link
         /\ NextName(c) \in Name(c) /\ NextName(c) # "dest" /\ UNCHANGED <<owned, parent, kind>>
         /\ Entry(c, NextName(c), <<c, NextName(c)>>)' = Entry(c, NextName(c), <<c, NextName(c)>>)
<1>1. Len(owned[c]) < Len(Plan(c)) /\ RecordedInOrder(c) /\ TypeOK
  BY DEF MakeDirectory, Shape, ShapeOf, StepOf
<1>2. UNCHANGED <<owned, parent, kind>>
  BY DEF MakeDirectory, local
<1>3. Entry(c, NextName(c), <<c, NextName(c)>>)' = Entry(c, NextName(c), <<c, NextName(c)>>)
  BY <1>2 DEF Entry, Into, Recorded, NextName, Plan
<1>4. NextName(c) \in Name(c) /\ NextName(c) # "dest"
  BY <1>1, IntoIs, NamesAssumption DEF Name, Staged
<1> QED
  BY <1>1, <1>2, <1>3, <1>4, EntryTyped DEF MakeDirectory

\* rename gives one entry of the parent, the one with the staging name, the name
\* that was free.
LEMMA PublishDoes ==
  ASSUME Shape, NEW c \in Invocation, Publish(c)
  PROVE  \E l \in links :
           /\ l.dir = parent[c] /\ l.name = c /\ parent[c] \in Dir
           /\ links' = (links \ {l}) \cup {[dir |-> parent[c], name |-> "dest", obj |-> l.obj]}
           /\ \A k \in links : ~(k.dir = parent[c] /\ k.name = "dest")
<1>1. At(parent[c], "dest") = {} /\ parent[c] \in Dir /\ links \subseteq Link
  BY DEF Publish, Free, Shape, TypeOK
<1>2. PICK l \in At(parent[c], c) :
        links' = (links \ (At(parent[c], "dest") \cup {l})) \cup {[l EXCEPT !.name = "dest"]}
  BY DEF Publish
<1>3. l \in links /\ l.dir = parent[c] /\ l.name = c /\ l \in Link
  BY <1>1, <1>2 DEF At
<1>4. [l EXCEPT !.name = "dest"] = [dir |-> parent[c], name |-> "dest", obj |-> l.obj]
  BY <1>3 DEF Link
<1>5. \A k \in links : ~(k.dir = parent[c] /\ k.name = "dest")
  BY <1>1 DEF At
<1> QED
  BY <1>1, <1>2, <1>3, <1>4, <1>5

\* One step of the rollback: an entry that is passed over is gone.
LEMMA ReverseDoes ==
  ASSUME Shape, Unique, NEW c \in Invocation, CheckOwned(c) \/ Unlink(c)
  PROVE  /\ links' \subseteq links /\ owned[c] # <<>> /\ pc[c] \in {"rollback", "unlink"}
         /\ pc'[c] \in {"rollback", "unlink"} /\ UNCHANGED <<parent, kind, verdict>>
         /\ \/ owned' = owned /\ links' = links /\ unclean' = unclean
            \/ Forget(c) /\ unclean'[c]
            \/ Forget(c) /\ unclean' = unclean /\ Last(owned[c]) \notin links'
<1>1. /\ owned[c] # <<>> /\ pc[c] \in {"rollback", "unlink"} /\ UNCHANGED <<parent, kind, verdict>>
      /\ pc'[c] \in {"rollback", "unlink"} /\ links' \subseteq links
  BY DEF CheckOwned, Unlink, Passes, Keeps, Goto, places, local, Shape, ShapeOf, StepOf, TypeOK
<1>2. Keeps(c) => Forget(c) /\ unclean'[c]
  BY DEF Keeps, Shape, TypeOK
<1>3. CASE CheckOwned(c)
  <2>1. At(Last(owned[c]).dir, Last(owned[c]).name) = {} => Last(owned[c]) \notin links
    BY DEF At
  <2>2. links' = links
    BY <1>3 DEF CheckOwned, places
  <2> QED
    BY <1>1, <1>2, <1>3, <2>1, <2>2 DEF CheckOwned, Passes
<1>4. CASE Unlink(c)
  <2> DEFINE e == Last(owned[c])
             gone == {l \in At(e.dir, e.name) : Unlinks(e, l)}
  <2>1. links' = links \ gone /\ IF gone = {} THEN Keeps(c) ELSE Passes(c)
    BY <1>4 DEF Unlink
  <2>2. gone # {} /\ e \in links => e \in gone
    BY DEF Unique, At
  <2> QED
    BY <1>1, <1>2, <2>1, <2>2 DEF Passes
<1> QED
  BY <1>3, <1>4

-----------------------------------------------------------------------------
(* What each of the run's steps keeps *)

LEMMA UniqueStep == ASSUME IInv, NEW c \in Invocation, Step(c) PROVE Unique'
<1>1. CASE MakeDirectory(c) \/ CreateFile(c)
  <2> DEFINE l == Entry(c, NextName(c), <<c, NextName(c)>>)
  <2>1. links' = links \cup {l} /\ \A k \in links : ~(k.dir = l.dir /\ k.name = l.name)
    BY <1>1 DEF MakeDirectory, CreateFile, Place, At, Entry
  <2> HIDE DEF l
  <2> QED
    BY <2>1 DEF IInv, Unique
<1>2. CASE Publish(c)
  BY <1>2, PublishDoes DEF IInv, Unique
<1>3. CASE links' \subseteq links
  BY <1>3 DEF IInv, Unique
<1> QED
  BY <1>1, <1>2, <1>3, RunDoes, ReverseDoes DEF IInv

LEMMA PlaceStep == ASSUME OneDownload, IInv, NEW c \in Invocation, Step(c) PROVE PlaceOf(c)'
<1>a. /\ TypeOK /\ ShapeOf(c) /\ Shape /\ PlaceOf(c) /\ Unique /\ owned[c] \in Seq(Link) /\ Len(owned[c]) \in Nat
      /\ (owned[c] = <<>> <=> Len(owned[c]) = 0) /\ links \subseteq Link
  BY DEF IInv, Shape, TypeOK
<1>b. c \notin Staged
  BY NamesAssumption
<1>1. owned'[c] # <<>> => owned'[c][1].obj \in {folder, <<c, c>>}
  <2>1. CASE owned' = owned
    BY <1>a, <2>1 DEF PlaceOf
  <2>2. CASE OpenDirectory(c)
    <3>1. PICK l \in links :
             /\ l.obj \in Directory /\ l.name = NextName(c)
             /\ \A k \in 1..Len(owned[c]) : owned'[c][k] = owned[c][k]
             /\ owned'[c][Len(owned[c]) + 1] = l
      BY <1>a, <2>2, OpenDoes
    <3>2. CASE owned[c] # <<>>
      BY <1>a, <3>1, <3>2 DEF PlaceOf
    <3>3. CASE owned[c] = <<>>
      <4>1. NextName(c) = c /\ owned'[c][1] = l
        BY <1>a, <3>1, <3>3, PlanIs DEF NextName
      <4>2. l.obj = folder \/ (l.obj \in {<<c, "sub">>, <<c, c>>})
        <5>1. l.obj \notin Dir
          BY <1>a, NamesAssumption DEF Link
        <5> QED
          BY <3>1, <5>1 DEF Directory, OneDownload
      <4>3. l.obj = <<c, "sub">> => FALSE
        <5>1. l.obj = <<c, "sub">> => Made(c, l)
          BY DEF Made, Name, Staged
        <5>2. Range(owned[c]) = {}
          BY <3>3 DEF Range
        <5>3. l.obj = <<c, "sub">> => l = Entry(c, c, <<c, c>>)
          BY <1>a, <2>2, <4>1, <5>1, <5>2 DEF PlaceOf, Staging, OpenDirectory
        <5> QED
          BY <1>b, <5>3 DEF Entry, Staged
      <4> QED
        BY <4>1, <4>2, <4>3
    <3> QED
      BY <3>2, <3>3
  <2>3. CASE CreateFile(c)
    BY <1>a, <2>3, CreateDoes DEF PlaceOf
  <2>4. CASE CheckOwned(c) \/ Unlink(c)
    <3>1. owned' = owned \/ (Forget(c) /\ UNCHANGED <<kind, parent>>)
      BY <1>a, <2>4, ReverseDoes
    <3>2. owned'[c] # <<>> => owned[c] # <<>> /\ owned'[c][1] = owned[c][1]
      BY <1>a, <2>4, <3>1, Forgets, ReverseDoes DEF ShapeOf
    <3> QED
      BY <1>a, <3>2 DEF PlaceOf
  <2> QED
    BY <1>a, <2>1, <2>2, <2>3, <2>4, RunDoes
<1>2. \A l \in links' : l.obj = <<c, c>> => l.dir \in Dir
  <2>1. CASE links' \subseteq links
    BY <1>a, <2>1 DEF PlaceOf
  <2>2. CASE MakeDirectory(c) \/ CreateFile(c)
    <3> DEFINE l == Entry(c, NextName(c), <<c, NextName(c)>>)
    <3>1. links' = links \cup {l}
      BY <2>2 DEF MakeDirectory, CreateFile
    <3>2. l.obj = <<c, c>> => l.dir = parent[c]
      <4>1. Into(c, c) = parent[c]
        BY <1>b DEF Into, Staged
      <4> QED
        BY <4>1 DEF Entry
    <3>3. parent[c] \in Dir
      BY <1>a DEF TypeOK
    <3> QED
      BY <1>a, <3>1, <3>2, <3>3 DEF PlaceOf
  <2>3. CASE Publish(c)
    BY <1>a, <2>3, PublishDoes DEF PlaceOf
  <2> QED
    BY <1>a, <2>1, <2>2, <2>3, RunDoes, ReverseDoes
<1>3. ASSUME Staging(c)', NEW l \in links', Made(c, l)
      PROVE  \/ l \in Range(owned'[c])
             \/ pc'[c] = "open" /\ l = Entry(c, NextName(c), <<c, NextName(c)>>)'
  <2>1. CASE MakeDirectory(c)
    <3>1. pc[c] = "make" /\ pc'[c] = "open" /\ Staging(c)
      BY <1>a, <2>1 DEF MakeDirectory, Goto, TypeOK, Staging
    <3> QED
      BY <1>a, <1>3, <2>1, <3>1, MakeDoes DEF PlaceOf
  <2>2. CASE CreateFile(c)
    <3>1. pc[c] = "make" /\ Staging(c)
      BY <2>2 DEF CreateFile, Staging
    <3> QED
      BY <1>a, <1>3, <2>2, <3>1, CreateDoes DEF PlaceOf
  <2>3. CASE OpenDirectory(c)
    <3>1. PICK k \in links :
             /\ k.dir = Into(c, NextName(c)) /\ k.name = NextName(c)
             /\ Range(owned'[c]) = Range(owned[c]) \cup {k}
      BY <1>a, <2>3, OpenDoes
    <3>2. links' = links /\ pc[c] = "open" /\ Staging(c)
      BY <2>3 DEF OpenDirectory, places, Staging
    <3>3. l \in Range(owned[c]) \/ l = Entry(c, NextName(c), <<c, NextName(c)>>)
      BY <1>a, <1>3, <3>2 DEF PlaceOf
    <3>4. l = Entry(c, NextName(c), <<c, NextName(c)>>) => l = k
      BY <1>a, <3>1, <3>2 DEF Entry, Unique
    <3> QED
      BY <3>1, <3>3, <3>4
  <2>4. CASE Expire(c)
    <3>1. UNCHANGED <<owned, parent, kind, links, pc>>
      BY <2>4 DEF Expire, places, local
    <3>2. Entry(c, NextName(c), <<c, NextName(c)>>)' = Entry(c, NextName(c), <<c, NextName(c)>>)
      BY <3>1 DEF Entry, Into, Recorded, NextName, Plan
    <3> QED
      BY <1>a, <1>3, <3>1, <3>2 DEF PlaceOf, Staging
  <2>5. CASE /\ links' = links /\ owned' = owned /\ pc[c] # "open" /\ Staging(c)
    BY <1>a, <1>3, <2>5 DEF PlaceOf
  <2>6. \/ MakeDirectory(c) \/ CreateFile(c) \/ OpenDirectory(c) \/ Expire(c)
        \/ links' = links /\ owned' = owned /\ pc[c] # "open" /\ Staging(c)
    <3>1. \/ MakeDirectory(c) \/ CreateFile(c) \/ OpenDirectory(c) \/ Expire(c)
          \/ pc'[c] \notin {"close", "rollback", "unlink", "end"} /\ pc[c] # "open" /\ Staging(c)
      BY <1>a, <1>3 DEF Step, Pin, Absent, CopyFile, FirstLook, Stream, SecondLook, Inspect, Recheck, VerifyStage, Fail,
       Unprepared, Answer, Expire, Crash, Publish, CheckOwned, Unlink, Keeps, Passes, Goto,
         Staging, Preparing, Heeds, TypeOK
    <3> QED
      BY <1>a, <3>1, RunDoes, ReverseDoes, <1>3 DEF Staging, Publish, Goto, TypeOK
  <2> QED
    BY <2>1, <2>2, <2>3, <2>4, <2>5, <2>6
<1> QED
  BY <1>1, <1>2, <1>3 DEF PlaceOf, Made

LEMMA PublishedStep ==
  ASSUME IInv, NEW c \in Invocation, Step(c)
  PROVE  /\ PublishedOf(c)'
         /\ Published(c)' => Publish(c) \/ Published(c)
         /\ pc[c] \notin {"close", "end"} => ~Published(c)
<1>a. Shape /\ TypeOK /\ ShapeOf(c) /\ PublishedOf(c)
  BY DEF IInv, Shape
<1>1. Published(c)' => Publish(c) \/ Published(c)
  <2>1. CASE links' \subseteq links
    BY <2>1 DEF Published
  <2>2. CASE MakeDirectory(c)
    <3>1. Entry(c, NextName(c), <<c, NextName(c)>>).name # "dest"
      BY <1>a, <2>2, MakeDoes DEF Entry
    <3>2. links' = links \cup {Entry(c, NextName(c), <<c, NextName(c)>>)}
      BY <1>a, <2>2, MakeDoes
    <3> HIDE DEF Entry
    <3> QED
      BY <3>1, <3>2 DEF Published
  <2>3. CASE CreateFile(c)
    <3>1. NextName(c) # "dest"
      BY <1>a, <2>3, CreateDoes DEF Staged
    <3> QED
      BY <1>a, <2>3, <3>1, CreateDoes DEF Published, Entry
  <2> QED
    BY <1>a, <2>1, <2>2, <2>3, RunDoes, ReverseDoes DEF IInv
<1>2. PublishedOf(c)'
  <2>1. CASE Publish(c)
    <3>1. Plan(c)' = Plan(c) /\ owned' = owned /\ pc'[c] = "close" /\ pc[c] = "rename"
      BY <1>a, <2>1, RunDoes DEF Publish, Goto, TypeOK, Step
    <3> QED
      BY <1>a, <3>1 DEF PublishedOf, ShapeOf, StepOf
  <2>2. CASE Published(c)
    <3>1. pc[c] \in {"close", "end"} /\ Len(owned[c]) = Len(Plan(c))
      BY <1>a, <2>2 DEF PublishedOf
    <3>2. Answer(c) \/ Expire(c) \/ Crash(c)
      BY <3>1 DEF Step, Pin, Absent, MakeDirectory, OpenDirectory, CreateFile, CopyFile, FirstLook, Stream,
       SecondLook, Inspect, Recheck, VerifyStage, Publish, Fail, Unprepared, Preparing, Heeds, CheckOwned, Unlink
    <3>3. owned' = owned /\ pc'[c] \in {"close", "end"}
      BY <1>a, <3>1, <3>2 DEF Answer, Expire, Crash, Goto, TypeOK
    <3> QED
      BY <1>a, <3>1, <3>3, RunDoes DEF PublishedOf
  <2> QED
    BY <1>1, <2>1, <2>2 DEF PublishedOf
<1> QED
  BY <1>a, <1>1, <1>2 DEF PublishedOf

LEMMA LeftStep == ASSUME OneDownload, IInv, NEW c \in Invocation, Step(c) PROVE LeftOf(c)'
<1>a. /\ TypeOK /\ ShapeOf(c) /\ Shape /\ Unique /\ PlaceOf(c) /\ LeftOf(c) /\ owned[c] \in Seq(Link)
      /\ links \subseteq Link /\ PublishedOf(c)
  BY DEF IInv, Shape, TypeOK
<1> SUFFICES ASSUME (pc'[c] \in {"rollback", "unlink"} /\ ~unclean'[c]) \/ verdict'[c] = "refused",
                    NEW l \in links', Made(c, l)
             PROVE  \/ l \in Range(owned'[c])
                    \/ owned'[c] # <<>> /\ l.dir = owned'[c][1].obj
                    \/ l.dir = folder
                    \/ ~Attached(l.dir)'
  BY DEF LeftOf, Made
<1>1. Fail(c) \/ CheckOwned(c) \/ Unlink(c) \/ Answer(c) \/ Expire(c)
  BY <1>a, RunDoes DEF Step, Pin, Absent, CopyFile, FirstLook, Stream, SecondLook, Inspect, Recheck,
     VerifyStage, Unprepared, Crash, MakeDirectory, OpenDirectory, CreateFile, Publish,
     Goto, AfterMaking, TypeOK
<1>2. CASE Fail(c)
  <2>1. owned' = owned /\ links' = links /\ Staging(c) /\ ~Preparing(c)
    BY <1>2 DEF Fail, places, Heeds, Staging
  <2>2. ASSUME pc[c] = "open", l = Entry(c, NextName(c), <<c, NextName(c)>>)
        PROVE  owned[c] # <<>> /\ l.dir = owned[c][1].obj
    <3>1. owned[c] # <<>> /\ Len(owned[c]) \in Nat \ {0} /\ Len(owned[c]) < Len(Plan(c)) /\ IsDirectory(NextName(c))
      BY <1>a, <2>1, <2>2 DEF Preparing, ShapeOf, StepOf
    <3>2. Len(owned[c]) = 1
      <4>1. Len(owned[c]) = 2 => NextName(c) = "top"
        BY <1>a, <3>1, PlanIs DEF NextName
      <4>2. Len(owned[c]) = 3 => NextName(c) = "inner"
        BY <1>a, <3>1, PlanIs DEF NextName
      <4>3. Len(Plan(c)) \in {2, 4}
        BY <1>a, PlanIs
      <4>4. \A m \in {2, 4} : \A n \in Nat \ {0} : n < m => n \in {1, 2, 3}
        OBVIOUS
      <4>5. Len(owned[c]) \in {1, 2, 3}
        BY <3>1, <4>3, <4>4
      <4> QED
        BY <3>1, <4>1, <4>2, <4>5 DEF IsDirectory
    <3>3. l.dir = DirectoryOf(c, 2)
      <4>1. Into(c, NextName(c)) = DirectoryOf(c, Len(owned[c]) + 1)
        BY <1>a, <3>1, IntoIs DEF ShapeOf
      <4> QED
        BY <2>2, <3>2, <4>1 DEF Entry
    <3> QED
      BY <3>1, <3>3 DEF DirectoryOf
  <2> QED
    BY <1>a, <2>1, <2>2 DEF PlaceOf
<1>3. CASE CheckOwned(c) \/ Unlink(c)
  <2>1. /\ l \in links /\ owned[c] # <<>> /\ pc[c] \in {"rollback", "unlink"} /\ links' \subseteq links
        /\ UNCHANGED <<kind, parent, verdict>> /\ verdict[c] = "none"
    BY <1>a, <1>3, ReverseDoes, RunDoes
  <2>2. ~unclean'[c]
    BY <2>1
  <2>3. ~Attached(l.dir) => ~Attached(l.dir)'
    BY <2>1 DEF Attached
  <2>4. CASE owned' = owned /\ unclean' = unclean
    BY <1>a, <2>1, <2>2, <2>3, <2>4 DEF LeftOf
  <2>5. CASE Forget(c) /\ unclean' = unclean /\ Last(owned[c]) \notin links'
    <3>1. /\ Range(owned[c]) = Range(owned'[c]) \cup {Last(owned[c])}
          /\ owned'[c] # <<>> => owned'[c][1] = owned[c][1]
          /\ owned'[c] = <<>> => Last(owned[c]) = owned[c][1]
      BY <1>a, <2>1, <2>5, Forgets DEF ShapeOf
    <3>2. \/ l \in Range(owned[c])
          \/ l.dir = owned[c][1].obj
          \/ l.dir = folder
          \/ ~Attached(l.dir)
      BY <1>a, <2>1, <2>2, <2>5 DEF LeftOf
    <3>3. CASE owned'[c] # <<>>
      BY <2>3, <2>5, <3>1, <3>2, <3>3
    <3>4. ASSUME owned'[c] = <<>>, l.dir = owned[c][1].obj, l.dir # folder PROVE ~Attached(l.dir)'
      <4>1. l.dir = <<c, c>> /\ <<c, c>> \notin Dir
        <5>1. l.dir = <<c, c>>
          BY <1>a, <2>1, <3>4 DEF PlaceOf
        <5>2. <<c, c>> \in Object
          BY DEF Object
        <5> QED
          BY <5>1, <5>2, NamesAssumption
      <4>2. ASSUME NEW k \in links', k.obj = <<c, c>> PROVE FALSE
        <5>1. k \in links /\ k.dir \in Dir /\ Made(c, k)
          BY <1>a, <2>1, <4>2 DEF PlaceOf, Made, Name
        <5>2. Attached(k.dir)
          BY <5>1 DEF Attached
        <5>3. folder \notin Dir
          BY NamesAssumption DEF Object
        <5>4. \/ k \in Range(owned[c])
              \/ k.dir = owned[c][1].obj
          BY <1>a, <2>1, <2>2, <2>5, <5>1, <5>2, <5>3 DEF LeftOf
        <5>5. k \in Range(owned[c])
          BY <3>4, <4>1, <5>1, <5>4
        <5>6. Range(owned'[c]) = {}
          BY <3>4 DEF Range
        <5> QED
          BY <2>5, <3>1, <5>5, <5>6, <4>2
      <4> QED
        BY <4>1, <4>2 DEF Attached
    <3> QED
      BY <2>3, <2>5, <3>1, <3>2, <3>3, <3>4
  <2> QED
    BY <1>a, <1>3, <2>2, <2>4, <2>5, ReverseDoes
<1>4. CASE Answer(c)
  <2>1. owned' = owned /\ links' = links /\ pc'[c] = "end" /\ verdict'[c] = "refused"
    BY <1>a, <1>4 DEF Answer, places, Goto, TypeOK
  <2>2. pc[c] = "rollback" /\ ~unclean[c]
    BY <1>a, <1>4, <2>1 DEF Answer, TypeOK
  <2> QED
    BY <1>a, <2>1, <2>2 DEF LeftOf, Attached
<1>5. CASE Expire(c)
  <2>1. UNCHANGED <<owned, links, pc, verdict, unclean>>
    BY <1>5 DEF Expire, places
  <2> QED
    BY <1>a, <2>1 DEF LeftOf, Attached
<1> QED
  BY <1>1, <1>2, <1>3, <1>4, <1>5

LEMMA StandsStep == ASSUME IInv, NEW c \in Invocation, Step(c) PROVE StandsOf(c)'
<1>a. /\ TypeOK /\ ShapeOf(c) /\ Shape /\ StandsOf(c) /\ owned[c] \in Seq(Link) /\ Len(owned[c]) \in Nat
      /\ verdict[c] = "none" /\ pc[c] # "end"
  BY RunDoes DEF IInv, Shape, TypeOK
<1>b. Stands(c)' => Stands(c)
  <2>1. Published(c)' => Stands(c)
    BY PublishedStep DEF Stands, Staging, Publish
  <2>2. verdict'[c] = "done" => pc[c] = "close"
    BY <1>a DEF Step, Pin, Absent, MakeDirectory, OpenDirectory, CreateFile, CopyFile, FirstLook, Stream,
       SecondLook, Inspect, Recheck, VerifyStage, Publish, Fail, Unprepared, CheckOwned, Unlink, Answer,
       Expire, Crash, TypeOK
  <2>3. Staging(c)' => Staging(c)
    BY <1>a DEF Step, Pin, Absent, MakeDirectory, OpenDirectory, CreateFile, CopyFile, FirstLook, Stream,
       SecondLook, Inspect, Recheck, VerifyStage, Publish, Fail, Unprepared, CheckOwned, Unlink, Answer,
       Expire, Crash, Staging, Goto, Keeps, Passes, TypeOK
  <2>4. pc'[c] = "close" => pc[c] \in {"rename", "close"}
    BY <1>a DEF Step, Pin, Absent, MakeDirectory, OpenDirectory, CreateFile, CopyFile, FirstLook, Stream,
       SecondLook, Inspect, Recheck, VerifyStage, Publish, Fail, Unprepared, CheckOwned, Unlink, Answer,
       Expire, Crash, Goto, Keeps, Passes, AfterMaking, TypeOK
  <2> QED
    BY <2>1, <2>2, <2>3, <2>4 DEF Stands, Staging
<1>c. "inside" \in drift[c] => "inside" \in drift'[c]
  BY <1>a DEF Step, Pin, Absent, MakeDirectory, OpenDirectory, CreateFile, CopyFile, FirstLook, Stream,
       SecondLook, Inspect, Recheck, VerifyStage, Publish, Fail, Unprepared, CheckOwned, Unlink, Answer,
       Expire, Crash, Clears, history, TypeOK
<1>d. whole[c] \subseteq whole'[c]
  BY <1>a DEF Step, Pin, Absent, MakeDirectory, OpenDirectory, CreateFile, CopyFile, FirstLook, Stream,
       SecondLook, Inspect, Recheck, VerifyStage, Publish, Fail, Unprepared, CheckOwned, Unlink, Answer,
       Expire, Crash, TypeOK
<1>e. Stands(c)' => pc[c] \notin {"rollback", "unlink"}
  BY PublishedStep, <1>a, <1>b DEF Stands, Staging
<1> SUFFICES ASSUME Stands(c)', NEW k \in 2..Len(owned'[c])
             PROVE  /\ "inside" \in drift'[c] \/ owned'[c][k] \in links'
                    /\ \/ IsDirectory(owned'[c][k].name)
                       \/ owned'[c][k].name \in whole'[c]
                       \/ pc'[c] = "copy" /\ k = Len(owned'[c])
  BY DEF StandsOf
<1>1. CASE CreateFile(c)
  <2>1. PICK l \in Link :
           /\ links' = links \cup {l}
           /\ Len(owned'[c]) = Len(owned[c]) + 1
           /\ \A j \in 1..Len(owned[c]) : owned'[c][j] = owned[c][j]
           /\ owned'[c][Len(owned[c]) + 1] = l
    BY <1>a, <1>1, CreateDoes
  <2>2. pc[c] = "make" /\ pc'[c] = "copy"
    BY <1>a, <1>1 DEF CreateFile, Goto, TypeOK
  <2>3. CASE k = Len(owned'[c])
    BY <1>a, <2>1, <2>2, <2>3
  <2>4. CASE k # Len(owned'[c])
    <3>1. k \in 2..Len(owned[c]) /\ owned'[c][k] = owned[c][k]
      BY <1>a, <2>1, <2>4
    <3>2. /\ "inside" \in drift[c] \/ owned[c][k] \in links
          /\ IsDirectory(owned[c][k].name) \/ owned[c][k].name \in whole[c]
      BY <1>a, <1>b, <2>2, <3>1 DEF StandsOf
    <3> QED
      BY <1>c, <1>d, <2>1, <3>1, <3>2
  <2> QED
    BY <2>3, <2>4
<1>2. CASE OpenDirectory(c)
  <2>1. PICK l \in links :
           /\ l.name = NextName(c)
           /\ Len(owned'[c]) = Len(owned[c]) + 1
           /\ \A j \in 1..Len(owned[c]) : owned'[c][j] = owned[c][j]
           /\ owned'[c][Len(owned[c]) + 1] = l
    BY <1>a, <1>2, OpenDoes
  <2>2. pc[c] = "open" /\ links' = links /\ IsDirectory(NextName(c))
    BY <1>a, <1>2 DEF OpenDirectory, places, ShapeOf, StepOf
  <2>3. CASE k = Len(owned'[c])
    BY <1>a, <2>1, <2>2, <2>3
  <2>4. CASE k # Len(owned'[c])
    <3>1. k \in 2..Len(owned[c]) /\ owned'[c][k] = owned[c][k]
      BY <1>a, <2>1, <2>4
    <3>2. /\ "inside" \in drift[c] \/ owned[c][k] \in links
          /\ IsDirectory(owned[c][k].name) \/ owned[c][k].name \in whole[c]
      BY <1>a, <1>b, <2>2, <3>1 DEF StandsOf
    <3> QED
      BY <1>c, <1>d, <2>2, <3>1, <3>2
  <2> QED
    BY <2>3, <2>4
<1>3. CASE owned' = owned
  <2>1. /\ "inside" \in drift[c] \/ owned[c][k] \in links
        /\ \/ IsDirectory(owned[c][k].name)
           \/ owned[c][k].name \in whole[c]
           \/ pc[c] = "copy" /\ k = Len(owned[c])
    BY <1>a, <1>b, <1>3 DEF StandsOf
  <2>2. owned[c][k].name \in Staged /\ owned[c][k].name # c
    BY <1>a, <1>3, PlanIs DEF ShapeOf, RecordedInOrder
  <2>3. owned[c][k] \in links => owned[c][k] \in links'
    <3>1. CASE links' = links
      BY <3>1
    <3>2. CASE MakeDirectory(c) \/ CreateFile(c)
      BY <3>2 DEF MakeDirectory, CreateFile
    <3>3. CASE Publish(c)
      BY <1>a, <2>2, <3>3, PublishDoes
    <3>4. CASE Unlink(c)
      BY <1>a, <1>e, <3>4 DEF Unlink
    <3> QED
      BY <1>a, <3>1, <3>2, <3>3, <3>4, RunDoes
  <2>4. ASSUME pc[c] = "copy", k = Len(owned[c])
        PROVE  owned[c][k].name \in whole'[c] \/ pc'[c] = "copy"
    <3>1. CopyFile(c) \/ Fail(c) \/ Expire(c) \/ Crash(c)
      BY <2>4 DEF Step, Pin, Absent, MakeDirectory, OpenDirectory, CreateFile, CopyFile, FirstLook, Stream,
       SecondLook, Inspect, Recheck, VerifyStage, Publish, Fail, Unprepared, CheckOwned, Unlink, Answer,
       Expire, Crash, Preparing, Heeds
    <3>2. CASE CopyFile(c)
      <4>1. Last(owned[c]) = owned[c][k]
        BY <2>4 DEF Last
      <4> QED
        BY <1>a, <3>2, <4>1 DEF CopyFile, TypeOK
    <3>3. CASE Fail(c) \/ Crash(c)
      <4>1. pc'[c] \in {"rollback", "end"} /\ verdict'[c] = "none"
        BY <1>a, <3>3 DEF Fail, Crash, Goto, TypeOK
      <4>2. Published(c)'
        BY <4>1 DEF Stands, Staging
      <4>3. ~Publish(c)
        BY <2>4 DEF Publish
      <4> QED
        BY <2>4, <4>2, <4>3, PublishedStep
    <3>4. CASE Expire(c)
      BY <2>4, <3>4 DEF Expire
    <3> QED
      BY <3>1, <3>2, <3>3, <3>4
  <2> QED
    BY <1>3, <1>c, <1>d, <2>1, <2>3, <2>4
<1>4. CASE CheckOwned(c) \/ Unlink(c)
  BY <1>a, <1>e, <1>4, ReverseDoes DEF IInv
<1> QED
  BY <1>a, <1>1, <1>2, <1>3, <1>4, RunDoes

\* Nothing is staged that was not inspected.
LEMMA InspectedStep ==
  ASSUME IInv, NEW c \in Invocation, Step(c), Inspected(c)'
  PROVE  Inspected(c) \/ Inspect(c)
<1>a. /\ TypeOK /\ ShapeOf(c) /\ Shape /\ verdict[c] = "none" /\ pc[c] # "end" /\ owned[c] \in Seq(Link)
  BY RunDoes DEF IInv, Shape, TypeOK
<1>1. CASE OpenDirectory(c)
  <2>1. Len(owned[c]) = 0 => pc'[c] = "look"
    BY <1>a, <1>1 DEF OpenDirectory, Goto, AfterMaking, TypeOK
  <2>2. pc[c] = "open" /\ (owned[c] = <<>> => Len(owned[c]) = 0)
    BY <1>1 DEF OpenDirectory
  <2> QED
    BY <2>1, <2>2 DEF Inspected
<1>2. CASE CreateFile(c)
  <2>1. owned[c] # <<>> /\ pc[c] = "make"
    BY <1>a, <1>2, CreateDoes DEF CreateFile
  <2> QED
    BY <2>1 DEF Inspected
<1>3. CASE CheckOwned(c) \/ Unlink(c)
  BY <1>a, <1>3, ReverseDoes DEF Inspected, IInv
<1>4. CASE owned' = owned
  <2>1. \/ Inspect(c)
        \/ pc[c] \in {"copy", "recheck", "verify", "rename", "close"}
        \/ pc[c] \in {"make", "open"}
        \/ pc[c] \in {"absent", "idle"}
        \/ pc'[c] \notin {"make", "open", "copy", "recheck", "verify", "rename", "close"}
    BY <1>a DEF Step, Pin, Absent, MakeDirectory, OpenDirectory, CreateFile, CopyFile, FirstLook, Stream,
       SecondLook, Inspect, Recheck, VerifyStage, Publish, Fail, Unprepared, CheckOwned, Unlink, Answer,
       Expire, Crash, Goto, AfterMaking, Keeps, Passes, TypeOK
  <2>2. pc[c] \in {"absent", "idle"} => owned[c] = <<>> /\ pc'[c] \in {"make", "end", "absent", "idle"}
    BY <1>a, <1>4 DEF ShapeOf, StepOf, Step, Pin, Absent, MakeDirectory, OpenDirectory, CreateFile, CopyFile, FirstLook, Stream,
       SecondLook, Inspect, Recheck, VerifyStage, Publish, Fail, Unprepared, CheckOwned, Unlink, Answer,
       Expire, Crash, Goto, Preparing, Heeds, TypeOK
  <2>3. pc[c] \in {"make", "open"} /\ owned[c] = <<>> => pc'[c] \in {"make", "open", "end", "look"}
    BY <1>a, <1>4, CreateDoes DEF Step, Pin, Absent, MakeDirectory, OpenDirectory, CreateFile, CopyFile, FirstLook, Stream,
       SecondLook, Inspect, Recheck, VerifyStage, Publish, Fail, Unprepared, CheckOwned, Unlink, Answer,
       Expire, Crash, Goto, AfterMaking, Preparing, Heeds, TypeOK
  <2> QED
    BY <1>4, <2>1, <2>2, <2>3 DEF Inspected
<1> QED
  BY <1>a, <1>1, <1>2, <1>3, <1>4, RunDoes

LEMMA BodyStep == ASSUME IInv, NEW c \in Invocation, Step(c) PROVE BodyOf(c)'
<1>a. /\ TypeOK /\ Shape /\ BodyOf(c) /\ kind' = kind
  BY RunDoes DEF IInv, Shape, TypeOK
<1> SUFFICES ASSUME Inspected(c)' \/ Published(c)' PROVE Acceptable(c)'
  BY DEF BodyOf
<1>1. CASE Inspect(c)
  BY <1>1 DEF Inspect, Acceptable, local
<1>2. CASE Stream(c)
  <2>1. pc'[c] = "relook" /\ pc[c] = "stream"
    BY <1>a, <1>2 DEF Stream, Goto, TypeOK
  <2> QED
    BY <1>2, <2>1, PublishedStep DEF Inspected, Publish
<1>3. CASE ~Inspect(c) /\ ~Stream(c)
  <2>1. body' = body
    BY <1>3 DEF Step, Pin, Absent, MakeDirectory, OpenDirectory, CreateFile, CopyFile, FirstLook, Stream,
       SecondLook, Inspect, Recheck, VerifyStage, Publish, Fail, Unprepared, CheckOwned, Unlink, Answer,
       Expire, Crash, local
  <2>2. Published(c)' => Published(c) \/ Inspected(c)
    BY PublishedStep DEF Publish, Inspected
  <2> QED
    BY <1>a, <1>3, <2>1, <2>2, InspectedStep DEF BodyOf, Acceptable
<1> QED
  BY <1>1, <1>2, <1>3

LEMMA WindowStep == ASSUME IInv, NEW c \in Invocation, Step(c) PROVE WindowOf(c)'
<1>a. /\ TypeOK /\ Shape /\ WindowOf(c) /\ kind' = kind /\ remote' = remote /\ verdict[c] = "none"
      /\ pc[c] # "end" /\ uploads[c] \in Nat
  BY RunDoes DEF IInv, Shape, TypeOK
<1>1. CASE FirstLook(c)
  <2>1. pc'[c] = "stream" /\ saw'[c] = remote /\ verdict' = verdict
    BY <1>a, <1>1 DEF FirstLook, Goto, TypeOK
  <2> QED
    BY <1>a, <2>1 DEF WindowOf, Inspected
<1>2. CASE Stream(c)
  <2>1. /\ pc[c] = "stream" /\ pc'[c] = "relook" /\ body'[c] = remote /\ MatchesSelection(c, remote)
        /\ UNCHANGED <<saw, uploads, verdict>>
    BY <1>a, <1>2 DEF Stream, Goto, history, TypeOK
  <2>2. uploads[c] # 0 => uploads[c] > 0
    BY <1>a
  <2> QED
    BY <1>a, <2>1, <2>2 DEF WindowOf, Inspected, MatchesSelection
<1>3. CASE SecondLook(c)
  <2>1. /\ pc[c] = "relook" /\ pc'[c] = "inspect" /\ SameMetadata(c, remote, saw[c])
        /\ UNCHANGED <<kind, saw, body, uploads, verdict>>
    BY <1>a, <1>3 DEF SecondLook, SameSelection, Goto, history, local, TypeOK
  <2>2. uploads[c] > 0 /\ uploads[c] # 1 => uploads[c] > 1
    BY <1>a
  <2>3. body[c] = saw[c] \/ Mistakable(c)
    BY <1>a, <2>1, <2>2 DEF WindowOf, Mistakable
  <2>4. Mistakable(c)' <=> Mistakable(c)
    BY <2>1 DEF Mistakable, SameMetadata
  <2> QED
    BY <2>1, <2>3, <2>4 DEF WindowOf, Inspected
<1>4. CASE ~FirstLook(c) /\ ~Stream(c) /\ ~SecondLook(c)
  <2>1. UNCHANGED <<saw, body, uploads>>
    BY <1>4 DEF Step, Pin, Absent, MakeDirectory, OpenDirectory, CreateFile, CopyFile, FirstLook, Stream,
       SecondLook, Inspect, Recheck, VerifyStage, Publish, Fail, Unprepared, CheckOwned, Unlink, Answer,
       Expire, Crash, local, history
  <2>2. pc'[c] \in {"stream", "relook", "inspect"} => pc'[c] = pc[c]
    BY <1>a, <1>4 DEF Step, Pin, Absent, MakeDirectory, OpenDirectory, CreateFile, CopyFile, FirstLook, Stream,
       SecondLook, Inspect, Recheck, VerifyStage, Publish, Fail, Unprepared, CheckOwned, Unlink, Answer,
       Expire, Crash, Goto, AfterMaking, Keeps, Passes, TypeOK
  <2>3. verdict'[c] = "done" => pc[c] = "close"
    BY <1>a DEF Step, Pin, Absent, MakeDirectory, OpenDirectory, CreateFile, CopyFile, FirstLook, Stream,
       SecondLook, Inspect, Recheck, VerifyStage, Publish, Fail, Unprepared, CheckOwned, Unlink, Answer,
       Expire, Crash, TypeOK
  <2>4. Inspected(c)' => Inspected(c) \/ pc[c] = "inspect"
    BY InspectedStep DEF Inspect
  <2>5. Mistakable(c)' <=> Mistakable(c)
    BY <1>a, <2>1 DEF Mistakable, SameMetadata
  <2> QED
    BY <1>a, <2>1, <2>2, <2>3, <2>4, <2>5 DEF WindowOf, Inspected
<1> QED
  BY <1>1, <1>2, <1>3, <1>4

LEMMA CommitStep == ASSUME IInv, NEW c \in Invocation, Step(c) PROVE CommitOf(c)'
<1>a. /\ TypeOK /\ Shape /\ ShapeOf(c) /\ Unique /\ CommitOf(c) /\ verdict[c] = "none" /\ path' = path
      /\ pc[c] # "end" /\ owned[c] \in Seq(Link)
  BY RunDoes DEF IInv, Shape, TypeOK
<1>1. CASE Recheck(c)
  <2>1. pc'[c] = "verify" /\ path = parent[c] /\ UNCHANGED <<parent, verdict>>
    BY <1>a, <1>1 DEF Recheck, SameParent, Goto, TypeOK
  <2> QED
    BY <1>a, <2>1 DEF CommitOf
<1>2. CASE VerifyStage(c)
  <2>1. /\ pc[c] = "verify" /\ pc'[c] = "rename" /\ Head(owned[c]) \in links
        /\ UNCHANGED <<parent, verdict, owned, links>> /\ drift'[c] = drift[c] \ {"stage"}
    BY <1>a, <1>2 DEF VerifyStage, SameStage, Goto, Clears, places, local, TypeOK
  <2>2. Head(owned[c]) = owned[c][1]
    OBVIOUS
  <2> QED
    BY <1>a, <2>1, <2>2 DEF CommitOf
<1>3. CASE Publish(c)
  <2>1. /\ pc[c] = "rename" /\ pc'[c] = "close" /\ UNCHANGED <<parent, verdict, owned, drift>>
    BY <1>a, <1>3 DEF Publish, Goto, local, history, TypeOK
  <2>2. PICK l \in links :
           /\ l.dir = parent[c] /\ l.name = c
           /\ links' = (links \ {l}) \cup {[dir |-> parent[c], name |-> "dest", obj |-> l.obj]}
    BY <1>a, <1>3, PublishDoes
  <2>3. owned[c][1].dir = parent[c] /\ owned[c][1].name = c
    <3>1. 1 \in 1..Len(owned[c])
      BY <1>a, <2>1, PlanIs DEF ShapeOf, StepOf
    <3>2. owned[c][1].dir = DirectoryOf(c, 1) /\ owned[c][1].name = Plan(c)[1]
      BY <1>a, <3>1 DEF ShapeOf, RecordedInOrder
    <3> QED
      BY <1>a, <3>2, PlanIs DEF DirectoryOf
  <2>4. owned[c][1] \in links => l = owned[c][1]
    BY <1>a, <2>2, <2>3 DEF Unique
  <2> QED
    BY <1>a, <2>1, <2>2, <2>4 DEF CommitOf
<1>4. CASE ~Recheck(c) /\ ~VerifyStage(c) /\ ~Publish(c)
  <2>1. pc'[c] \in {"verify", "rename", "close"} => pc'[c] = pc[c]
    BY <1>a, <1>4 DEF Step, Pin, Absent, MakeDirectory, OpenDirectory, CreateFile, CopyFile, FirstLook, Stream,
       SecondLook, Inspect, Recheck, VerifyStage, Publish, Fail, Unprepared, CheckOwned, Unlink, Answer,
       Expire, Crash, Goto, AfterMaking, Keeps, Passes, TypeOK
  <2>2. verdict'[c] = "done" => pc[c] = "close" /\ pc'[c] = "end"
    BY <1>a DEF Step, Pin, Absent, MakeDirectory, OpenDirectory, CreateFile, CopyFile, FirstLook, Stream,
       SecondLook, Inspect, Recheck, VerifyStage, Publish, Fail, Unprepared, CheckOwned, Unlink, Answer,
       Expire, Crash, Goto, TypeOK
  <2>3. pc[c] \in {"verify", "rename", "close"} => UNCHANGED <<parent, owned, links, drift>> \/ Fail(c)
    BY <1>4 DEF Step, Pin, Absent, MakeDirectory, OpenDirectory, CreateFile, CopyFile, FirstLook, Stream,
       SecondLook, Inspect, Recheck, VerifyStage, Publish, Fail, Unprepared, CheckOwned, Unlink, Answer,
       Expire, Crash, places, local, history
  <2>4. Fail(c) => pc'[c] = "rollback" /\ verdict' = verdict
    BY <1>a DEF Fail, Goto, TypeOK
  <2> QED
    BY <1>a, <2>1, <2>2, <2>3, <2>4 DEF CommitOf
<1> QED
  BY <1>1, <1>2, <1>3, <1>4

LEMMA UnlinkStep == ASSUME IInv, NEW c \in Invocation, Step(c) PROVE UnlinkOf(c)'
<1>a. /\ TypeOK /\ UnlinkOf(c)
  BY DEF IInv, Shape
<1>1. ASSUME pc'[c] = "unlink" PROVE CheckOwned(c) \/ Expire(c)
  BY <1>a, <1>1 DEF Step, Pin, Absent, MakeDirectory, OpenDirectory, CreateFile, CopyFile, FirstLook, Stream,
       SecondLook, Inspect, Recheck, VerifyStage, Publish, Fail, Unprepared, CheckOwned, Unlink, Answer,
       Expire, Crash, Goto, AfterMaking, Keeps, Passes, Started, TypeOK
<1>2. ASSUME CheckOwned(c), pc'[c] = "unlink" PROVE Last(owned'[c]) \in links'
  BY <1>a, <1>2 DEF CheckOwned, Keeps, Passes, Goto, IsOwned, places, TypeOK
<1>3. CASE Expire(c)
  BY <1>a, <1>3 DEF Expire, places, history, UnlinkOf
<1> QED
  BY <1>1, <1>2, <1>3 DEF UnlinkOf

LEMMA RunStep == ASSUME OneDownload, IInv, NEW c \in Invocation, Step(c) PROVE IInv'
<1>1. Shape'
  BY StepShape DEF IInv
<1>2. \A d \in Invocation : d = c
  BY DEF OneDownload
<1> QED
  BY <1>1, <1>2, UniqueStep, PlaceStep, LeftStep, StandsStep, PublishedStep, BodyStep, WindowStep,
     CommitStep, UnlinkStep DEF IInv

LEMMA StillStep == ASSUME IInv, UNCHANGED vars PROVE IInv'
<1>1. Shape'
  BY ShapeStep DEF IInv
<1>2. UNCHANGED <<path, links, remote, kind, parent, saw, body, closed, pc, ctx, owned, whole, unclean,
                  verdict, others, drift, uploads, checked>>
  BY DEF vars, places, local, history
<1>3. Unique'
  BY <1>2 DEF IInv, Unique
<1> SUFFICES ASSUME NEW c \in Invocation
             PROVE  /\ PlaceOf(c)' /\ LeftOf(c)' /\ StandsOf(c)' /\ PublishedOf(c)'
                    /\ BodyOf(c)' /\ WindowOf(c)' /\ CommitOf(c)' /\ UnlinkOf(c)'
  BY <1>1, <1>3 DEF IInv
<1>4. /\ Entry(c, NextName(c), <<c, NextName(c)>>)' = Entry(c, NextName(c), <<c, NextName(c)>>)
      /\ Published(c)' = Published(c) /\ Plan(c)' = Plan(c)
  BY <1>2 DEF Entry, Into, Recorded, NextName, Plan, Published
<1>5. PlaceOf(c)' /\ LeftOf(c)'
  BY <1>2, <1>4 DEF IInv, PlaceOf, LeftOf, Staging, Made, Attached
<1>6. StandsOf(c)' /\ PublishedOf(c)' /\ BodyOf(c)'
  BY <1>2, <1>4 DEF IInv, StandsOf, Stands, Staging, PublishedOf, BodyOf, Inspected, Acceptable
<1>7. WindowOf(c)' /\ CommitOf(c)' /\ UnlinkOf(c)'
  BY <1>2 DEF IInv, WindowOf, Mistakable, SameMetadata, CommitOf, UnlinkOf, Inspected
<1> QED
  BY <1>5, <1>6, <1>7

LEMMA InvInit == Init => IInv
<1> SUFFICES ASSUME Init PROVE IInv
  OBVIOUS
<1>1. Shape /\ Unique
  BY ShapeInit DEF Init, Unique
<1> SUFFICES ASSUME NEW c \in Invocation
             PROVE  /\ PlaceOf(c) /\ LeftOf(c) /\ StandsOf(c) /\ PublishedOf(c)
                    /\ BodyOf(c) /\ WindowOf(c) /\ CommitOf(c) /\ UnlinkOf(c)
  BY <1>1 DEF IInv
<1>2. /\ links = {} /\ pc[c] = "idle" /\ owned[c] = <<>> /\ verdict[c] = "none" /\ Len(owned[c]) = 0
      /\ 2..Len(owned[c]) = {}
  BY DEF Init
<1> QED
  BY <1>2 DEF PlaceOf, LeftOf, StandsOf, PublishedOf, Published, BodyOf, Inspected, WindowOf, CommitOf, UnlinkOf

-----------------------------------------------------------------------------
(* What is promised *)

\* The inductive invariant of one download among others.
THEOREM Invariance == ASSUME OneDownload PROVE Spec => []IInv
<1>1. IInv /\ [Next]_vars => IInv'
  <2> SUFFICES ASSUME IInv, [Next]_vars PROVE IInv'
    OBVIOUS
  <2> QED
    BY OthersStep, RunStep, StillStep DEF Next
<1> QED
  BY <1>1, InvInit, PTL DEF Spec

\* The receipt of a download is true whatever others do to names, directories and
\* the provider's object: the path that was given names the complete tree that was
\* staged, or others changed something after it was last looked at; and the object
\* is the one selected, of a package file always, of the others up to a replacement
\* between the two looks that the compared metadata cannot show.
THEOREM Receipts == ASSUME OneDownload PROVE Spec => []ReceiptIsTrue
<1>1. IInv => ReceiptIsTrue
  <2> SUFFICES ASSUME IInv, NEW c \in Invocation, verdict[c] = "done"
               PROVE  /\ drift[c] = {} => /\ [dir |-> path, name |-> "dest", obj |-> Head(owned[c]).obj] \in links
                                          /\ Complete(c)
                      /\ body[c] = saw[c] \/ Mistakable(c)
    BY DEF ReceiptIsTrue
  <2>1. /\ Len(owned[c]) = Len(Plan(c)) /\ pc[c] = "end" /\ StandsOf(c) /\ CommitOf(c) /\ WindowOf(c)
        /\ owned[c] \in Seq(Link)
    BY DEF IInv, Shape, ShapeOf, StepOf, TypeOK
  <2>2. drift[c] = {} => Complete(c)
    BY <2>1 DEF StandsOf, Stands, Complete
  <2>3. drift[c] = {} => [dir |-> path, name |-> "dest", obj |-> Head(owned[c]).obj] \in links
    <3>1. Head(owned[c]) = owned[c][1]
      OBVIOUS
    <3> QED
      BY <2>1, <3>1 DEF CommitOf
  <2> QED
    BY <2>1, <2>2, <2>3 DEF WindowOf
<1> QED
  BY <1>1, Invariance, PTL

\* A destination never shows part of a download, nor an archive that was not
\* inspected, also when the run was cancelled or killed; and a download that was
\* refused has taken back everything it made where it can still be found.
THEOREM WholeOrNothing == ASSUME OneDownload PROVE Spec => []WholeOrAbsent
<1>1. IInv => WholeOrAbsent
  <2> SUFFICES ASSUME IInv, NEW c \in Invocation PROVE
        /\ \A d \in Dir :
             [dir |-> d, name |-> "dest", obj |-> <<c, c>>] \in links =>
               /\ "inside" \in drift[c] \/ Complete(c)
               /\ kind[c] = "job" => body[c] \notin Malformed
        /\ verdict[c] = "refused" =>
             \A l \in {k \in links : k.dir # folder /\ Attached(k.dir)} : \A n \in Name(c) : l.obj # <<c, n>>
    BY DEF WholeOrAbsent
  <2>1. ASSUME Published(c) PROVE ("inside" \in drift[c] \/ Complete(c)) /\ (kind[c] = "job" => body[c] \notin Malformed)
    <3>1. /\ Len(owned[c]) = Len(Plan(c)) /\ StandsOf(c) /\ BodyOf(c) /\ pc[c] # "copy"
      BY <2>1 DEF IInv, PublishedOf
    <3> QED
      BY <2>1, <3>1 DEF StandsOf, Stands, Complete, BodyOf, Acceptable
  <2>2. ASSUME verdict[c] = "refused", NEW l \in links, l.dir # folder, Attached(l.dir) PROVE ~Made(c, l)
    <3>1. owned[c] = <<>> /\ LeftOf(c)
      BY <2>2 DEF IInv, Shape, ShapeOf, StepOf
    <3>2. Range(owned[c]) = {}
      BY <3>1 DEF Range
    <3> QED
      BY <2>2, <3>1, <3>2 DEF LeftOf
  <2> QED
    BY <2>1, <2>2 DEF Published, Made
<1> QED
  BY <1>1, Invariance, PTL

\* Whatever else is in the directories it works in, a download replaces nothing at
\* the destination and removes nothing but its own entries, unless others put
\* something in the place of one between the identity check and the removal.
THEOREM OwnOnly == ASSUME OneDownload PROVE Spec => TouchesOnlyOwn
<1> DEFINE A == /\ others' = others => \A d \in Dir : At(d, "dest") \subseteq links'
                /\ \A c \in Invocation : \A l \in links \ links' :
                     pc[c] = "unlink" /\ pc'[c] = "rollback" =>
                       l = Last(owned[c]) \/ checked[c] # others
<1>1. ASSUME IInv, [Next]_vars PROVE [A]_vars
  <2>1. CASE Others
    <3>1. others' # others /\ pc' = pc
      BY <1>1, <2>1, OthersDo DEF IInv
    <3> QED
      BY <3>1
  <2>2. ASSUME NEW c \in Invocation, Step(c) PROVE A
    <3>1. \A l \in links \ links' : l.name # "dest"
      <4>1. CASE links' = links \/ MakeDirectory(c) \/ CreateFile(c)
        BY <4>1 DEF MakeDirectory, CreateFile
      <4>2. CASE Publish(c)
        <5>1. c # "dest"
          BY NamesAssumption
        <5> QED
          BY <1>1, <4>2, <5>1, PublishDoes DEF IInv
      <4>3. CASE Unlink(c)
        <5>1. \A l \in links \ links' : l.name = Last(owned[c]).name
          BY <4>3 DEF Unlink, At
        <5>2. Last(owned[c]).name # "dest"
          <6>1. owned[c] \in Seq(Link) /\ owned[c] # <<>> /\ RecordedInOrder(c) /\ TypeOK
            BY <1>1, <4>3 DEF IInv, Shape, ShapeOf, StepOf, TypeOK, Unlink
          <6>2. Last(owned[c]) = owned[c][Len(owned[c])] /\ Len(owned[c]) \in 1..Len(Plan(c))
            BY <6>1, PlanIs DEF Last, RecordedInOrder
          <6>3. Last(owned[c]).name = Plan(c)[Len(owned[c])]
            BY <6>1, <6>2 DEF RecordedInOrder
          <6>4. Plan(c)[Len(owned[c])] \in Staged \cup {c}
            BY <6>1, <6>2, PlanIs
          <6> QED
            BY <6>3, <6>4, NamesAssumption DEF Staged
        <5> QED
          BY <5>1, <5>2
      <4> QED
        BY <1>1, <2>2, <4>1, <4>2, <4>3, RunDoes DEF IInv
    <3>2. ASSUME NEW l \in links \ links', pc[c] = "unlink", pc'[c] = "rollback", checked[c] = others
          PROVE  l = Last(owned[c])
      <4>1. Unlink(c)
        BY <1>1, <2>2, <3>2 DEF Step, Pin, Absent, MakeDirectory, OpenDirectory, CreateFile, CopyFile, FirstLook, Stream,
       SecondLook, Inspect, Recheck, VerifyStage, Publish, Fail, Unprepared, CheckOwned, Unlink, Answer,
       Expire, Crash, Preparing, Heeds, Goto, IInv, Shape, TypeOK
      <4>2. Last(owned[c]) \in links
        BY <1>1, <3>2 DEF IInv, UnlinkOf
      <4>3. l.dir = Last(owned[c]).dir /\ l.name = Last(owned[c]).name
        BY <3>2, <4>1 DEF Unlink, At
      <4> QED
        BY <1>1, <4>2, <4>3 DEF IInv, Unique
    <3>3. \A d \in Invocation : d = c
      BY DEF OneDownload
    <3> QED
      BY <3>1, <3>2, <3>3 DEF At
  <2>3. CASE UNCHANGED vars
    BY <2>3
  <2> QED
    BY <1>1, <2>1, <2>2, <2>3 DEF Next
<1> QED
  BY <1>1, Invariance, PTL DEF Spec, TouchesOnlyOwn
=============================================================================
