----------------------------- MODULE BoundedRead -----------------------------
(***************************************************************************)
(* The reads that collect evidence over several requests: the paged lists   *)
(* (fetchList), repository search by creation, MR discussions, boards and   *)
(* work items, snippets, pipeline views with traces, pipeline watch, and    *)
(* the v1 lane's merge request list and CI status.                          *)
(*                                                                         *)
(* A collection is numbered by creation and answered newest first; others   *)
(* add, remove and replace items between any two requests, and edit what    *)
(* the collection belongs to (the subject: an MR, a pipeline, a board).     *)
(***************************************************************************)
EXTENDS Naturals, Sequences, FiniteSets, SequencesExt, FiniteSetsExt

CONSTANTS
  Reader,     \* one run of a read command
  Kind,       \* which reads run
  Limit,      \* the values --limit may have
  PageCap,    \* the widest page (100)
  MaxPages,   \* pages one read may ask for (10)
  MaxTries,   \* attempts of one v1 request (3)
  MaxTraces,  \* traces of one pipeline view (5)
  MaxPolls,   \* requests of one watch (100)
  MaxItems,   \* bound on the items there at first
  MaxOther,   \* bound on the steps of other actors
  Rev,        \* what identifies a revision of the subject: SHAs, branches, names
  Created,    \* Created[i]: when item i was created, by its own clock
  Unselected  \* the snippets a local filter leaves out

Item == 1..(MaxItems + MaxOther)
Offset == {"list", "newest", "threads", "snippets", "jobs"} \* pages by number
Native == {"open", "ci"}                                    \* pages by Link
Distinct == {"newest", "threads", "snippets", "jobs", "board"} \* duplicates refused
Kinds == Offset \cup Native \cup {"board", "watch"}

ASSUME ReadAssumption ==
  /\ Kind \subseteq Kinds
  /\ PageCap \in Nat \ {0} /\ MaxPages \in Nat \ {0} /\ MaxTries \in Nat \ {0}
  /\ MaxTraces \in Nat /\ MaxPolls \in Nat \ {0} /\ MaxItems \in Nat /\ MaxOther \in Nat
  /\ Limit \subseteq 1..(PageCap * MaxPages)
  /\ Created \in [Item -> Nat] /\ Unselected \subseteq Item

\* How the subject's pipeline stands; "outdated" when it is of an earlier head.
Status == {"running", "success", "failed", "outdated"}
Subject == [rev : Rev, at : 0..MaxOther, status : Status]

VARIABLES
  coll,    \* the items of the collection
  top,     \* the number of the last item created
  subject, \* what the collection belongs to; at grows with every edit
  behind,  \* the subject as a lagging replica still answers it
  kind, limit,
  pc,      \* pc[c]: the next request of c
  anchor,  \* anchor[c]: the subject as c holds it
  page,    \* page[c]: the number of the next page, poll or trace
  cursor,  \* cursor[c]: the last item of the page before
  tries,   \* tries[c]: failed attempts of the current request
  items,   \* items[c]: what c has collected; what it shows once the list is closed
  report,  \* report[c]: meta.complete and meta.truncated
  verdict, \* verdict[c]: "none", "done", "stale" or "refused"
  others,  \* steps other actors have taken
  snaps,   \* history: what the collection has been since c's first page
  removed, \* history: an item was removed since then
  under,   \* history: the revisions under which c's pages were read
  polled,  \* history: what c's polls have seen
  back     \* history: a poll saw what is older than a poll before it had seen

provider == <<coll, top, subject, behind>>
asked == <<kind, limit>>
history == <<snaps, removed, under, polled, back>>
vars == <<provider, asked, pc, anchor, page, cursor, tries, items, report, verdict,
          others, history>>

\* The types; no page, poll, trace or attempt goes past its limit, and no more
\* than MaxPages full pages are held.
TypeOK ==
  /\ coll \subseteq Item /\ top \in 0..(MaxItems + MaxOther) /\ \A i \in coll : i <= top
  /\ subject \in Subject /\ behind \in Subject
  /\ kind \in [Reader -> Kind] /\ limit \in [Reader -> Limit]
  /\ pc \in [Reader -> {"idle", "identify", "page", "recheck", "rejob", "trace",
                        "poll", "wait", "end"}]
  /\ anchor \in [Reader -> Subject]
  /\ page \in [Reader -> 1..(MaxPages + MaxPolls + MaxTraces + 1)]
  /\ cursor \in [Reader -> 0..(MaxItems + MaxOther + 1)]
  /\ tries \in [Reader -> 0..(MaxTries - 1)]
  /\ \A c \in Reader : items[c] \in Seq(Item) /\ Len(items[c]) <= PageCap * MaxPages
  /\ report \in [Reader -> [complete : BOOLEAN, truncated : BOOLEAN]]
  /\ verdict \in [Reader -> {"none", "done", "stale", "refused"}]
  /\ others \in 0..MaxOther
  /\ snaps \in [Reader -> SUBSET SUBSET Item] /\ removed \in [Reader -> BOOLEAN]
  /\ under \in [Reader -> SUBSET Rev]
  /\ polled \in [Reader -> SUBSET Subject] /\ back \in [Reader -> BOOLEAN]

Init ==
  /\ \E n \in 0..MaxItems : coll = 1..n /\ top = n
  /\ subject \in [rev : Rev, at : {0}, status : {"running", "outdated"}]
  /\ behind = subject
  /\ kind \in [Reader -> Kind] /\ limit \in [Reader -> Limit]
  /\ pc = [c \in Reader |-> "idle"]
  /\ anchor = [c \in Reader |-> subject]
  /\ page = [c \in Reader |-> 1]
  /\ cursor = [c \in Reader |-> MaxItems + MaxOther + 1]
  /\ tries = [c \in Reader |-> 0]
  /\ items = [c \in Reader |-> <<>>]
  /\ report = [c \in Reader |-> [complete |-> FALSE, truncated |-> FALSE]]
  /\ verdict = [c \in Reader |-> "none"]
  /\ others = 0
  /\ snaps = [c \in Reader |-> {}] /\ removed = [c \in Reader |-> FALSE]
  /\ under = [c \in Reader |-> {}] /\ polled = [c \in Reader |-> {}]
  /\ back = [c \in Reader |-> FALSE]
-----------------------------------------------------------------------------
Goto(c, step) == pc' = [pc EXCEPT ![c] = step]
Take(s, n) == SubSeq(s, 1, Min({n, Len(s)}))
Least(a, b) == IF a < b THEN a ELSE b
Newest(S) == SetToSortSeq(S, LAMBDA i, j : i > j)

\* One probe beyond the display limit; sorting by creation needs every match.
Width(c) == IF kind[c] \in Native \cup {"newest"} THEN PageCap ELSE Least(PageCap, limit[c] + 1)
Reach(c) == IF kind[c] = "newest" THEN PageCap * MaxPages ELSE limit[c]

\* The provider's answers: by page number, or after a cursor.
NumberedPage(c) ==
  LET all == Newest(coll)
  IN SubSeq(all, (page[c] - 1) * Width(c) + 1, Least(page[c] * Width(c), Len(all)))
NextLink(c) == page[c] * Width(c) < Cardinality(coll)
Beyond(c) == {i \in coll : i < cursor[c]}
CursorPage(c) == Take(Newest(Beyond(c)), Width(c))
HasNext(c) == Cardinality(Beyond(c)) > Width(c)

\* What a list shows of what it has read: a snippet list filters locally.
Selected(c, all) ==
  IF kind[c] = "snippets" THEN SelectSeq(all, LAMBDA i : i \notin Unselected) ELSE all

\* Mutant: no list remembers what it has seen.
Forgetful(c, got) == FALSE

Repeats(c, got) == kind[c] \in Distinct /\ Range(got) \cap Range(items[c]) # {}

Answers(c, v) == verdict' = [verdict EXCEPT ![c] = v] /\ Goto(c, "end")
Says(c, complete, truncated) ==
  report' = [report EXCEPT ![c] = [complete |-> complete, truncated |-> truncated]]

\* A successful request: the next one has all its attempts again.
Request(c, step) == pc[c] = step /\ tries' = [tries EXCEPT ![c] = 0]

\* What the histories note of a page read.
Noted(c) ==
  /\ snaps' = [snaps EXCEPT ![c] = @ \cup {coll}]
  /\ under' = [under EXCEPT ![c] = @ \cup {subject.rev}]
  /\ UNCHANGED <<removed, polled, back>>
-----------------------------------------------------------------------------
\* Where a kind begins: most with a look at what the collection belongs to.
First(k) == CASE k \in {"jobs", "threads", "open", "ci"} -> "identify"
              [] k = "watch" -> "poll"
              [] OTHER -> "page"

Begin(c) ==
  /\ pc[c] = "idle"
  /\ Goto(c, First(kind[c]))
  /\ UNCHANGED <<provider, asked, anchor, page, cursor, tries, items, report, verdict,
                 others, history>>

\* CIStatus goes no further than the view when the head has no pipeline of its own.
Stale(c) == kind[c] = "ci" /\ subject.status = "outdated"

Identify(c) ==
  /\ Request(c, "identify")
  /\ anchor' = [anchor EXCEPT ![c] = subject]
  /\ \/ Stale(c) /\ Answers(c, "stale")
     \/ ~Stale(c) /\ Goto(c, "page") /\ UNCHANGED verdict
  /\ UNCHANGED <<provider, asked, page, cursor, items, report, others, history>>

\* Where an exhausted list goes on.
AfterList(c) == CASE kind[c] = "threads" -> "recheck"
                  [] kind[c] = "jobs" -> "rejob"
                  [] OTHER -> "end"

\* A list that ends here.  Cut fields truncate; of discussions they also make
\* the evidence incomplete.
Closes(c, complete, truncated) ==
  /\ \E cut \in BOOLEAN :
       Says(c, complete /\ ~(cut /\ kind[c] = "threads"), truncated \/ cut)
  /\ page' = [page EXCEPT ![c] = 1]
  /\ \/ AfterList(c) = "end" /\ Answers(c, "done")
     \/ AfterList(c) # "end" /\ Goto(c, AfterList(c)) /\ UNCHANGED verdict

Continues(c) ==
  /\ page' = [page EXCEPT ![c] = @ + 1]
  /\ UNCHANGED <<pc, report, verdict>>

LastPage(c, got) == Len(got) < Width(c)

\* fetchList and executeSnippetList after one more page.
ListEnds(c, got, shown) ==
  \/ Len(shown) > Reach(c) /\ Closes(c, FALSE, TRUE)
  \/ Len(shown) <= Reach(c) /\ LastPage(c, got) /\ Closes(c, TRUE, FALSE)
  \/ /\ Len(shown) <= Reach(c) /\ ~LastPage(c, got)
     /\ IF page[c] = MaxPages THEN Closes(c, FALSE, TRUE) ELSE Continues(c)

\* A job must carry the revision of the pipeline that was viewed.
Bound(c) == kind[c] = "jobs" => subject.rev = anchor[c].rev

ReadPage(c) ==
  /\ Request(c, "page") /\ kind[c] \in Offset \ {"newest"}
  /\ Bound(c)
  /\ LET got == NumberedPage(c)
         all == items[c] \o got
         shown == Selected(c, all)
     IN /\ ~Repeats(c, got)
        /\ ListEnds(c, got, shown)
        /\ items' = [items EXCEPT ![c] = IF pc'[c] = "page" THEN all
                                        ELSE Take(shown, Reach(c))]
  /\ Noted(c)
  /\ UNCHANGED <<provider, asked, anchor, cursor, others>>

\* fetchCreatedRepoSearch: only a complete collection can be sorted, and only a
\* sorted one be cut.
Sorted(s) ==
  SetToSortSeq(Range(s), LAMBDA i, j : \/ Created[i] > Created[j]
                                       \/ Created[i] = Created[j] /\ i > j)

\* Mutant: what is cut is then sorted.
CutFirst(c, all) == Sorted(Take(all, limit[c]))

Shown(c, all) == Take(Sorted(all), limit[c])

SearchPage(c) ==
  /\ Request(c, "page") /\ kind[c] = "newest"
  /\ LET got == NumberedPage(c)
         all == items[c] \o got
     IN /\ ~Repeats(c, got)
        /\ IF LastPage(c, got)
           THEN /\ items' = [items EXCEPT ![c] = Shown(c, all)]
                /\ Closes(c, Len(all) <= limit[c], Len(all) > limit[c])
           ELSE /\ page[c] < MaxPages
                /\ items' = [items EXCEPT ![c] = all]
                /\ Continues(c)
  /\ Noted(c)
  /\ UNCHANGED <<provider, asked, anchor, cursor, others>>

\* executePlanning: every page repeats what it belongs to.
SameBoard(c) == page[c] > 1 => subject.rev = anchor[c].rev

BoardPage(c) ==
  /\ Request(c, "page") /\ kind[c] = "board"
  /\ SameBoard(c)
  /\ anchor' = [anchor EXCEPT ![c] = subject]
  /\ LET got == CursorPage(c)
         all == items[c] \o got
         count == Len(all)
     IN /\ ~Repeats(c, got)
        /\ items' = [items EXCEPT ![c] = Take(all, limit[c])]
        /\ cursor' = [cursor EXCEPT ![c] = IF got = <<>> THEN @ ELSE Last(got)]
        /\ \/ /\ count > limit[c] \/ (count = limit[c] /\ HasNext(c))
              /\ Closes(c, FALSE, TRUE)
           \/ /\ ~(count > limit[c] \/ (count = limit[c] /\ HasNext(c)))
              /\ IF ~HasNext(c) THEN Closes(c, TRUE, FALSE)
                 ELSE IF page[c] = MaxPages THEN Closes(c, FALSE, TRUE)
                 ELSE Continues(c)
  /\ Noted(c)
  /\ UNCHANGED <<provider, asked, others>>

\* ListOpenMergeRequests and PipelineJobs: to the last Link or not at all; more
\* than one open merge request is a conflict.
LinkPage(c) ==
  /\ Request(c, "page") /\ kind[c] \in Native
  /\ LET all == items[c] \o NumberedPage(c)
     IN /\ items' = [items EXCEPT ![c] = all]
        /\ \/ /\ ~NextLink(c)
              /\ kind[c] = "open" => Len(all) <= 1
              /\ Says(c, TRUE, FALSE) /\ Answers(c, "done") /\ UNCHANGED page
           \/ NextLink(c) /\ page[c] < MaxPages /\ Continues(c)
  /\ Noted(c)
  /\ UNCHANGED <<provider, asked, anchor, cursor, others>>
-----------------------------------------------------------------------------
\* Mutant: updated_at is left out of the comparison.
SameFields(a, b) == a.rev = b.rev

\* sameMRDiscussionSnapshot.
SameSnapshot(a, b) == a.rev = b.rev /\ a.at = b.at

\* executeMRDiscussions: MR and projects are read again after the last page.
Recheck(c) ==
  /\ Request(c, "recheck")
  /\ SameSnapshot(anchor[c], subject)
  /\ Answers(c, "done")
  /\ UNCHANGED <<provider, asked, anchor, page, cursor, items, report, others, history>>

\* executeSelectedPipelineView: each job's membership again, then its trace.  A
\* retried job can still be viewed.
Traced(c) == Take(items[c], MaxTraces)

Rejob(c) ==
  /\ Request(c, "rejob")
  /\ \/ /\ page[c] <= Len(Traced(c))
        /\ Bound(c)
        /\ Goto(c, "trace") /\ UNCHANGED <<report, verdict>>
     \/ /\ page[c] > Len(Traced(c))
        /\ Answers(c, "done")
        /\ IF Len(items[c]) > MaxTraces THEN Says(c, FALSE, TRUE) ELSE UNCHANGED report
  /\ UNCHANGED <<provider, asked, anchor, page, cursor, items, others, history>>

Trace(c) ==
  /\ Request(c, "trace")
  /\ Says(c, FALSE, TRUE) \/ UNCHANGED report
  /\ page' = [page EXCEPT ![c] = @ + 1]
  /\ Goto(c, "rejob")
  /\ UNCHANGED <<provider, asked, anchor, cursor, items, verdict, others, history>>
-----------------------------------------------------------------------------
\* executePipelineWatch: a poll may be answered from behind.
Follows(c, seen) ==
  page[c] > 1 => seen.rev = anchor[c].rev /\ seen.at >= anchor[c].at

\* Mutant: a poll is not counted.
Uncounted(c) == UNCHANGED page

Counted(c) == page' = [page EXCEPT ![c] = @ + 1]

Poll(c) ==
  /\ Request(c, "poll") /\ page[c] <= MaxPolls
  /\ \E seen \in {subject, behind} :
       /\ Follows(c, seen)
       /\ anchor' = [anchor EXCEPT ![c] = seen]
       /\ polled' = [polled EXCEPT ![c] = @ \cup {seen}]
       /\ back' = [back EXCEPT ![c] = @ \/ \E old \in polled[c] : old.at > seen.at]
       /\ CASE seen.status = "success" -> Answers(c, "done") /\ Says(c, TRUE, FALSE)
            [] seen.status = "failed" -> Answers(c, "refused") /\ UNCHANGED report
            [] OTHER -> Goto(c, "wait") /\ UNCHANGED <<verdict, report>>
  /\ Counted(c)
  /\ UNCHANGED <<provider, asked, cursor, items, others, snaps, removed, under>>

Wait(c) ==
  /\ pc[c] = "wait"
  /\ Goto(c, "poll")
  /\ UNCHANGED <<provider, asked, anchor, page, cursor, tries, items, report, verdict,
                 others, history>>
-----------------------------------------------------------------------------
Active(c) == pc[c] \notin {"idle", "end"}

\* Mutant: one attempt too many.
OneMore(c) == tries[c] < MaxTries

MayRetry(c) == tries[c] < MaxTries - 1

\* The v1 client repeats a request after a transient failure.
Retry(c) ==
  /\ kind[c] \in Native /\ pc[c] \in {"identify", "page"}
  /\ MayRetry(c)
  /\ tries' = [tries EXCEPT ![c] = @ + 1]
  /\ UNCHANGED <<provider, asked, pc, anchor, page, cursor, items, report, verdict,
                 others, history>>

\* Any request may fail, run into a deadline, a cancellation or a byte budget, or
\* answer what a guard above excludes.
Fail(c) ==
  /\ Active(c)
  /\ Answers(c, "refused")
  /\ Says(c, FALSE, items[c] # <<>>)
  /\ UNCHANGED <<provider, asked, anchor, page, cursor, tries, items, others, history>>

\* Other actors act only where a run under way can still see it: that is a bound.
\* While c pages, histories follow the collection.
Seen(kinds) == \E c \in Reader : pc[c] # "end" /\ kind[c] \in kinds
OfSubject == {"threads", "jobs", "board", "watch"}
Paging(c) == pc[c] = "page" /\ page[c] > 1

Changes(S) ==
  /\ Seen(Kinds \ {"watch"})
  /\ others < MaxOther /\ others' = others + 1
  /\ coll' = S
  /\ snaps' = [c \in Reader |-> snaps[c] \cup (IF Paging(c) THEN {S} ELSE {})]
  /\ removed' = [c \in Reader |-> removed[c] \/ (Paging(c) /\ ~(coll \subseteq S))]
  /\ UNCHANGED <<subject, behind, asked, pc, anchor, page, cursor, tries, items, report,
                 verdict, under, polled, back>>

OtherAdds == Changes(coll \cup {top + 1}) /\ top' = top + 1
\* A job is never removed, only retried, and a retried one is no longer listed.
OtherRemoves ==
  /\ Seen(Kinds \ {"jobs", "ci", "watch"})
  /\ \E i \in coll : Changes(coll \ {i})
  /\ UNCHANGED top
\* A job is retried, or an item edited to the front of its order.
OtherReplaces == (\E i \in coll : Changes((coll \ {i}) \cup {top + 1})) /\ top' = top + 1

OtherEdits ==
  /\ Seen(OfSubject)
  /\ others < MaxOther /\ others' = others + 1
  /\ \/ \E r \in Rev : subject' = [subject EXCEPT !.at = @ + 1, !.rev = r]
     \/ \E s \in Status \ {subject.status} :
          Seen({"watch"}) /\ subject' = [subject EXCEPT !.at = @ + 1, !.status = s]
  /\ behind' = subject
  /\ UNCHANGED <<coll, top, asked, pc, anchor, page, cursor, tries, items, report,
                 verdict, history>>

CatchesUp ==
  /\ Seen({"watch"}) /\ behind # subject /\ behind' = subject
  /\ UNCHANGED <<coll, top, subject, asked, pc, anchor, page, cursor, tries, items,
                 report, verdict, others, history>>

Others == OtherAdds \/ OtherRemoves \/ OtherReplaces \/ OtherEdits \/ CatchesUp

Step(c) ==
  \/ Begin(c) \/ Identify(c) \/ ReadPage(c) \/ SearchPage(c) \/ BoardPage(c)
  \/ LinkPage(c) \/ Recheck(c) \/ Rejob(c) \/ Trace(c) \/ Poll(c) \/ Wait(c)
  \/ Retry(c) \/ Fail(c)

Next == Others \/ \E c \in Reader : Step(c)

\* A request in flight is answered or times out, and a wait ends.
Fairness == \A c \in Reader : WF_vars(Step(c))

Spec == Init /\ [][Next]_vars /\ Fairness
-----------------------------------------------------------------------------
\* The items there throughout a list's pages that its filters select.
Steady(c) ==
  {i \in Item : \A s \in snaps[c] : i \in s} \
    (IF kind[c] = "snippets" THEN Unselected ELSE {})

\* A complete answer is whole: nothing that was there throughout is missing,
\* unless an item was removed under a read that pages by number; nothing is
\* listed twice where duplicates are refused, and nothing was never there.
\* An answer that is not complete says that it is cut, and none exceeds --limit.
CompleteIsWhole ==
  \A c \in Reader : verdict[c] = "done" /\ kind[c] # "watch" =>
    /\ report[c].complete =>
         \/ Steady(c) \subseteq Range(items[c])
         \/ removed[c] /\ kind[c] # "board"
    /\ kind[c] \in Distinct => Cardinality(Range(items[c])) = Len(items[c])
    /\ \A i \in Range(items[c]) : \E s \in snaps[c] : i \in s
    /\ report[c].complete \/ report[c].truncated
    /\ kind[c] \notin Native => Len(items[c]) <= limit[c]

\* A search by creation over a collection at rest shows its latest, in order,
\* whatever order the provider numbers them in.
ShowsTheLatest ==
  \A c \in Reader : verdict[c] = "done" /\ kind[c] = "newest" =>
    \A s \in snaps[c] : snaps[c] = {s} =>
      /\ \A i \in Range(items[c]), j \in s \ Range(items[c]) : Created[i] >= Created[j]
      /\ \A m, n \in 1..Len(items[c]) :
           m < n => Created[items[c][m]] >= Created[items[c][n]]
      /\ Len(items[c]) = Least(limit[c], Cardinality(s))

\* Discussions, boards and watches are evidence of one revision: none of their
\* pages was read under another, even one that was put back before the last
\* look, and a watch that answers success went only forward in what it saw.
OneEvidenceWindow ==
  \A c \in Reader : verdict[c] = "done" =>
    /\ kind[c] \in {"threads", "board"} => under[c] = {anchor[c].rev}
    /\ \A a, b \in polled[c] : a.rev = b.rev
    /\ ~back[c]
    /\ kind[c] = "watch" => \E a \in polled[c] : a.status = "success"

\* docs/architecture.md:421: "Native CI takes one complete snapshot."
NativeCIIsOneSnapshot ==
  \A c \in Reader : verdict[c] = "done" /\ kind[c] = "ci" => Range(items[c]) \in snaps[c]

\* Every read that has begun is answered, whatever the provider does meanwhile.
EveryReadAnswers == \A c \in Reader : pc[c] # "idle" ~> verdict[c] # "none"
=============================================================================
