------------------------------ MODULE NativeMR ------------------------------
(***************************************************************************)
(* The native v1 lane's writes (internal/app/service.go, over               *)
(* internal/gitlab): mr ensure of gl-axi's native contract, and the create  *)
(* and update that the compatibility contract calls directly.  Ensure lists *)
(* the branch pair's open merge requests, then updates the one it found or  *)
(* creates one; create lists again right before its POST; update reads the  *)
(* merge request right before its PUT.  Writes are sent once; reads are     *)
(* repeated (client.do), which is one read here.                            *)
(*                                                                         *)
(* Runs overlap with each other and with other users.  A request may be     *)
(* late, refused or lost, its answer lost or unusable; a run may be         *)
(* cancelled, hit its deadline or be killed.  Unlike gl-axi's product lane  *)
(* (MREnsure), which reconciles whatever it could not validate, this one    *)
(* reconciles network errors, timeouts and statuses 409, 422 and above 499. *)
(***************************************************************************)
EXTENDS Naturals, FiniteSets

CONSTANTS
  Invocation,
  MaxIID,     \* bound on the merge requests the branch pair ever has
  Content,    \* title and description
  Wanted,     \* what the runs ask for; other users write the rest too
  MaxActors   \* bound on the runs that begin plus the changes by other users

VARIABLES
  mr,       \* provider: mr[i], or Missing while i does not exist
  pc,       \* pc[c]: the next call of c
  run,      \* run[c]: kind, merge request, context, request and its answer
  verdict,  \* verdict[c]: what c returned
  others,   \* runs that began and changes by other users so far
  past      \* history: whether the content c asks for was there since c began, and
            \* whether writers of the branch pair overlapped

vars == <<mr, pc, run, verdict, others, past>>
-----------------------------------------------------------------------------
IID == 1..MaxIID
None == 0
Nothing == "nothing"
Missing == [open |-> FALSE, content |-> Nothing]
MR == [open : BOOLEAN, content : Content]
Kind == {"ensure", "create", "update"}

Sending == {"posting", "putting"}
Reconciling == {"relist", "reread"}
Active == {"list", "again", "post", "view", "put"} \cup Sending \cup Reconciling
Steps == {"ready"} \cup Active

TypeOK ==
  /\ pc \in [Invocation -> Steps \cup {"served"}]
  /\ mr \in [IID -> MR \cup {Missing}]
  /\ run \in [Invocation ->
       [kind : Kind, iid : {None} \cup IID,
        ctx : {"live", "late", "cancelled"},
        wire : {"unsent", "inflight", "applied", "refused", "lost"},
        echo : Content \cup {Nothing}]]
  /\ verdict \in [Invocation -> {"none", "unchanged", "created", "updated", "replayed",
                                 "conflict", "ambiguous", "rejected", "cancelled", "error"}]
  /\ others \in 0..MaxActors
  /\ past \in [held : [Invocation -> BOOLEAN], raced : BOOLEAN]

Opened == {i \in IID : mr[i].open}

\* The first run of any kind, those that repeat it an ensure: what create and update do
\* is part of it.
First == CHOOSE c \in Invocation : TRUE

Init ==
  /\ mr \in [IID -> {r \in MR : r.open} \cup {Missing}]
  /\ \A i \in IID \ {1} : mr[i] = Missing
  /\ pc = [c \in Invocation |-> "ready"]
  /\ \E kind \in Kind :
       run = [c \in Invocation |->
         [kind |-> IF c = First THEN kind ELSE "ensure",
          iid |-> IF c = First /\ kind = "update" THEN 1 ELSE None,
          ctx |-> "live", wire |-> "unsent", echo |-> Nothing]]
  /\ verdict = [c \in Invocation |-> "none"]
  /\ others = 0
  /\ past = [held |-> [c \in Invocation |-> FALSE], raced |-> FALSE]
-----------------------------------------------------------------------------
Goto(c, step) == pc' = [pc EXCEPT ![c] = step]
Continue == UNCHANGED verdict

\* What c asks for: an open merge request with the content or, once it has turned to
\* one, that one with it, whether it is still open or not.
Fulfilled(c) ==
  \E i \in IID : /\ mr[i].content = Wanted
                 /\ IF run[c].iid = None THEN mr[i].open ELSE i = run[c].iid
Observed(raced) ==
  past' = [held |-> [c \in Invocation |->
                       past.held[c] \/ (pc'[c] \in Active /\ Fulfilled(c)')],
           raced |-> raced]
AtWork(c) == pc[c] \in Active \/ run[c].wire = "inflight"

\* The run ends, its context and its locals with it; its request lives on.
Successes == {"unchanged", "created", "updated", "replayed"}
Return(c, v) ==
  /\ Goto(c, "served")
  /\ run' = [run EXCEPT ![c].ctx = "live", ![c].echo = Nothing]
  /\ verdict' = [verdict EXCEPT ![c] = v]
  /\ past' = [past EXCEPT !.held[c] = @ /\ v \in Successes]

Begin(c) ==
  /\ pc[c] = "ready"
  /\ c = First \/ pc[First] # "ready"
  /\ Goto(c, CASE run[c].kind = "ensure" -> "list"
               [] run[c].kind = "create" -> "again"
               [] OTHER -> "view")
  /\ others < MaxActors /\ others' = others + 1
  /\ UNCHANGED <<mr, run, verdict>>
  /\ Observed(past.raced \/ \E d \in Invocation \ {c} : AtWork(d))

\* Mutant: only a merge request with the same content is a match.
MatchesContent(c) == {i \in Opened : mr[i].content = Wanted}

\* Service.List: the open merge requests of the branch pair, one at most.
Matches(c) == Opened

Absent(c) ==
  /\ pc[c] \in {"list", "again"} /\ run[c].ctx = "live"
  /\ Matches(c) = {}
  /\ Goto(c, IF pc[c] = "list" THEN "again" ELSE "post")
  /\ UNCHANGED <<mr, run, others, past>> /\ Continue

Found(c) ==
  /\ pc[c] \in {"list", "again"} /\ run[c].ctx = "live"
  /\ \E i \in Matches(c) :
       /\ Matches(c) = {i}
       /\ \/ /\ mr[i].content = Wanted
             /\ Return(c, IF pc[c] = "list" THEN "unchanged" ELSE "replayed")
          \/ /\ mr[i].content # Wanted /\ pc[c] = "list"
             /\ run' = [run EXCEPT ![c].iid = i]
             /\ past' = [past EXCEPT !.held[c] = FALSE]
             /\ Goto(c, "view") /\ Continue
          \/ /\ mr[i].content # Wanted /\ pc[c] = "again"
             /\ Return(c, "conflict")
  /\ UNCHANGED <<mr, others>>

Several(c) ==
  /\ pc[c] \in {"list", "again"} /\ run[c].ctx = "live"
  /\ Cardinality(Matches(c)) > 1
  /\ Return(c, "conflict")
  /\ UNCHANGED <<mr, others>>

\* Ensure says updated of whatever its update found or did.
Says(c, v) == IF run[c].kind = "ensure" THEN "updated" ELSE v

\* Update: the merge request, in any state.
View(c) ==
  LET r == mr[run[c].iid] IN
  /\ pc[c] = "view" /\ run[c].ctx = "live"
  /\ r # Missing
  /\ \/ r.content = Wanted /\ Return(c, Says(c, "unchanged"))
     \/ r.content # Wanted /\ Goto(c, "put") /\ Continue /\ UNCHANGED <<run, past>>
  /\ UNCHANGED <<mr, others>>

\* A read before the write fails, or what it returns is not valid.
Refuse(c) ==
  /\ pc[c] \in {"list", "again", "post", "view"}
  /\ \/ Return(c, "error")
     \/ run[c].ctx = "cancelled" /\ Return(c, "cancelled")
  /\ UNCHANGED <<mr, others>>

\* The POST (after the project has been read again) or the PUT.
Send(c) ==
  /\ \/ pc[c] = "post" /\ run[c].ctx = "live" /\ Goto(c, "posting")
     \/ pc[c] = "put" /\ Goto(c, "putting")
  /\ \/ run[c].ctx = "live" /\ run' = [run EXCEPT ![c].wire = "inflight"]
     \/ run' = [run EXCEPT ![c].wire = "lost"]
  /\ UNCHANGED <<mr, others, past>> /\ Continue

\* Mutant: a write is repeated like a read.
Again(c) == Goto(c, IF pc[c] = "posting" THEN "post" ELSE "put")

Reconcile(c) == Goto(c, IF pc[c] = "posting" THEN "relist" ELSE "reread")

\* Mutant: the answer's content is not compared.
AnyContent(c) == TRUE

Accepted(c) == run[c].echo = Wanted

\* A success whose body is the merge request.
Answered(c) ==
  /\ pc[c] \in Sending /\ run[c].ctx = "live" /\ run[c].wire = "applied"
  /\ Return(c, IF ~Accepted(c) THEN "error"
               ELSE IF pc[c] = "posting" THEN "created" ELSE "updated")
  /\ UNCHANGED <<mr, others>>

\* A success that is not JSON, is cut (by the deadline, too), too long or not a valid
\* merge request, or a redirect: a plain error, whatever became of the request.
AnswerUnusable(c) ==
  /\ pc[c] \in Sending
  /\ Return(c, "error")
  /\ UNCHANGED <<mr, others>>

\* Another 4xx status than 409 and 422.
RefusalArrives(c) ==
  /\ pc[c] \in Sending /\ run[c].ctx = "live" /\ run[c].wire = "refused"
  /\ Return(c, "rejected")
  /\ UNCHANGED <<mr, others>>

\* No answer, the deadline, 409, 422 or 5xx.
AnswerLost(c) ==
  /\ pc[c] \in Sending /\ run[c].ctx # "cancelled"
  /\ Reconcile(c)
  /\ UNCHANGED <<mr, run, others, past>> /\ Continue

\* An interrupt is no ambiguous result to this lane.
Interrupted(c) ==
  /\ pc[c] \in Sending /\ run[c].ctx = "cancelled"
  /\ Return(c, "cancelled")
  /\ UNCHANGED <<mr, others>>

\* One more list after a create.
Relist(c) ==
  /\ pc[c] = "relist" /\ run[c].ctx = "live"
  /\ \/ \E i \in Matches(c) :
          /\ Matches(c) = {i}
          /\ Return(c, IF mr[i].content = Wanted THEN "replayed" ELSE "conflict")
     \/ Cardinality(Matches(c)) # 1 /\ Return(c, "ambiguous")
  /\ UNCHANGED <<mr, others>>

\* One more view after an update.
Reread(c) ==
  /\ pc[c] = "reread" /\ run[c].ctx = "live"
  /\ Return(c, IF mr[run[c].iid].content = Wanted THEN Says(c, "replayed")
               ELSE "ambiguous")
  /\ UNCHANGED <<mr, others>>

ReconcileFails(c) ==
  /\ pc[c] \in Reconciling
  /\ Return(c, "ambiguous")
  /\ UNCHANGED <<mr, others>>

\* The operation's 45 seconds, or an interrupt.
Expire(c) ==
  /\ pc[c] \in Active /\ run[c].ctx = "live"
  /\ \E why \in {"late", "cancelled"} : run' = [run EXCEPT ![c].ctx = why]
  /\ UNCHANGED <<mr, pc, verdict, others, past>>

Crash(c) ==
  /\ pc[c] \in Active
  /\ Return(c, "none")
  /\ UNCHANGED <<mr, others>>
-----------------------------------------------------------------------------
(* The provider and its other users (outside src/).                         *)

Sent(c) == pc[c] \in Sending \cup Reconciling \cup {"served"} /\ run[c].wire = "inflight"
Free(i) == mr[i] = Missing /\ \A j \in 1..(i - 1) : mr[j] # Missing

\* A POST makes a merge request, a PUT changes the one it names; what is stored may
\* differ from what was asked.
Apply(c) ==
  /\ Sent(c)
  /\ \E i \in IID, new \in Content :
       /\ IF run[c].iid = None THEN Free(i) ELSE i = run[c].iid
       /\ mr' = [mr EXCEPT ![i] = [open |-> @ = Missing \/ @.open, content |-> new]]
       /\ run' = [run EXCEPT ![c].wire = "applied",
                             ![c].echo = IF pc[c] \in Sending THEN new ELSE @]
  /\ UNCHANGED <<pc, verdict, others>>
  /\ Observed(past.raced)

Drop(c) ==
  /\ Sent(c)
  /\ \E e \in {"refused", "lost"} : run' = [run EXCEPT ![c].wire = e]
  /\ UNCHANGED <<mr, pc, verdict, others, past>>

Act ==
  /\ \E c \in Invocation : pc[c] \in Steps
  /\ others < MaxActors /\ others' = others + 1
  /\ UNCHANGED <<pc, run, verdict>>

OtherOpens ==
  /\ Act
  /\ \E i \in IID, r \in MR :
       /\ r.open /\ Free(i)
       /\ mr' = [mr EXCEPT ![i] = r]
  /\ Observed(past.raced \/ Opened # {} \/ \E c \in Invocation : AtWork(c))

OtherChanges ==
  /\ Act
  /\ \E i \in Opened, r \in MR : mr' = [mr EXCEPT ![i] = r]
  /\ Observed(past.raced)

Step(c) ==
  \/ Begin(c) \/ Absent(c) \/ Found(c) \/ Several(c) \/ View(c) \/ Refuse(c) \/ Send(c)
  \/ Answered(c) \/ AnswerUnusable(c) \/ RefusalArrives(c) \/ AnswerLost(c)
  \/ Interrupted(c) \/ Relist(c) \/ Reread(c) \/ ReconcileFails(c)
  \/ Expire(c) \/ Crash(c)

Next == OtherOpens \/ OtherChanges \/ \E c \in Invocation : Step(c) \/ Apply(c) \/ Drop(c)

Spec == Init /\ [][Next]_vars
-----------------------------------------------------------------------------
\* What the lane answers is true.  Unchanged, created, updated, replayed: the content
\* asked for was there while the run was at work.  Created: this run's POST made it.
\* Rejected: its request has not taken effect and will not.
NativeVerdictIsTrue ==
  \A c \in Invocation :
    /\ verdict[c] \in {"unchanged", "created", "updated", "replayed"} => past.held[c]
    /\ verdict[c] = "created" => run[c].wire = "applied"
    /\ verdict[c] = "rejected" => run[c].wire = "refused"

\* However often the commands are repeated, whatever answers are lost: as long as no
\* run begins while another, or a request one left behind, is at work, and nobody else
\* opens one meanwhile, no request makes a second open merge request.
CreatesNoSecond ==
  ~past'.raced /\ (\E c \in Invocation : run'[c].wire # run[c].wire) =>
    Cardinality(Opened') <= 1
CreatesAtMostOne == [][CreatesNoSecond]_vars
=============================================================================
