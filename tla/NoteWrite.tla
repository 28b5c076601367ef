----------------------------- MODULE NoteWrite -----------------------------
(***************************************************************************)
(* issue create, issue comment, issue close and reopen                      *)
(* (internal/product/commands_issue_write.go), mr comment, mr close and     *)
(* reopen (commands_mr_write.go): two looks at one issue or merge request,  *)
(* one POST, and a success that rests on this run's own answer only: an     *)
(* issue's POST answer alone, a merge request's with the same target and    *)
(* the note itself read back by its ID.  Closing and reopening observe and  *)
(* decline.                                                                 *)
(*                                                                          *)
(* All runs ask for the same text, so that a note found by its text may be  *)
(* anybody's.  A read is one atomic look at the provider.                   *)
(***************************************************************************)
EXTENDS Naturals, FiniteSets

CONSTANTS
  Invocation,
  Action,     \* what the runs do: "create", "comment", "note", "set", "transition"
  MaxOther    \* bound: changes by other actors

\* "set" is an issue's and "transition" a merge request's close or reopen.
ASSUME NoteAssumption ==
  /\ IsFiniteSet(Invocation)
  /\ Action \subseteq {"create", "comment", "note", "set", "transition"}
  /\ MaxOther \in Nat

VARIABLES
  state,    \* provider: "opened" or "closed"
  head,     \* provider: number of changes of the subject's identity (URL, branches, head)
  rev,      \* provider: its updated_at, a counter of all changes
  readable, \* provider: can the account read the project?
  posted,   \* provider: the runs whose item exists exactly as asked
  altered,  \* provider: the runs whose item exists otherwise
  strangers,\* provider: is there somebody else's item with the same text?
  others,   \* number of changes made by other actors
  action,   \* action[c]: what c does
  expects,  \* expects[c]: the state its caller saw
  wants,    \* wants[c]: the state a close or reopen asks for
  pc,       \* pc[c]: the next call of c
  ctx,      \* ctx[c]: "live" or "done"
  seen,     \* seen[c]: the subject at c's first look
  wire,     \* wire[c]: c's POST request
  reply,    \* reply[c]: the provider's answer to c's POST
  verdict,  \* verdict[c]: the outcome of c's receipt
  held,     \* history: c's item was there as asked since c attempted, or the
            \* state it asks for since c started
  drift     \* history: the subject changed since c's last look at it

provider == <<state, head, rev, readable, posted, altered, strangers, others>>
request == <<action, expects, wants>>
history == <<held, drift>>
vars == <<provider, request, pc, ctx, seen, wire, reply, verdict, history>>

Subject == [state |-> state, head |-> head, rev |-> rev]
MaxRev == MaxOther + Cardinality(Invocation)
State == {"opened", "closed"}
Preflight == {"identify", "review", "adjacent", "bind", "decide", "write"}

\* The types; every run changes its subject at most once (MaxRev); and an answer is
\* kept only while executeIssueWrite or executeMRWrite still reads it.
TypeOK ==
  /\ state \in State /\ head \in 0..MaxOther /\ rev \in 0..MaxRev
  /\ readable \in BOOLEAN /\ strangers \in BOOLEAN /\ others \in 0..MaxOther
  /\ posted \subseteq Invocation /\ altered \subseteq Invocation \ posted
  /\ action \in [Invocation -> Action]
  /\ expects \in [Invocation -> State] /\ wants \in [Invocation -> State]
  /\ pc \in [Invocation -> {"idle", "reply", "relook", "readnote", "done"} \cup Preflight]
  /\ ctx \in [Invocation -> {"live", "done"}]
  /\ seen \in [Invocation -> [state : State, head : 0..MaxOther, rev : 0..MaxRev]]
  /\ wire \in [Invocation -> {"unsent", "inflight", "applied", "refused", "lost"}]
  /\ reply \in [Invocation -> {"none", "exact", "unproved", "status"}]
  /\ verdict \in [Invocation -> {"none", "error", "unchanged", "refused", "created",
                                 "rejected", "ambiguous"}]
  /\ held \in [Invocation -> BOOLEAN] /\ drift \in [Invocation -> BOOLEAN]
  \* what is not (or no longer) waiting for an answer has none
  /\ \A c \in Invocation : pc[c] \in {"idle", "done"} \cup Preflight => reply[c] = "none"

Init ==
  /\ state \in State /\ head = 0 /\ rev = 0 /\ readable = TRUE
  /\ posted = {} /\ altered = {} /\ strangers \in BOOLEAN /\ others = 0
  /\ action \in [Invocation -> Action]
  /\ expects \in [Invocation -> State] /\ wants \in [Invocation -> State]
  /\ pc = [c \in Invocation |-> "idle"]
  /\ ctx = [c \in Invocation |-> "live"]
  /\ seen = [c \in Invocation |-> Subject]
  /\ wire = [c \in Invocation |-> "unsent"]
  /\ reply = [c \in Invocation |-> "none"]
  /\ verdict = [c \in Invocation |-> "none"]
  /\ held = [c \in Invocation |-> FALSE] /\ drift = [c \in Invocation |-> FALSE]

-----------------------------------------------------------------------------
(* The invocation.                                                          *)

Active(c) == pc[c] \notin {"idle", "done"}
Transitions(c) == action[c] \in {"set", "transition"}
OnIssue(c) == action[c] \in {"create", "comment", "set"}

\* What c was asked for, as far as it is true at the provider.
Goal(c) == IF Transitions(c) THEN state = wants[c] ELSE c \in posted
Observed == held' = [c \in Invocation |-> held[c] \/ (Active(c) /\ Goal(c)')]

Goto(c, l) == pc' = [pc EXCEPT ![c] = l]
Return(c, v) ==
  /\ Goto(c, "done")
  /\ ctx' = [ctx EXCEPT ![c] = "done"]
  /\ reply' = [reply EXCEPT ![c] = "none"]
  /\ verdict' = [verdict EXCEPT ![c] = v]

Start(c) ==
  /\ pc[c] = "idle"
  /\ Goto(c, "identify")
  /\ held' = [held EXCEPT ![c] = Goal(c)]
  /\ UNCHANGED <<provider, request, ctx, seen, wire, reply, verdict, drift>>

\* A read before the write fails or shows something else, the content cannot be
\* staged, or the context is done before the mutation.
Stop(c) ==
  /\ pc[c] \in Preflight
  /\ Return(c, "error")
  /\ UNCHANGED <<provider, request, seen, wire, history>>

Reads(c, l) == pc[c] = l /\ ctx[c] = "live" /\ readable

\* The selected project has the expected identity.
Identify(c) ==
  /\ Reads(c, "identify")
  /\ Goto(c, IF action[c] = "create" THEN "bind" ELSE "review")
  /\ UNCHANGED <<provider, request, ctx, seen, wire, reply, verdict, history>>

\* The first look.  A comment on an issue is bound to no state.
Anyhow(c) == TRUE   \* mutant: --expected-state is not held against the first look
Expected(c) == action[c] = "comment" \/ state = expects[c]

Review(c) ==
  /\ Reads(c, "review")
  /\ Expected(c) /\ head = 0
  /\ seen' = [seen EXCEPT ![c] = Subject]
  /\ Goto(c, "adjacent")
  /\ UNCHANGED <<provider, request, ctx, wire, reply, verdict, history>>

\* The adjacent look must show the same subject at the same revision.
Unlooked(c) == head = 0   \* mutant: only the identity is looked at again
SameSubject(c) == Subject = seen[c]

AfterLooks(c) ==
  IF OnIssue(c) THEN "bind" ELSE IF Transitions(c) THEN "decide" ELSE "write"

Adjacent(c) ==
  /\ Reads(c, "adjacent")
  /\ SameSubject(c)
  /\ drift' = [drift EXCEPT ![c] = FALSE]
  /\ Goto(c, AfterLooks(c))
  /\ UNCHANGED <<provider, request, ctx, seen, wire, reply, verdict, held>>

\* An issue's project once more, after the looks at the issue.
Bind(c) ==
  /\ Reads(c, "bind")
  /\ Goto(c, IF Transitions(c) THEN "decide" ELSE "write")
  /\ UNCHANGED <<provider, request, ctx, seen, wire, reply, verdict, history>>

\* A close or reopen reports the state it asks for, or declines: no mutation.
Decide(c) ==
  /\ pc[c] = "decide"
  /\ Return(c, IF seen[c].state = wants[c] THEN "unchanged" ELSE "refused")
  /\ UNCHANGED <<provider, request, seen, wire, history>>

\* The one POST.
Write(c) ==
  /\ pc[c] = "write" /\ ctx[c] = "live"
  /\ \E w \in {"inflight", "lost"} : wire' = [wire EXCEPT ![c] = w]
  /\ Goto(c, "reply")
  /\ held' = [held EXCEPT ![c] = Goal(c)]
  /\ UNCHANGED <<provider, request, ctx, seen, reply, verdict, drift>>

\* On an issue the answer decides.
IssueAnswered(c) ==
  /\ pc[c] = "reply" /\ OnIssue(c) /\ ctx[c] = "live" /\ reply[c] # "none"
  /\ Return(c, CASE reply[c] = "exact" -> "created"
                 [] reply[c] = "status" -> "rejected"
                 [] OTHER -> "ambiguous")
  /\ UNCHANGED <<provider, request, seen, wire, history>>

\* The connection breaks, the call's 20 s pass, or the answer is unreadable.
SearchedFor(c) ==   \* mutant: a lost answer is replaced by a search for the text
  /\ pc[c] = "reply" /\ OnIssue(c)
  /\ Return(c, IF strangers \/ posted # {} THEN "created" ELSE "ambiguous")
  /\ UNCHANGED <<provider, request, seen, wire, history>>
Resent(c) ==        \* mutant: a POST without an answer is sent again
  /\ pc[c] = "reply" /\ OnIssue(c)
  /\ wire' = [wire EXCEPT ![c] = "inflight"]
  /\ UNCHANGED <<provider, request, pc, ctx, seen, reply, verdict, history>>
IssueAnswerLost(c) ==
  /\ pc[c] = "reply" /\ OnIssue(c)
  /\ Return(c, "ambiguous")
  /\ UNCHANGED <<provider, request, seen, wire, history>>

\* On a merge request every answer, or none, is followed by another look.
MRAnswered(c) ==
  /\ pc[c] = "reply" /\ ~OnIssue(c)
  /\ \/ ctx[c] = "live" /\ reply[c] # "none" /\ UNCHANGED reply
     \/ reply' = [reply EXCEPT ![c] = "unproved"]
  /\ Goto(c, "relook")
  /\ UNCHANGED <<provider, request, ctx, seen, wire, verdict, history>>

\* sameMRWriteTarget, and the state: updated_at may have moved.
SameTarget(c) == head = seen[c].head /\ state = seen[c].state

Relook(c) ==
  /\ Reads(c, "relook")
  /\ CASE SameTarget(c) /\ reply[c] = "exact" ->
            Goto(c, "readnote") /\ UNCHANGED <<ctx, reply, verdict>>
       [] SameTarget(c) /\ reply[c] = "status" -> Return(c, "rejected")
       [] OTHER -> Return(c, "ambiguous")
  /\ UNCHANGED <<provider, request, seen, wire, history>>

\* The note by the ID of the answer, with the same text and author.
ReadNote(c) ==
  /\ Reads(c, "readnote")
  /\ Return(c, IF c \in posted THEN "created" ELSE "ambiguous")
  /\ UNCHANGED <<provider, request, seen, wire, history>>

ReadFails(c) ==
  /\ pc[c] \in {"relook", "readnote"}
  /\ Return(c, "ambiguous")
  /\ UNCHANGED <<provider, request, seen, wire, history>>

Expire(c) ==
  /\ Active(c) /\ ctx[c] = "live"
  /\ ctx' = [ctx EXCEPT ![c] = "done"]
  /\ UNCHANGED <<provider, request, pc, seen, wire, reply, verdict, history>>

\* The process is killed: no receipt, and a request already sent lives on.
Crash(c) ==
  /\ Active(c)
  /\ Return(c, verdict[c])
  /\ UNCHANGED <<provider, request, seen, wire, history>>

-----------------------------------------------------------------------------
(* The provider and its other users (outside src/).                         *)

Answer(c, r) == reply' = IF pc[c] = "reply" THEN [reply EXCEPT ![c] = r] ELSE reply
Changed == drift' = [c \in Invocation |-> drift[c] \/ Active(c) \/ wire[c] = "inflight"]

\* The item is made, as asked or otherwise; the answer shows it, or a mangled
\* one.  A note touches its subject's updated_at.
ApplyPost(c) ==
  /\ wire[c] = "inflight" /\ readable
  /\ wire' = [wire EXCEPT ![c] = "applied"]
  /\ \/ posted' = posted \cup {c} /\ UNCHANGED altered /\ Answer(c, "exact")
     \/ posted' = posted \cup {c} /\ UNCHANGED altered /\ Answer(c, "unproved")
     \/ altered' = altered \cup {c} /\ UNCHANGED posted /\ Answer(c, "unproved")
  /\ IF action[c] = "create" THEN UNCHANGED <<rev, drift>>
     ELSE rev' = rev + 1 /\ drift' = [d \in Invocation |-> drift[d] \/ d # c]
  /\ UNCHANGED <<state, head, readable, strangers, others, request, pc, ctx, seen, verdict>>
  /\ Observed

DropPost(c) ==
  /\ wire[c] = "inflight"
  /\ \/ wire' = [wire EXCEPT ![c] = "refused"] /\ Answer(c, "status")
     \/ wire' = [wire EXCEPT ![c] = "lost"] /\ UNCHANGED reply
  /\ UNCHANGED <<provider, request, pc, ctx, seen, verdict, history>>

Disturb ==
  /\ others < MaxOther
  /\ others' = others + 1
  /\ UNCHANGED <<request, pc, ctx, seen, wire, reply, verdict>>

\* The subject is edited, closed, reopened, moved or pushed to.
OtherChanges ==
  /\ Disturb
  /\ rev' = rev + 1
  /\ \/ UNCHANGED <<state, head>>
     \/ state' \in State \ {state} /\ UNCHANGED head
     \/ head' = head + 1 /\ UNCHANGED state
  /\ Changed
  /\ UNCHANGED <<readable, posted, altered, strangers>>
  /\ Observed

\* Somebody else's item with the same text; an item is edited or deleted.
OtherPosts ==
  /\ Disturb
  /\ \/ ~strangers /\ strangers' = TRUE /\ UNCHANGED posted
     \/ \E d \in posted : posted' = posted \ {d} /\ UNCHANGED strangers
  /\ rev' = rev + 1
  /\ Changed
  /\ UNCHANGED <<state, head, readable, altered, held>>

OtherLocksOut ==
  /\ Disturb
  /\ readable' = ~readable
  /\ UNCHANGED <<state, head, rev, posted, altered, strangers, history>>

-----------------------------------------------------------------------------
Run(c) ==
  \/ Start(c) \/ Stop(c) \/ Identify(c) \/ Review(c) \/ Adjacent(c) \/ Bind(c) \/ Decide(c)
  \/ Write(c) \/ IssueAnswered(c) \/ IssueAnswerLost(c) \/ MRAnswered(c) \/ Relook(c)
  \/ ReadNote(c) \/ ReadFails(c) \/ Expire(c) \/ Crash(c)

Provider(c) == ApplyPost(c) \/ DropPost(c)

Next ==
  \/ \E c \in Invocation : Run(c) \/ Provider(c)
  \/ OtherChanges \/ OtherPosts \/ OtherLocksOut

Spec == Init /\ [][Next]_vars

-----------------------------------------------------------------------------
(* Properties.                                                              *)

Effect(c) ==
  IF wire[c] = "unsent" THEN "none"
  ELSE IF wire[c] \in {"refused", "lost"} THEN "dropped" ELSE wire[c]

Phase(c) ==
  IF pc[c] = "idle" THEN "idle"
  ELSE IF wire[c] = "unsent" THEN "preflight" ELSE "attempted"

Claim(c) ==
  CASE verdict[c] = "error" -> "refused"
    [] verdict[c] = "unchanged" -> "noop"
    [] verdict[c] = "created" -> "done"
    [] OTHER -> verdict[c]

GW == INSTANCE GuardedWrite WITH
        phase <- [c \in Invocation |-> Phase(c)],
        effect <- [c \in Invocation |-> Effect(c)],
        verdict <- [c \in Invocation |-> Claim(c)]

\* Every run keeps the promise of GuardedWrite: one POST at most and none from a
\* close or reopen; created only when this run's own item was there as asked,
\* never because somebody else's has the same text.
ImplementsGuardedWrite == GW!Spec

\* A note lands on the subject that both looks showed, or it changed after the second
\* look; and what they showed is what the caller expected: the same identity and, but
\* for a comment on an issue, which is bound to none, the expected state.
NotesWhatWasReviewed ==
  [][\A c \in Invocation :
       wire[c] = "inflight" /\ wire'[c] = "applied" /\ action[c] # "create" =>
         /\ Subject = seen[c] \/ drift[c]
         /\ seen[c].head = 0
         /\ action[c] # "comment" => seen[c].state = expects[c]]_vars
=============================================================================
