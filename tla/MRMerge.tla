------------------------------ MODULE MRMerge -------------------------------
(***************************************************************************)
(* gl-axi mr merge: invocations that check one merge request against what   *)
(* the caller expects (head and target branch), against the project's merge *)
(* policy and against its head pipeline's jobs and bridges, and then squash *)
(* it with one request (src/internal/product/commands_merge.go).  Other     *)
(* users push, retarget, run pipelines, change the policy, merge or close   *)
(* meanwhile; requests and answers may be late, refused or lost.            *)
(*                                                                          *)
(* A read is one atomic look at the provider.  The pages of the job list,   *)
(* and those of the bridge list, are one read each.  "ready" stands for all *)
(* that validateOpenMergeMR checks besides the state: no draft, no          *)
(* conflicts, resolved discussions, no auto-merge, source branch kept.      *)
(***************************************************************************)
EXTENDS Naturals

CONSTANTS
  Invocation,    \* the runs of the command
  Sha,           \* heads of the source branch
  Branch,        \* target branches
  PID,           \* pipelines
  Nil,           \* no pipeline
  MaxOther       \* bound: changes by other actors

ASSUME MergeAssumption == Nil \notin PID /\ MaxOther \in Nat

Ask == [head : Sha, target : Branch]
MR == [state : {"opened", "merged", "closed"}, squash : BOOLEAN, head : Sha,
       target : Branch, ready : BOOLEAN, pipe : PID \cup {Nil}]

\* jobs: all jobs green, so the pipeline's status is success; bridges: whether
\* there are any, and all with their downstream pipelines green, which the status
\* of the pipeline need not show.
Pipeline == [sha : Sha, jobs : BOOLEAN, bridges : {"absent", "green", "red"}]

Aspect == {"policy", "target", "pipe", "bridges"}

VARIABLES
  mr,       \* provider: the merge request
  pipe,     \* provider: the pipelines
  policy,   \* provider: successful pipelines and resolved discussions are enforced
  others,   \* number of changes made by other actors
  ask,      \* ask[c]: what the caller of c expects
  pc,       \* pc[c]: the next call of c
  ctx,      \* ctx[c]: "live", or "done" once the deadline passed or c was interrupted
  snap,     \* snap[c]: the pipeline c took its snapshot from
  merged,   \* merged[c]: c's first view was of a merged merge request
  wire,     \* wire[c]: c's mutating request
  echo,     \* echo[c]: does the answer to c's pending write meet the postcondition?
  cause,    \* cause[c]: does c's write error carry a recognized HTTP status?
  verdict,  \* verdict[c]: what c returned
  held,     \* history: Goal(c) held at some moment since c started or attempted
  drift     \* history: drift[c] is what others changed since c last read it

provider == <<mr, pipe, policy, others>>
vars == <<mr, pipe, policy, others, ask, pc, ctx, snap, merged, wire, echo, cause,
          verdict, held, drift>>

Preflight == {"project", "view", "jobs", "bridges", "final", "write"}

\* The types of the provider's state and of what a merge keeps, and the verdicts
\* mergeFailure and the receipt can come to.
TypeOK ==
  /\ mr \in MR
  /\ pipe \in [PID -> Pipeline]
  /\ policy \in BOOLEAN
  /\ others \in 0..MaxOther
  /\ ask \in [Invocation -> Ask]
  /\ pc \in [Invocation -> {"idle", "reply", "reconcile", "done"} \cup Preflight]
  /\ ctx \in [Invocation -> {"live", "done"}]
  /\ snap \in [Invocation -> PID \cup {Nil}]
  /\ merged \in [Invocation -> BOOLEAN]
  /\ wire \in [Invocation -> {"unsent", "inflight", "applied", "refused", "lost"}]
  /\ echo \in [Invocation -> {"none", "good", "bad"}]
  /\ cause \in [Invocation -> {"none", "status"}]
  /\ verdict \in [Invocation -> {"none", "refused", "already_merged", "merged",
       "reconciled_merged", "rejected", "ambiguous"}]
  /\ held \in [Invocation -> BOOLEAN]
  /\ drift \in [Invocation -> SUBSET Aspect]

-----------------------------------------------------------------------------
(* What a record must look like.                                            *)

\* validateMergeMRIdentity.
Identity(c) ==
  /\ mr.head = ask[c].head
  /\ mr.target = ask[c].target
  /\ mr.state \in {"opened", "merged"}

\* validateOpenMergeMR.
Mergeable == mr.state = "opened" /\ mr.ready

\* mergePipeline: an exact successful head pipeline.
HeadPipeline(c) ==
  /\ mr.pipe # Nil
  /\ pipe[mr.pipe].sha = ask[c].head
  /\ pipe[mr.pipe].jobs

\* validateSnapshotPipeline.
SnapshotPipeline(c) == HeadPipeline(c) /\ mr.pipe = snap[c]

\* validateMergedPostcondition: a squash merge of the expected head.
Postcondition(c) ==
  /\ Identity(c)
  /\ mr.state = "merged"
  /\ mr.squash
  /\ mr.ready
  /\ snap[c] # Nil => SnapshotPipeline(c)

\* What c was asked for, at the provider.
Goal(c) == Postcondition(c) /\ HeadPipeline(c)

Active(c) == pc[c] \notin {"idle", "done"}

\* History: every change at the provider refreshes held.
Observed == held' = [c \in Invocation |-> held[c] \/ (Active(c) /\ Goal(c)')]

Init ==
  /\ mr \in {r \in MR : r.state # "merged" => ~r.squash}
  /\ pipe \in [PID -> Pipeline]
  /\ policy \in BOOLEAN
  /\ others = 0
  /\ ask \in [Invocation -> Ask]
  /\ pc = [c \in Invocation |-> "idle"]
  /\ ctx = [c \in Invocation |-> "live"]
  /\ snap = [c \in Invocation |-> Nil]
  /\ merged = [c \in Invocation |-> FALSE]
  /\ wire = [c \in Invocation |-> "unsent"]
  /\ echo = [c \in Invocation |-> "none"]
  /\ cause = [c \in Invocation |-> "none"]
  /\ verdict = [c \in Invocation |-> "none"]
  /\ held = [c \in Invocation |-> FALSE]
  /\ drift = [c \in Invocation |-> {}]

-----------------------------------------------------------------------------
(* The invocation.                                                          *)

Goto(c, l) == pc' = [pc EXCEPT ![c] = l]

\* The invocation ends: its context is canceled and its locals are gone.
End(c) ==
  /\ Goto(c, "done")
  /\ ctx' = [ctx EXCEPT ![c] = "done"]
  /\ merged' = [merged EXCEPT ![c] = FALSE]
  /\ echo' = [echo EXCEPT ![c] = "none"]
  /\ cause' = [cause EXCEPT ![c] = "none"]

Return(c, v) == End(c) /\ verdict' = [verdict EXCEPT ![c] = v]

\* c goes on to its next call.
Advance(c, l) == Goto(c, l) /\ UNCHANGED <<ctx, merged, echo, cause, verdict>>

\* History: c has just read these aspects.
Reads(c, aspects) == drift' = [drift EXCEPT ![c] = @ \ aspects]

Start(c) ==
  /\ pc[c] = "idle"
  /\ Advance(c, "project")
  /\ held' = [held EXCEPT ![c] = Goal(c)]
  /\ UNCHANGED <<provider, ask, snap, wire, drift>>

\* A read before the write fails or shows something else than expected, the
\* private input file cannot be written, or the context is done before the
\* mutation: an ordinary error.
Refuse(c) ==
  /\ pc[c] \in Preflight
  /\ Return(c, "refused")
  /\ UNCHANGED <<provider, ask, snap, wire, held, drift>>

\* loadMergeProject: the project itself must enforce pipelines and discussions.
AnyPolicy(c) ==   \* mutant: the project's settings are not looked at
  /\ pc[c] = "project"
  /\ ctx[c] = "live"
  /\ Advance(c, "view")
  /\ Reads(c, {"policy"})
  /\ UNCHANGED <<provider, ask, snap, wire, held>>
LoadProject(c) ==
  /\ pc[c] = "project"
  /\ ctx[c] = "live"
  /\ policy
  /\ Advance(c, "view")
  /\ Reads(c, {"policy"})
  /\ UNCHANGED <<provider, ask, snap, wire, held>>

\* The first view: open and mergeable, or merged already the way it was asked.
View(c) ==
  /\ pc[c] = "view"
  /\ ctx[c] = "live"
  /\ Identity(c)
  /\ Mergeable \/ Postcondition(c)
  /\ HeadPipeline(c)
  /\ snap' = [snap EXCEPT ![c] = mr.pipe]
  /\ merged' = [merged EXCEPT ![c] = (mr.state = "merged")]
  /\ Goto(c, "jobs")
  /\ UNCHANGED <<provider, ask, ctx, wire, echo, cause, verdict, held, drift>>

\* loadMergeSnapshot, first the jobs, then the bridges, of the pipeline viewed.
ReadJobs(c) ==
  /\ pc[c] = "jobs"
  /\ ctx[c] = "live"
  /\ pipe[snap[c]].jobs
  /\ Advance(c, "bridges")
  /\ UNCHANGED <<provider, ask, snap, wire, held, drift>>

ReadBridges(c) ==
  /\ pc[c] = "bridges"
  /\ ctx[c] = "live"
  /\ pipe[snap[c]].bridges # "red"
  /\ pipe[snap[c]].bridges = "green" => pipe[snap[c]].jobs
  /\ IF merged[c] THEN Return(c, "already_merged") ELSE Advance(c, "final")
  /\ Reads(c, {"bridges"})
  /\ UNCHANGED <<provider, ask, snap, wire, held>>

\* The second view, the last call before the write.
FinalView(c) ==
  /\ pc[c] = "final"
  /\ ctx[c] = "live"
  /\ Identity(c)
  /\ SnapshotPipeline(c)
  /\ \/ Mergeable /\ Advance(c, "write")
     \/ Postcondition(c) /\ Return(c, "already_merged")
  /\ Reads(c, {"target", "pipe"})
  /\ UNCHANGED <<provider, ask, snap, wire, held>>

\* The one PUT.  A request that cannot be started sends nothing and is a write
\* error all the same.
Write(c) ==
  /\ pc[c] = "write"
  /\ ctx[c] = "live"
  /\ \E w \in {"inflight", "lost"} : wire' = [wire EXCEPT ![c] = w]
  /\ Advance(c, "reply")
  /\ held' = [held EXCEPT ![c] = Goal(c)]
  /\ UNCHANGED <<provider, ask, snap, drift>>

Reconcile(c, why) ==
  /\ Goto(c, "reconcile")
  /\ cause' = [cause EXCEPT ![c] = why]
  /\ echo' = [echo EXCEPT ![c] = "none"]
  /\ UNCHANGED <<ctx, merged, verdict>>

\* The answer is a record: it is believed if it meets the postcondition.
Answered(c) ==
  /\ pc[c] = "reply"
  /\ ctx[c] = "live"
  /\ wire[c] = "applied"
  /\ IF echo[c] = "good" THEN Return(c, "merged") ELSE Reconcile(c, "none")
  /\ UNCHANGED <<provider, ask, snap, wire, held, drift>>

\* The provider's refusal arrives with a status boundedMergeRejection knows.
RefusalArrives(c) ==
  /\ pc[c] = "reply"
  /\ ctx[c] = "live"
  /\ wire[c] = "refused"
  /\ Reconcile(c, "status")
  /\ UNCHANGED <<provider, ask, snap, wire, held, drift>>

\* The connection breaks, the call's own 15 s pass, the answer is over budget or
\* cannot be read, or its status is not known.
StatusOfLateReply(c) ==   \* mutant: a gateway's status is taken for GitLab's refusal
  /\ pc[c] = "reply"
  /\ Reconcile(c, "status")
  /\ UNCHANGED <<provider, ask, snap, wire, held, drift>>
StatusForgotten(c) ==   \* mutant: a status of another kind is kept
  /\ pc[c] = "reply"
  /\ Reconcile(c, "unknown")
  /\ UNCHANGED <<provider, ask, snap, wire, held, drift>>
AnswerLost(c) ==
  /\ pc[c] = "reply"
  /\ Reconcile(c, "none")
  /\ UNCHANGED <<provider, ask, snap, wire, held, drift>>

\* reconcileMRMerge: one view decides.
ReconcileView(c) ==
  /\ pc[c] = "reconcile"
  /\ ctx[c] = "live"
  /\ Return(c,
       CASE Postcondition(c) -> "reconciled_merged"
         [] Identity(c) /\ mr.state = "opened" /\ cause[c] = "status" -> "rejected"
         [] OTHER -> "ambiguous")
  /\ UNCHANGED <<provider, ask, snap, wire, held, drift>>

\* The context was done already, or the reconciling view fails.
ReconcileFails(c) ==
  /\ pc[c] = "reconcile"
  /\ Return(c, "ambiguous")
  /\ UNCHANGED <<provider, ask, snap, wire, held, drift>>

\* The 45 s deadline of the operation, or an interrupt.
Expire(c) ==
  /\ Active(c)
  /\ ctx[c] = "live"
  /\ ctx' = [ctx EXCEPT ![c] = "done"]
  /\ UNCHANGED <<provider, ask, pc, snap, merged, wire, echo, cause, verdict, held, drift>>

\* The process is killed: no answer, and a request already sent lives on.
Crash(c) ==
  /\ Active(c)
  /\ End(c)
  /\ UNCHANGED <<provider, ask, snap, wire, verdict, held, drift>>

-----------------------------------------------------------------------------
(* The provider and its other users (outside src/).                         *)

\* The body of the PUT: GitLab merges only this head.
AnyHead(c) == TRUE   \* mutant: no sha in the body
GuardedHead(c) == mr.head = ask[c].head

\* The provider's own conditions for a merge.
Allowed ==
  /\ Mergeable
  /\ policy => mr.pipe # Nil /\ pipe[mr.pipe].sha = mr.head /\ pipe[mr.pipe].jobs

ApplyMerge(c) ==
  /\ wire[c] = "inflight"
  /\ Allowed
  /\ GuardedHead(c)
  /\ mr' = [mr EXCEPT !.state = "merged", !.squash = TRUE]
  /\ wire' = [wire EXCEPT ![c] = "applied"]
  /\ UNCHANGED <<pipe, policy, others, ask, pc, ctx, snap, merged, cause, verdict, drift>>
  /\ echo' = IF pc[c] = "reply"
               THEN [echo EXCEPT ![c] = IF Postcondition(c)' THEN "good" ELSE "bad"]
               ELSE echo
  /\ Observed

\* A request is refused with a 4xx, or never arrives.
DropWrite(c) ==
  /\ wire[c] = "inflight"
  /\ \E e \in {"refused", "lost"} : wire' = [wire EXCEPT ![c] = e]
  /\ UNCHANGED <<provider, ask, pc, ctx, snap, merged, echo, cause, verdict, held, drift>>

\* Another actor changes something; history: whoever is at work has not read it.
Disturb(aspects) ==
  /\ others < MaxOther
  /\ others' = others + 1
  /\ drift' = [c \in Invocation |->
       IF Active(c) \/ wire[c] = "inflight" THEN drift[c] \cup aspects ELSE drift[c]]
  /\ UNCHANGED <<ask, pc, ctx, snap, merged, wire, echo, cause, verdict>>

\* A push, with or without a new head pipeline yet, or a new pipeline alone.
OtherPushes ==
  /\ Disturb({"pipe"})
  /\ mr.state # "merged"
  /\ \E h \in Sha, p \in PID \cup {Nil} :
       mr' = [mr EXCEPT !.head = h, !.pipe = p]
  /\ UNCHANGED <<pipe, policy>>
  /\ Observed

\* A job is retried, fails or succeeds; or a downstream pipeline does.
OtherRunsChecks ==
  /\ \E p \in PID :
       \/ pipe' = [pipe EXCEPT ![p].jobs = ~@] /\ Disturb({"pipe"})
       \/ /\ pipe[p].bridges # "absent"
          /\ \E b \in {"green", "red"} : pipe' = [pipe EXCEPT ![p].bridges = b]
          /\ Disturb({"bridges"})
  /\ UNCHANGED <<mr, policy>>
  /\ Observed

OtherSetsPolicy ==
  /\ Disturb({"policy"})
  /\ policy' = ~policy
  /\ UNCHANGED <<mr, pipe>>
  /\ Observed

\* An open merge request is retargeted, marked draft or ready, closed, reopened
\* or merged, by squash or not.
OtherEdits ==
  /\ mr.state # "merged"
  /\ \/ \E b \in Branch \ {mr.target} :
          mr' = [mr EXCEPT !.target = b] /\ Disturb({"target"})
     \/ mr' = [mr EXCEPT !.ready = ~@] /\ Disturb({})
     \/ \E s \in {"opened", "closed"} \ {mr.state} :
          mr' = [mr EXCEPT !.state = s] /\ Disturb({})
     \/ /\ Allowed
        /\ \E q \in BOOLEAN : mr' = [mr EXCEPT !.state = "merged", !.squash = q]
        /\ Disturb({})
  /\ UNCHANGED <<pipe, policy>>
  /\ Observed

-----------------------------------------------------------------------------
Run(c) ==
  \/ Start(c) \/ Refuse(c) \/ LoadProject(c) \/ View(c)
  \/ ReadJobs(c) \/ ReadBridges(c) \/ FinalView(c)
  \/ Write(c) \/ Answered(c) \/ RefusalArrives(c) \/ AnswerLost(c)
  \/ ReconcileView(c) \/ ReconcileFails(c) \/ Expire(c) \/ Crash(c)

Provider(c) == ApplyMerge(c) \/ DropWrite(c)

Other == OtherPushes \/ OtherRunsChecks \/ OtherSetsPolicy \/ OtherEdits

Next ==
  \/ \E c \in Invocation : Run(c) \/ Provider(c)
  \/ Other

Spec == Init /\ [][Next]_vars

-----------------------------------------------------------------------------
(* Properties.                                                              *)

Successes == {"merged", "reconciled_merged"}

Effect(c) ==
  IF wire[c] = "unsent" THEN "none"
  ELSE IF wire[c] \in {"refused", "lost"} THEN "dropped" ELSE wire[c]

Phase(c) ==
  IF pc[c] = "idle" THEN "idle"
  ELSE IF wire[c] = "unsent" THEN "preflight" ELSE "attempted"

Claim(c) ==
  IF verdict[c] = "already_merged" THEN "noop"
  ELSE IF verdict[c] \in Successes THEN "done" ELSE verdict[c]

GW == INSTANCE GuardedWrite WITH
        phase <- [c \in Invocation |-> Phase(c)],
        effect <- [c \in Invocation |-> Effect(c)],
        verdict <- [c \in Invocation |-> Claim(c)]

\* Every invocation keeps the promise of GuardedWrite: one request at most, none
\* behind an ordinary error; merged, already merged and reconciled only when the
\* provider really had the squash merge of the expected head into the expected
\* branch with the pipeline of the snapshot; a rejection only when the request
\* did not and will not take effect.
ImplementsGuardedWrite == GW!Spec

\* A request of c is carried out in this step.
Carried(c) == wire[c] = "inflight" /\ wire'[c] = "applied"

\* However late the request is carried out, it squashes the head the caller named.
\* The rest of what is merged can differ from what was checked only where another actor
\* changed it after c's last look: the branch after the second view, downstream
\* pipelines after the bridges were read, and the pipeline itself only if, besides,
\* the policy was switched off after the project was read.
MergesWhatWasChecked ==
  [][\A c \in Invocation : Carried(c) =>
       /\ mr'.squash /\ mr.head = ask[c].head
       /\ "target" \notin drift[c] => mr.target = ask[c].target
       /\ "bridges" \notin drift[c] => pipe[snap[c]].bridges # "red"
       /\ ~({"policy", "pipe"} \subseteq drift[c]) =>
            mr.pipe # Nil /\ pipe[mr.pipe].sha = mr.head /\ pipe[mr.pipe].jobs]_vars
=============================================================================
