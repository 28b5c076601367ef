# TLA+ verification of gl-axi / glab-axi

`gl-axi` (compatibility name `glab-axi`) is a command line for agents and people
who work with GitLab. Every run is one process that reads, compares, changes at
most one thing at GitLab (or one local repository, or one directory), and tells
its caller what it knows. The state that matters is elsewhere: at the provider,
in Git, in the file system. So the hard part of this code is not its own
concurrency but everybody else's: what is read is old when it is used, an answer
may be lost after the request was carried out, a request may be carried out after
the command has given up, two runs may do the same thing, and the process may be
killed anywhere. The modules here model that protocol of each command with those
actors, check it with TLC and prove some of it with TLAPS.

## 1. The system

### Components, their state, their operations

| Component | Code | State | Operations |
|---|---|---|---|
| Product command runner | `internal/product/run.go`, `parser.go`, `registry.go` | none between runs | parse, dispatch, output one value, exit status |
| MR ensure | `product/commands_ensure.go`, `mr_creation_metadata.go`, `mr_native.go` | the branch pair's open MR (GitLab) | lookup, recheck, create or update, reconcile |
| MR merge | `product/commands_merge.go` | MR, pipelines, project policy (GitLab) | preflight reads, final view, PUT, reconcile |
| Deletions | `product/commands_delete.go` | issue, pipeline, release, snippet (GitLab) | two looks, DELETE, read-back, access check |
| CI variables | `product/commands_variables.go`, `civariable/` | a paged list (GitLab) | two inventories, POST/PUT/DELETE, third inventory |
| Issue edit | `product/commands_issue_edit.go`, `issue_edit_apply.go` | issue and label catalog (GitLab) | plan, adjacent reads, PUT, canonical read |
| Issue and MR notes | `product/commands_issue_write.go`, `commands_mr_write.go` | subject and notes (GitLab) | two looks, POST, read-back; close and reopen decline |
| Stacks | `localstack/`, `product/stack.go` | refs, metadata ref, lock directory (Git) | view, register (prepared transaction), switch |
| Downloads | `safedownload/`, `product/downloads.go` | directory entries, provider's object | pin, stage, stream, second look, publish, roll back |
| Reads | `product/commands_read.go`, `discovery.go`, `discussions.go`, `planning.go`, `snippets.go`, `ci_reads.go` | collections that others change | pages, rechecks, traces, polls |
| Native v1 lane | `app/service.go`, `gitlab/`, `contractcli/v1/` | MR and CI status (GitLab) | list, ensure, create, update, view, CI status |
| Delegated child | `delegate/glab/` | none between requests | one official `glab` process per request; login |
| Product native client | `productnative/client.go` | request and byte budget | one bounded request, never replayed |
| Self-update | `updater/updater.go` | the executable and its backup | manifest, confirm, stage, verify, two renames |
| Setup hooks | `setuphooks/install.go` | two agents' settings files | read, merge, write, roll back |
| Auth, config, safety | `auth/`, `config/`, `safeurl/`, `gitremote/`, `redact/`, `output/` | key ring entry, config file | pure checks around one read or write |

### How they interact

The runner calls one command. A command owns a `context` (deadline, interrupt) and
talks to GitLab through the delegated child or the native client: each request is
answered, refused, lost, or late, and that is all a command can know of it.
Commands never call each other; they meet at the provider, in the Git repository
or in the file system, and there they also meet other people, CI, and themselves
run twice. Nothing is persisted by the tool except stack metadata, downloads, the
executable, settings files and credentials.

### What is hard, and what makes each component correct

| Component | Hard behaviour | What must hold |
|---|---|---|
| every write | lost or late answers, deadline after the request left, kill | at most one request; an ordinary error sent nothing; a rejection will never take effect; a success was true |
| MR ensure | two creators, retries over a request still in flight | repeating never duplicates |
| MR merge | push, retarget, retried jobs, policy change during many reads | the named head only; what was checked, up to the last look |
| Deletions | recreated resource, 404 by lost access, a rejection that did happen | only the reviewed revision, up to the second look |
| CI variables | offset pages shift; hidden values cannot be compared | nothing readable replaced unseen; create only what was absent |
| Issue edit | names sent, identities compared; labels renamed meanwhile | one relabelling is always caught |
| Notes | someone else's note with the same text | created means this run's own item |
| Stacks | non-atomic inspection, symbolic refs, removed lock, lost commit acknowledgment | only inspected chains published; bindings never lost |
| Downloads | destination or parent replaced between system calls | nothing replaced; whole or absent; own entries only removed |
| Reads | page shift, revision change inside the window, lagging replica, endless polling | complete is whole; one evidence window; every read ends |
| Self-update | crash between two renames, two updaters with one backup name, a version compared long before | a complete executable survives; only the file it saw is replaced, by a newer one |
| Setup hooks | edits between read and write, a second file that fails | the setting is on where it says installed; nothing else in a file changes |
| Auth import | two stores written one after the other, whole-file configuration | rollback restores or says it did not; a token of the keyring is offered only to its own authority |
| Native v1 lane | unusable answers, retries, overlapping runs | what it answers is true; repeating never makes a second MR |
| Official glab child, login | descendants that keep the output open, the plaintext warning racing the child's end | every command answers that does not wait for the human's terminal; nothing is shown past the warning; success is the child's own |
| Product native client | overlapping calls, bodies at their bound, an echoed credential cut across reads | budget kept; accepted bodies are whole; the credential is not handed on |

`PROJECT.json` lists the hazards line by line, each with the properties that would
catch it.

## 2. Modules

Every command module has the same shape, so that they read alike:

* `pc[c]`: the next call of run `c`. An action is what the code does between two
  calls to the outside, and that call: its guards and early returns, what it keeps,
  where it goes next. Runs interleave at those calls.
* `ctx[c]`: `"live"`, then `"done"` once the deadline passed or the user interrupted.
  From then on reads fail; a request that has left is not called back.
* `wire[c]`: the one mutating request: `unsent`, `inflight`, `applied`, `refused`,
  `lost`. `Apply...` and `Drop...` are the provider's actions. They stay possible
  after the run has answered or died: that is a late request.
* `echo`, `reply`, `acked`, `cause`: the answer as the code reads it.
* `verdict[c]`: what the caller is told (the receipt's action, or an error).
* `held`, `drift`, `took` and others marked *history* are observations for the
  properties. No guard of the code reads them.
* Other actors take at most `MaxOther` steps. `Expire` and `Crash` may strike anywhere.

| Module | Models | Remarks |
|---|---|---|
| `GuardedWrite` | the contract of all writes | abstract: phase, effect, held, verdict; `Begin`, `Decline`, `Attempt`, `Settle`, `World`, `Conclude` |
| `MREnsure` | `executeMREnsure`, `ensureExisting`, reconciliation, creation metadata, delegated and native transport | two runs, one branch pair; implements `GuardedWrite` |
| `MRMerge` | `executeMRMerge` | project policy, MR, jobs, bridges, children, final view, PUT bound to a SHA; implements `GuardedWrite` |
| `ResourceDelete` | the four deletions | the release's answer carries the deleted record, the others' does not; scoped and total loss of access; implements `GuardedWrite` |
| `CIVariables` | variable set, update, delete | pages are separate steps; the value is compared in two inventories before the write, which itself is unconditional; implements `GuardedWrite` |
| `IssueEdit` | issue edit, its preview and its delegated form | label identities against label names; implements `GuardedWrite` |
| `NoteWrite` | issue create and comment, MR comment, close and reopen | success only on this run's own answer; implements `GuardedWrite` |
| `LocalStack` | stack view, register, switch | each Git command is a step; Git's prepared transaction with its guards; implements `GuardedWrite` |
| `SafeDownload` | job artifact, package and raw downloads | each system call is a step; directory entries as a set of links |
| `BoundedRead` | lists, search by creation, discussions, snippets, boards, pipeline views, watch, v1 list and CI status | each request is a step; one collection, one subject |
| `SelfUpdate` | `updater.go` after its configuration | each rename, look and removal is a step; files are told apart by who made them and the version they contain |
| `SetupHooks` | `setuphooks/install.go` | planning and writing of each file are steps; `config.toml` is a sequence of lines, scanned as the code scans it |
| `TokenImport` | `importToken`, `config.Load`/`Save`, the keyring, `productnative.Open` | two stores; imports and readers, with or without a token in the environment |
| `NativeMR` | `app.Service` Ensure, Create, Update over `gitlab.Client` | the v1 lane's own reconciliation, which is narrower than the product lane's |
| `GlabChild` | `runCapturePath`, `runLogin`, the two relays | goroutines are separate actions; one child, its pipe, its descendant |
| `NativeTransfer` | `productnative.Client` Do, Stream, Close | the mutex is a turn; a body is a sequence of pieces |
| `LocalTools` | the six modules above, one at a time | composition; see below |
| `MC*` | small instances | model values, symmetry, constant functions |
| `DeletionInvariant` | the inductive invariant of `ResourceDelete` | definitions only, so that one module can prove about two |
| `MREnsureProofs`, `MRMergeProofs`, `NoteAndDeleteProofs`, `CIVariablesProofs`, `IssueEditProofs`, `LocalStackProofs` | theorems about the writes (`MREnsureProofs` also about `GuardedWrite`, `NoteAndDeleteProofs` about `NoteWrite` and `ResourceDelete`) | see section 5 |
| `SafeDownloadProofs`, `LocalToolsProofs` | theorems about downloads and about the local tools | see section 5 |

**Composition.** Each write module instantiates the abstract one,
`GW == INSTANCE GuardedWrite WITH phase <- ..., effect <- ..., verdict <- ...`, with a
refinement mapping from `pc`, `wire` and the receipt, and its property
`ImplementsGuardedWrite == GW!Spec` says that every behaviour of the command is one
that the contract allows. The mapping is short on purpose: the phase is whether the
request has left; the effect is the fate of `wire`; a verdict is a no-op, a success,
a rejection or ambiguous.

`LocalTools` composes differently. Its six parts share no state, so it does not interleave
them: `Init` is the disjunction of theirs and the values of `pc`, which no two parts have in
common, say which one a behaviour belongs to. The variable `world` is in turn the
directory, the settings files, the two stores, the provider, the child, or the client. A
property of `LocalTools` is the conjunction of what its parts promise of the same kind
(answers that are true, changes only of what was seen, credentials that stay home), each
under the condition that it is that part's behaviour.

**From code to actions.** The `map` in `PROJECT.json` gives, for each definition, the
lines it stands for. Data is abstracted to what properties can tell apart: a title and
a description are one content, a revision is what the code compares, a page has two
items instead of a hundred. A response that the normalisation would refuse is the
action `Refuse`, `Fail` or `ReconcileFails`, enabled wherever a read is: whichever byte
was wrong, the code leaves by the same path. The provider, Git and the file system are
external: they are modelled by what the code relies on (a SHA-bound merge is refused
for another head; `update-ref` holds its locks from `prepare`; a rename with no-replace
fails if the name exists). Definitions marked *mutant* in a module are no part of the
model: they are what a plausible bug would make of the definition they precede, and
replacing it by them must break the property named in `PROJECT.json`.

## 3. What the runs check

| Run | Instance | Distinct states | Shows |
|---|---|---|---|
| `mr_ensure` | 2 runs, 2 MRs, 2 contents, 2 heads, 2 metadata, 1 step of others | 736k | `ImplementsGuardedWrite`; `RetriesNeverDuplicate`: run after run, with answers lost and processes killed, never two open MRs, unless a run starts while another's request is still at work |
| `mr_merge` | 1 run, 2 heads, 2 branches, 2 pipelines, 2 steps of others | 1.18M | `ImplementsGuardedWrite`; `MergesWhatWasChecked`: the named head only, and exactly which later changes can slip in |
| `resource_delete` | 2 runs, 3 revisions, 2 steps of others | 629k | `ImplementsGuardedWrite`; `DeletesTheReviewed`, for a release also what the answer says was deleted |
| `ci_variables` | 1 run, 3 keys on pages of one, 2 values, 3 steps of others | 157k | `ImplementsGuardedWrite`; `ReplacesTheExpected` |
| `ci_variables_absence` | the same, 2 steps of others | violation | a create leaves although the variable existed throughout two "complete" inventories |
| `issue_edit` | 1 run, 2 titles, 2 names, 2 labels, 2 steps of others | 917k | `ImplementsGuardedWrite`; `EditsTheReviewed`; `SuccessIsTheWholeEdit`: success means this run's own, complete edit, and one relabelling is always caught |
| `stack` | 1 run of any kind and 2 steps of others, or 2 registrations and 1 | 1.45M | `ImplementsGuardedWrite`; `ViewIsASnapshot`; `ChangesWhatWasInspected`: a registration publishes an inspected chain, a switch goes to a reviewed branch; `KeepsBindings` |
| `safe_download` | 1 download of each kind, 2 parents, 4 objects under 3 listings, 2 steps of others | 995k | `TouchesOnlyOwn`: nothing replaced, own entries only removed; `WholeOrAbsent`, a clean refusal included; `ReceiptIsTrue`, up to which object is delivered |
| `note_write` | 1 run of each action, 3 steps of others | 133k | `ImplementsGuardedWrite`; `NotesWhatWasReviewed` |
| `bounded_reads` | 1 read of each kind, limits 2 and 4, pages of 2, at most 2 pages, 3 polls, 2 steps of others | 183k | `CompleteIsWhole`; `ShowsTheLatest`; `OneEvidenceWindow`; `EveryReadAnswers` |
| `local_tools` | 2 runs of one tool: see the bounds below | 628k | `ExecutableSurvives`; `ChangesOnlyWhatItSaw`; `AnswersAreTrue`; `CredentialsStayHome`; `ShowsUpToTheWarning`; `EveryChildEnds` |
| `native_ci_snapshot` | 1 CI status, pages of 2 | violation | a job retried between two pages |

Each module's `TypeOK` is an invariant of its run; that of `LocalTools` is the disjunction of
its parts' (and so says that a step of one part never leads into another).

Two runs are expected to find a violation: a document says more than the code can
keep. `docs/ci-variables.md:85` has create require *proven* absence, and
`docs/architecture.md:421` calls a native CI status *one complete snapshot*; both rest
on offset pages that are separate requests, with no snapshot behind them. The findings
in `PROJECT.json` quote the lines and describe the shortest behaviours.

Several properties say *up to what others changed after the last look*. That is not a
weakness of the model: GitLab offers no conditional write for most of these resources,
the code says so where it matters (`issue_edit_apply.go:34`), and the property states
exactly which window is left and that nothing else is.

### Bounds, and why they are enough

* *Runs.* Two where runs of one command can hurt each other: ensure (both create),
  delete (both delete, one recreated), register (both publish), and the tools of
  `local_tools`. One elsewhere, because
  another run is one of the other actors: it can do no more to an MR, a variable or an
  issue than a person can, and those actions are in the models.
* *Other actors.* One to three steps, at any point between two calls. Two are what an
  ABA takes (change and put back), a double relabelling takes, and two inventories
  need (one deletion in each). With three the variables run also covers one change
  after those.
* *Values.* Two contents, heads, commits, titles: the asked one and another. Three
  revisions for deletion, so that both the recreated and its replacement differ from the
  reviewed one. Two pipelines: the head's and a later one. Four objects to download: the
  selected one, one the listing cannot tell from it, one of another name, one of another size.
* *Pages.* Pages of one or two items and two or three pages: enough for an item to move
  over a boundary in either direction, for the limit to fall inside, at, and past a page
  boundary, and for the page budget to be met exactly and exceeded.
* *Other actors act only where a run can still see it* (`Seen` in `BoundedRead`, and
  likewise the guards on other actors elsewhere): steps after every run has ended are in no
  property's sight.
* *The tree is not read by everyone.* Only a switch looks at the working tree and the branch
  of a stack, so `Unread` fixes their first values for the other kinds.
* *`local_tools`.* A tool's bound counts the runs that begin and the steps of other programs
  together (`MaxUpdateActors` 3, the others 2): two runs against each other, or one run and
  another program, for the update also two runs and one other step. Three versions, two of
  which differ only in the order of 9 and 10; three target files, one of each kind, in the
  forms that matter to the line scanner (setting present, absent, odd; another table after
  it; a form it does not know); two hosts, two authorities, three tokens, one of them
  accepted only at the other authority. Two pieces of a child's output: the second is what
  must not be shown after the first. Two native requests, one buffered and two streamed
  bytes, three calls: every budget is met and exceeded. One merge request at first, two in
  all: repeating can make a second. (`NativeMR` alone was also run with four actors, 1.19M states.)
* Symmetry is declared over model values the code treats alike, and never in the run
  with a liveness property.

Deadlock is not checked (`CHECK_DEADLOCK FALSE`): all runs end, and the bounded others stop.

### Fairness

`BoundedRead` states weak fairness of `Step(c)`: a command that can take a step takes one. The
code justifies it, since every request runs under a deadline (30 s for reads, `limits`), so
that it is answered or fails, and a wait between two polls is a timer. No fairness is assumed
of the provider or of other actors: `EveryReadAnswers` holds although the pipeline may never
end and transient failures may go on for ever, because polls, pages and attempts are counted.

`GlabChild` states weak fairness of the command's main goroutine where it does not wait for the human's
terminal (its other waits are for a child that has ended or under `loginDrainTimeout` and
`WaitDelay`), of the killer (a killed process ends), and of the copy of a captured output, which
never waits for anyone. It states none of the child, of its descendants, of the login's relays or
of the human's terminal: `EveryChildEnds` holds although each of these may stop for ever.

A login on Windows waits for the terminal without a limit in two places (`Hangs`). `AfterWait`
runs before the first timed wait: it closes the human's input, which waits for a read of it, and the pseudo console, and
`ClosePseudoConsole` returns when its output has been taken, which a relay that is inside
`writeFull` does not do. Closing the file of the human's terminal (`TerminalClosed`) waits
for a write of the relay to end. No fairness is assumed there, and `EveryChildEnds` excepts exactly a
command that stays there for ever; a login on Unix and a captured call always answer.

Writes need no liveness: their deadlines are the subject of `Expire`, and their promise is
about what is said when they end.

## 4. Findings while modelling

Besides the two violations, the models record these facts about the code as the exact
wording of a property:

* Between a recheck and its POST another creator can still win: `RetriesNeverDuplicate`
  excludes runs that race, and `raced` says when.
* The bridges of a pipeline are read before the last view, and their downstream pipelines
  may turn red after that without the pipeline's own status showing it
  (`MergesWhatWasChecked`).
* A paged list can lose an item that was there throughout when another one is removed
  meanwhile; cursors cannot (`CompleteIsWhole`).
* A download of a job's archive or of one raw artifact pins no digest: the second look compares the
  metadata of the job. It can deliver another object if that replaced the selected one
  under the same name and size, once and for good, or with others if it is swapped in and out
  between the looks (an archive always of the size listed). A package file, whose digest the selection carries, cannot (`ReceiptIsTrue`, `Mistakable`).
* `Resolver.Resolve` takes a token of the environment before it looks at the keyring, and uses it
  as it is at whatever authority the configuration names. Only the keyring's tokens were
  validated at their authority and are stored under it (`TokensStayWithTheirAuthority`).
* A login on Windows may never end while the human's terminal takes nothing more, in spite of the
  drain timeouts (`EveryChildEnds` and `Hangs`, under *Fairness*).
* `updater.go:1-2` and `docs/security.md:470` call the update an atomic replacement with
  rollback. It is two renames: a process killed between them leaves no file at the
  executable's path, and the old version under the backup's name, which every later update
  then refuses to touch. `ExecutableSurvives` therefore says path *or backup*.
* The backup's name is shared. Two updaters inside their last calls can restore or remove
  each other's backup; and as the version is compared with the running build, an updater that
  started earlier can replace a newer executable by an older one. `overlap` and `blind` say when.
* The line scanner of `config.toml` knows `[features]` and `hooks = ...` only. Other valid forms
  (`features.hooks = false`, `[ features ]`, a quoted key) are not recognised, and setup adds a
  second definition beside them while it answers *installed* (`Understood` excludes these).
* An auth import writes back the whole configuration it read before the token was typed, so an
  entry added meanwhile is lost (`KeepsTheRest` names the entries that changed since).
* The v1 lane reconciles only network errors, timeouts and statuses 409, 422 and 5xx. After a
  POST that took effect, an unusable answer (not JSON, cut, mismatched content) is a plain error and
  an interrupt is *canceled*, both as before any request was sent. `CreatesAtMostOne` shows that
  repeating is safe all the same.
* The v1 ensure says *updated* also when its update found nothing to do, or found its change
  already made by somebody else (`Says`).
* A login can succeed with output nobody has looked at, if a descendant of the child holds it
  open for longer than the drain timeout; and a captured child that exited with success is
  reported as failed when a descendant does so.
* The native client refuses a credential hidden by JSON escapes only in buffered calls; a stream is
  not parsed. Internally a body may exceed its budget by the one byte that shows it is too long.

## 5. What is proved

Every state and action property that a run checks of the writes, of the downloads and of the
local tools is a theorem, but for the finding of `ci_variables_absence`. The theorems about writes and local tools hold
for every number of runs (also of the same command at once), every set of values, every
history of the provider, repository or directory, and any bound on the steps of others; so do the
types of the downloads, and their other three properties hold for one download (`OneDownload`) and
any number of steps of the others, among which other downloads are counted.

| Module | Theorems (the property of the run) |
|---|---|
| `MREnsureProofs` | `Honesty` (`HonestVerdict` of the contract), `TypeCorrect`, `Refinement` (`ImplementsGuardedWrite`), `HonestAnswers` (the two together: what mr ensure says may be acted on), `Retries` (`RetriesNeverDuplicate`) |
| `MRMergeProofs` | `TypeCorrect`, `Refinement`, `MergesChecked` (`MergesWhatWasChecked`) |
| `CIVariablesProofs` | `TypeCorrect`, `Refinement`, `Replaces` (`ReplacesTheExpected`) |
| `IssueEditProofs` | `TypeCorrect`, `Refinement`, `Reviewed` (`EditsTheReviewed`), `WholeEdit` (`SuccessIsTheWholeEdit`) |
| `NoteAndDeleteProofs` | of `NoteWrite`: `TypeCorrect`, `Refinement`, `Reviewed` (`NotesWhatWasReviewed`); of `ResourceDelete`: `DeleteTypeCorrect`, `DeleteRefinement`, `DeleteReviewed` (`DeletesTheReviewed`) |
| `LocalStackProofs` | `TypeCorrect`, `Refinement`, `Snapshot` (`ViewIsASnapshot`), `Keeps` (`KeepsBindings`), `AsInspected` (`ChangesWhatWasInspected`) |
| `SafeDownloadProofs` | `TypeCorrect`, `Receipts` (`ReceiptIsTrue`), `WholeOrNothing` (`WholeOrAbsent`), `OwnOnly` (`TouchesOnlyOwn`) |
| `LocalToolsProofs` | `LocalToolsAreTyped` (`TypeOK`), `AnExecutableSurvives` (`ExecutableSurvives`), `CredentialsStay` (`CredentialsStayHome`), `NothingPastTheWarning` (`ShowsUpToTheWarning`), `ToolsAnswerTruly` (`AnswersAreTrue`), `ToolsChangeWhatTheySaw` (`ChangesOnlyWhatItSaw`) |

### The argument

`Honesty`: `GWP!Spec => []GWP!HonestVerdict`, `GWP` being `GuardedWrite`. A refusal or a no-op has sent nothing, a
rejection is final, a claimed success was true. It needs `Honest`, that nothing is answered
before the run begins and nothing is sent before the attempt: without the first half a
verdict could precede the evidence that `Begin` resets.

Every other module proves one inductive invariant, `IInv` (theorem `Invariance`) or `ToolsInv`
(`ToolsInvariant`), from which the rest follows. TLC checked each as an invariant of its run before
it was proved.
Neither the types nor the properties are inductive by themselves; `IInv` adds, per run `c`:

* *Stages.* What each value of `pc` says of the request, the answer and the verdict:
  nothing has left before the write, no verdict before the end, an acknowledgment or a
  status only of a request that was carried out or refused.
* *Evidence.* Whatever a run would accept as a success (a view, an answer, the state of the
  provider while it is under way) is in `held`, that is, has been true since it began or
  attempted. Without it a `Conclude` with `done` could not be matched.
* *Window.* From the last look to the moment a request is carried out, the thing looked at is as it
  was seen, or its change is in `drift`. The action properties (`DeletesTheReviewed`,
  `MergesWhatWasChecked`, ...) are this, at the step in which the provider acts.
* What is special to a command. `MREnsure`: as long as no writers overlapped, one run at most is at
  work, and it creates only where nothing is open (`Alone`). `MRMerge`: what was checked at each place of the
  preflight and has not drifted since (`Checked`). `ResourceDelete`: what each answer tells (`Answers`).
  `NoteWrite`: the provider's counters stay below their bounds because what was carried out is
  counted (`Bounds`; likewise in `IssueEdit`). `IssueEdit`: the resolved labels keep their names unless a
  relabelling is counted, and after one the names no longer match what was asked
  (`LabelsOf`). `CIVariables`: the
  Window page for page: what the second inventory found is still so unless a change is noted
  since that inventory began; and a list of distinct keys stays one (`AppendNew`, `RemoveOne`).
* `LocalStack` needs most. A pass over the repository has read a prefix of its order, so that a
  complete one has read all of it (`ReadOf`); the plan holds (`PlanOf`); only one registration has
  Git's locks (`Exclusive`); under them, with no symbolic reference left, what was verified does not
  move (`GuardedOf`); and while others have changed the repository at most once, the pass that
  did not see the change shows the repository as it is, so one of the two passes of a view is a
  snapshot (`SnapshotOf`).

* `SafeDownload`: the entries a run recorded are a prefix of its plan, each in the directory opened for
  it (`RecordedInOrder`); while it stages, nothing of its own is anywhere else but the directory it
  has made and not opened yet (`PlaceOf`), so that a rollback that took everything back has left nothing
  (`LeftOf`); what stands is whole (`StandsOf`); and the four checks of the parent, the staging name, the
  selection and an entry's identity hold until a history notes a change (`CommitOf`, `WindowOf`,
  `UnlinkOf`). The proof found what two steps of others could not show: `WholeOrAbsent` once
  overlooked a directory that others put in the place of a new one before it is opened. With a third
  step they take it away again, and a rollback that finds nothing by that name ends without a complaint
  while what was written into that directory stays. The property now says so.
* `LocalTools`: `ToolsInv` is the disjunction of six invariants, one for each part. No step's name
  belongs to two parts (`PartsApart`), so the part that runs is the one whose invariant holds
  (`ItsPart`), and each part's lemma `...InvHolds` is about its own actions only.
  * `SelfUpdate` (`UpdateInv`): the directory holds an executable at one of its two names as long as no
    two runs overlap in their renames (`UpdateDirectory`). A run's view of the path is current or the
    path's change is in its history (`UpdateHistory`). The versions it knew are no newer than those
    the path and the backup have now (`UpdateAnswers`).
  * `SetupHooks` (`SetupInv`): files are planned in order, written in order and undone in reverse
    (`SetupCame`). What a planned file holds is what was read or what is to be written, unless
    changed since (`SetupHolds`). The plan of a file is what the code computes from the text it read
    (`SetupPlanned`), and lemmas about that computation say that it sets the setting and keeps every
    other line: for `config.toml`, that a line inserted before the header after the first
    `[features]` table, or changed inside it, belongs to that table.
  * `TokenImport` (`ImportInv`): every item of the ring holds a token validated at its own API
    (`ImportRing`), so that a token that did not come from the environment is valid where it is used
    (`ImportValid`); a run knows the other hosts' entries as they are, and its own item as it was or as
    it made it, unless they changed since (`ImportKnown`, `ImportItem`).
  * `NativeMR` (`LaneInv`): without a race one run at most is at work, one merge request at most is
    open, and none while a POST is to be made or under way (`LaneQuiet`). What a run has sent and
    read agrees with its place in the code (`LaneRun`), and what it asks for has been true at the
    provider since it began, if it is or if an answer said so (`LaneHeld`).
  * `GlabChild` (`ChildInv`): what is left in the pipe is the end of what was printed (`ChildOutput`);
    the terminal was given the rest, but for the piece in the relay's hands, until the relay failed
    (`ChildShown`); and what the goroutines recorded agrees with what was printed and with the child's
    end (`ChildSeen`, `ChildEnded`).
  * `NativeTransfer` (`NativeInv`): a call that has sent has the client's turn and takes no more than
    remains; accepted bodies are within what was counted (`NativeCount`); and the kept tail is the last
    piece of the body so far, so that a credential cut by two pieces is seen in the tail and the next
    one (`NativeCall`).

There is one lemma per kind of step, and under it a step per action: the steps that leave a run
alone (`StillStep`), those that end one (`EndStep`), those of the provider, and the run's own.
A refinement matches each action to one of `GuardedWrite`: `SilentStep` for reads, waiting and
dying, `DeclineStep`, `ConcludeStep` for answers, `ObserveStep` for changes by others.

### Assumptions

Each theorem rests on the `ASSUME` of the module it is about and nothing else; TLC evaluates it in
that module's run (`NoteAndDeleteProofs` reaches `ResourceDelete` by `INSTANCE`, so its theorems about
deletions name `DeleteAssumption` as a hypothesis). All of them say only that bounds are natural numbers, that the marker for "nothing" is
no value, that the sets of identities, keys, chains or runs are finite, and that what is asked for
is among the values. Finiteness is used where something is counted: the merge requests
of a pair (`EnsureAssumption`), the keys of a list (`VariableAssumption`), and the runs that each
change a counter once, or share a bound (`EditAssumption`, `NoteAssumption`, `StackAssumption`).

`LocalAssumption` is longer because it is about six parts. It says that there is a run; that runs are not named like the
other makers of files; that the bounds on actors let every run begin; that versions are
triples of natural numbers, targets, hooks and lines of the kinds the code tells
apart; and that validated pairs consist of a token and an API. It bounds neither the number of runs nor lengths,
budgets, hosts or contents.

### Only model-checked

* `CreatesOnlyWhatWasAbsent` and the native snapshot are violated: findings, not theorems.
* `BoundedRead` (`TypeOK`, `CompleteIsWhole`, `ShowsTheLatest`, `OneEvidenceWindow`). Its invariant
  is not stated yet: each kind of read needs its own account of which pages saw which items.
* `SafeDownload` with two downloads in the model: its histories note the steps of the others and not
  those of another run. If others put one directory under both runs' private staging names, one
  run's rollback may remove, between its check and its call, a file of the other, whose receipt is
  then not true (TLC finds it with three steps of others); `OneDownload` excludes this.
* `EveryReadAnswers`, `EveryChildEnds`: liveness, and with it `ENABLED`, are out of these provers' reach.
* What a recursive definition computes for every input would need induction over data. No module
  here declares `RECURSIVE`: sequences are handled with functions and the community modules.

## 6. What is not modelled, and why

* Windows handles (`files_windows.go`): the download protocol over other system calls. Of the
  login on Windows the input relay and the places where the command waits for the terminal are modelled,
  the pseudo console itself is not.
* Parsers, normalisation, redaction, output formats, schemas: functions of one value. They
  decide between accepted and refused; both outcomes are explored everywhere.
* Building the delegated requests (`delegate/glab/contract.go` and its siblings): pure functions
  from a typed request to an argument vector. A model would be a copy of the tables.
* The official glab's version handshake and the check of its configuration files and secure
  store before a request: reads of local files that can only refuse.
* Choosing among several environment variables of tokens (they agree or the command refuses),
  validation of URLs, hosts and remotes: pure.
* Output that cannot be written after a mutation is done (`run.go:160`): it changes no state, and the
  exit status depends on the error alone.
* Views of one request, and the two looks around one snippet file.
* More than one target of a kind in a hook setup (the code has two hook files and two skills): one plan and one writer serve them all. The other files
  in an update's directory are told apart only as far as the update looks at them. The exemption
  of a HEAD answer from the check of `Content-Length`; a credential in more than two pieces of an answer.
* What a history excuses is not examined further: jobs that are replaced while a list is paged are
  excused like removed ones (`CompleteIsWhole`); two updaters inside their renames (`past.overlap`),
  edits of other programs (`foreign`), output after the drain timeout (`past.late`).
* Release tools, the compatibility shim's argument translation, generated documentation.

## 7. Plan

Written in this order, the most important behaviour first: `GuardedWrite`, `MREnsure` (with
its proofs), `MRMerge`, `ResourceDelete`, `CIVariables`, `IssueEdit`, `LocalStack`, `SafeDownload`,
`NoteWrite`, `BoundedRead`, then `SelfUpdate`, `SetupHooks`, `TokenImport`, `GlabChild`,
`NativeTransfer`, `NativeMR` and their composition: done. Next:

1. Theorems of `BoundedRead`.
2. Snippet file reads as one more kind of `BoundedRead`.
