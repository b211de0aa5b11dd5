# A verification project for agentic-preflight

agentic-preflight takes a branch through review, documentation review, lint and
tests, writes an attestation of the results into git notes, and publishes the
branch with that attestation. What makes it worth verifying is not any single
stage but what happens between them: an agent commits repairs while a command
runs, a person moves the source branch, results are archived and imported
again, the process dies between two writes, and at the end there must be one
attestation that is true of exactly one commit.

This directory holds TLA+ modules for that behaviour, TLC configurations that
check them on small instances, and proofs checked by TLAPS.

## 1. The system

Paths are relative to `src/agentic_preflight/`.

| component | code | state | operations |
|---|---|---|---|
| Lifecycle table | `machine.py` | none: a table of 28 states | `next_state`, `legal_actions` |
| Run record | `models.py`, `findings.py`, `runs/_session.py` | `RunDoc`: state, heads, fix commits, stage records, evidence, candidates, restarts, token | `_apply`, restart limit, `_assert_fresh` |
| Store | `store.py` | `run.json`, `findings.json`, `events.jsonl`, the active aliases | `transaction`, `violations`, `recover` |
| Evidence | `runs/evidence.py`, `fingerprints.py`, `refresh_validation.py`, `attestation.py` | evidence and candidates of the record | archive, reopen on changed inputs, import, build, verify |
| Start | `runs/start.py`, `sync.py`, `worktree.py` | validation checkout, alias, runner worktree | `start` |
| Review and docs | `runs/review.py`, `runs/resolve.py`, `runs/review_coverage.py` | coverage, findings | `context`, `submit-findings`, `respond`, `verify` |
| Configured reviewer | `runs/review_executor.py`, `runs/review_protocol.py` | attempts of the review | `review run` |
| Shell stages | `runs/stages.py`, `runs/_shell.py`, `runs/stage_baseline.py` | attempts, fingerprints | `stage run lint`, `stage run test` |
| Merge-back | `runs/mergeback.py`, `mergeback.py` | the recorded attempt | `mergeback` |
| Publication | `runs/publish.py` | token, pushed commit, remote notes | `gate`, `push`, `finish` |
| Abort, collection | `runs/lifecycle.py`, `housekeeping.py` | released, orphaned | `abort`, `gc`, `status` |
| Locks | `filelock.py`, `cli_support.py` | one operation lock per run, clone-wide locks | acquire, release at death |
| Pre-push hook | `hook.py`, `cli_policy.py` | none | decision over the updates of a push |
| Merge policy | `cli_policy.py`, `attestation.py`, `approval.py` | none | decision over history, notes and reviews |
| Notes exchange | `evidence_transport.py`, `gitx.py`, `sync.py` | notes ref and evidence refs of each clone and of the remote | fetch, merge, write, push |
| Stage processes | `stages/shellstage.py`, `stages/command.py` | a process tree, its output, copied files | plan, spawn, wait, kill, redact |
| Telemetry | `telemetry.py`, `report.py` | `summary.json` of a run, the mirror `runs.jsonl` of all clones | end of a run, `telemetry rebuild`, `report` |
| Hosted results | `hosted.py` | `hosted.json` of a run | `telemetry sync-hosted` |
| Hook log | `hooklog.py` | a log of decisions | append under a deadline |
| Review contracts | `runs/contracts.py`, `contract_*.py` | contract plans | plan, approve |
| Risk | `risk.py`, `runs/review_protocol.py` | the risk in the record | assess a change; it decides who reviews |
| The rest | grounding, diff, timing, detection, config, CLI, installers | none a run decides by | pure functions and formatting |

**How they interact.** Every command of the command line is a process. It takes
the operation lock of the run that the alias names, loads the record, checks
that the source branch is where the record says (`_assert_fresh`), and persists
its changes in store transactions. Each of those writes `findings.json` before
`run.json` and is refused when the new record breaks a rule of `violations`.
Between two transactions a command runs git, a stage, a reviewer or a push. The
checkout is shared with an agent who commits in it at any moment, and in the
isolated mode the source branch is shared with a person. Results are tied to the
tree they were obtained on by a fingerprint. When a fingerprint no longer holds,
`evidence.advance` archives the results, reopens review, and imports again what
still applies. `mergeback` brings the repairs back to the source branch and
writes the attestation, `push` publishes both.

Outside the run, the notes ref carries attestations between the clones and the
remote, and the pre-push hook and the merge policy decide by them. When a run ends, its summary
goes to a file of the run and to a mirror that all clones of a user share;
`telemetry sync-hosted` later joins to it what GitHub reports.

**What is hard about it.**

- *Interleaving.* HEAD of either checkout moves while a command holds an
  earlier value of it: in a stage, in `context`, between the note and the record.
- *Crash and restart.* A command can die between any two effects. The record
  then says `LINT_RUNNING` and nothing runs, the source branch holds half of a
  merge-back, a note exists that no record mentions, or a push happened that was
  not recorded.
- *Long protocols.* Repair, restart, archive, import and reset can follow each
  other in any order, each rewriting the same record.
- *Policy that depends on results.* The risk of a change, findings included, decides
  whether the agent may review it or the configured command must. A submission can
  change that answer for itself.
- *Limits.* `max_attempts` counts over restarts, deaths and retries;
  `max_restarts` must stop the run in a state from which a person can act.
- *Several runs of one clone.* The active-run pointers and the one validation
  runner are shared by the runs of all worktrees; `start` works without an
  operation lock, `gc` on an inventory, and a command on the run that its
  worktree pointed to before it waited.
- *Several clones.* They share the remote notes ref and race for it: a fetch is
  followed by a merge and a push, and only the lock of the own clone is held. A
  merge can conflict, a push can be rejected, its answer can be lost.
- *Processes.* A configured command forks, leaves its process group, keeps the
  pipe open, exits before its workers, and writes the copied secrets while its
  output is read, killed or redacted.
- *Shared files.* Every clone appends to the mirror and rewrites it as a whole;
  hooks append to one log under a deadline; any of them can be killed in a line.
- *History.* A branch is rebased, merged and reset while its base advances and
  reviews of its earlier heads stay.

**What makes each component correct.**

- Run record: every persisted record is loadable and within the store's rules;
  restarts are counted for a cause, and bounded.
- Review and docs: no run passes a stage with a blocking finding; coverage is
  the review in force.
- Shell stages and reviewer: attempts are bounded, and counted also when the
  process died; a result belongs to the tree it was obtained on.
- Evidence: no result is carried to a tree that it was not obtained on.
- Merge-back: a verified run has an attestation of exactly its head; recorded
  repairs are not lost.
- Publication: what is published is what was verified, once and for all.
- Notes exchange: no note is lost or silently replaced; what is published with a
  branch is what was verified; a run that is repeated gets published.
- Hook: every branch of the remote ends in something that was attested.
- Merge policy: what lands was validated, and approved where that is needed.
- Stage processes: a result means what it says, nothing is left over or leaked,
  and every stage ends.
- Telemetry: what a command reported as written stays, and so does every run that
  the report shows.
- Locks, pointers, runner: the runner is leased to one live run at a time, every
  live run is the one its worktree points to, no recorded repair is lost by a
  release, and `gc` accounts for what it leaves.

The hazards behind these properties are listed one by one, with the line where
each bites, in `PROJECT.json`.

## 2. The modules

```
Machine            the lifecycle table
  RunRecord        the record and the pure updates on it
    Session        the state, the world around it, shared guards, advance
      StartRun  FindingPhases  StageRuns  MergeBack  Publication
        RunLifecycle        Next, Spec, the properties
          MCRunLifecycle    the instances for TLC
ValidatedPublish   what a run promises, without its steps
CloneStore         runs, pointers, runner and processes of one clone
  CloneStart  CloneCommands  CloneGc
    RunnerLease        Next, Spec, the properties
      MCRunnerLease        the instances for TLC
NoteLedger         what the exchange of notes promises
NotesRef           a notes ref, its merges       PushHook  the hook's decision
  NotesPublish     clones, the remote, hand pushes; Next, Spec, the properties
    MCNotesPublish       the instance for TLC
CommandPlan        how a command is split, and what a shell would do
  StageProcess     a command's process tree; Next, Spec, the properties
    MCStageProcess       the instance for TLC
MirrorFile         the mirror's lines: append, merge, report
  Telemetry        summaries, mirror, hosted outcomes, hook log; Next, Spec
    MCTelemetry          the instance for TLC
GitGraph           what merges, rebases and diffs of a history contain
  MergePolicy      attestation, classification, approval; Next, Spec
    MCMergePolicy        the instance for TLC
RunLifecycleProofs      every update and command keeps a record sound
  RunPromiseProofs      the store's rules, what is attested, the refinement
RunnerLeaseProofs       types and pointers of the runs of one clone
InductionLemmas         induction with a set, tables, the maximum of a finite set
  NotesPublishProofs    the exchange of notes, and that it implements NoteLedger
  StageProcessProofs    splitting, secrets, whole passes, killed groups
TelemetryProofs         the mirror, the hook log and an undisturbed sync
MergePolicyProofs       what may land, for every history
```

There are six models. `RunLifecycle` follows one run in all
detail; `RunnerLease` follows several runs of one clone in reusable mode and
keeps of each run only what the others can touch. `NotesPublish` follows the
notes of runs in several clones, `StageProcess` one configured command,
`Telemetry` what is written when runs have ended, and `MergePolicy` a pull
request. They meet in what one takes from the other: the note that
`RunLifecycle` writes is the one `NotesPublish` carries and `MergePolicy` judges,
and the exit code of `StageProcess` is the result that `EndStage` chooses.

**State of RunLifecycle.** `run` is `run.json`, `findings` is `findings.json`, `wt` and `src`
are the HEADs of the validation checkout and of the source branch (equal when
`InPlace`), `dirty` says that the checkout has uncommitted changes, `note` is
the attestation in the local notes and `remote` what the last push published.
`cmd` is the command that holds the operation lock, with the one value it holds
in memory. Four variables are history: `seen`, the commit whose context was last
delivered, `ran`, the pairs of a stage and the tree it was really carried out on,
`torn`, the trees for which a documentation context was recorded although it had been
read from another one, and `switches`, how often a new risk gave the review another
executor. `moves` and `faults` count what the environment did.

**Actions.** A command is split exactly where the code makes something durable
or lets go of what it has read: one action per store transaction or external
effect. `stage run lint`, for instance, is `BeginStage` (the transaction that
says RUNNING), then `EndStage` or `BaselineFails` (the transaction with the
result), then `SkipTest` and `Settle` (its tail). Between any two, the agent
commits or resets, a person moves the source branch, the checkout becomes dirty
or clean, and the process dies (`Dies`, which also frees the lock, as the kernel
does). The next command then finds what the code finds.

| module | command | actions |
|---|---|---|
| StartRun | `start` | CreateCheckout, Synchronize, Setup |
| Session | tails, `status`, `_assert_fresh` | Settle, StatusAdvance, RefuseStale |
| FindingPhases | `context` | ReviewContext, DocsContext, Deliver |
| | `submit-findings` | SubmitReview, SubmitDocs, SkipDocs |
| | `respond` | RespondClosed, RespondFixedIsolated, RespondFixedInPlace, ReopenAfterFix |
| | `verify` | Verify, ReopenReview |
| | `review run` | StartReviewer, RecoverReviewer, ReviewerEnds, SubmitOutput, RejectOutput |
| StageRuns | `stage run` | BeginStage, BaselineFails, EndStage, RecoverStage, RepairRestart, SkipTest |
| MergeBack | `mergeback` | MergebackReopens, BeginMergeback, RetryMergeback, ResumeMergeback, SyncSource, PickFixes, Attest, RecordMergeback, ResetCheckout, RecordReset |
| Publication | `gate`, `push`, `finish`, `abort`, a later `start` or `gc` | Gate, Push, RecordPush, Finish, Abort, Orphan |

**State of RunnerLease.** `rec` holds the run records, `alias` the active-run
pointers (one per source worktree, and the runner's own), `runner` the reusable
worktree: whether it exists, the run whose branch it is on, the run whose head its
HEAD descends from, and whether the agent committed on top. `proc` says what each
process does, which run it works on, whose operation lock it holds, what record
it has read and, for `gc`, its inventory. `held` and `given` are history: the
branch that holds the repairs a record names, and the runs whose repairs landed
or were given up with `--force`. `here` and `moved` are what people did to the
source worktrees, `deaths` bounds the killed processes. A process makes one step
per store transaction, pointer update or sequence of git commands, so that two
processes interleave wherever the code lets go of its locks.

| module | code | actions |
|---|---|---|
| CloneStart | `start`, in the order of `runs/start.py` | Start, Resolve, Orphan, OrphanClear, IdleRelease, IdleMark, Create, Claim, Check, Lease, LeaseFails, Refuse, Path, Own, Begin, Synchronize, EmptyMark, Prime, Clear |
| CloneCommands | `finish_locked` with `abort`, `finish`, `respond`, `push` | Open, TakeLock, Load, Release, Commit, Respond, Push |
| CloneGc | `gc` | Inventory, Collect, Retain, Reclaim, Mark, Look, Remove |
| RunnerLease | `status`, and what the tool does not decide | Status, AgentCommits, SourceMoves, SourceGoes, Dies |

**State of NotesPublish.** `notes` is the notes ref of each clone, `retained` the
evidence commits it keeps, `remote` the notes, evidence and branches of the
remote. A notes commit is its history: the set of notes commits it contains. `at`
is how far each run's command is, `seen` the ref it fetched into, `vouched` the
note `push` verified before it took the lock. BeginSync and Reconcile are
`sync.synchronize`; BeginWrite and WriteNote are `attestation.write`; VerifyPush,
BeginPush, Reconcile, PushEvidence and PushRefs are `push`; Record is the
transaction of either. `GiveUp` is the error path of each, `Kill` a death,
HandPush a person who pushes one or two refs through the installed hook, which is
`PushHook!Allowed`.

**State of StageProcess.** `pc` is how far agentic-preflight is, from reading the
copied files (Capture) over PlanCommand, Spawn and Handle to the wait
(Communicate, TimeOut), the kill (KillAfterTimeout, Drain, Reap), the guard
(StopGuard), the check of the worktree (CheckClean) and the redaction (Finish).
Signal and Die are a SIGTERM or SIGINT. `alive`, `holding` and `exit` are the
processes of the command: a leader, a worker in its group and a descendant that
left it; they fork, exit, print, close their output, and write the copied file or
the worktree whenever they live. `exposed`, `outlived` and `abandoned` are
history.

**State of Telemetry.** `ended` says how a run ended, `summary` and `hosted` are
its two files, `mirror` and `log` the two shared files with their locks in
`holds`. `command` is what each process is doing: the end of a run (EndRun,
Summarize, Store, ToMirror, LockMirror, AppendRow), `rebuild` (Rebuild, Read,
Store, then Merge and Replace), `sync-hosted` (Sync, Fetch, Answer, Resummarize,
then as a rebuild), or a hook (BeginHook, Decide, LockLog, AppendDecision,
Expire). `Interrupt` kills any of them, and leaves in a file what it had written
of a line.

**State of MergePolicy.** `graph` is the history, `base` and `head` two of its
commits, `reviews` the reviews in the order of their ids. All that the code does
here is a decision, so the actions are what people do: Edit, MergeIn, Reset,
Advance, Review, Withdraw. The decisions are operators: `Verified`,
`TestsNotApplicable`, `LatestApprovals`, `EquivalentHeads`, `Approved`, `Passes`.

**Data of RunLifecycle.** A commit is the sequence of patches that leads to it, its tree the set
of those patches that change content. Two commits can therefore share a tree
(`EmptyPatch`), a rebase puts the base's patches in front, a cherry-pick appends,
and a documentation-only change is one of `DocPatch`. A finding is a stage, one
of three kinds ("blocking": high severity, `ask_user` or code-owned; "auto_fix";
"note"), the risk level of its severity and a status. The risk of a run is the
highest level of a changed path (`PathRisk`) or of a finding; it is assessed where
the code assesses it, with the changed files that the record then holds, and with
`[review] require_command_for` (`CommandFor`) it decides which executor a review
needs (`Effective`). A fingerprint is the tree and the mark that the code calls
available, and for a review also the executor, which the stage record and the
evidence hold (`SameInputs`). The configuration and grounding of a run are fixed;
these are what else a fingerprint digests.

Definitions whose comment begins with `(mutant)` are not part of the model. They
are deliberate mistakes, each checked to violate the property it is paired with
in `PROJECT.json`.

### Abstractions that a reader should know

- Several reads of HEAD inside one step of a command are one read. `context
  --section docs` is the exception: it reads the bundle and then fingerprints, in
  two steps (`DocsContext`, `Deliver`), and HEAD may move in between.
- The gate adds to the risk what the note says of its findings
  (`include_attested_findings`). Nothing reads the risk after the gate, and the
  model leaves this out.
- `evidence.advance` runs several transactions in a row without external effect
  in between. They are one step (`Advance`), with the point where it stops when
  the restart limit is reached and the one where an import is illegal.
- A HEAD that moves away and back while a stage runs is seen by nobody, in the
  code as in the model.
- The fix commits are a set and the cherry-pick order is arbitrary, where the
  code keeps a list; this allows more results than the code has. A cherry-pick
  of a patch that the branch has already, or of an empty one, conflicts.
- A refusal that persists nothing is no action. A refusal that persists
  something (`stale`) is.
- A pending record and an absent one are the same thing: `BEGIN_DOCS` creates a
  pending documentation record, which nothing tells from none.
- `start` holds no operation lock, so `Abort` may overtake it. The model then
  ends `start` there.
- `_synchronize` may fall back from rebase to merge; both give a branch on the
  base or a conflict.
- Candidates left by an earlier run are not imported; contexts read before the
  first review (`WORKTREE_READY`) change nothing and are left out.

- In `RunnerLease` the state "OPEN" stands for all states between the
  synchronization and the push, failed ones included, because no step of another
  run depends on which it is. Its commands are those that touch the runner or the
  repairs; `respond` stands for recording one repair.
- Only reusable mode has a checkout that runs share, so strict and in-place runs
  are not in `RunnerLease`. Neither are `--run`, commands issued from inside the
  runner, unreadable records and pointers to records that do not exist.
- A sequence of git commands on the runner is one step: the window that matters
  is between looking at it and taking it. An uncommitted change in the runner is
  not modelled; it only makes the code keep the runner where the model may free it.
- `gc` loads a run, classifies it, tries its lock and orphans it in one step. A
  run that ends in between makes the code fail where the model goes on.
- Merge-back has carried the repairs home by the time of `push`, so `push` marks
  them as given back (`RunLifecycle` says whether it did).


- `NotesPublish`: the note of a run names that run's evidence and nothing else; the
  transactions of a record are one step; `git push --atomic` moves all refs or
  none. A clone verifies only the notes whose evidence it keeps. A commit's
  attestation by two runs of one clone replaces the first note, as
  `notes add -f` does.
- `StageProcess`: a character stands for its class, and a blank for a space or a
  tab: the lexer also separates words at a carriage return, which a shell takes for
  an ordinary character, and which is left out. A program is found or not,
  whatever its name. The copied file has one path and two values, and only the
  command's own processes write it. Output is the set of values printed. Every
  wait of the code has a time limit, so a time-out is possible at once.
- `Telemetry`: a row is what tells it from others: run, source worktree, root
  commit, the second it was written and the second of its hosted outcome. Run id
  and source stand for the run key (the code adds the start time). The order of
  rows by finish time is not kept, the order of lines is. `--limit`, `--dry-run`
  and `--run` of the sync choose a subset and are left out.
- `MergePolicy`: a tree is two files with two or three contents, one pair of
  which differs in whitespace only. Every commit may have been attested against
  any earlier one (`Notes`), so the model asks what a valid note allows, not who
  wrote it. The protected policy, the mode of approval and the owner are
  constant, and every approved commit can be fetched. Findings of the note and
  approval by environment are left out: neither reads the history.

## 3. The properties

Of one run:

- `RecordConsistent`: no command ever reaches a record that `store.violations`
  refuses. Otherwise the command would fail half way and the run be stuck.
- `NothingBlocksPast`: no run is past a findings stage while a finding of that
  stage blocks, also after a crash between the two files of a transaction. The
  half about documentation is stated for a policy that demands it: with
  documentation switched off a torn write may leave a blocking documentation
  finding beside a record that goes on by `SKIP_DOCS`.
- `CoverageIsTheReview`: the head that the review covers is the head of the green
  review record, with its fingerprint, whatever was discarded and imported.
- `StopsAtLimit`: a run at its restart limit waits for review, or was closed.
- `AttemptsBounded`, `AttemptsSurvive`: no stage is tried more often than
  allowed, and no restart forgets a failure.
- `RestartsAreCaused`: a run validated in place returns to review only because a
  commit or reset moved its branch, at most twice for each, or because the risk came
  to demand another executor, at most once for each such switch. Both happen
  (section 5). In an isolated run the source branch and merge-back are causes of
  their own, and nothing is said of it.
- `AttestedIsValidated`: each result an attestation names is of its own tree,
  and each with intact inputs is of a stage really carried out on that tree, or
  excused by policy. The one gap of the code is named: documentation of a tree to
  which the checkout moved while its context was being read from another one
  (`torn`, section 5).
- `AttestedIsResolved`: no finding of an attestation waits for an answer.
- `VerifiedIsAttested`: from `VERIFIED` on, the local note is of the run's head,
  and the source branch was recorded there.
- `PublishedStands`: after a push, recorded or not, the run never returns to
  validation and its record and note stay those that were published.
- `KeepsPromise`: the run implements `ValidatedPublish`, in which stages are
  carried out on trees, an attestation vouches only for those, and one attested
  commit is published before the run closes. It is the action form of what the
  invariants say state by state: nothing attests after publication, a published
  commit is an attested one, and a closed run changes nothing.

Of several runs of a clone:

- `LiveOwnsTree`: a run past its creation is the one its worktree points to, for
  as long as it lives; no cleanup takes the pointer of another run. Cleanups
  compare and clear each pointer, at any time and without the run's lock, and
  this is what makes that safe.
- `RunnerHasOneRun`: at most one live run is past its creation, even when two
  starts lease the runner at once, because the runner's own pointer stops one.
- `LeaseIsSerial`: while a run lives, the runner leaves its branch only by a
  command at work on that run.
- `FixKept`: a repair that a record names is on some branch until it has landed
  or was given up with `--force`.
- `GcAccountsForRunner`: when `gc` is done, a runner still leased is leased to a
  live run, to a run at work, or to one that `gc` retained.

Of the notes of several clones:

- `PublishesWhatItVerified`: when a branch moves, the remote's note of its head is
  the one that `push` verified before it waited for the lock, and its evidence is
  there already.
- `NothingIsForgotten`: the exchange implements `NoteLedger`, in which a clone
  only learns from the remote and adds its own notes, and the remote takes over a
  clone's whole copy if it knows everything the remote has.
- `NotesAreChained`: two notes of one commit are never merged silently; each
  replaces one that its writer had seen.
- `TipsAreAttested`: every branch of the remote is part of a commit that some
  clone can verify, or was let through unevaluated by a hook that could not load
  its configuration. Exempt refs, force pushes and deletions do not change that.
- `PushSettles` (liveness): every run publishes its branch, or stays in one of
  three situations that the code leaves to a person (`Stuck`).

Of a configured command:

- `DirectIsTheSame`: a command that is run without a shell is run as a shell
  would have run it: same words, same characters, nothing left for it to act on. The
  planner's scanner and the lexer are compared with an independent reading of
  POSIX quoting. A backslash that continues a line is the exception (section 5).
- `SecretsStayOut`: no value the copied file held while the command ran is shown
  in the log, whoever wrote it back.
- `PassedIsWhole`: a passing result is of a leader that exited with zero by
  itself and whose output was read to its end. If no process outlived its output, the copied
  file is untouched and a stage left the worktree clean.
- `GroupIsGone`: after a time-out, or a signal during the wait, no process of the
  group is left, also when its leader exited first. (When the system refuses to
  signal the group, or Windows has no leader to walk from, the code kills what it
  can; `abandoned` says so.)
- `CommandEnds` (liveness): no command keeps its stage from ending.

Of what remains of a run:

- `ToldStands`: a row or a decision that a command reported as written is shown
  by the report and the log for good, as it is or newer, whatever was killed
  around it.
- `RunsStayReported`: every run that the report shows, of this or another clone of
  the repository or of none, with a record left or without, is shown after every
  change of the mirror, by a row as new or newer. It is about the rows that
  nobody was told of too: those of a command that died after writing, and those of
  clones whose records are gone.
- `OthersStand`: lines of other repositories and lines that are no rows are never
  changed, dropped or reordered.
- `SyncJoins`: a sync that nothing disturbs leaves no pushed run without its
  outcome in the summary, whatever was interrupted before, and the report shows
  every row it wrote.

Of a pull request:

- `LandedIsValidated`: every path that merging or squashing an attested head
  changes gets the content that was validated, and one that differs from the
  base of the validation, also in histories that cross.
- `UntestedIsDocumentation`: if the tests were skipped, no merge or squash changes
  anything but documentation.
- `ApprovedLands`: a head that passes the policy changes high-risk paths by merge
  only as some standing approval's own commit would, and by rebase only through
  commits whose patches the approved head contributes too.

`LeaseIsSerial`, `FixKept` and `GcAccountsForRunner` hold when processes run one
after the other and none is killed (`lease_serial`); with more interleaving or a
death they do not (section 5).

## 4. The runs

Every run of `MCRunLifecycle` is one run of the program from `start` until it ends, with all
commands, so `CHECK_DEADLOCK FALSE`: a finished run has no step, and neither has
one whose budget of moves is spent and that waits for a repair.

| run | mode | what happens | checks |
|---|---|---|---|
| `in_place` | in place; the agent reviews, at medium risk the configured command | two commits or resets by the agent, a repair that touches a sensitive path, one fault, one finding that blocks or only raises the risk, two attempts, three restarts, one token | TypeOK, RecordConsistent, CoverageIsTheReview, StopsAtLimit, AttemptsBounded, RestartsAreCaused, AttemptsSurvive |
| `isolated` | isolated, behind its base | two commits or resets by agent or person, also in the middle of a documentation delivery, blocking and repairable findings, one fault | NothingBlocksPast, AttestedIsResolved, AttestedIsValidated, VerifiedIsAttested, PublishedStands, KeepsPromise |
| `docs_disabled` | in place | code and documentation-only branches, two moves, no documentation stage | AttestedIsValidated |
| `fixes_dropped` | | see section 5 | FixesKept, refuted |

The runs of `MCRunnerLease`:

| run | runs, worktrees, processes, deaths | commands | checks |
|---|---|---|---|
| `lease_serial` | 2, 2, 1, 0 | all six | LeaseTypeOK, FixKept, LeaseIsSerial, GcAccountsForRunner |
| `lease_gc` | 2, 1, 2, 1 | start, gc | LiveOwnsTree |
| `lease_starts` | 3, 2, 2, 1 | start | RunnerHasOneRun |
| `two_starts` | 3, 2, 2, 0 | start | LeaseIsSerial, refuted |

The other runs:

| run | instance | checks |
|---|---|---|
| `publish_notes` | two clones, three runs, two commits of which one contains the other, one branch, one disturbance | TypeOK, NotesAreChained, TipsAreAttested, PublishesWhatItVerified, NothingIsForgotten, PushSettles |
| `stage_process` | every command of up to four characters of nine classes; three processes, two secret values, POSIX and Windows, stage and setup | TypeOK, DirectIsTheSame, SecretsStayOut, PassedIsWhole, GroupIsGone, CommandEnds |
| `telemetry` | one clone and its run beside three rows of two others, two commands at once and three in all, two seconds | TypeOK, ToldStands, RunsStayReported, OthersStand, SyncJoins |
| `merge_policy` | five commits, two reviews, six of both together, both modes of approval | LandedIsValidated, UntestedIsDocumentation, ApprovedLands |

Deadlock is checked where `gc` is among the commands, because `gc` can always be
run. Without it, a clone whose run ids are used up and whose source worktrees
point to no run has no step, and `CHECK_DEADLOCK FALSE` says so.

**The bounds of RunnerLease.** The run ids are the bound: two are needed for one
run to disturb another, three for two starts at once after the runner exists
(the third is the run that created it). Two worktrees are needed for two starts
at once, because a worktree has a start lock; with one worktree, a second process
still races with `gc` and with the commands. Runs and processes are
interchangeable and symmetric, and every property is a safety property, so the
symmetry is sound; the worktrees are left out of it. `lease_gc` is the largest
run, with 1.4 million distinct states.

**The bounds of RunLifecycle, and why they are enough for the question.** `MaxMoves` bounds the
commits and resets outside the program: with one, a repair and everything it
triggers; with two, a repair and an interference, or two repairs. `MaxFaults`
bounds deaths, torn writes and changes of cleanliness; with one, the process
dies at every point where it can, once. `MaxFindings` is `[review] max_findings`;
with one, a finding of either stage is reported, torn, answered and verified, and a
second batch meets the first one's finding; several findings at once are not
in these instances. `MaxTokens`
bounds the confirmation tokens, one in each instance; that `push` refuses
an old token is a guard that no property here depends on.
`MaxAttempts` and `MaxRestarts` are the program's own limits, at values that the
runs reach: `in_place` reaches the restart limit of three and the attempt limit of
two; with no commit or reset and one switch of the executor, two restarts are one
more than `RestartsAreCaused` allows, and with one commit and no switch three. Its
risk rises by a finding that needs no answer or by a repair of a sensitive path, so
runs are verified with a review by the agent and with one by the configured command.
The executor switches once at most there, and never back; a risk that falls
again is left to the proof. In `docs_disabled` the limit is five and never reached. No symmetry is
used, the patches play different parts.

**The bounds of the other runs.** *publish_notes*: two clones are needed for a
conflict and a lost race; two runs of one clone for its lock and for a replaced
note; the third run attests the same commit or its successor, so both a conflict
and a fast-forward occur. `MaxEvents` bounds kills, lost answers and pushes by
hand together: one anywhere. *stage_process*: four characters hold a quoted or escaped
character with one on each side, and two words; the process tree is finite
without a bound, since a process of each role forks at most once at a time.
*telemetry*: two commands race and the third comes after them; two seconds tell
older from newer, and equal times occur. `Mixes` keeps commands on runs and hooks
apart, as they share no file. *merge_policy*: five commits, the first one
included, are the fewest with a crossing history and a head on it, four with two
reviews leave a rewritten head and an advanced base. The two contents that
differ in whitespace are interchangeable and symmetric; all properties there are
invariants. A history of five commits never has three merge bases, nor bases
that cross again, so `OldTree` needs no further recursion.

These four runs stop by right, hence `CHECK_DEADLOCK FALSE`: every run has pushed
or is stuck, the stage has ended, or the budget of commands, commits and
reviews is spent. That they do not stop too early is what `PushSettles` and `CommandEnds`
say.

**Fairness.** `RunLifecycle` and `RunnerLease` assume none and claim no progress: the
code schedules nothing by itself, every command is issued by an agent or a
person. Two specifications state fairness.

- `StageProcess`: weak fairness of agentic-preflight's own steps, and none of the
  command's. Every wait of the code has a time limit (the stage's, then the one
  for the drain, then the one for reaping), so its next step always comes.
- `NotesPublish`: weak fairness of each step of a command that runs and of the
  verification of a push, strong fairness of taking the notes lock, because a
  waiter polls it (`filelock.exclusive`) and it is free again and again. That the
  agent repeats a command that failed is an assumption about the agent, which the
  envelope of the failure tells it to do; `PushSettles` says what then holds.

`Telemetry` and `MergePolicy` have safety properties only. A command of
telemetry is best effort: nothing promises that it ends well.

## 5. What the runs refute

The following statements of the documentation or the comments do not hold of the
code. Each is a run of its own, with one property; `PROJECT.json` quotes the lines.

1. `fixes_dropped`: merge-back fails on a conflict after it moved the source
   branch onto its base by itself. Its retry takes that for a resolution by a
   person, finds another tree, and resets to review without the recorded
   fixes.
2. `two_starts`: two starts in two worktrees both find the runner free. The
   second resets the branch that the first has just created and takes the runner;
   the first then works on a checkout that is not its own until the runner's
   pointer stops one of the two.

Further traces were met while the properties were being stated. They have no run
here, and explain where a property or an instance is narrower than one might
expect.

- A stage whose inputs changed while it ran is marked unavailable, but
  verification compares trees only (`refresh_validation.py:90`) and attests the
  result for the tree at the end. `AttestedIsValidated` is stated with this
  exception and holds with it.
- A commit between reading the documentation bundle and fingerprinting it
  (`runs/review.py:155`) leads to an attestation of documentation that was never
  delivered. It happens in `isolated`: without the tree in `torn`, `AttestedIsValidated`
  and `KeepsPromise` are violated there. Both are stated with exactly this tree
  excepted, and hold for all others.
- With `require_command_for = ["medium"]`, a review by the agent whose one finding is
  of medium severity and needs no answer is accepted and reopened by its own
  submission: its fingerprint is taken with the executor demanded before
  (`runs/review.py:253`), the finding raises the risk (`runs/review.py:301`), and
  `evidence.advance` finds another executor demanded (`runs/review.py:339`). The run
  returns to review, and a restart is counted, without a commit or a reset. Hence the
  `switches` in `RestartsAreCaused`.
- An `abort` waits for the lock of a run that ends meanwhile, then aborts the run
  that its worktree points to now, under the wrong lock (`cli_support.py:70`). A
  repair that `respond` records at that moment is on no branch afterwards. Hence
  `FixKept` with one process.
- `ls \` continued on the next line is split by the lexer into a word with a newline,
  which a shell drops; the comment at `stages/command.py:113` says that unquoted
  the two agree. Hence the exception of `DirectIsTheSame`.
- A push of the notes ref publishes the notes of other runs of the clone too, whose
  evidence refs nobody pushed yet; the comment at `runs/publish.py:230` is about the
  run's own. The hook lets a notes ref pass whatever it contains.
- Two clones that attest the same commit apart from each other conflict for good:
  every later fetch of either stops (`sync.py:294`) until a person merges the
  notes. It is the first of the situations in `Stuck`.
- A signal outside the wait for the output ends agentic-preflight and leaves the
  process tree running; so does, on Windows, a leader that exited first. A
  passing command may leave a process behind that closed its output.
- A run is synced and its summary rewritten, and the process dies before the
  mirror is: the next `sync-hosted` sees a summary that has the outcome and does
  not repair the mirror (`hosted.py:349-416`). The same happens when the two rows
  are of one second. `SyncJoins` is therefore about the summary and about the
  rows the sync wrote itself. A `--refresh` whose fetch fails leaves a stale
  summary too.
- `report` breaks a tie of equally old rows by the first row of each key,
  `_merge_mirror` by the order of lines, although the comment in `report.py` says
  that both match.
- `store.append_event` does not end an interrupted line, as the mirror and the
  hook log do: after a death in an append, two more appends make `load_events`
  fail for that run, although `store.py:371` expects a partial last line only.
- An approval of the exact current head counts although the same reviewer
  requested changes on another head later (`approval.py:299`). Approvals are
  compared modulo whitespace, so a rebase may land what differs from the approved in
  whitespace, and the rebase of the approved commit may conflict where that of the
  new one does not.
- `_contribution_patches` counts patches and forgets their order (`approval.py:110`).
  A branch that sets a file to b in its first commit, along with other code, and back to
  a in its second, on a base that has b too, may be approved and then rebased with the
  two commits swapped: the trees and the patches are the same, and merging gives the
  same, but rebasing the approved branch leaves a and rebasing the new one leaves b.
  It takes six commits, one more than the run explores; the attempt to prove that both
  rebases agree shows it. Hence `ApprovedLands` asks of a rebase that every patch it
  applies to a high-risk path was approved, and of a merge that the result was.
- The rule for skipping tests looks at the changed paths of a merge; a path that a branch
  touched and reverted is replayed by a rebase and not seen. Hence
  `UntestedIsDocumentation` for merge and squash.
- A lint or test repair counts as two restarts when the documentation stage was
  done before it: the repair leaves the documentation record with its old
  fingerprint (`runs/evidence.py:339`), the next submission notices it, reopens
  review a second time and imports at once the review it just archived. Hence
  `RestartsAreCaused` allows two returns for one commit; the proof that it never
  is three is in section 6.
- A run marked `stale` goes on once the source branch is back at the recorded
  head: `_assert_fresh` writes the mark without reading it.
- `gc` lists a run before its `start` has claimed the worktree, and orphans it by
  that old list although the pointer is there by then (`runs/lifecycle.py:150`).
- A `start` killed between leasing the runner and recording its path
  (`runs/start.py:522`) leaves a lease of which the record says nothing; `gc`
  neither reclaims nor reports it. Hence `GcAccountsForRunner` without deaths.
- `abort` releases the runner before it finds that it may not abort, and `gc`
  releases the runner of an ended run without a lock, by a record read before.
  Either can take the runner from the run that leased it meanwhile. Hence
  `LeaseIsSerial` and `FixKept` without a second process.

## 6. What is proved

TLAPS proves the following for every value of the constants: every set of
patches, branches, clones, runs, worktrees, processes, commands and histories,
every limit and every number of disturbances.

| Module | Theorem | States |
| --- | --- | --- |
| `RunLifecycleProofs` | `LegalTarget`, `AdvanceSound` | the table, `evidence.advance` |
| | `TypeCorrect`, `LimitHolds` | `TypeOK`, `StopsAtLimit` |
| `RunPromiseProofs` | `RecordIsConsistent`, `CoverageIsReviewed` | `RecordConsistent`, `CoverageIsTheReview` |
| | `AttemptsAreBounded`, `AttemptsAreKept` | `AttemptsBounded`, `AttemptsSurvive` |
| | `NothingIsPassed`, `AttestationResolved` | `NothingBlocksPast`, `AttestedIsResolved` |
| | `AttestedWhenVerified`, `PublicationStands` | `VerifiedIsAttested`, `PublishedStands` |
| | `AttestationIsValid`, `PromiseIsKept` | `AttestedIsValidated`, `KeepsPromise` |
| | `RestartsHaveCauses` | `RestartsAreCaused` |
| `RunnerLeaseProofs` | `TypeCorrect`, `PointerIsKept`, `OneRunPerRunner` | `LeaseTypeOK`, `LiveOwnsTree`, `RunnerHasOneRun` |
| `NotesPublishProofs` | `TypeCorrect`, `NotesChained`, `TipsAttested` | `TypeOK`, `NotesAreChained`, `TipsAreAttested` |
| | `VerifiedIsPublished`, `ImplementsLedger` | `PublishesWhatItVerified`, `NothingIsForgotten` |
| `StageProcessProofs` | `TypeCorrect`, `SecretsAreKept`, `PassIsWhole`, `KilledIsGone` | `TypeOK`, `SecretsStayOut`, `PassedIsWhole`, `GroupIsGone` |
| | `DirectRunsTheSame` | `DirectIsTheSame` |
| `TelemetryProofs` | `TelemetryTypeCorrect`, `WhatIsToldStands`, `RunsAlwaysStay` | `TypeOK`, `ToldStands`, `RunsStayReported` |
| | `OthersAlwaysStand`, `SyncsJoin` | `OthersStand`, `SyncJoins` |
| `MergePolicyProofs` | `ValidatedLands`, `UntestedLands`, `ApprovedLanding` | `LandedIsValidated`, `UntestedIsDocumentation`, `ApprovedLands` |

### The lifecycle of a run

**Types and the limit.** Every record that a command persists is a run record
again. This is less obvious than it sounds, because several commands move the
record without asking whether the move is legal, and an illegal move has no target:
`start` (three times), `evidence.advance` after its own checks, and the
reviewer's rejection of a submission. Only `_apply` asks for the restart limit,
so the same moves must be shown to start where restarts are left. A record is `Sound`
when it has its type, its fix commits are finitely many (merge-back needs an order
of them), its restarts are within the limit, and it is stopped if they have
reached it. The first lemmas show that each pure update keeps a record sound,
up to `AdvanceSound`: `evidence.advance` stops where the reopening reached the
limit and where an import would be illegal, and the lemma needs both.
The inductive invariant is `RunInv`: `TypeOK`, a sound record, and
`StartState`, which says that `start` is in the state its next move starts from (a
concurrent abort ends it).

**The record.** `RecordInv` adds to `RunInv` that the record is `Fit` and the command
in flight is `Working`. Fit is what the store's rules (`Consistent`) need to be
inductive: in which states an attempt, a token, a setup failure may be recorded,
that results of green stages and what the review covers agree, that candidates of
the review passed, that a running stage has an attempt left. `Working` says of each
value of `cmd.op` which state the record is in: a command lives through
transactions of which the next assumes the last. `AttemptsAreKept` is an
action property and follows from the same invariant, command by command:
discarding, archiving and importing rewrite the record that counts the failures,
and each is shown to keep them (`AdvanceTries`).

**The attestation.** `PublishInv` is `RecordInv` with the three properties of
publication and `Noted`: a note that was written and not yet recorded is of the
commit that the command holds. Without `Noted` the step that records the
merge-back could not be shown to verify the attested head, and with it the
movements of the source branch in between do not matter. `NothingBlocksPast` needs no
strengthening beyond the record: a torn write leaves new findings beside
an old record, and every move that would pass them is shown to look at them again.

**What it vouches for.** `ValidInv` adds `CarriedOut`: every result, evidence and
candidate whose inputs were intact is of a stage that `ran` has on that very tree, or
that policy excuses, or is documentation of a tree in `torn`. It must be said of all
three places at once, since archive moves results to evidence, reopening moves
evidence to candidates, and import moves candidates back. Two of its parts are about
moments: a fingerprint that `context` stored for a documentation stage that was not
yet carried out counts only while findings are awaited, and the configured reviewer
judges the commit that the command holds (`Reviewing`). A torn delivery is the one step
that adds to `torn`, and it adds the tree it records, so everything else that is
credited was carried out (`Credited`). From `ValidInv` each step of a run maps to a
step of `ValidatedPublish`, which has a step for the torn delivery (`Tear`), or to
none: this is `PromiseIsKept`. Nothing is assumed about who moves a checkout when.

**What sends it back.** That a run in place returns to review at most twice for
each commit or reset and once for each switch of the executor is an accounting
argument. A commit or reset pays for two returns, a switch for one, and the record
owes those it may still make without another cause (`Owed`): two, if the review covers
another commit than the one checked out, if a result of review, lint or test is of
another tree (`Behind`), or if the stage that is red was red at another commit; one,
if only the documentation result is of another tree, or if the review is by another
executor than the one demanded (`Foreign`); none otherwise. `Paid` says that the
returns made and owed are no more than was paid for. A switch adds at most one to what
is owed (`SwitchOwes`), whatever the record: the executor is compared in the review
result alone, and a record that owes already two owes no more. So every step is shown
to ease the record under the executor demanded before it (`Eased`), and the switch it
may make is accounted for once, in one lemma. Each kind of return clears what it was
owed for: reopening discards every result, and a repair discards all but the
documentation result, which is the one return it leaves owed. Import puts back only
results of the tree checked out and of the executor demanded (`SameInputs`), before the
findings that come with them are assessed. The rest of `CauseInv` are the moments
that this misses. A shell stage that a commit has overtaken (`Overtaken`) has no
result yet and owes two already, since it may end red or record what it ran on. Past
the review something is covered (`Standing`), so that a moved branch is seen to
owe; a red stage has no result, so that its repair is counted once; and `start`
begins with no result (`Blank`), so that its own commits owe nothing. In place,
merge-back neither picks nor resets (`Isolating`).

### The runs of one clone

The invariant of `RunnerLeaseProofs` is `Sure`, `Pointed`, `Known` and `Owns`: what
each process may take for granted at its step, and that a run past its creation
is named by both of its pointers. The argument is that a pointer is only ever
taken from a run that has ended, so what a process read before waiting stays true of
a live run: after `claim` its worktree points to it, at `begin` the runner does. That
holds for any number of processes without a common lock, and for deaths at any
step.

The promises about the runner itself (`FixKept`, `LeaseIsSerial`,
`GcAccountsForRunner`) are broken by a second process or by a death (section 5). What is
left of them, for commands that follow one another, is checked and not proved.

### The exchange of notes

`Inv` of `NotesPublishProofs` has four parts. `Copies`: every note in any history
is one that its writer still has, with the evidence of its own notes. `Chains`: the
notes of a commit in one history replace each other one after the other,
because whoever writes looks at what it has, stamps later than all of it (the maximum
of a finite set, `InductionLemmas`), and a merge refuses two notes of which neither
replaces the other. `Locked`: the notes lock keeps a clone still between the check of
a note and the push. `TipsAreNoted`: a branch of the remote is part of a commit with
a note in some clone, or let through unevaluated. The refinement shows each step to be
one of the ledger or a stutter; a fetch whose merge conflicts is a stutter.

### A configured command

`Untouched`: while nobody has written the copied file since the guard was
created, all it ever held is the captured value, so that nothing else can have
been printed; and once it was written the output is withheld. This is why the
guard has to be older than the process, and stopped after the output was read.
`Quiet`: a passing result is of a leader that is gone and a pipe that is closed;
if no process outlived them, nothing changes any more. `Killed`: a tree killed as
a whole has no member of its group left to fork another.

`DirectRunsTheSame` is about the planner, and needs of the state no more than that
the command is a sequence of characters (`Written`). Three readers go through one
command: the planner's scan, the lexer of the standard library, and a shell. Each is
a table with an entry for every position (`IsTable`, `TableInduction`), and the
proof is a chain of inductions over positions. If the scan finds nothing, it is in the
quote a shell is in at every position, skips what a shell escapes, and so
nothing is left for a shell to act on (`NothingFound`). With nothing found the
lexer is in that quote too, or between words, and has read a backslash when a
shell has (`LexerReads`). The words it holds at a position are then those that a
shell began before it, each with the characters the shell has kept of it so far
(`LexerHolds`), where "the members of a set of positions in order" is given as
an increasing enumeration, which exists and is one for every finite set
(`Ascending`). At the end these are the words of the shell (`WordsAreTheShells`).
Last, what a shell takes for an assignment is the beginning of the first word of the
lexer (`AssignmentLeads`), so that looking at that word suffices. The attempt also showed
that the exception for a newline in a program's name, which `DirectIsTheSame` once
made, is not needed: the planner leaves every unquoted newline to a shell, and in
quotes both keep it.

### Telemetry

The report makes two passes, by two keys: for each key the newest row exists and is
one (`NewestExists`, `NewestIsOne`), and a run that has a row at all is shown by one as
new (`ReportShows`). All properties need `Inv`. Whoever
is at the mirror has its lock, so the lines that a rewrite has merged are the
rewrite of what the mirror still holds; and every line is a row of these clones,
one of `Others`, or torn. A rewrite loses no run that a line or a row at hand shows, and
the rows that it takes out are all of the clones' repositories (`MergeKeeps`).
So each of the three ways to change the mirror, an append, a rewrite and an interrupted
line, shows every run again that was shown before, and `RunsAlwaysStay` follows.
`OthersStand` speaks of the lines that are not: `Kin` are runs elsewhere of which a
row with a root exists, since such a row may take one without a root along.

`SyncsJoin` needs `Sound` beside it, which holds as long as a sync is alone and
nothing fails for it: each run that lacks its outcome is one that the sync still
has to fetch, to read or to store (`Planned`), and its rows, made with one time and
one root, are at least as new as any row of their runs (`Fresh`). When it has nothing
left to do, no run lacks its outcome; and the rewrite of rows so new has no other row of
their runs (`MergedRun`). Its starting set is why a killed sync is made good
by the next one: a run whose outcome is stored and not in its summary is summarized
without being fetched.

### The merge policy

The attestation names a base commit and is refused unless it is the one merge
base. Everything rests on two facts about histories (`GraphInv`): a commit
contains itself and all that its ancestors contain, and nothing younger. From them
the only merge base is where the diff of a head starts (`ValidatedLands`), the
classified paths are all that a merge changes (`UntestedLands`), and an approval
that is carried over to an equivalent head lands the same tree by merge
(`ApprovedLanding`). A rebase is a fold over the commits: by induction on the commits
replayed so far (`ReplayTakesCommits`), what a path has in the end is what the base
has or what some contributed commit that touches the path made of it, and equivalent
heads contribute the same patches (`EquivalentPatches`). The paths of the contributed
commits are classified together with those of the merge, so that no high-risk path a
rebase could touch escapes the approval.

### Assumptions

All are `ASSUME`s of the modules that declare the constants, and TLC evaluates them
in the runs: patches are patches and `Upstream` is a sequence of them
(`PatchAssumption`), limits are positive as the configuration demands
(`LimitAssumption`), the policy names an executor and risk levels (`RiskAssumption`), the values of an instance have their types (`SetupAssumption`,
`HeadsAssumption`, `HomeAssumption`, `StartAssumption`, `OriginalIsAValue`,
`CommandsAssumption`,
`BoundAssumption`, `EventsAssumption`), special values are not confused with
others (`OwnerAssumption`, `CommitAssumption`, `BranchAssumption`,
`ValuesAreNoMarks`), a repository has finitely many clones (`CloneAssumption`), the name of a
directory is never one of a commit, and a run elsewhere has another id than those of
the clones (`TelemetryConstants`), and
ancestry of commits is reflexive and transitive, as git's is (`AncestorAssumption`).

## 7. What is only model-checked, and what is not modelled

- Liveness, `PushSettles` and `CommandEnds`: fairness is out of the prover's reach.
  It is checked for the notes exchange and for a configured command, and
  nowhere else (section 4).
- `LeaseIsSerial`, `FixKept` and `GcAccountsForRunner`: they hold for one process at a
  time without deaths, which `lease_serial` checks, and not beyond (section 5). That
  leaves the hazards open that more processes and deaths are for; `PROJECT.json` lists
  them without a property.
- Every other safety property is proved; what the modules compute
  over sequences and histories are recursive functions, and the proofs go
  by induction with a set of positions. No module declares a recursive operator.

Not modelled yet: strict mode across runs, candidates of earlier runs, the event
log and record migration, fetching evidence that another clone published, review
contracts. Not modelled on purpose: the comparison of reviews, grounding and
diff (pure functions of the tree), the figures and the rendering of reports,
timing, detection of commands, configuration, installation and wording, by which
no run decides anything. Repairs that change no content are in the model (`EmptyPatch`)
and in no run, but in the proofs. `PROJECT.json` lists each component with its reason.

## 8. The plan

Done are the lifecycle of one run, the runs of one clone that share the runner, the
notes of several clones with the hook, configured commands, telemetry with hosted
results and the hook log, and the merge policy; and the proofs of section 6. What is
left, in this order:

1. `EvidenceReuse`: candidates of earlier runs, their selection and a change
   of policy between runs.
2. `StoreTxn`: a transaction as its single file writes, with the event log; two
   writers and one death. The `Session` transactions are its abstraction.
3. Review contracts: the planning phase before review.

## 9. Running the checks

`tlc -config <run>.cfg MCRunLifecycle` checks a run (`MCRunnerLease` for the
`lease` runs and `two_starts`, `MCNotesPublish`, `MCStageProcess`, `MCTelemetry`
and `MCMergePolicy` for those named after them). `tlapm <module>.tla` checks the
proofs of `RunLifecycleProofs`, `RunPromiseProofs`, `RunnerLeaseProofs`,
`InductionLemmas`, `NotesPublishProofs`, `StageProcessProofs`, `TelemetryProofs`
and `MergePolicyProofs`; each takes from seconds to some ten minutes. `PROJECT.json` maps
every definition to the lines it models and every property to a mutant that
violates it.
