---------------------------- MODULE RunLifecycle ----------------------------
(***************************************************************************)
(* One validation run from `start` to `finish`: every command of runs/     *)
(* that changes its record, the checkouts or the notes, interleaved with   *)
(* whoever else moves the branches and with the death of the process; and  *)
(* the properties of the whole.                                            *)
(***************************************************************************)
EXTENDS StartRun, FindingPhases, StageRuns, MergeBack, Publication

\* What the program does.
Program == \/ StartStep \/ Settle \/ StatusAdvance \/ RefuseStale
           \/ FindingStep \/ StageStep \/ MergeStep \/ PublishStep

\* What happens around it.
World == \/ \E p \in Patch : AgentCommits(p) \/ HumanCommits(p)
         \/ AgentResets \/ HumanResets \/ ChangesCleanliness \/ Dies

Next == Program \/ World

Spec == Init /\ [][Next]_vars

-----------------------------------------------------------------------------
(* Type invariant *)

\* Every variable holds a value of its kind: in particular each record the
\* commands persist is again a run record that the store can load.
TypeOK ==
  /\ run \in Run
  /\ findings \in Seq(Finding)
  /\ wt \in Commit /\ src \in Commit /\ dirty \in BOOLEAN
  /\ cmd \in Command
  /\ note \in Note /\ remote \in Published
  /\ seen \in [{"review", "docs"} -> Commit]
  /\ ran \subseteq Stages \X SUBSET Patch
  /\ torn \subseteq SUBSET Patch
  /\ switches \in Nat /\ moves \in Nat /\ faults \in Nat

-----------------------------------------------------------------------------
(* What an attestation means *)

\* Policy excuses a tree from a stage.
Excused(s, tree) ==
  \/ s = "docs" /\ ~DocsEnabled
  \/ s = "test" /\ DocsOnly(tree)

\* The stage was carried out on this tree, or need not be; or, the one gap, it is
\* the docs stage and its context was read from another tree, because the
\* checkout moved before the inputs of this one were recorded.
Validated(s, tree) ==
  \/ <<s, tree>> \in ran
  \/ Excused(s, tree)
  \/ s = "docs" /\ tree \in torn

\* An attestation names only results of its own tree, and every result whose
\* inputs were available is one of a stage really carried out on that tree,
\* whatever was archived, discarded, imported and retried on the way
\* (attestation.build, refresh_validation.verify_evidence).
AttestedIsValidated ==
  note # NoNote =>
    \A s \in Stages :
      /\ note.fps[s].tree = Tree(note.sha)
      /\ note.fps[s].flag = "ok" => Validated(s, Tree(note.sha))

\* No finding of an attestation still waits for an answer (verify_evidence).
AttestedIsResolved == Resolved(note.findings)

\* A verified run has an attestation of exactly the commit it will publish,
\* also when the process died between writing the note and the record, or a
\* branch moved there (mergeback: the note first, then MERGEBACK_OK).
VerifiedIsAttested ==
  run.state \in {"VERIFIED", "AWAITING_PUSH_CONFIRM", "PUSHED", "DONE"} =>
    /\ note.sha = run.head
    /\ run.sourceHead = run.head

\* Once something was published, the run never returns to validation and its
\* record keeps naming the published commit, whether or not the record of the
\* push was written (push).
PublishedStands ==
  remote.sha # NoCommit =>
    /\ run.state \in {"AWAITING_PUSH_CONFIRM", "PUSHED"} \cup TerminalStates
    /\ run.head = remote.sha
    /\ remote.note = note

-----------------------------------------------------------------------------
(* Findings, restarts, attempts *)

PastReview == {"REVIEW_GREEN"} \cup DocsStates \cup
  {"LINT_RUNNING", "LINT_RED", "LINT_GREEN", "TEST_RUNNING", "TEST_RED", "TEST_GREEN",
   "MERGEBACK_PENDING", "MERGEBACK_CONFLICT", "VERIFIED", "AWAITING_PUSH_CONFIRM", "PUSHED"}
PastDocs == PastReview \ {"REVIEW_GREEN", "DOCS_AWAITING_FINDINGS", "DOCS_BLOCKED"}

\* No run is past a findings stage that its policy demands while a finding of
\* that stage blocks, even when findings.json was replaced and run.json was not
\* (store.transaction).
NothingBlocksPast ==
  /\ run.state \in PastReview => Blocking(StageFindings(findings, "review")) = {}
  /\ DocsEnabled /\ run.state \in PastDocs =>
       Blocking(StageFindings(findings, "docs")) = {}

\* "A run whose validation returns to review [stage] max_restarts times stops
\* for a person": it waits for review, and only closing it is possible
\* (_session._apply, _check_restart_limit).
StopsAtLimit ==
  /\ run.restarts <= MaxRestarts
  /\ LimitReached(run) =>
       run.state \in {"REVIEW_AWAITING_FINDINGS", "ABORTED", "ORPHANED"}

\* A stage is never tried more often than [stage] max_attempts, counting the
\* attempts that died with their process (_check_attempt_limit,
\* _recover_interrupted_stage, _require_attempt).
AttemptsBounded == \A s \in Stages : run.stages[s].attempts <= MaxAttempts

\* Failed attempts of lint and test are not forgotten when validation starts
\* again; only the record of a skipped test starts over (invalidate_stage_result).
AttemptsSurvive ==
  [][\A s \in ShellStages : \/ run'.stages[s].attempts >= run.stages[s].attempts
                            \/ run'.stages[s].status = "skipped"]_vars

\* No transaction of any command is refused by the store's own rules about
\* the record (store.violations).
RecordConsistent == Consistent(run)

\* The review covers a head exactly while the review result of that head, with
\* its fingerprint, is in force (review_coverage, invalidate_stage_result).
CoverageIsTheReview ==
  run.coverage # NoCommit =>
    LET review == run.stages["review"]
    IN review.status = "green" /\ review.head = run.coverage /\ review.fp = FpOf(run.coverage)

\* A run validated in place returns to review only because its branch moved or
\* because its risk came to demand the other executor: at most twice for one
\* commit or reset (for the commit itself, and for the documentation result that
\* the repair of a red stage leaves behind), and once for a switch ("any return
\* to review that discards progress").
RestartsAreCaused == InPlace => run.restarts <= 2 * moves + switches

\* Recorded fixes leave the record only when somebody moved the source branch
\* ("the fix commits remain intact ... `mergeback` can retry").
FixesKept == [][run.fixes # {} => run'.fixes # {}]_vars

-----------------------------------------------------------------------------
(* The promise of a run, without its steps *)

Promise == INSTANCE ValidatedPublish WITH
  Trees <- SUBSET Patch,
  validated <- ran,
  attested <- note.sha,
  vouched <- {s \in Stages : note.fps[s].flag = "ok"},
  published <- remote.sha,
  phase <- IF run.state \in TerminalStates THEN "closed"
           ELSE IF remote.sha # NoCommit THEN "published" ELSE "open"

\* Every run keeps the promise of ValidatedPublish: nothing is validated,
\* attested or published in any other way or order.
KeepsPromise == Promise!Spec
=============================================================================
