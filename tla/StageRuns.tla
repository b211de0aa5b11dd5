------------------------------ MODULE StageRuns ------------------------------
(***************************************************************************)
(* `stage run lint` and `stage run test`: runs/stages.py, the baseline     *)
(* check of runs/stage_baseline.py and the test skip of runs/review.py.    *)
(***************************************************************************)
EXTENDS Session

\* _STAGE_STATES and _STAGE_READY_STATES.
StageTable == [lint |-> [ready |-> "DOCS_GREEN", running |-> "LINT_RUNNING", red |-> "LINT_RED",
                    begin |-> "RUN_LINT", retry |-> "RETRY_LINT",
                    passed |-> "LINT_PASSED", failed |-> "LINT_FAILED",
                    restart |-> "LINT_FIX_RESTART"],
          test |-> [ready |-> "LINT_GREEN", running |-> "TEST_RUNNING", red |-> "TEST_RED",
                    begin |-> "RUN_TEST", retry |-> "RETRY_TEST",
                    passed |-> "TEST_PASSED", failed |-> "TEST_FAILED",
                    restart |-> "TEST_FIX_RESTART"]]

\* A repair of a red stage moves the branch of an in-place run by design.
MayRun(s) ==
  /\ Enter
  /\ \/ Fresh
     \/ InPlace /\ run.state = StageTable[s].red /\ run.stages[s].head # NoCommit

Failed(s) ==
  LET record == run.stages[s]
      failed == [record EXCEPT !.status = "red", !.attempts = record.attempts + 1,
                               !.head = wt]
  IN [run EXCEPT !.stages = [@ EXCEPT ![s] = failed]]

\* _recover_interrupted_stage: the record says RUNNING and nothing runs.
RecoverStage(s) ==
  /\ MayRun(s) /\ run.state = StageTable[s].running
  /\ Transits(Failed(s), StageTable[s].failed, Idle)
  /\ RecordOnly

\* (mutant) the review result goes, the coverage it recorded stays.
RepairRestartKeepsCoverage(s) ==
  LET red == run.stages[s].head
      moved == [run EXCEPT !.fixes = @ \cup CommitsBetween(red, wt),
                           !.head = IF InPlace THEN wt ELSE @,
                           !.sourceHead = IF InPlace THEN wt ELSE @,
                           !.stages[s].head = NoCommit]
  IN /\ MayRun(s) /\ run.state = StageTable[s].red /\ ~dirty
     /\ red # NoCommit /\ IsStrictPrefix(red, wt)
     /\ Transits(Discard(moved, (ShellStages \ {s}) \cup {"review"}),
                 StageTable[s].restart, Idle)
     /\ RecordOnly

\* _register_stage_fix_commits: commits on top of the red attempt repair it,
\* and validation starts again.  The other shell stage saw an older tree; the
\* docs stage keeps its record.
RepairRestart(s) ==
  LET red == run.stages[s].head
      other == ShellStages \ {s}
      moved == [run EXCEPT !.fixes = @ \cup CommitsBetween(red, wt),
                           !.head = IF InPlace THEN wt ELSE @,
                           !.sourceHead = IF InPlace THEN wt ELSE @,
                           !.coverage = NoCommit,
                           !.stages[s].head = NoCommit]
  IN /\ MayRun(s) /\ run.state = StageTable[s].red /\ ~dirty
     /\ red # NoCommit /\ IsStrictPrefix(red, wt)
     /\ Transits(Discard(moved, other \cup {"review"}), StageTable[s].restart, Idle)
     /\ RecordOnly

\* _check_attempt_limit: failures count over all restarts of the run.
AttemptsLeft(s) == run.stages[s].attempts < MaxAttempts

BeginStage(s) ==
  LET record == run.stages[s]
      outdated == record.head \notin {NoCommit, wt}
      red == run.state = StageTable[s].red
  IN /\ MayRun(s) /\ run.state \in {StageTable[s].ready, StageTable[s].red} /\ ~dirty
     /\ run.state = "DOCS_GREEN" => run.coverage = wt
     /\ red => ~outdated
     /\ AttemptsLeft(s)
     /\ Transits([(IF outdated THEN Discard(run, {s}) ELSE run) EXCEPT !.setup = "none"],
                 IF red THEN StageTable[s].retry ELSE StageTable[s].begin, Doing(s, wt))
     /\ RecordOnly

\* check_baseline: the base could not be prepared, so the stage never ran.
BaselineFails(s) ==
  LET record == [NoRecord EXCEPT !.status = "red", !.head = wt,
                                 !.attempts = run.stages[s].attempts + 1]
  IN /\ cmd.op = s
     /\ Transits([run EXCEPT !.stages[s] = record, !.setup = s], StageTable[s].failed, Idle)
     /\ RecordOnly

\* _persist_stage_result: what one execution leaves in the stage's record.
StageResult(s, passed, fp) ==
  LET record == run.stages[s]
  IN [record EXCEPT !.status = IF passed THEN "green" ELSE "red",
                    !.attempts = IF passed THEN record.attempts ELSE record.attempts + 1,
                    !.head = wt, !.fp = fp]

\* (mutant) the inputs are read once, when the stage has ended.
EndStageLate(s, passed) ==
  LET record == StageResult(s, passed, FpOf(wt))
      next == IF ~passed THEN Idle
              ELSE Doing(IF s = "lint" THEN "skip_test" ELSE "advance", NoCommit)
  IN /\ cmd.op = s
     /\ passed => ~dirty
     /\ Transits(Put(run, s, record),
                 IF passed THEN StageTable[s].passed ELSE StageTable[s].failed, next)
     /\ ran' = IF passed THEN ran \cup {<<s, Tree(cmd.at)>>} ELSE ran
     /\ ExceptRan

\* The end of run_stage.  A checkout left dirty fails the stage; one whose
\* inputs changed while it ran leaves a fingerprint marked unavailable.
EndStage(s, passed) ==
  LET same == Tree(cmd.at) = Tree(wt)
      fp == [flag |-> IF same THEN "ok" ELSE "unavailable", tree |-> Tree(wt)]
      record == StageResult(s, passed, fp)
      next == IF ~passed THEN Idle
              ELSE Doing(IF s = "lint" THEN "skip_test" ELSE "advance", NoCommit)
  IN /\ cmd.op = s
     /\ passed => ~dirty
     /\ Transits(Put(run, s, record),
                 IF passed THEN StageTable[s].passed ELSE StageTable[s].failed, next)
     /\ ran' = IF passed /\ same THEN ran \cup {<<s, Tree(wt)>>} ELSE ran
     /\ ExceptRan

\* _skip_test_if_not_applicable, after lint passed.
SkipTest ==
  /\ cmd.op = "skip_test"
  /\ LET record == [NoRecord EXCEPT !.status = "skipped", !.head = wt, !.fp = FpOf(wt)]
     IN IF run.state = "LINT_GREEN" /\ DocsOnly(Tree(wt))
        THEN Transits(Put(run, "test", record), "SKIP_TEST", Doing("advance", NoCommit))
        ELSE Commits(run, Doing("advance", NoCommit))
  /\ RecordOnly

StageStep ==
  \/ SkipTest
  \/ \E s \in ShellStages :
       \/ RecoverStage(s) \/ RepairRestart(s) \/ BeginStage(s) \/ BaselineFails(s)
       \/ \E passed \in BOOLEAN : EndStage(s, passed)
=============================================================================
