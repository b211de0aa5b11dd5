---------------------------- MODULE FindingPhases ----------------------------
(***************************************************************************)
(* The review and the docs stage: runs/review.py, runs/review_coverage.py, *)
(* runs/resolve.py, and the configured reviewer of runs/review_executor.py.*)
(***************************************************************************)
EXTENDS Session

\* A submission reports no finding or one.
Reported(stage) ==
  {<<>>} \cup {<<[stage |-> stage, kind |-> k[1], risk |-> k[2], status |-> "open",
                  fix |-> NoCommit]>> : k \in Kinds}

\* The findings of the stage a state belongs to.
Active(f, state) == StageFindings(f, FindingStage(state))

-----------------------------------------------------------------------------
(* context *)

ReviewContext ==
  /\ Enter /\ Fresh /\ ~LimitReached(run)
  /\ run.state = "REVIEW_AWAITING_FINDINGS"
  /\ seen' = [seen EXCEPT !["review"] = wt]
  /\ Commits(run, Idle)
  /\ ExceptSeen

\* The bundle of the docs stage is read first and its inputs are fingerprinted
\* after it, in Deliver, when the checkout may have moved.
DocsContext ==
  /\ Enter /\ Fresh /\ ~LimitReached(run)
  /\ run.coverage = wt
  /\ \/ run.state = "REVIEW_GREEN" /\ Transits(run, "BEGIN_DOCS", Doing("deliver", wt))
     \/ run.state = "DOCS_AWAITING_FINDINGS" /\ Commits(run, Doing("deliver", wt))
  /\ RecordOnly

Deliver ==
  /\ cmd.op = "deliver"
  /\ Commits([run EXCEPT !.stages["docs"].fp = FpOf(wt)], Idle)
  /\ seen' = [seen EXCEPT !["docs"] = cmd.at]
  /\ torn' = IF Tree(cmd.at) = Tree(wt) THEN torn ELSE torn \cup {Tree(wt)}
  /\ UNCHANGED <<findings, checkouts, note, remote, ran, moves, faults>>

\* reopen_if_stale, where context --section docs, verify, stage run and
\* mergeback begin: the reviewed snapshot is not the checked-out one.
ReopenReview ==
  /\ Enter /\ Fresh /\ run.coverage # wt
  /\ \/ /\ run.state \in {"REVIEW_GREEN", "DOCS_AWAITING_FINDINGS"}
        /\ ~LimitReached(run)
     \/ /\ run.state \in {"REVIEW_BLOCKED", "REVIEW_GREEN", "DOCS_BLOCKED", "DOCS_GREEN"}
        /\ Blocking(Active(findings, run.state)) = {}
     \/ run.state \in {"DOCS_GREEN", "TEST_GREEN"}
  /\ CanApply(run, "INVALIDATE_REVIEW") /\ Commits(Reopen(run), Idle)
  /\ RecordOnly

-----------------------------------------------------------------------------
(* submit-findings, and its tail that skips a disabled docs stage *)

\* The fingerprint names the executor that the risk demanded before this
\* submission; the findings it brings may raise the risk.
Accept(stage, batch) ==
  LET all == findings \o batch
      own == StageFindings(all, stage)
      changed == IF run.changed = {} THEN Changed(Tree(wt)) ELSE run.changed
      record == [run.stages[stage] EXCEPT !.status = "green", !.head = wt, !.fp = FpOf(wt),
                   !.executor = IF stage = "review" THEN Effective(run) ELSE "none"]
      stored == [Put(run, stage, record) EXCEPT
                   !.coverage = IF stage = "review" THEN wt ELSE @,
                   !.risk = Assess(changed, Range(all))]
      outcome == IF Blocking(own) = {} THEN "SUBMIT_CLEAN" ELSE "SUBMIT_BLOCKING"
  IN /\ Len(all) <= MaxFindings
     /\ CanApply(run, outcome)
     /\ CommitsBoth(Apply(stored, outcome), all,
                    IF Resolved(own) THEN Doing("submitted", NoCommit) ELSE Idle)
     /\ ran' = ran \cup {<<stage, Tree(seen[stage])>>}
     /\ Still /\ UNCHANGED seen

\* (mutant) the head that the manifest names is not compared.
SubmitReviewAnyHead(batch) ==
  /\ Enter /\ Fresh /\ ~LimitReached(run)
  /\ run.state = "REVIEW_AWAITING_FINDINGS" /\ Effective(run) = "in_harness"
  /\ seen["review"] # NoCommit
  /\ Accept("review", batch)

\* The manifest of a review submission names the head it was made for.
SubmitReview(batch) ==
  /\ Enter /\ Fresh /\ ~LimitReached(run)
  /\ run.state = "REVIEW_AWAITING_FINDINGS" /\ Effective(run) = "in_harness"
  /\ seen["review"] = wt
  /\ Accept("review", batch)

\* A docs submission names nothing: the fingerprint delivered must still hold.
SubmitDocs(batch) ==
  /\ Enter /\ Fresh /\ ~LimitReached(run)
  /\ run.state = "DOCS_AWAITING_FINDINGS"
  /\ run.stages["docs"].fp = FpOf(wt)
  /\ Accept("docs", batch)

\* _skip_docs_if_disabled, at the end of submit-findings, respond and verify.
SkipDocs ==
  /\ cmd.op \in {"submitted", "resolved"}
  /\ LET record == [NoRecord EXCEPT !.status = "skipped", !.head = wt, !.fp = FpOf(wt)]
         next == IF cmd.op = "submitted" THEN Doing("settle", NoCommit) ELSE Idle
     IN IF ~DocsEnabled /\ run.state = "REVIEW_GREEN"
        THEN Transits(Put(run, "docs", record), "SKIP_DOCS", next)
        ELSE Commits(run, next)
  /\ RecordOnly

-----------------------------------------------------------------------------
(* respond and verify *)

\* respond assesses the diff at HEAD anew.  It never reopens for a dismissal, an
\* acceptance or a deferral; a fix reported once the stage was green makes it
\* look at the snapshot again.
Answer(i, answer, r) ==
  LET f == [findings EXCEPT ![i] = answer]
      green == run.state \in {"REVIEW_GREEN", "DOCS_GREEN"}
  IN /\ CanApply(run, "RESPOND")
     /\ CommitsBoth(Apply(Assessed(r, Changed(Tree(wt)), f), "RESPOND"), f,
          IF answer.status = "fixed" /\ green THEN Doing("reopen", NoCommit)
          ELSE IF Resolved(Active(f, run.state)) THEN Doing("resolved", NoCommit)
          ELSE Idle)
     /\ Still /\ UNCHANGED history

Answerable(i) ==
  /\ Enter
  /\ run.state \in {"REVIEW_BLOCKED", "REVIEW_GREEN", "DOCS_BLOCKED", "DOCS_GREEN"}
  /\ i \in DOMAIN findings /\ findings[i].status = "open"

RespondClosed(i) ==
  /\ Answerable(i) /\ Fresh
  /\ Answer(i, [findings[i] EXCEPT !.status = "closed"], run)

\* _verify_fix_commit: one new commit on top of the reviewed head.
RespondFixedIsolated(i, n) ==
  LET c == SubSeq(wt, 1, n)
  IN /\ Answerable(i) /\ Fresh /\ ~InPlace
     /\ IsStrictPrefix(run.head, c)
     /\ Answer(i, [findings[i] EXCEPT !.status = "fixed", !.fix = c],
               [run EXCEPT !.fixes = @ \cup {c}])

\* _in_place_fix_commits: every commit since the reviewed head, up to the tip.
\* The source branch is the checkout, so the run follows it.
RespondFixedInPlace(i) ==
  /\ Answerable(i) /\ InPlace /\ ~dirty
  /\ IsStrictPrefix(run.head, wt)
  /\ Answer(i, [findings[i] EXCEPT !.status = "fixed", !.fix = wt],
            [run EXCEPT !.fixes = @ \cup CommitsBetween(run.head, wt),
                        !.head = wt, !.sourceHead = wt])

ReopenAfterFix ==
  /\ cmd.op = "reopen"
  /\ \/ /\ run.coverage # wt
        /\ CanApply(run, "INVALIDATE_REVIEW") /\ Commits(Reopen(run), Idle)
     \/ /\ run.coverage = wt
        /\ Commits(run, IF Resolved(Active(findings, run.state))
                        THEN Doing("resolved", NoCommit) ELSE Idle)
  /\ RecordOnly

\* (mutant) verify looks at the findings of the review whatever the stage.
VerifyReviewOnly ==
  /\ Enter /\ Fresh /\ run.coverage = wt
  /\ run.state \in {"REVIEW_BLOCKED", "REVIEW_GREEN", "DOCS_BLOCKED", "DOCS_GREEN"}
  /\ Blocking(StageFindings(findings, "review")) = {}
  /\ IF run.state \in {"REVIEW_BLOCKED", "DOCS_BLOCKED"}
     THEN Transits(run, "RESOLVE_GREEN", Doing("resolved", NoCommit))
     ELSE Commits(run, Doing("resolved", NoCommit))
  /\ RecordOnly

Verify ==
  /\ Enter /\ Fresh /\ run.coverage = wt
  /\ run.state \in {"REVIEW_BLOCKED", "REVIEW_GREEN", "DOCS_BLOCKED", "DOCS_GREEN"}
  /\ Blocking(Active(findings, run.state)) = {}
  /\ IF run.state \in {"REVIEW_BLOCKED", "DOCS_BLOCKED"}
     THEN Transits(run, "RESOLVE_GREEN", Doing("resolved", NoCommit))
     ELSE Commits(run, Doing("resolved", NoCommit))
  /\ RecordOnly

-----------------------------------------------------------------------------
(* review run: the configured reviewer *)

MayReview == Enter /\ Fresh /\ ~LimitReached(run) /\ Effective(run) = "command"

\* _record_review_command: a failure counts before its submission is read.
Reviewed(failed) ==
  LET record == run.stages["review"]
      status == IF failed THEN "red" ELSE "green"
      attempts == IF failed THEN record.attempts + 1 ELSE record.attempts
  IN [run EXCEPT !.stages = [@ EXCEPT !["review"] =
        [record EXCEPT !.status = status, !.attempts = attempts, !.head = wt,
                       !.executor = "command"]]]

StartReviewer ==
  /\ MayReview
  /\ run.stages["review"].attempts < MaxAttempts
  /\ \/ run.state = "REVIEW_AWAITING_FINDINGS"
        /\ Transits(run, "RUN_REVIEW_COMMAND", Doing("reviewer", wt))
     \/ run.state = "REVIEW_COMMAND_RED"
        /\ Transits(run, "RETRY_REVIEW_COMMAND", Doing("reviewer", wt))
  /\ seen' = [seen EXCEPT !["review"] = wt]
  /\ ExceptSeen

\* (mutant) a reviewer left running by a dead process is simply started again.
RecoverReviewerUncounted ==
  /\ MayReview /\ run.state = "REVIEW_COMMAND_RUNNING"
  /\ Commits(Reviewed(TRUE), Doing("reviewer", wt))
  /\ RecordOnly

\* The record says RUNNING and nothing runs: the earlier process died.
RecoverReviewer ==
  /\ MayReview /\ run.state = "REVIEW_COMMAND_RUNNING"
  /\ Transits(Reviewed(TRUE), "REVIEW_COMMAND_FAILED", Idle)
  /\ RecordOnly

ReviewerEnds ==
  /\ cmd.op = "reviewer"
  /\ \/ Transits(Reviewed(TRUE), "REVIEW_COMMAND_FAILED", Idle)
     \/ ~dirty /\ Transits(Reviewed(FALSE), "REVIEW_COMMAND_PASSED", Doing("submit", cmd.at))
  /\ RecordOnly

\* submit_findings on the reviewer's output, which checks everything again.
SubmitOutput(batch) ==
  /\ cmd.op = "submit" /\ Fresh /\ cmd.at = wt
  /\ Accept("review", batch)

RejectOutput ==
  /\ cmd.op = "submit"
  /\ \/ ~Fresh /\ Commits([run EXCEPT !.stale = TRUE], Idle)
     \/ /\ Fresh
        /\ CanApply(run, "RUN_REVIEW_COMMAND")
        /\ Commits(Apply(Apply(Reviewed(TRUE), "RUN_REVIEW_COMMAND"),
                         "REVIEW_COMMAND_FAILED"), Idle)
  /\ RecordOnly

-----------------------------------------------------------------------------

FindingStep ==
  \/ ReviewContext \/ DocsContext \/ Deliver \/ ReopenReview
  \/ SkipDocs \/ ReopenAfterFix \/ Verify
  \/ StartReviewer \/ RecoverReviewer \/ ReviewerEnds \/ RejectOutput
  \/ \E batch \in Reported("review") : SubmitReview(batch) \/ SubmitOutput(batch)
  \/ \E batch \in Reported("docs") : SubmitDocs(batch)
  \/ \E i \in DOMAIN findings :
       \/ RespondClosed(i) \/ RespondFixedInPlace(i)
       \/ \E n \in DOMAIN wt : RespondFixedIsolated(i, n)
=============================================================================
