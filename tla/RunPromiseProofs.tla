--------------------------- MODULE RunPromiseProofs ---------------------------
(***************************************************************************)
(* What every run keeps, for every repository, policy and bound.  Three    *)
(* invariants, each resting on the one before, and a fourth on the first:  *)
(*   RecordInv    the record is one that the store accepts, and the        *)
(*                command in flight fits the state it was started in;      *)
(*   PublishInv   nothing blocks behind a run, and what is attested,       *)
(*                verified and published is one commit;                    *)
(*   ValidInv     every result is backed by a stage really carried out on  *)
(*                its tree, and so is the attestation, but for the one     *)
(*                docs delivery that a move of HEAD tears;                 *)
(*   CauseInv     in place, the restarts made and those still owed are     *)
(*                paid for by commits, resets and switches of the          *)
(*                reviewer that a new risk asks for.                       *)
(* From the third follows that a run keeps the promise of                  *)
(* ValidatedPublish, and from the first that no step forgets a failed      *)
(* attempt.                                                                *)
(***************************************************************************)
EXTENDS RunLifecycleProofs

\* Where no review is in force.
Unreviewed ==
  {"CREATED", "WORKTREE_READY", "SYNC_RUNNING", "SYNC_GREEN", "SYNC_CONFLICT", "SETUP_FAILED",
   "REVIEW_AWAITING_FINDINGS", "REVIEW_COMMAND_RUNNING", "REVIEW_COMMAND_RED"}

\* Where an attestation of the run's head exists, and where the run still validates.
Verified == {"VERIFIED", "AWAITING_PUSH_CONFIRM", "PUSHED", "DONE"}
Validating == States \ (Verified \cup TerminalStates)

\* What one row of the table says of the states that the invariants single out.
Row(s, a, t) ==
  /\ s \in Verified => t \in Verified
  /\ t \in Verified => \/ a = "MERGEBACK_OK"
                       \/ <<a, t>> \in {<<"GATE", "AWAITING_PUSH_CONFIRM">>, <<"PUSH", "PUSHED">>,
                                        <<"FINISH", "DONE">>}
  /\ t \notin {"ABORTED", "ORPHANED"}
  /\ t = "SETUP_FAILED" => a = "SETUP_FAILED"
  /\ t = "MERGEBACK_PENDING" => a \in {"BEGIN_MERGEBACK", "MERGEBACK_RETRY"}
  /\ t = "LINT_RUNNING" => a \in {"RUN_LINT", "RETRY_LINT"}
  /\ t = "TEST_RUNNING" => a \in {"RUN_TEST", "RETRY_TEST"}
  /\ t = "REVIEW_COMMAND_RUNNING" => a \in {"RUN_REVIEW_COMMAND", "RETRY_REVIEW_COMMAND"}
  /\ t \in Unreviewed => \/ s \in Unreviewed /\ a \notin {"SUBMIT_CLEAN", "SUBMIT_BLOCKING"}
                         \/ a \in RestartActions
  /\ s \in Unreviewed => t \in Unreviewed \/ a \in {"SUBMIT_CLEAN", "SUBMIT_BLOCKING"}
  /\ s \in Unreviewed /\ a = "INVALIDATE_REVIEW" => t = s
  /\ t = "LINT_RED" => a = "LINT_FAILED"
  /\ t = "TEST_RED" => a = "TEST_FAILED"
  /\ a = "RUN_REVIEW_COMMAND" => s = "REVIEW_AWAITING_FINDINGS"
  /\ a = "RETRY_REVIEW_COMMAND" => s = "REVIEW_COMMAND_RED"
  /\ a \in {"REVIEW_COMMAND_PASSED", "REVIEW_COMMAND_FAILED"} => s = "REVIEW_COMMAND_RUNNING"
  /\ a = "REVIEW_COMMAND_PASSED" => t = "REVIEW_AWAITING_FINDINGS"
  /\ a \in {"LINT_PASSED", "LINT_FAILED"} => s = "LINT_RUNNING"
  /\ a \in {"TEST_PASSED", "TEST_FAILED"} => s = "TEST_RUNNING"
  /\ a \in {"BEGIN_MERGEBACK", "MERGEBACK_RETRY"} => t = "MERGEBACK_PENDING"
  /\ a \in {"MERGEBACK_OK", "MERGEBACK_FAILED"} => s = "MERGEBACK_PENDING"
  /\ a = "MERGEBACK_OK" => t = "VERIFIED"
  /\ a = "RESPOND" => t = s
  /\ a \in {"SUBMIT_CLEAN", "SUBMIT_BLOCKING"} =>
       s \in {"REVIEW_AWAITING_FINDINGS", "DOCS_AWAITING_FINDINGS"}
  /\ t \in PastReview => \/ s \in PastReview
                         \/ <<s, a>> \in {<<"REVIEW_AWAITING_FINDINGS", "SUBMIT_CLEAN">>,
                                          <<"REVIEW_BLOCKED", "RESOLVE_GREEN">>}
  /\ t \in PastDocs => \/ s \in PastDocs
                       \/ <<s, a>> \in {<<"DOCS_AWAITING_FINDINGS", "SUBMIT_CLEAN">>,
                                        <<"DOCS_BLOCKED", "RESOLVE_GREEN">>,
                                        <<"REVIEW_GREEN", "SKIP_DOCS">>}

\* Every row says so (one step per state of machine.py's table).
LEMMA Rows ==
  \A s \in DOMAIN Moves : \A a \in DOMAIN Moves[s] : Row(s, a, Moves[s][a])
<1>1. \A a \in DOMAIN Moves["CREATED"] : Row("CREATED", a, Moves["CREATED"][a])
  BY DEF Row, Moves, RestartActions, Unreviewed, Verified,
         PastReview, PastDocs, DocsStates
<1>2. \A a \in DOMAIN Moves["WORKTREE_READY"] : Row("WORKTREE_READY", a, Moves["WORKTREE_READY"][a])
  BY DEF Row, Moves, RestartActions, Unreviewed, Verified,
         PastReview, PastDocs, DocsStates
<1>3. \A a \in DOMAIN Moves["SYNC_RUNNING"] : Row("SYNC_RUNNING", a, Moves["SYNC_RUNNING"][a])
  BY DEF Row, Moves, RestartActions, Unreviewed, Verified,
         PastReview, PastDocs, DocsStates
<1>4. \A a \in DOMAIN Moves["SYNC_GREEN"] : Row("SYNC_GREEN", a, Moves["SYNC_GREEN"][a])
  BY DEF Row, Moves, RestartActions, Unreviewed, Verified,
         PastReview, PastDocs, DocsStates
<1>5. \A a \in DOMAIN Moves["REVIEW_AWAITING_FINDINGS"] : Row("REVIEW_AWAITING_FINDINGS", a, Moves["REVIEW_AWAITING_FINDINGS"][a])
  BY DEF Row, Moves, RestartActions, Unreviewed, Verified,
         PastReview, PastDocs, DocsStates
<1>6. \A a \in DOMAIN Moves["REVIEW_COMMAND_RUNNING"] : Row("REVIEW_COMMAND_RUNNING", a, Moves["REVIEW_COMMAND_RUNNING"][a])
  BY DEF Row, Moves, RestartActions, Unreviewed, Verified,
         PastReview, PastDocs, DocsStates
<1>7. \A a \in DOMAIN Moves["REVIEW_COMMAND_RED"] : Row("REVIEW_COMMAND_RED", a, Moves["REVIEW_COMMAND_RED"][a])
  BY DEF Row, Moves, RestartActions, Unreviewed, Verified,
         PastReview, PastDocs, DocsStates
<1>8. \A a \in DOMAIN Moves["REVIEW_BLOCKED"] : Row("REVIEW_BLOCKED", a, Moves["REVIEW_BLOCKED"][a])
  BY DEF Row, Moves, RestartActions, Unreviewed, Verified,
         PastReview, PastDocs, DocsStates
<1>9. \A a \in DOMAIN Moves["REVIEW_GREEN"] : Row("REVIEW_GREEN", a, Moves["REVIEW_GREEN"][a])
  BY DEF Row, Moves, RestartActions, Unreviewed, Verified,
         PastReview, PastDocs, DocsStates
<1>10. \A a \in DOMAIN Moves["DOCS_AWAITING_FINDINGS"] : Row("DOCS_AWAITING_FINDINGS", a, Moves["DOCS_AWAITING_FINDINGS"][a])
  BY DEF Row, Moves, RestartActions, Unreviewed, Verified,
         PastReview, PastDocs, DocsStates
<1>11. \A a \in DOMAIN Moves["DOCS_BLOCKED"] : Row("DOCS_BLOCKED", a, Moves["DOCS_BLOCKED"][a])
  BY DEF Row, Moves, RestartActions, Unreviewed, Verified,
         PastReview, PastDocs, DocsStates
<1>12. \A a \in DOMAIN Moves["DOCS_GREEN"] : Row("DOCS_GREEN", a, Moves["DOCS_GREEN"][a])
  BY DEF Row, Moves, RestartActions, Unreviewed, Verified,
         PastReview, PastDocs, DocsStates
<1>13. \A a \in DOMAIN Moves["LINT_RUNNING"] : Row("LINT_RUNNING", a, Moves["LINT_RUNNING"][a])
  BY DEF Row, Moves, RestartActions, Unreviewed, Verified,
         PastReview, PastDocs, DocsStates
<1>14. \A a \in DOMAIN Moves["LINT_RED"] : Row("LINT_RED", a, Moves["LINT_RED"][a])
  BY DEF Row, Moves, RestartActions, Unreviewed, Verified,
         PastReview, PastDocs, DocsStates
<1>15. \A a \in DOMAIN Moves["LINT_GREEN"] : Row("LINT_GREEN", a, Moves["LINT_GREEN"][a])
  BY DEF Row, Moves, RestartActions, Unreviewed, Verified,
         PastReview, PastDocs, DocsStates
<1>16. \A a \in DOMAIN Moves["TEST_RUNNING"] : Row("TEST_RUNNING", a, Moves["TEST_RUNNING"][a])
  BY DEF Row, Moves, RestartActions, Unreviewed, Verified,
         PastReview, PastDocs, DocsStates
<1>17. \A a \in DOMAIN Moves["TEST_RED"] : Row("TEST_RED", a, Moves["TEST_RED"][a])
  BY DEF Row, Moves, RestartActions, Unreviewed, Verified,
         PastReview, PastDocs, DocsStates
<1>18. \A a \in DOMAIN Moves["TEST_GREEN"] : Row("TEST_GREEN", a, Moves["TEST_GREEN"][a])
  BY DEF Row, Moves, RestartActions, Unreviewed, Verified,
         PastReview, PastDocs, DocsStates
<1>19. \A a \in DOMAIN Moves["MERGEBACK_PENDING"] : Row("MERGEBACK_PENDING", a, Moves["MERGEBACK_PENDING"][a])
  BY DEF Row, Moves, RestartActions, Unreviewed, Verified,
         PastReview, PastDocs, DocsStates
<1>20. \A a \in DOMAIN Moves["MERGEBACK_CONFLICT"] : Row("MERGEBACK_CONFLICT", a, Moves["MERGEBACK_CONFLICT"][a])
  BY DEF Row, Moves, RestartActions, Unreviewed, Verified,
         PastReview, PastDocs, DocsStates
<1>21. \A a \in DOMAIN Moves["VERIFIED"] : Row("VERIFIED", a, Moves["VERIFIED"][a])
  BY DEF Row, Moves, RestartActions, Unreviewed, Verified,
         PastReview, PastDocs, DocsStates
<1>22. \A a \in DOMAIN Moves["AWAITING_PUSH_CONFIRM"] : Row("AWAITING_PUSH_CONFIRM", a, Moves["AWAITING_PUSH_CONFIRM"][a])
  BY DEF Row, Moves, RestartActions, Unreviewed, Verified,
         PastReview, PastDocs, DocsStates
<1>23. \A a \in DOMAIN Moves["PUSHED"] : Row("PUSHED", a, Moves["PUSHED"][a])
  BY DEF Row, Moves, RestartActions, Unreviewed, Verified,
         PastReview, PastDocs, DocsStates
<1> QED
  BY <1>1, <1>2, <1>3, <1>4, <1>5, <1>6, <1>7, <1>8, <1>9, <1>10, <1>11, <1>12,
     <1>13, <1>14, <1>15, <1>16, <1>17, <1>18, <1>19, <1>20, <1>21, <1>22, <1>23 DEF Moves


\* The row of a legal move that does not close the run.
LEMMA LegalRow ==
  ASSUME NEW s, NEW a, Legal(s, a), a \notin ClosingActions
  PROVE  Row(s, a, NextState(s, a)) /\ s \in DOMAIN Moves
BY Rows DEF Legal, NextState, ClosingActions

-----------------------------------------------------------------------------
(* What is true of every record that a command persists. *)

\* The review covers a head only as CoverageIsTheReview says.
Covered(r) ==
  r.coverage # NoCommit =>
    LET review == r.stages["review"]
    IN review.status = "green" /\ review.head = r.coverage /\ review.fp = FpOf(r.coverage)

\* No review is in force.
Uncovered(r) == r.coverage = NoCommit /\ r.stages["review"].fp = NoFp

\* A review is never skipped, and what is kept of one is a review that passed.
Greens(r) ==
  /\ r.stages["review"].status # "skipped"
  /\ Held(r.evidence["review"]) => r.evidence["review"].status = "green"
  /\ Held(r.candidates["review"]) => r.candidates["review"].status = "green"

Bounded(r) == \A s \in Stages : r.stages[s].attempts <= MaxAttempts

Shaped(r) == Covered(r) /\ Greens(r) /\ Bounded(r)

\* The attempt that is running can still fail without exceeding the limit.
Tries(r) ==
  /\ r.state = "LINT_RUNNING" => r.stages["lint"].attempts < MaxAttempts
  /\ r.state = "TEST_RUNNING" => r.stages["test"].attempts < MaxAttempts
  /\ r.state = "REVIEW_COMMAND_RUNNING" => r.stages["review"].attempts < MaxAttempts

Fit(r) ==
  /\ Shaped(r) /\ Tries(r) /\ Consistent(r)
  /\ r.state \in Unreviewed => Uncovered(r)

\* Neither setup nor the end of a run has left its mark.
Plain(r) == r.setup # "initial" /\ r.pushed = NoCommit /\ ~r.orphaned /\ ~r.released

\* A run that can still be moved within the table is plain until it was pushed.
LEMMA FitPlain ==
  ASSUME NEW r, r \in Run, Fit(r), r.state \in DOMAIN Moves, r.state # "PUSHED"
  PROVE  Plain(r)
<1>1. r.state \notin TerminalStates /\ r.state # "SETUP_FAILED"
  BY DEF Moves, TerminalStates
<1> QED BY <1>1 DEF Fit, Consistent, Plain, Run

\* The fields that only few commands touch.
Kept(q, r) ==
  /\ q.head = r.head /\ q.sourceHead = r.sourceHead /\ q.fixes = r.fixes
  /\ q.attempt = r.attempt /\ q.setup = r.setup /\ q.token = r.token
  /\ q.pushed = r.pushed /\ q.released = r.released /\ q.orphaned = r.orphaned

\* _apply touches the state and the count of restarts only.
LEMMA ApplyKept ==
  ASSUME NEW r, r \in Run, NEW a
  PROVE  Kept(Apply(r, a), r) /\ Apply(r, a).coverage = r.coverage
BY DEF Apply, Run, Kept

\* What a record needs for a move other than those of the start and of the end.
Allowed(r, a) ==
  /\ a \notin {"SETUP_FAILED", "PUSH", "FINISH"} \cup ClosingActions
  /\ a \in {"BEGIN_MERGEBACK", "MERGEBACK_RETRY"} => r.attempt # NoAttempt
  /\ a = "GATE" => r.token # 0
  /\ a \in {"RUN_LINT", "RETRY_LINT"} => r.stages["lint"].attempts < MaxAttempts
  /\ a \in {"RUN_TEST", "RETRY_TEST"} => r.stages["test"].attempts < MaxAttempts
  /\ a \in {"RUN_REVIEW_COMMAND", "RETRY_REVIEW_COMMAND"} =>
       r.stages["review"].attempts < MaxAttempts
  /\ \/ a \in {"SUBMIT_CLEAN", "SUBMIT_BLOCKING"}
     \/ r.state \notin Unreviewed /\ a \notin RestartActions
     \/ Uncovered(r)

\* A move of the table turns a record that is fit for it into a fit record.
LEMMA MoveFits ==
  ASSUME NEW r, r \in Run, Shaped(r), Plain(r), NEW a, Legal(r.state, a), Allowed(r, a)
  PROVE  Fit(Apply(r, a))
<1> DEFINE q == Apply(r, a)
           t == NextState(r.state, a)
<1>1. /\ q.state = t /\ q.stages = r.stages /\ q.evidence = r.evidence
      /\ q.candidates = r.candidates /\ q.coverage = r.coverage /\ Kept(q, r)
  BY ApplyState, ApplyKept
<1>2. Row(r.state, a, t)
  BY LegalRow DEF Allowed
<1> HIDE DEF q, t
<1>3. Shaped(q)
  BY <1>1 DEF Shaped, Covered, Greens, Bounded
<1>4. Tries(q)
  BY <1>1, <1>2 DEF Tries, Row, Allowed
<1>5. q.state \in Unreviewed => Uncovered(q)
  <2>1. {"SUBMIT_CLEAN", "SUBMIT_BLOCKING"} \cap RestartActions = {}
    BY DEF RestartActions
  <2> QED BY <1>1, <1>2, <2>1 DEF Row, Allowed, Uncovered
<1>6. Consistent(q)
  <2>1. t \notin {"SETUP_FAILED", "PUSHED", "DONE", "ORPHANED"}
    BY <1>2 DEF Allowed, Row, Verified
  <2>2. t = "MERGEBACK_PENDING" => q.attempt # NoAttempt
    BY <1>1, <1>2 DEF Row, Allowed, Kept
  <2>3. t = "AWAITING_PUSH_CONFIRM" => q.token # 0
    BY <1>1, <1>2 DEF Row, Allowed, Kept, Verified
  <2>4. q.setup # "initial" /\ q.pushed = NoCommit /\ ~q.orphaned /\ ~q.released
    BY <1>1 DEF Kept, Plain
  <2> QED BY <1>1, <2>1, <2>2, <2>3, <2>4 DEF Consistent
<1> QED BY <1>3, <1>4, <1>5, <1>6 DEF Fit, q

\* A closing move does, whatever the state was.
LEMMA CloseFits ==
  ASSUME NEW r, r \in Run, Shaped(r), NEW a \in ClosingActions, a = "ORPHAN" => r.orphaned
  PROVE  Fit(Apply(r, a))
<1> DEFINE q == Apply(r, a)
<1>1. /\ q.state = NextState(r.state, a) /\ q.stages = r.stages /\ q.evidence = r.evidence
      /\ q.candidates = r.candidates /\ q.coverage = r.coverage /\ Kept(q, r)
  BY ApplyState, ApplyKept
<1>2. q.state = IF a = "ABORT" THEN "ABORTED" ELSE "ORPHANED"
  BY <1>1 DEF NextState, ClosingActions
<1> HIDE DEF q
<1>3. Shaped(q)
  BY <1>1 DEF Shaped, Covered, Greens, Bounded
<1>4. Tries(q) /\ q.state \notin Unreviewed
  BY <1>2 DEF Tries, Unreviewed
<1>5. Consistent(q)
  BY <1>1, <1>2 DEF Consistent, TerminalStates, Kept, ClosingActions
<1> QED BY <1>3, <1>4, <1>5 DEF Fit, q

-----------------------------------------------------------------------------
(* The updates of RunRecord on such records. *)

\* invalidate_stage_result, field by field.
LEMMA DiscardFields ==
  ASSUME NEW r, Sound(r), NEW S
  PROVE  /\ Kept(Discard(r, S), r) /\ Discard(r, S).coverage = r.coverage
         /\ Discard(r, S).candidates = r.candidates
         /\ \A s \in Stages :
              /\ Discard(r, S).stages[s].attempts = r.stages[s].attempts
              /\ s \in S => /\ Discard(r, S).stages[s].status = "pending"
                            /\ Discard(r, S).stages[s].head = NoCommit
                            /\ Discard(r, S).stages[s].fp = NoFp
                            /\ Discard(r, S).evidence[s] = NoEvidence
              /\ s \notin S => /\ Discard(r, S).stages[s] = r.stages[s]
                               /\ Discard(r, S).evidence[s] = r.evidence[s]
<1> DEFINE q == Discard(r, S)
<1>1. r \in Run
  BY DEF Sound
<1>2. q.stages = [s \in Stages |-> IF s \in S
                    THEN [NoRecord EXCEPT !.attempts = r.stages[s].attempts]
                    ELSE r.stages[s]]
  BY <1>1 DEF Discard, Run
<1>3. q.evidence = [s \in Stages |-> IF s \in S THEN NoEvidence ELSE r.evidence[s]]
  BY <1>1 DEF Discard, Run
<1>4. Kept(q, r) /\ q.coverage = r.coverage /\ q.candidates = r.candidates
  BY <1>1 DEF Discard, Run, Kept
<1> HIDE DEF q
<1>5. ASSUME NEW s \in Stages, s \in S
      PROVE  /\ q.stages[s].status = "pending" /\ q.stages[s].head = NoCommit
             /\ q.stages[s].fp = NoFp /\ q.stages[s].attempts = r.stages[s].attempts
             /\ q.evidence[s] = NoEvidence
  BY <1>2, <1>3, <1>5 DEF NoRecord
<1>6. ASSUME NEW s \in Stages, s \notin S
      PROVE  q.stages[s] = r.stages[s] /\ q.evidence[s] = r.evidence[s]
  BY <1>2, <1>3, <1>6
<1> QED BY <1>4, <1>5, <1>6 DEF q

\* Installing a stage result, field by field.
LEMMA PutFields ==
  ASSUME NEW r, Sound(r), NEW s \in Stages, NEW record
  PROVE  /\ Kept(Put(r, s, record), r) /\ Put(r, s, record).coverage = r.coverage
         /\ Put(r, s, record).candidates = r.candidates
         /\ \A x \in Stages : /\ Put(r, s, record).stages[x] = IF x = s THEN record ELSE r.stages[x]
                              /\ Put(r, s, record).evidence[x] = IF x = s THEN NoEvidence
                                                                 ELSE r.evidence[x]
<1>1. r \in Run
  BY DEF Sound
<1>2. /\ Put(r, s, record).stages = [r.stages EXCEPT ![s] = record]
      /\ Put(r, s, record).evidence = [r.evidence EXCEPT ![s] = NoEvidence]
  BY <1>1 DEF Put, Run
<1>3. Kept(Put(r, s, record), r) /\ Put(r, s, record).coverage = r.coverage
      /\ Put(r, s, record).candidates = r.candidates
  BY <1>1 DEF Put, Run, Kept
<1>4. r.stages \in [Stages -> StageRecord] /\ r.evidence \in [Stages -> Evidence]
  BY <1>1 DEF Run
<1> QED BY <1>2, <1>3, <1>4

\* Nothing is held of a stage without a result.
LEMMA NothingHeld == ~Held(NoEvidence) /\ 0 <= MaxAttempts
BY LimitAssumption DEF Held, NoEvidence, NoFp

\* Discarding the review, and what covers it, takes a review out of force.
LEMMA DiscardShape ==
  ASSUME NEW r, Sound(r), Greens(r), Bounded(r), NEW S
  PROVE  /\ Greens(Discard(r, S)) /\ Bounded(Discard(r, S))
         /\ "review" \in S /\ r.coverage = NoCommit => Uncovered(Discard(r, S))
<1> DEFINE q == Discard(r, S)
<1>1. "review" \in Stages
  BY DEF Stages
<1>2. /\ q.coverage = r.coverage /\ q.candidates = r.candidates
      /\ \A s \in Stages :
           /\ q.stages[s].attempts = r.stages[s].attempts
           /\ s \in S => /\ q.stages[s].status = "pending" /\ q.stages[s].head = NoCommit
                         /\ q.stages[s].fp = NoFp /\ q.evidence[s] = NoEvidence
           /\ s \notin S => q.stages[s] = r.stages[s] /\ q.evidence[s] = r.evidence[s]
  BY DiscardFields
<1> HIDE DEF q
<1>3. Greens(q)
  BY <1>1, <1>2, NothingHeld DEF Greens
<1>4. Bounded(q)
  BY <1>2 DEF Bounded
<1> QED BY <1>1, <1>2, <1>3, <1>4 DEF Uncovered, q

\* A record that no review covers has a review result in no particular form.
LEMMA UncoveredShape ==
  ASSUME NEW r, r.coverage = NoCommit
  PROVE  Covered(r)
BY DEF Covered

\* Recording another coverage leaves all but the coverage alone.
LEMMA CoverageFields ==
  ASSUME NEW r, Sound(r), NEW c \in Commit
  PROVE  /\ Kept([r EXCEPT !.coverage = c], r)
         /\ [r EXCEPT !.coverage = c].coverage = c
         /\ [r EXCEPT !.coverage = c].stages = r.stages
         /\ [r EXCEPT !.coverage = c].evidence = r.evidence
         /\ [r EXCEPT !.coverage = c].candidates = r.candidates
BY DEF Sound, Run, Kept

\* Plainness is a matter of the fields that are kept.
LEMMA KeptPlain ==
  ASSUME NEW r, NEW q, Kept(q, r), Plain(r)
  PROVE  Plain(q)
BY DEF Kept, Plain

\* The move back to review asks for nothing but that the review is discarded.
LEMMA BackAllowed ==
  ASSUME NEW r, Uncovered(r), NEW a \in RestartActions
  PROVE  Allowed(r, a)
BY DEF Allowed, RestartActions, ClosingActions

\* reopen_if_stale.
LEMMA ReopenFits ==
  ASSUME NEW r, Sound(r), Fit(r), r.state # "PUSHED", Legal(r.state, "INVALIDATE_REVIEW")
  PROVE  /\ Fit(Reopen(r)) /\ Kept(Reopen(r), r)
         /\ Reopen(r).state = NextState(r.state, "INVALIDATE_REVIEW")
<1> DEFINE d == Discard(r, Stages)
           e == [d EXCEPT !.coverage = NoCommit]
<1>1. /\ Sound(d) /\ d.state = r.state /\ Greens(d) /\ Bounded(d) /\ Kept(d, r)
      /\ d.stages["review"].fp = NoFp
  BY DiscardSound, DiscardShape, DiscardFields DEF Fit, Shaped, Stages
<1>2. "INVALIDATE_REVIEW" \in RestartActions /\ "INVALIDATE_REVIEW" \notin ClosingActions
  BY DEF RestartActions, ClosingActions
<1>3. Plain(r)
  BY <1>2, LegalRow, FitPlain DEF Sound
<1> HIDE DEF d
<1>4. /\ Sound(e) /\ e.state = r.state /\ Kept(e, d) /\ e.coverage = NoCommit
      /\ e.stages = d.stages /\ e.evidence = d.evidence /\ e.candidates = d.candidates
  BY <1>1, CoverageSound, CoverageFields, NothingTyped
<1> HIDE DEF e
<1>5. Shaped(e) /\ Uncovered(e)
  BY <1>1, <1>4, UncoveredShape DEF Shaped, Greens, Bounded, Uncovered
<1>6. Kept(e, r)
  BY <1>1, <1>4 DEF Kept
<1>7. Fit(Apply(e, "INVALIDATE_REVIEW"))
  BY <1>2, <1>3, <1>4, <1>5, <1>6, KeptPlain, BackAllowed, MoveFits DEF Sound
<1>8. Kept(Apply(e, "INVALIDATE_REVIEW"), e)
      /\ Apply(e, "INVALIDATE_REVIEW").state = NextState(e.state, "INVALIDATE_REVIEW")
  BY <1>4, ApplyKept, ApplyState DEF Sound
<1>9. Reopen(r) = Apply(e, "INVALIDATE_REVIEW")
  BY DEF Reopen, e, d
<1> QED BY <1>4, <1>6, <1>7, <1>8, <1>9 DEF Kept

\* archive adds evidence of results and touches nothing else.
LEMMA ArchiveFields ==
  ASSUME NEW r, Sound(r), NEW f
  PROVE  /\ Kept(Archive(r, f), r) /\ Archive(r, f).state = r.state
         /\ Archive(r, f).coverage = r.coverage /\ Archive(r, f).stages = r.stages
         /\ Archive(r, f).candidates = r.candidates
         /\ \A s \in Stages :
              \/ Archive(r, f).evidence[s] = r.evidence[s]
              \/ /\ Done(r.stages[s])
                 /\ Archive(r, f).evidence[s] = Origin(r, f, s)
<1> DEFINE q == Archive(r, f)
<1>1. r \in Run
  BY DEF Sound
<1>2. q.evidence = [s \in Stages |->
     IF ~r.evidence[s].refreshed /\ Done(r.stages[s]) /\ r.stages[s].fp.flag # "none"
     THEN Origin(r, f, s) ELSE r.evidence[s]]
  BY <1>1 DEF Archive, Run
<1>3. /\ Kept(q, r) /\ q.state = r.state /\ q.coverage = r.coverage /\ q.stages = r.stages
      /\ q.candidates = r.candidates
  BY <1>1 DEF Archive, Run, Kept
<1> HIDE DEF q
<1> QED BY <1>2, <1>3 DEF q

\* What archive keeps of a review is a review that passed.
LEMMA ArchiveFits ==
  ASSUME NEW r, Sound(r), NEW f
  PROVE  /\ Shaped(r) => Shaped(Archive(r, f))
         /\ Fit(r) => Fit(Archive(r, f))
<1> DEFINE q == Archive(r, f)
<1>1. /\ Kept(q, r) /\ q.state = r.state /\ q.coverage = r.coverage /\ q.stages = r.stages
      /\ q.candidates = r.candidates
      /\ \/ q.evidence["review"] = r.evidence["review"]
         \/ Done(r.stages["review"]) /\ q.evidence["review"] = Origin(r, f, "review")
  BY ArchiveFields DEF Stages
<1> HIDE DEF q
<1>2. ASSUME Shaped(r) PROVE Shaped(q)
  <2>1. Greens(q)
    BY <1>1, <1>2 DEF Greens, Shaped, Origin, Done
  <2> QED BY <1>1, <1>2, <2>1 DEF Shaped, Covered, Bounded
<1>3. Fit(r) => Tries(q) /\ Consistent(q) /\ (q.state \in Unreviewed => Uncovered(q))
  BY <1>1 DEF Fit, Tries, Consistent, Uncovered, Kept
<1> QED BY <1>2, <1>3 DEF Fit, q

\* The green states allow the move back to review.
LEMMA GreenRows ==
  ASSUME NEW s \in GreenStates
  PROVE  /\ s \in DOMAIN Moves /\ Legal(s, "INVALIDATE_REVIEW")
         /\ s # "PUSHED" /\ s \notin TerminalStates
BY DEF GreenStates, Moves, Legal, TerminalStates

\* The rows that an import follows.
LEMMA ImportRows ==
  /\ Legal("REVIEW_AWAITING_FINDINGS", "SUBMIT_CLEAN") /\ Legal("REVIEW_GREEN", "SKIP_DOCS")
  /\ Legal("REVIEW_GREEN", "BEGIN_DOCS") /\ Legal("DOCS_AWAITING_FINDINGS", "SUBMIT_CLEAN")
  /\ {"REVIEW_AWAITING_FINDINGS", "REVIEW_GREEN", "DOCS_AWAITING_FINDINGS"} \subseteq
       DOMAIN Moves \ {"PUSHED"}
  /\ {"REVIEW_GREEN", "DOCS_AWAITING_FINDINGS"} \cap Unreviewed = {}
BY DEF Legal, Moves, Unreviewed

\* Nothing but the review's state limits submitting, skipping and opening docs.
LEMMA ImportAllowed ==
  ASSUME NEW r
  PROVE  /\ Allowed(r, "SUBMIT_CLEAN") /\ Allowed(r, "SUBMIT_BLOCKING")
         /\ r.state \notin Unreviewed => Allowed(r, "SKIP_DOCS") /\ Allowed(r, "BEGIN_DOCS")
BY DEF Allowed, ClosingActions, RestartActions

\* reopen_changed_inputs.
LEMMA ReopenChangedFits ==
  ASSUME NEW r, Sound(r), Fit(r), r.state \in GreenStates, NEW f \in Seq(Finding)
  PROVE  Fit(ReopenChanged(r, f)) /\ Kept(ReopenChanged(r, f), r)
<1> DEFINE a == Archive(r, f)
           candidates == [s \in Stages |->
                       IF Held(a.evidence[s]) THEN a.evidence[s] ELSE a.candidates[s]]
           c == [a EXCEPT !.candidates = candidates]
           b == Discard(c, Stages)
           d == [b EXCEPT !.coverage = NoCommit]
<1>1. Sound(a) /\ a.state = r.state /\ Shaped(a) /\ Kept(a, r)
  BY ArchiveSound, ArchiveFits, ArchiveFields DEF Fit
<1>2. candidates \in [Stages -> Evidence]
  BY <1>1 DEF Sound, Run
<1>3. Held(candidates["review"]) => candidates["review"].status = "green"
  BY <1>1 DEF Shaped, Greens, Stages
<1> HIDE DEF a, candidates
<1>4. /\ Sound(c) /\ c.state = a.state /\ c.stages = a.stages /\ c.evidence = a.evidence
      /\ c.coverage = a.coverage /\ c.candidates = candidates /\ Kept(c, a)
  BY <1>1, <1>2 DEF Sound, Run, Kept
<1> HIDE DEF c
<1>5. Greens(c) /\ Bounded(c)
  BY <1>1, <1>3, <1>4 DEF Shaped, Greens, Bounded
<1>6. /\ Sound(b) /\ b.state = c.state /\ Greens(b) /\ Bounded(b) /\ Kept(b, c)
      /\ b.stages["review"].fp = NoFp
  BY <1>4, <1>5, DiscardSound, DiscardShape, DiscardFields DEF Stages
<1> HIDE DEF b
<1>7. /\ Sound(d) /\ d.state = b.state /\ Kept(d, b) /\ d.coverage = NoCommit
      /\ d.stages = b.stages /\ d.evidence = b.evidence /\ d.candidates = b.candidates
  BY <1>6, CoverageSound, CoverageFields, NothingTyped
<1> HIDE DEF d
<1>8. Shaped(d) /\ Uncovered(d)
  BY <1>6, <1>7, UncoveredShape DEF Shaped, Greens, Bounded, Uncovered
<1>9. Kept(d, r)
  BY <1>1, <1>4, <1>6, <1>7 DEF Kept
<1>10. Plain(d) /\ Legal(d.state, "INVALIDATE_REVIEW") /\ Allowed(d, "INVALIDATE_REVIEW")
  <2>1. Plain(r)
    BY GreenRows, FitPlain DEF Sound
  <2>2. "INVALIDATE_REVIEW" \in RestartActions
    BY DEF RestartActions
  <2>3. d.state = r.state
    BY <1>1, <1>4, <1>6, <1>7
  <2> QED BY <1>8, <1>9, <2>1, <2>2, <2>3, KeptPlain, BackAllowed, GreenRows
<1>11. Fit(Apply(d, "INVALIDATE_REVIEW")) /\ Kept(Apply(d, "INVALIDATE_REVIEW"), d)
  BY <1>7, <1>8, <1>10, MoveFits, ApplyKept DEF Sound
<1>12. ReopenChanged(r, f) = Apply(d, "INVALIDATE_REVIEW")
  BY DEF ReopenChanged, d, b, c, candidates, a
<1> QED BY <1>9, <1>11, <1>12 DEF Kept

\* The record and the evidence that install_stage leaves.
Imported(r, s, c) ==
  [NoRecord EXCEPT !.status = r.candidates[s].status, !.head = c, !.fp = FpOf(c),
                   !.executor = r.candidates[s].executor]
Again(r, s) == [r.candidates[s] EXCEPT !.refreshed = TRUE]

\* install_stage, field by field.
LEMMA InstalledFields ==
  ASSUME NEW r, Sound(r), NEW f, NEW s \in Stages, NEW c \in Commit
  PROVE  /\ Kept(Installed(r, f, s, c), r) /\ Installed(r, f, s, c).coverage = r.coverage
         /\ Installed(r, f, s, c).candidates = r.candidates
         /\ Installed(r, f, s, c).stages[s] = Imported(r, s, c)
         /\ Installed(r, f, s, c).evidence[s] = Again(r, s)
         /\ \A x \in Stages \ {s} : /\ Installed(r, f, s, c).stages[x] = r.stages[x]
                                    /\ Installed(r, f, s, c).evidence[x] = r.evidence[x]
<1> DEFINE q == Installed(r, f, s, c)
           record == Imported(r, s, c)
           item == Again(r, s)
<1>1. /\ r \in Run /\ r.stages \in [Stages -> StageRecord]
      /\ r.evidence \in [Stages -> Evidence]
  BY DEF Sound, Run
<1>2. /\ q.stages = [r.stages EXCEPT ![s] = record]
      /\ q.evidence = [r.evidence EXCEPT ![s] = item]
  BY <1>1 DEF Installed, Run, Imported, Again
<1>3. Kept(q, r) /\ q.coverage = r.coverage /\ q.candidates = r.candidates
  BY <1>1 DEF Installed, Run, Kept
<1> HIDE DEF q, record, item
<1>4. /\ q.stages[s] = record /\ q.evidence[s] = item
      /\ \A x \in Stages \ {s} : q.stages[x] = r.stages[x] /\ q.evidence[x] = r.evidence[x]
  BY <1>1, <1>2
<1> QED BY <1>3, <1>4 DEF q, record, item

\* A candidate that may stand for a run at a commit is held.
LEMMA ReusableHeld ==
  ASSUME NEW r, NEW f, NEW s, NEW c, Reusable(r, f, s, c)
  PROVE  Held(r.candidates[s])
BY DEF Reusable, SameInputs, Held, FpOf

\* What install_stage leaves is of its own shape, but for what the review covers.
LEMMA InstalledShape ==
  ASSUME NEW r, Sound(r), NEW f, Shaped(r), NEW s \in Stages, NEW c \in Commit, Held(r.candidates[s])
  PROVE  /\ Greens(Installed(r, f, s, c)) /\ Bounded(Installed(r, f, s, c))
         /\ s # "review" => Covered(Installed(r, f, s, c))
<1> DEFINE q == Installed(r, f, s, c)
           record == Imported(r, s, c)
           item == Again(r, s)
<1>1. /\ q.coverage = r.coverage /\ q.candidates = r.candidates
      /\ q.stages[s] = record /\ q.evidence[s] = item
      /\ \A x \in Stages \ {s} : q.stages[x] = r.stages[x] /\ q.evidence[x] = r.evidence[x]
  BY InstalledFields
<1>2. /\ record.status = r.candidates[s].status /\ record.attempts = 0
  BY DEF NoRecord, Imported
<1>3. item.status = r.candidates[s].status /\ item.fp = r.candidates[s].fp
  <2>1. r.candidates[s] \in Evidence
    BY DEF Sound, Run
  <2> QED BY <2>1 DEF Evidence, Again
<1>4. "review" \in Stages
  BY DEF Stages
<1> HIDE DEF q, record, item
<1>5. Greens(q)
  <2>1. CASE s = "review"
    BY <1>1, <1>2, <1>3, <2>1 DEF Greens, Shaped, Held
  <2>2. CASE s # "review"
    BY <1>1, <1>4, <2>2 DEF Greens, Shaped
  <2> QED BY <2>1, <2>2
<1>6. Bounded(q)
  BY <1>1, <1>2, NothingHeld DEF Bounded, Shaped
<1>7. s # "review" => Covered(q)
  BY <1>1, <1>4 DEF Covered, Shaped
<1> QED BY <1>5, <1>6, <1>7 DEF q

\* The import of a review.
LEMMA ImportReviewFits ==
  ASSUME NEW r, Sound(r), Fit(r), NEW f, NEW c \in Commit
  PROVE  Fit(ImportReview(r, f, c)) /\ Kept(ImportReview(r, f, c), r)
<1>1. CASE r.state = "REVIEW_AWAITING_FINDINGS" /\ Reusable(r, f, "review", c)
  <2> DEFINE put == Installed(r, f, "review", c)
             q == [put EXCEPT !.coverage = c]
  <2>1. /\ Sound(put) /\ put.state = r.state /\ Kept(put, r) /\ Greens(put) /\ Bounded(put)
        /\ put.stages["review"] = Imported(r, "review", c)
    <3>1. "review" \in Stages /\ Shaped(r) /\ Held(r.candidates["review"])
      BY <1>1, ReusableHeld DEF Stages, Fit
    <3> QED BY <3>1, InstalledSound, InstalledFields, InstalledShape
  <2>2. r.candidates["review"].status = "green"
    BY <1>1, ReusableHeld DEF Fit, Shaped, Greens
  <2> HIDE DEF put
  <2>3. /\ Sound(q) /\ q.state = put.state /\ Kept(q, put) /\ q.coverage = c
        /\ q.stages = put.stages /\ q.evidence = put.evidence /\ q.candidates = put.candidates
    BY <2>1, CoverageSound, CoverageFields
  <2> HIDE DEF q
  <2>4. Shaped(q)
    <3>1. /\ Imported(r, "review", c).status = r.candidates["review"].status
          /\ Imported(r, "review", c).head = c /\ Imported(r, "review", c).fp = FpOf(c)
      BY DEF NoRecord, Imported
    <3>2. /\ q.stages["review"].status = "green" /\ q.stages["review"].head = c
          /\ q.stages["review"].fp = FpOf(c)
      BY <2>1, <2>2, <2>3, <3>1
    <3>3. Covered(q)
      BY <2>3, <3>2 DEF Covered
    <3>4. Greens(q) /\ Bounded(q)
      BY <2>1, <2>3 DEF Greens, Bounded
    <3> QED BY <3>3, <3>4 DEF Shaped
  <2>5. Kept(q, r)
    BY <2>1, <2>3 DEF Kept
  <2>6. Plain(q)
    BY <1>1, <2>5, FitPlain, ImportRows, KeptPlain DEF Sound
  <2>7. Fit(Apply(q, "SUBMIT_CLEAN")) /\ Kept(Apply(q, "SUBMIT_CLEAN"), q)
    BY <1>1, <2>1, <2>3, <2>4, <2>6, ImportRows, ImportAllowed, MoveFits, ApplyKept DEF Sound
  <2>8. ImportReview(r, f, c) = Apply(q, "SUBMIT_CLEAN")
    BY <1>1 DEF ImportReview, Import, q, put
  <2> QED BY <2>5, <2>7, <2>8 DEF Kept
<1>2. CASE ~(r.state = "REVIEW_AWAITING_FINDINGS" /\ Reusable(r, f, "review", c))
  BY <1>2 DEF ImportReview, Kept
<1> QED BY <1>1, <1>2

\* The import of a docs result.
LEMMA ImportDocsFits ==
  ASSUME NEW r, Sound(r), Fit(r), NEW f, NEW c \in Commit, ~Uninstallable(r, f, c)
  PROVE  Fit(ImportDocs(r, f, c)) /\ Kept(ImportDocs(r, f, c), r)
<1> DEFINE item == r.candidates["docs"]
           put == Installed(r, f, "docs", c)
           opened == IF r.state = "REVIEW_GREEN" THEN Apply(put, "BEGIN_DOCS") ELSE put
<1>1. CASE ~DocsReady(r, f, c)
  BY <1>1 DEF ImportDocs, Kept
<1>2. CASE DocsReady(r, f, c)
  <2>0. /\ r.state \in {"REVIEW_GREEN", "DOCS_AWAITING_FINDINGS"}
        /\ Reusable(r, f, "docs", c)
    BY <1>2 DEF DocsReady
  <2>1. /\ Sound(put) /\ put.state = r.state /\ Kept(put, r) /\ Shaped(put)
    BY <2>0, InstalledSound, InstalledFields, InstalledShape, ReusableHeld DEF Stages, Fit, Shaped
  <2>2. Plain(put)
    BY <2>0, <2>1, FitPlain, ImportRows, KeptPlain DEF Sound
  <2>3. CASE item.status = "skipped"
    <3>1. ImportDocs(r, f, c) = Apply(put, "SKIP_DOCS")
      BY <1>2, <2>3 DEF ImportDocs, Import
    <3>2. r.state = "REVIEW_GREEN"
      BY <1>2, <2>0, <2>3 DEF Uninstallable
    <3> HIDE DEF put
    <3>3. Fit(Apply(put, "SKIP_DOCS")) /\ Kept(Apply(put, "SKIP_DOCS"), put)
      BY <2>1, <2>2, <3>2, ImportRows, ImportAllowed, MoveFits, ApplyKept DEF Sound
    <3> QED BY <2>1, <3>1, <3>3 DEF Kept
  <2>4. CASE item.status # "skipped"
    <3>1. ImportDocs(r, f, c) = Apply(opened, "SUBMIT_CLEAN")
      BY <1>2, <2>4 DEF ImportDocs, Import
    <3> HIDE DEF put
    <3>2. /\ Shaped(opened) /\ Plain(opened) /\ opened \in Run /\ Kept(opened, r)
          /\ opened.state = "DOCS_AWAITING_FINDINGS"
      <4>1. CASE r.state = "REVIEW_GREEN"
        <5>1. Fit(Apply(put, "BEGIN_DOCS")) /\ Kept(Apply(put, "BEGIN_DOCS"), put)
          BY <2>1, <2>2, <4>1, ImportRows, ImportAllowed, MoveFits, ApplyKept DEF Sound
        <5>2. /\ Apply(put, "BEGIN_DOCS") \in Run
              /\ Apply(put, "BEGIN_DOCS").state = "DOCS_AWAITING_FINDINGS"
          BY <2>1, <4>1, KnownMoves, KnownStates, ApplyTyped, ApplyState DEF Sound
        <5>3. opened = Apply(put, "BEGIN_DOCS")
          BY <4>1
        <5> QED BY <2>1, <2>2, <5>1, <5>2, <5>3, KeptPlain DEF Kept, Fit
      <4>2. CASE r.state # "REVIEW_GREEN"
        BY <2>0, <2>1, <2>2, <4>2 DEF Sound
      <4> QED BY <4>1, <4>2
    <3> HIDE DEF opened
    <3>3. Fit(Apply(opened, "SUBMIT_CLEAN")) /\ Kept(Apply(opened, "SUBMIT_CLEAN"), opened)
      BY <3>2, ImportRows, ImportAllowed, MoveFits, ApplyKept
    <3> QED BY <3>1, <3>2, <3>3 DEF Kept
  <2> QED BY <2>3, <2>4
<1> QED BY <1>1, <1>2

\* evidence.advance from any fit record.
LEMMA AdvanceFits ==
  ASSUME NEW r, Sound(r), Fit(r), NEW f \in Seq(Finding), NEW c \in Commit
  PROVE  Fit(Advance(r, f, c)) /\ Kept(Advance(r, f, c), r)
<1> DEFINE opened == IF InputsChanged(r, c) THEN ReopenChanged(r, f) ELSE r
           reviewed == ImportReview(opened, f, c)
           imported == ImportDocs(reviewed, f, c)
<1>1. Sound(opened) /\ Fit(opened) /\ Kept(opened, r)
  BY ReopenChangedSound, ReopenChangedFits DEF InputsChanged, Kept
<1> HIDE DEF opened
<1>2. CASE LimitReached(opened)
  BY <1>1, <1>2 DEF Advance, opened
<1>3. CASE ~LimitReached(opened)
  <2>1. Sound(reviewed) /\ Fit(reviewed) /\ Kept(reviewed, opened)
    BY <1>1, <1>3, ImportReviewSound, ImportReviewFits
  <2> HIDE DEF reviewed
  <2>2. CASE Uninstallable(reviewed, f, c)
    BY <1>1, <1>3, <2>1, <2>2 DEF Advance, opened, reviewed, Kept
  <2>3. CASE ~Uninstallable(reviewed, f, c)
    <3>1. Sound(imported) /\ Fit(imported) /\ Kept(imported, reviewed)
      BY <2>1, <2>3, ImportDocsSound, ImportDocsFits
    <3> HIDE DEF imported
    <3>2. Fit(Archive(imported, f)) /\ Kept(Archive(imported, f), imported)
      BY <3>1, ArchiveFits, ArchiveFields
    <3>3. Advance(r, f, c) = Archive(imported, f)
      BY <1>3, <2>3 DEF Advance, opened, reviewed, imported
    <3> QED BY <1>1, <2>1, <3>1, <3>2, <3>3 DEF Kept
  <2> QED BY <2>2, <2>3
<1> QED BY <1>2, <1>3

-----------------------------------------------------------------------------
(* What is true of the command in flight and of the branches. *)

Merging == {"merge", "pick", "attest", "noted", "reset", "resetting"}

\* The state that a command finds when it goes on.  No other command can have
\* moved the run in between, and an abort that overtakes start ends it.
Working ==
  /\ cmd.op \notin {"idle", "pushed"} => run.state \in Validating
  /\ cmd.op \in Merging => run.state = "MERGEBACK_PENDING"
  /\ cmd.op = "pushed" => run.state = "AWAITING_PUSH_CONFIRM" /\ cmd.at = run.head
  /\ cmd.op = "reviewer" => run.state = "REVIEW_COMMAND_RUNNING"
  /\ cmd.op = "submit" => /\ run.state = "REVIEW_AWAITING_FINDINGS"
                          /\ run.stages["review"].attempts < MaxAttempts
  /\ cmd.op = "deliver" => run.state = "DOCS_AWAITING_FINDINGS"
  /\ cmd.op \in {"attest", "noted", "reset", "resetting"} => cmd.at # NoCommit

\* Neither branch, nor the head that the run records, is ever without a commit.
Somewhere == wt # NoCommit /\ src # NoCommit /\ run.head # NoCommit

\* The inductive invariant about the run record.
RecordInv == RunInv /\ Fit(run) /\ Working /\ Somewhere

\* What one step has to keep besides RunInv.
RecordGoal == Fit(run)' /\ Working' /\ Somewhere'

\* The record moved along one row of the table, by action a.
Forward(a) == Legal(run.state, a) /\ run'.state = NextState(run.state, a)

\* The facts about the record and the branches that most steps need.
LEMMA RecordFacts ==
  ASSUME RecordInv
  PROVE  /\ run \in Run /\ Sound(run) /\ Fit(run) /\ findings \in Seq(Finding)
         /\ wt \in Commit /\ src \in Commit /\ cmd \in Command /\ cmd.at \in Commit
         /\ run.stages \in [Stages -> StageRecord]
         /\ wt # NoCommit /\ src # NoCommit /\ run.head # NoCommit
BY RunInvSound DEF RecordInv, Somewhere, RunInv, TypeOK, Run, Command

\* The fields that decide where a record may stand.
Marked(q, r) ==
  /\ q.attempt = r.attempt /\ q.setup = r.setup /\ q.token = r.token
  /\ q.pushed = r.pushed /\ q.released = r.released /\ q.orphaned = r.orphaned

\* A record that differs in other fields only is as fit and as plain.
LEMMA MarkedFits ==
  ASSUME NEW q, NEW r, Marked(q, r), q.state = r.state
  PROVE  /\ Plain(r) => Plain(q)
         /\ q.stages = r.stages /\ q.evidence = r.evidence /\ q.candidates = r.candidates
            /\ q.coverage = r.coverage =>
              (Shaped(r) => Shaped(q)) /\ (Fit(r) => Fit(q))
BY DEF Marked, Plain, Shaped, Fit, Covered, Greens, Bounded, Tries, Uncovered, Consistent

\* What is kept is marked.
LEMMA KeptMarked ==
  ASSUME NEW q, NEW r, Kept(q, r)
  PROVE  Marked(q, r) /\ q.head = r.head /\ q.sourceHead = r.sourceHead
BY DEF Kept, Marked

\* Assessing a diff touches neither those nor what they stand with.
LEMMA AssessedFits ==
  ASSUME NEW r, Sound(r), NEW changed \in SUBSET Patch, NEW f
  PROVE  /\ Sound(Assessed(r, changed, f)) /\ Assessed(r, changed, f).state = r.state
         /\ Kept(Assessed(r, changed, f), r)
         /\ Assessed(r, changed, f).coverage = r.coverage
         /\ Plain(r) => Plain(Assessed(r, changed, f))
         /\ Shaped(r) => Shaped(Assessed(r, changed, f))
         /\ Fit(r) => Fit(Assessed(r, changed, f))
<1> DEFINE q == Assessed(r, changed, f)
<1>1. /\ Sound(q) /\ q.state = r.state /\ q.stages = r.stages
      /\ q.evidence = r.evidence /\ q.candidates = r.candidates
  BY AssessedSound
<1>2. Kept(q, r) /\ q.coverage = r.coverage
  BY DEF Assessed, Kept, Sound, Run
<1> HIDE DEF q
<1>3. Marked(q, r)
  BY <1>2, KeptMarked
<1> QED BY <1>1, <1>2, <1>3, MarkedFits DEF q

\* The moves that any fit record may take where they are legal.
Ordinary ==
  {"CREATE_WORKTREE", "BEGIN_SYNC", "SYNC_PASSED", "SYNC_FAILED", "BEGIN_REVIEW",
   "REVIEW_COMMAND_PASSED", "REVIEW_COMMAND_FAILED", "SUBMIT_CLEAN", "SUBMIT_BLOCKING",
   "RESPOND", "RESOLVE_GREEN", "BEGIN_DOCS", "SKIP_DOCS", "LINT_PASSED", "LINT_FAILED",
   "TEST_PASSED", "TEST_FAILED", "SKIP_TEST", "MERGEBACK_OK", "MERGEBACK_FAILED"}

\* They need nothing of the record's marks.
LEMMA OrdinaryAllowed ==
  ASSUME NEW r, r.state \in Unreviewed => Uncovered(r), NEW a \in Ordinary
  PROVE  Allowed(r, a)
BY DEF Ordinary, Allowed, ClosingActions, RestartActions

\* A move of the table that neither closes nor verifies a run leaves it validating.
LEMMA StaysValidating ==
  ASSUME NEW s, NEW a, Legal(s, a),
         a \notin {"MERGEBACK_OK", "GATE", "PUSH", "FINISH"} \cup ClosingActions
  PROVE  NextState(s, a) \in Validating
<1>1. Row(s, a, NextState(s, a)) /\ NextState(s, a) \in States
  BY LegalRow, LegalTarget
<1> QED BY <1>1 DEF Row, Validating, TerminalStates, Verified

\* A transaction that moves a record persists a fit one.
LEMMA TransitFits ==
  ASSUME NEW r, Sound(r), Shaped(r), Plain(r), NEW a, Allowed(r, a), NEW next,
         Transits(r, a, next)
  PROVE  /\ Fit(run') /\ cmd' = next /\ Kept(run', r) /\ Legal(r.state, a)
         /\ run'.state = NextState(r.state, a) /\ run'.stages = r.stages
         /\ a \notin {"MERGEBACK_OK", "GATE"} => run'.state \in Validating
<1>1. Legal(r.state, a) /\ run' = Apply(r, a) /\ cmd' = next /\ r \in Run
  BY DEF Transits, CanApply, Commits, Sound
<1>2. a \notin {"PUSH", "FINISH"} \cup ClosingActions
  BY DEF Allowed
<1> QED BY <1>1, <1>2, MoveFits, ApplyState, ApplyKept, StaysValidating

\* A command that ends leaves nothing in flight.
LEMMA IdleWorks ==
  ASSUME cmd' = Idle
  PROVE  Working'
BY DEF Working, Idle, Merging

\* A command that goes on outside mergeback, publication and the reviewer.
LEMMA GoesOn ==
  ASSUME NEW op \in {"sync", "setup", "settle", "submitted", "reopen", "resolved",
                     "lint", "test", "skip_test", "advance"},
         NEW c, cmd' = Doing(op, c), run'.state \in Validating
  PROVE  Working'
BY DEF Working, Doing, Merging

\* A command that goes on within mergeback.
LEMMA MergesOn ==
  ASSUME NEW op \in Merging, NEW c, op \notin {"merge", "pick"} => c # NoCommit,
         cmd' = Doing(op, c), run'.state = "MERGEBACK_PENDING"
  PROVE  Working'
<1>1. "MERGEBACK_PENDING" \in Validating
  BY DEF Validating, States, Moves, Verified, TerminalStates
<1> QED BY <1>1 DEF Working, Doing, Merging

\* A transaction that leaves the branches alone.
LEMMA StaysSomewhere ==
  ASSUME RecordInv, NEW r, Kept(run', r), r.head = run.head, UNCHANGED <<wt, src>>
  PROVE  Somewhere'
BY DEF RecordInv, Somewhere, Kept

\* A command that ends with an ordinary move of the record as it was.
LEMMA OrdinaryEnds ==
  ASSUME RecordInv, NEW a \in Ordinary, run.state # "PUSHED", UNCHANGED <<wt, src>>, NEW next,
         Transits(run, a, next)
  PROVE  /\ Fit(run') /\ Somewhere' /\ cmd' = next /\ Legal(run.state, a)
         /\ run'.state = NextState(run.state, a)
         /\ a # "MERGEBACK_OK" => run'.state \in Validating
         /\ next = Idle => RecordGoal
<1>1. Sound(run) /\ Shaped(run) /\ Legal(run.state, a)
  BY RecordFacts DEF Fit, Transits, CanApply
<1>2. a \notin ClosingActions /\ a # "GATE"
  BY DEF Ordinary, ClosingActions
<1>3. Plain(run) /\ Allowed(run, a)
  BY <1>1, <1>2, RecordFacts, FitPlain, LegalRow, OrdinaryAllowed DEF Fit
<1>4. /\ Fit(run') /\ cmd' = next /\ Kept(run', run) /\ Legal(run.state, a)
      /\ run'.state = NextState(run.state, a)
      /\ a # "MERGEBACK_OK" => run'.state \in Validating
  BY <1>1, <1>2, <1>3, TransitFits
<1>5. Somewhere'
  BY <1>4, StaysSomewhere
<1> QED BY <1>4, <1>5, IdleWorks DEF RecordGoal

\* A command that persists another record of the same standing and ends.
LEMMA SameEnds ==
  ASSUME RecordInv, NEW r, Fit(r), r.head = run.head, UNCHANGED <<wt, src>>, Commits(r, Idle)
  PROVE  RecordGoal
<1>1. run' = r /\ cmd' = Idle
  BY DEF Commits
<1> QED BY <1>1, IdleWorks DEF RecordGoal, Somewhere, RecordInv

-----------------------------------------------------------------------------
(* Every step keeps the records: start, the tail of commands, contexts. *)

\* A rebased branch is no empty branch.
LEMMA RebaseSomewhere ==
  ASSUME NEW c \in Commit, c # NoCommit
  PROVE  Rebase(c) \in Commit /\ Rebase(c) # NoCommit
<1>1. CASE OnBase(c)
  BY <1>1 DEF Rebase
<1>2. CASE ~OnBase(c)
  <2>1. Upstream \in Seq(Patch) /\ c \in Seq(Patch) /\ Len(c) # 0 /\ Len(<<>>) = 0
    BY PatchAssumption, EmptySeq DEF Commit, NoCommit
  <2>2. Len(Upstream \o c) = Len(Upstream) + Len(c) /\ Len(Upstream) \in Nat /\ Len(c) \in Nat
    BY <2>1, ConcatProperties, LenProperties
  <2>3. Upstream \o c # <<>>
    BY <2>1, <2>2
  <2> QED BY <1>2, <2>3, RebaseTyped DEF Rebase, NoCommit
<1> QED BY <1>1, <1>2

\* An aborted record is fit, whether or not the runner was released.
LEMMA AbortFits ==
  ASSUME NEW r, Sound(r), Fit(r), NEW b \in BOOLEAN
  PROVE  /\ Fit([Apply(r, "ABORT") EXCEPT !.released = b])
         /\ Kept(Apply(r, "ABORT"), r)
         /\ [Apply(r, "ABORT") EXCEPT !.released = b].head = r.head
         /\ [Apply(r, "ABORT") EXCEPT !.released = b].state = "ABORTED"
<1> DEFINE a == Apply(r, "ABORT")
           q == [a EXCEPT !.released = b]
<1>1. /\ Fit(a) /\ a \in Run /\ a.state = "ABORTED" /\ Kept(a, r)
  <2>1. "ABORT" \in ClosingActions /\ NextState(r.state, "ABORT") = "ABORTED"
    BY DEF ClosingActions, NextState
  <2> QED BY <2>1, CloseFits, KnownStates, ApplyTyped, ApplyState, ApplyKept DEF Fit, Sound
<1> HIDE DEF a
<1>2. /\ q.state = a.state /\ q.stages = a.stages /\ q.evidence = a.evidence
      /\ q.candidates = a.candidates /\ q.coverage = a.coverage /\ q.head = a.head
      /\ q.attempt = a.attempt /\ q.setup = a.setup /\ q.token = a.token
      /\ q.pushed = a.pushed /\ q.orphaned = a.orphaned /\ q.released = b
  BY <1>1 DEF Run
<1> HIDE DEF q
<1>3. Shaped(q) /\ Tries(q) /\ q.state \notin Unreviewed /\ q.state \in TerminalStates
  BY <1>1, <1>2 DEF Fit, Shaped, Covered, Greens, Bounded, Tries, Unreviewed, TerminalStates
<1>4. Consistent(q)
  BY <1>1, <1>2, <1>3 DEF Fit, Consistent
<1> QED BY <1>1, <1>2, <1>3, <1>4 DEF Fit, Kept, q, a

\* The rows that start follows without asking.
LEMMA StartRows ==
  /\ Legal("CREATED", "CREATE_WORKTREE") /\ Legal("WORKTREE_READY", "BEGIN_SYNC")
  /\ Legal("SYNC_RUNNING", "SYNC_PASSED") /\ Legal("SYNC_GREEN", "BEGIN_REVIEW")
  /\ {"CREATED", "WORKTREE_READY", "SYNC_RUNNING", "SYNC_GREEN"} \subseteq DOMAIN Moves \ {"PUSHED"}
  /\ {"CREATED", "SYNC_RUNNING", "REVIEW_AWAITING_FINDINGS"} \subseteq Validating
BY DEF Legal, Moves, Validating, States, Verified, TerminalStates

\* Two ordinary moves in one transaction.
LEMMA TwiceFits ==
  ASSUME NEW r, Sound(r), Fit(r), r.state \in DOMAIN Moves \ {"PUSHED"},
         NEW a \in Ordinary, Legal(r.state, a), NextState(r.state, a) \in DOMAIN Moves \ {"PUSHED"},
         NEW b \in Ordinary, Legal(NextState(r.state, a), b)
  PROVE  /\ Fit(Apply(Apply(r, a), b))
         /\ Apply(Apply(r, a), b).state = NextState(NextState(r.state, a), b)
         /\ Kept(Apply(Apply(r, a), b), r)
<1> DEFINE q == Apply(r, a)
<1>1. Fit(q) /\ q \in Run /\ q.state = NextState(r.state, a) /\ Kept(q, r)
  <2>1. r \in Run /\ Shaped(r) /\ Plain(r) /\ Allowed(r, a)
    BY FitPlain, OrdinaryAllowed DEF Fit, Sound
  <2> QED BY <2>1, MoveFits, LegalTarget, ApplyTyped, ApplyState, ApplyKept
<1> HIDE DEF q
<1>2. Shaped(q) /\ Plain(q) /\ Allowed(q, b)
  BY <1>1, FitPlain, OrdinaryAllowed DEF Fit
<1>3. Fit(Apply(q, b)) /\ Apply(q, b).state = NextState(q.state, b) /\ Kept(Apply(q, b), q)
  BY <1>1, <1>2, MoveFits, ApplyState, ApplyKept
<1> QED BY <1>1, <1>3 DEF q, Kept

\* start: _provision_validation_checkout.
LEMMA CreateCheckoutRecord ==
  ASSUME RecordInv, CreateCheckout
  PROVE  RecordGoal
<1>0. /\ run.state = "CREATED" /\ Sound(run) /\ Fit(run) /\ run.head # NoCommit
      /\ wt # NoCommit /\ src # NoCommit
  BY RecordFacts DEF RecordInv, RunInv, StartState, CreateCheckout
<1>1. wt' # NoCommit /\ src' # NoCommit
  BY <1>0 DEF CreateCheckout
<1>2. CASE Commits(Apply(Apply(run, "CREATE_WORKTREE"), "BEGIN_SYNC"), Doing("sync", NoCommit))
  <2> DEFINE r == Apply(Apply(run, "CREATE_WORKTREE"), "BEGIN_SYNC")
  <2>1. Fit(r) /\ r.state = "SYNC_RUNNING" /\ Kept(r, run)
    BY <1>0, TwiceFits, StartRows, KnownMoves DEF Ordinary
  <2>2. run' = r /\ cmd' = Doing("sync", NoCommit)
    BY <1>2 DEF Commits
  <2> HIDE DEF r
  <2>3. Working'
    BY <2>1, <2>2, GoesOn, StartRows
  <2> QED BY <1>0, <1>1, <2>1, <2>2, <2>3 DEF RecordGoal, Somewhere, Kept
<1>3. ASSUME NEW released \in BOOLEAN,
             Commits([Apply(run, "ABORT") EXCEPT !.released = released], Idle)
      PROVE  RecordGoal
  <2> DEFINE r == [Apply(run, "ABORT") EXCEPT !.released = released]
  <2>1. Fit(r) /\ r.head = run.head
    BY <1>0, AbortFits
  <2>2. run' = r /\ cmd' = Idle
    BY <1>3 DEF Commits
  <2> HIDE DEF r
  <2> QED BY <1>0, <1>1, <2>1, <2>2, IdleWorks DEF RecordGoal, Somewhere
<1> QED BY <1>2, <1>3 DEF CreateCheckout

\* start: _synchronize.
LEMMA SynchronizeRecord ==
  ASSUME RecordInv, Synchronize
  PROVE  RecordGoal
<1>0. /\ run.state = "SYNC_RUNNING" /\ Sound(run) /\ Fit(run) /\ run.head # NoCommit
      /\ wt \in Commit /\ wt # NoCommit /\ src # NoCommit /\ run \in Run
  BY RecordFacts DEF RecordInv, RunInv, StartState, Synchronize
<1>1. Rebase(wt) \in Commit /\ Rebase(wt) # NoCommit
  BY <1>0, RebaseSomewhere
<1>2. CASE Transits(run, "SYNC_FAILED", Idle) /\ UNCHANGED <<wt, src>>
  BY <1>0, <1>2, OrdinaryEnds DEF Ordinary
<1>3. CASE SetWt(Rebase(wt)) /\ Commits([Apply(run, "ABORT") EXCEPT !.released = TRUE], Idle)
  <2> DEFINE r == [Apply(run, "ABORT") EXCEPT !.released = TRUE]
  <2>1. Fit(r) /\ r.head = run.head
    BY <1>0, AbortFits
  <2>2. run' = r /\ cmd' = Idle /\ wt' # NoCommit /\ src' # NoCommit
    BY <1>0, <1>1, <1>3 DEF Commits, SetWt
  <2> HIDE DEF r
  <2> QED BY <1>0, <2>1, <2>2, IdleWorks DEF RecordGoal, Somewhere
<1>4. CASE /\ SetWt(Rebase(wt))
           /\ Commits([run EXCEPT !.head = Rebase(wt),
                                  !.sourceHead = IF InPlace THEN Rebase(wt) ELSE @,
                                  !.changed = Changed(Tree(Rebase(wt)))],
                      Doing("setup", NoCommit))
  <2> DEFINE r == [run EXCEPT !.head = Rebase(wt),
                              !.sourceHead = IF InPlace THEN Rebase(wt) ELSE @,
                              !.changed = Changed(Tree(Rebase(wt)))]
  <2>1. /\ Marked(r, run) /\ r.state = run.state /\ r.stages = run.stages
        /\ r.evidence = run.evidence /\ r.candidates = run.candidates
        /\ r.coverage = run.coverage /\ r.head = Rebase(wt)
    BY <1>0 DEF Run, Marked
  <2>2. run' = r /\ cmd' = Doing("setup", NoCommit) /\ wt' # NoCommit /\ src' # NoCommit
    BY <1>0, <1>1, <1>4 DEF Commits, SetWt
  <2> HIDE DEF r
  <2>3. Fit(r)
    BY <1>0, <2>1, MarkedFits
  <2>4. Working'
    BY <1>0, <2>1, <2>2, GoesOn, StartRows
  <2> QED BY <1>1, <2>1, <2>2, <2>3, <2>4 DEF RecordGoal, Somewhere
<1>5. \/ Transits(run, "SYNC_FAILED", Idle) /\ UNCHANGED <<wt, src>>
      \/ SetWt(Rebase(wt)) /\ Commits([Apply(run, "ABORT") EXCEPT !.released = TRUE], Idle)
      \/ /\ SetWt(Rebase(wt))
         /\ Commits([run EXCEPT !.head = Rebase(wt),
                                !.sourceHead = IF InPlace THEN Rebase(wt) ELSE @,
                                !.changed = Changed(Tree(Rebase(wt)))],
                    Doing("setup", NoCommit))
  BY DEF Synchronize
<1> QED BY <1>2, <1>3, <1>4, <1>5

\* start: the setup command failed.
LEMMA SetupFailedFits ==
  ASSUME NEW r, Sound(r), Fit(r), r.state = "SYNC_RUNNING"
  PROVE  /\ Fit(Apply([r EXCEPT !.setup = "initial"], "SETUP_FAILED"))
         /\ Apply([r EXCEPT !.setup = "initial"], "SETUP_FAILED").head = r.head
         /\ Apply([r EXCEPT !.setup = "initial"], "SETUP_FAILED").state = "SETUP_FAILED"
<1> DEFINE b == [r EXCEPT !.setup = "initial"]
           q == Apply(b, "SETUP_FAILED")
<1>1. Plain(r) /\ r \in Run
  BY FitPlain, StartRows DEF Sound
<1>2. /\ b \in Run /\ b.state = "SYNC_RUNNING" /\ b.stages = r.stages /\ b.evidence = r.evidence
      /\ b.candidates = r.candidates /\ b.coverage = r.coverage /\ b.head = r.head
      /\ b.setup = "initial" /\ b.pushed = r.pushed /\ b.released = r.released
      /\ b.orphaned = r.orphaned
  BY <1>1 DEF Run
<1> HIDE DEF b
<1>3. NextState("SYNC_RUNNING", "SETUP_FAILED") = "SETUP_FAILED"
  BY DEF NextState, Moves
<1>4. /\ q.state = "SETUP_FAILED" /\ q.stages = b.stages /\ q.evidence = b.evidence
      /\ q.candidates = b.candidates /\ q.coverage = b.coverage /\ Kept(q, b)
  BY <1>2, <1>3, ApplyState, ApplyKept
<1> HIDE DEF q
<1>5. Shaped(q) /\ Tries(q) /\ Uncovered(q)
  BY <1>2, <1>4 DEF Fit, Shaped, Covered, Greens, Bounded, Tries, Unreviewed, Uncovered
<1>6. Consistent(q)
  BY <1>1, <1>2, <1>4 DEF Consistent, Kept, Plain
<1> QED BY <1>2, <1>4, <1>5, <1>6 DEF Fit, Kept, q, b

\* start: _run_setup_command and _prime_review.
LEMMA SetupRecord ==
  ASSUME RecordInv, Setup
  PROVE  RecordGoal
<1>0. /\ run.state = "SYNC_RUNNING" /\ Sound(run) /\ Fit(run) /\ run.head # NoCommit
      /\ wt # NoCommit /\ src # NoCommit /\ UNCHANGED <<wt, src>>
  BY RecordFacts DEF RecordInv, RunInv, StartState, Setup, RecordOnly, Still
<1> DEFINE assessed == Assessed(run, run.changed, <<>>)
<1>3. /\ Sound(assessed) /\ Fit(assessed) /\ assessed.state = "SYNC_RUNNING"
      /\ Kept(assessed, run)
  <2>1. run.changed \in SUBSET Patch
    BY <1>0 DEF Sound, Run
  <2> QED BY <1>0, <2>1, AssessedFits
<1>4. CASE Commits(Apply(Apply(assessed, "SYNC_PASSED"), "BEGIN_REVIEW"),
                   Doing("settle", NoCommit))
  <2> DEFINE r == Apply(Apply(assessed, "SYNC_PASSED"), "BEGIN_REVIEW")
  <2>1. Fit(r) /\ r.state = "REVIEW_AWAITING_FINDINGS" /\ Kept(r, run)
    <3> HIDE DEF assessed
    <3>1. /\ Fit(r) /\ Kept(r, assessed)
          /\ r.state = NextState(NextState("SYNC_RUNNING", "SYNC_PASSED"), "BEGIN_REVIEW")
      BY <1>3, TwiceFits, StartRows, KnownMoves DEF Ordinary
    <3> HIDE DEF r
    <3> QED BY <1>3, <3>1, KnownMoves DEF Kept
  <2>2. run' = r /\ cmd' = Doing("settle", NoCommit)
    BY <1>4 DEF Commits
  <2> HIDE DEF r, assessed
  <2>3. Working'
    BY <2>1, <2>2, GoesOn, StartRows
  <2> QED BY <1>0, <2>1, <2>2, <2>3 DEF RecordGoal, Somewhere, Kept
<1>5. CASE Transits([assessed EXCEPT !.setup = "initial"], "SETUP_FAILED", Idle)
  <2>1. Commits(Apply([assessed EXCEPT !.setup = "initial"], "SETUP_FAILED"), Idle)
    BY <1>5 DEF Transits
  <2> HIDE DEF assessed
  <2> QED BY <1>0, <1>3, <2>1, SetupFailedFits, SameEnds DEF Kept
<1> QED BY <1>4, <1>5 DEF Setup

\* Marking a run stale changes nothing else.
LEMMA StaleFits ==
  ASSUME NEW r, r \in Run, Fit(r)
  PROVE  Fit([r EXCEPT !.stale = TRUE]) /\ Kept([r EXCEPT !.stale = TRUE], r)
<1> DEFINE q == [r EXCEPT !.stale = TRUE]
<1>1. /\ Marked(q, r) /\ q.state = r.state /\ q.stages = r.stages /\ Kept(q, r)
      /\ q.evidence = r.evidence /\ q.candidates = r.candidates /\ q.coverage = r.coverage
  BY DEF Run, Marked, Kept
<1> HIDE DEF q
<1> QED BY <1>1, MarkedFits DEF q

\* evidence.advance and _assert_fresh.
LEMMA SettleRecord ==
  ASSUME RecordInv, Settle \/ StatusAdvance \/ RefuseStale \/ MergebackReopens
  PROVE  RecordGoal
<1>1. UNCHANGED <<wt, src>>
  BY DEF Settle, StatusAdvance, RefuseStale, MergebackReopens, RecordOnly, Still
<1>2. \/ Commits(Advance(run, findings, wt), Idle) \/ Commits(run, Idle)
      \/ Commits([run EXCEPT !.stale = TRUE], Idle)
  BY DEF Settle, StatusAdvance, RefuseStale, MergebackReopens
<1>3. Fit(Advance(run, findings, wt)) /\ Kept(Advance(run, findings, wt), run)
  BY RecordFacts, AdvanceFits
<1> QED BY <1>1, <1>2, <1>3, RecordFacts, StaleFits, SameEnds DEF Kept

-----------------------------------------------------------------------------
(* Every step keeps the records: the findings stages. *)

\* The states that the guards of the findings stages name.
LEMMA FindingRows ==
  /\ {"REVIEW_AWAITING_FINDINGS", "REVIEW_BLOCKED", "REVIEW_GREEN", "DOCS_AWAITING_FINDINGS",
      "DOCS_BLOCKED", "DOCS_GREEN", "REVIEW_COMMAND_RUNNING", "REVIEW_COMMAND_RED"}
       \subseteq Validating \cap (DOMAIN Moves \ {"PUSHED"})
  /\ {"REVIEW_BLOCKED", "REVIEW_GREEN", "DOCS_AWAITING_FINDINGS", "DOCS_BLOCKED", "DOCS_GREEN"}
       \cap Unreviewed = {}
  /\ {"REVIEW_AWAITING_FINDINGS", "REVIEW_COMMAND_RUNNING", "REVIEW_COMMAND_RED"}
       \subseteq Unreviewed
BY DEF Validating, States, Moves, Verified, TerminalStates, Unreviewed

\* context.
LEMMA ContextRecord ==
  ASSUME RecordInv, ReviewContext \/ DocsContext \/ Deliver
  PROVE  RecordGoal
<1>0. /\ UNCHANGED <<wt, src>> /\ Fit(run) /\ Sound(run) /\ run \in Run
      /\ run.head # NoCommit /\ wt # NoCommit /\ src # NoCommit
  BY RecordFacts DEF ReviewContext, DocsContext, Deliver, RecordOnly, ExceptSeen, Still, checkouts
<1>1. CASE ReviewContext
  BY <1>0, <1>1, SameEnds DEF ReviewContext
<1>2. CASE DocsContext
  <2> DEFINE next == Doing("deliver", wt)
  <2>1. CASE Transits(run, "BEGIN_DOCS", next) /\ run.state = "REVIEW_GREEN"
    <3>1. /\ Fit(run') /\ Somewhere' /\ cmd' = next
          /\ run'.state = NextState(run.state, "BEGIN_DOCS")
      BY <1>0, <2>1, OrdinaryEnds DEF Ordinary
    <3>2. run'.state = "DOCS_AWAITING_FINDINGS"
      BY <2>1, <3>1, KnownMoves
    <3> QED BY <3>1, <3>2, FindingRows DEF RecordGoal, Working, Doing, Merging
  <2>2. CASE Commits(run, next) /\ run.state = "DOCS_AWAITING_FINDINGS"
    BY <1>0, <2>2, FindingRows DEF RecordGoal, Working, Doing, Merging, Commits, Somewhere
  <2> QED BY <1>2, <2>1, <2>2 DEF DocsContext
<1>3. CASE Deliver
  <2> DEFINE stages == [run.stages EXCEPT !["docs"].fp = FpOf(wt)]
             r == [run EXCEPT !.stages = stages]
  <2>1. /\ stages["review"] = run.stages["review"]
        /\ \A s \in Stages : stages[s].attempts = run.stages[s].attempts
    <3>1. /\ run.stages \in [Stages -> StageRecord] /\ "docs" \in Stages /\ "review" \in Stages
          /\ run.stages["docs"] \in StageRecord
      BY RecordFacts DEF Stages
    <3>2. [run.stages["docs"] EXCEPT !.fp = FpOf(wt)].attempts = run.stages["docs"].attempts
      BY <3>1 DEF StageRecord
    <3> QED BY <3>1, <3>2
  <2> HIDE DEF stages
  <2>2. /\ Marked(r, run) /\ r.state = run.state /\ r.stages = stages /\ r.head = run.head
        /\ r.evidence = run.evidence /\ r.candidates = run.candidates
        /\ r.coverage = run.coverage
    BY <1>0 DEF Run, Marked
  <2>3. Commits(r, Idle)
    BY <1>3 DEF Deliver, stages
  <2> HIDE DEF r
  <2>4. Fit(r)
    BY <1>0, <2>1, <2>2 DEF Fit, Shaped, Covered, Greens, Bounded, Tries, Uncovered,
                            Consistent, Marked, Stages
  <2> QED BY <1>0, <2>2, <2>3, <2>4, SameEnds
<1> QED BY <1>1, <1>2, <1>3

\* reopen_if_stale, after a fix too, and verify.
LEMMA ReopenRecord ==
  ASSUME RecordInv, ReopenReview \/ ReopenAfterFix \/ Verify
  PROVE  RecordGoal
<1>0. /\ UNCHANGED <<wt, src>> /\ Fit(run) /\ Sound(run) /\ run \in Run
      /\ run.head # NoCommit /\ wt # NoCommit /\ src # NoCommit
  BY RecordFacts DEF ReopenReview, ReopenAfterFix, Verify, RecordOnly, Still
<1>1. run.state \in Validating
  BY FindingRows DEF ReopenReview, ReopenAfterFix, Verify, RecordInv, Working, Validating, States,
                     Moves, Verified, TerminalStates
<1>2. CASE CanApply(run, "INVALIDATE_REVIEW") /\ Commits(Reopen(run), Idle)
  <2>1. Legal(run.state, "INVALIDATE_REVIEW") /\ run.state # "PUSHED"
    BY <1>1, <1>2 DEF CanApply, Validating, Verified
  <2> QED BY <1>0, <1>2, <2>1, ReopenFits, SameEnds DEF Kept
<1>3. CASE Commits(run, Doing("resolved", NoCommit))
  <2>1. run' = run /\ cmd' = Doing("resolved", NoCommit)
    BY <1>3 DEF Commits
  <2>2. Working'
    BY <1>1, <2>1, GoesOn
  <2> QED BY <1>0, <2>1, <2>2 DEF RecordGoal, Somewhere
<1>4. CASE Commits(run, Idle)
  BY <1>0, <1>4, SameEnds
<1>5. CASE Transits(run, "RESOLVE_GREEN", Doing("resolved", NoCommit))
  <2>1. run.state # "PUSHED"
    BY <1>1 DEF Validating, Verified
  <2>2. /\ Fit(run') /\ Somewhere' /\ cmd' = Doing("resolved", NoCommit)
        /\ run'.state \in Validating
    BY <1>0, <1>5, <2>1, OrdinaryEnds DEF Ordinary
  <2> QED BY <2>2, GoesOn DEF RecordGoal
<1> QED BY <1>2, <1>3, <1>4, <1>5 DEF ReopenReview, ReopenAfterFix, Verify

\* The record of a skipped stage is put in place.
LEMMA SkippedFits ==
  ASSUME RecordInv, NEW s \in {"docs", "test"}
  PROVE  LET record == [NoRecord EXCEPT !.status = "skipped", !.head = wt, !.fp = FpOf(wt)]
         IN /\ Sound(Put(run, s, record)) /\ Shaped(Put(run, s, record))
            /\ Put(run, s, record).state = run.state /\ Kept(Put(run, s, record), run)
<1> DEFINE record == [NoRecord EXCEPT !.status = "skipped", !.head = wt, !.fp = FpOf(wt)]
           q == Put(run, s, record)
<1>0. Sound(run) /\ Fit(run) /\ record \in StageRecord /\ s \in Stages /\ s # "review"
      /\ record.attempts = 0
  BY RecordFacts, SkippedTyped DEF RecordInv, Stages, NoRecord
<1> HIDE DEF record
<1>1. /\ Sound(q) /\ q.state = run.state /\ Kept(q, run) /\ q.coverage = run.coverage
      /\ q.candidates = run.candidates
      /\ \A x \in Stages : /\ q.stages[x] = IF x = s THEN record ELSE run.stages[x]
                           /\ q.evidence[x] = IF x = s THEN NoEvidence ELSE run.evidence[x]
  <2>1. Sound(q) /\ q.state = run.state
    BY <1>0, PutSound
  <2>2. /\ Kept(q, run) /\ q.coverage = run.coverage
        /\ q.candidates = run.candidates
        /\ \A x \in Stages : /\ q.stages[x] = IF x = s THEN record ELSE run.stages[x]
                             /\ q.evidence[x] = IF x = s THEN NoEvidence ELSE run.evidence[x]
    BY <1>0, PutFields
  <2> QED BY <2>1, <2>2
<1> HIDE DEF q
<1>2. Shaped(q)
  BY <1>0, <1>1, NothingHeld DEF Fit, Shaped, Covered, Greens, Bounded, Stages
<1> QED BY <1>1, <1>2 DEF q, record

\* _skip_docs_if_disabled and _skip_test_if_not_applicable.
LEMMA SkipRecord ==
  ASSUME RecordInv, SkipDocs \/ SkipTest
  PROVE  RecordGoal
<1> DEFINE record == [NoRecord EXCEPT !.status = "skipped", !.head = wt, !.fp = FpOf(wt)]
<1>0. /\ UNCHANGED <<wt, src>> /\ Fit(run) /\ Sound(run) /\ run \in Run
      /\ run.head # NoCommit /\ wt # NoCommit /\ src # NoCommit
  BY RecordFacts DEF SkipDocs, SkipTest, RecordOnly, Still
<1>1. run.state \in Validating
  BY DEF SkipDocs, SkipTest, RecordInv, Working
<1>2. PICK s \in {"docs", "test"}, a \in {"SKIP_DOCS", "SKIP_TEST"},
           next \in {Doing("settle", NoCommit), Doing("advance", NoCommit), Idle} :
        \/ /\ run.state \in {"REVIEW_GREEN", "LINT_GREEN"}
           /\ Transits(Put(run, s, record), a, next)
        \/ Commits(run, next)
  <2>1. CASE SkipDocs
    BY <2>1 DEF SkipDocs
  <2>2. CASE SkipTest
    BY <2>2 DEF SkipTest
  <2> QED BY <2>1, <2>2
<1>3. next = Idle \/ \E op \in {"settle", "advance"} : next = Doing(op, NoCommit)
  OBVIOUS
<1>4. CASE Commits(run, next)
  <2>1. run' = run /\ cmd' = next
    BY <1>4 DEF Commits
  <2>2. Working'
    BY <1>1, <1>3, <2>1, GoesOn, IdleWorks
  <2> QED BY <1>0, <2>1, <2>2 DEF RecordGoal, Somewhere
<1>5. CASE /\ run.state \in {"REVIEW_GREEN", "LINT_GREEN"}
           /\ Transits(Put(run, s, record), a, next)
  <2> DEFINE q == Put(run, s, record)
  <2>1. /\ Sound(q) /\ Shaped(q) /\ q.state = run.state /\ Kept(q, run)
    BY SkippedFits
  <2> HIDE DEF q
  <2>2. Plain(q) /\ Allowed(q, a)
    <3>1. run.state \in DOMAIN Moves /\ run.state # "PUSHED" /\ run.state \notin Unreviewed
      BY <1>5 DEF Moves, Unreviewed
    <3>2. Plain(q)
      BY <1>0, <2>1, <3>1, FitPlain, KeptPlain
    <3> QED BY <2>1, <3>1, <3>2 DEF Allowed, ClosingActions, RestartActions
  <2>3. Transits(q, a, next)
    BY <1>5 DEF q
  <2>4. /\ Fit(run') /\ cmd' = next /\ Kept(run', q) /\ run'.state \in Validating
    BY <2>1, <2>2, <2>3, TransitFits
  <2>5. Working'
    BY <1>3, <2>4, GoesOn, IdleWorks
  <2> QED BY <1>0, <2>1, <2>4, <2>5, StaysSomewhere DEF RecordGoal, Kept
<1> QED BY <1>2, <1>4, <1>5

\* What submit-findings stores: the record of the stage, and the run's.
SubmittedStage(stage) ==
  [run.stages[stage] EXCEPT !.status = "green", !.head = wt, !.fp = FpOf(wt),
     !.executor = IF stage = "review" THEN Effective(run) ELSE "none"]
Submitted(stage, all) ==
  [Put(run, stage, SubmittedStage(stage)) EXCEPT
     !.coverage = IF stage = "review" THEN wt ELSE @,
     !.risk = Assess(IF run.changed = {} THEN Changed(Tree(wt)) ELSE run.changed, Range(all))]

\* Both, field by field.
LEMMA SubmittedFields ==
  ASSUME RecordInv, NEW stage \in {"review", "docs"}, NEW all
  PROVE  /\ SubmittedStage(stage) \in StageRecord
         /\ SubmittedStage(stage).status = "green" /\ SubmittedStage(stage).head = wt
         /\ SubmittedStage(stage).fp = FpOf(wt)
         /\ SubmittedStage(stage).attempts = run.stages[stage].attempts
         /\ stage = "review" => SubmittedStage(stage).executor = Effective(run)
         /\ Sound(Submitted(stage, all)) /\ Submitted(stage, all).state = run.state
         /\ Submitted(stage, all).restarts = run.restarts
         /\ Kept(Submitted(stage, all), run)
         /\ Submitted(stage, all).coverage = IF stage = "review" THEN wt ELSE run.coverage
         /\ Submitted(stage, all).candidates = run.candidates
         /\ \A x \in Stages :
              /\ Submitted(stage, all).stages[x] = IF x = stage THEN SubmittedStage(stage)
                                                   ELSE run.stages[x]
              /\ Submitted(stage, all).evidence[x] = IF x = stage THEN NoEvidence
                                                     ELSE run.evidence[x]
<1> DEFINE old == run.stages[stage]
           executor == IF stage = "review" THEN Effective(run) ELSE "none"
           record == SubmittedStage(stage)
           put == Put(run, stage, record)
           cover == IF stage = "review" THEN wt ELSE run.coverage
           risk == Assess(IF run.changed = {} THEN Changed(Tree(wt)) ELSE run.changed, Range(all))
           stored == Submitted(stage, all)
<1>0. /\ Sound(run) /\ wt \in Commit /\ run.coverage \in Commit
      /\ stage \in Stages /\ old \in StageRecord
  BY RecordFacts DEF Stages, Run
<1>1. /\ record \in StageRecord /\ record.status = "green" /\ record.head = wt
      /\ record.fp = FpOf(wt) /\ record.attempts = old.attempts
      /\ record.executor = executor
  <2>1. executor \in Executors \cup {"none"}
    BY EffectiveTyped
  <2>2. record = [old EXCEPT !.status = "green", !.head = wt, !.fp = FpOf(wt),
                             !.executor = executor]
    BY DEF SubmittedStage
  <2> HIDE DEF executor, old, record
  <2> QED BY <1>0, <2>1, <2>2, TreeTyped DEF StageRecord, Status
<1> HIDE DEF record
<1>2. /\ Sound(put) /\ put.state = run.state /\ put.restarts = run.restarts /\ Kept(put, run)
      /\ put.coverage = run.coverage /\ put.candidates = run.candidates
      /\ \A x \in Stages : /\ put.stages[x] = IF x = stage THEN record ELSE run.stages[x]
                           /\ put.evidence[x] = IF x = stage THEN NoEvidence ELSE run.evidence[x]
  <2>1. Sound(put) /\ put.state = run.state
    BY <1>0, <1>1, PutSound
  <2>2. put.restarts = run.restarts
    BY <1>0 DEF Put, Sound, Run
  <2>3. /\ Kept(put, run) /\ put.coverage = run.coverage /\ put.candidates = run.candidates
        /\ \A x \in Stages :
             /\ put.stages[x] = IF x = stage THEN record ELSE run.stages[x]
             /\ put.evidence[x] = IF x = stage THEN NoEvidence ELSE run.evidence[x]
    BY <1>0, PutFields
  <2> HIDE DEF put
  <2> QED BY <2>1, <2>2, <2>3
<1>3. risk \in RiskLevel
  BY AssessTyped
<1>4. stored = [put EXCEPT !.coverage = cover, !.risk = risk] /\ cover \in Commit
  <2>1. stored = [put EXCEPT !.coverage = IF stage = "review" THEN wt ELSE @, !.risk = risk]
    BY DEF Submitted, record
  <2> HIDE DEF put, risk, stored
  <2> QED BY <1>0, <1>2, <2>1 DEF Sound, Run
<1> HIDE DEF put, risk, cover, stored
<1>5. /\ Sound(stored) /\ stored.state = run.state /\ stored.restarts = run.restarts
      /\ Kept(stored, put) /\ stored.coverage = cover /\ stored.stages = put.stages
      /\ stored.evidence = put.evidence /\ stored.candidates = put.candidates
  <2>1. Sound(put) /\ put.state = run.state /\ put.restarts = run.restarts
    BY <1>2
  <2>2. /\ Sound(stored) /\ Kept(stored, put) /\ stored.state = put.state
        /\ stored.restarts = put.restarts /\ stored.coverage = cover
        /\ stored.stages = put.stages /\ stored.evidence = put.evidence
        /\ stored.candidates = put.candidates
    <3>1. /\ Sound(put) /\ cover \in Commit /\ risk \in RiskLevel
          /\ stored = [put EXCEPT !.coverage = cover, !.risk = risk]
      BY <1>3, <1>4, <2>1
    <3> QED BY ONLY <3>1 DEF Sound, Run, Kept
  <2> QED BY <2>1, <2>2
<1>6. Kept(stored, run)
  BY <1>2, <1>5 DEF Kept
<1> QED BY <1>1, <1>2, <1>5, <1>6 DEF cover, record, stored, old, executor

\* submit-findings: the result it stores.
LEMMA AcceptRecord ==
  ASSUME RecordInv, NEW stage \in {"review", "docs"}, NEW batch \in Reported(stage),
         stage = "review" => run.state = "REVIEW_AWAITING_FINDINGS",
         stage = "docs" => run.state = "DOCS_AWAITING_FINDINGS",
         Accept(stage, batch)
  PROVE  RecordGoal
<1> DEFINE all == findings \o batch
           own == StageFindings(all, stage)
           old == run.stages[stage]
           record == SubmittedStage(stage)
           stored == Submitted(stage, all)
           outcome == IF Blocking(own) = {} THEN "SUBMIT_CLEAN" ELSE "SUBMIT_BLOCKING"
           next == IF Resolved(own) THEN Doing("submitted", NoCommit) ELSE Idle
<1>0. /\ Sound(run) /\ Fit(run) /\ run \in Run /\ wt \in Commit
      /\ run.head # NoCommit /\ wt # NoCommit /\ src # NoCommit /\ UNCHANGED <<wt, src>>
      /\ stage \in Stages /\ old \in StageRecord
  BY RecordFacts DEF Accept, Still, Stages, Run
<1>2. outcome \in {"SUBMIT_CLEAN", "SUBMIT_BLOCKING"}
      /\ next \in {Doing("submitted", NoCommit), Idle}
  OBVIOUS
<1>3. CanApply(run, outcome) /\ CommitsBoth(Apply(stored, outcome), all, next)
  BY DEF Accept, Submitted, SubmittedStage
<1>6. /\ record \in StageRecord /\ record.status = "green" /\ record.head = wt
      /\ record.fp = FpOf(wt) /\ record.attempts = old.attempts
      /\ Sound(stored) /\ stored.state = run.state /\ Kept(stored, run)
      /\ stored.coverage = IF stage = "review" THEN wt ELSE run.coverage
      /\ stored.candidates = run.candidates
      /\ \A x \in Stages : /\ stored.stages[x] = IF x = stage THEN record ELSE run.stages[x]
                           /\ stored.evidence[x] = IF x = stage THEN NoEvidence ELSE run.evidence[x]
  <2> HIDE DEF all
  <2> QED BY SubmittedFields
<1> HIDE DEF record, outcome, next, all, stored, old
<1>7. Shaped(stored)
  <2>1. Covered(stored)
    <3>1. CASE stage = "review"
      BY <1>6, <3>1 DEF Covered, Stages
    <3>2. CASE stage # "review"
      BY <1>0, <1>6, <3>2 DEF Covered, Fit, Shaped, Stages
    <3> QED BY <3>1, <3>2
  <2>2. Greens(stored)
    BY <1>0, <1>6, NothingHeld DEF Greens, Fit, Shaped, Stages
  <2>3. Bounded(stored)
    BY <1>0, <1>6 DEF Bounded, Fit, Shaped, old
  <2> QED BY <2>1, <2>2, <2>3 DEF Shaped
<1>8. /\ Plain(stored) /\ Kept(stored, run) /\ Allowed(stored, outcome)
  <2>1. run.state \in DOMAIN Moves /\ run.state # "PUSHED"
    BY FindingRows
  <2> QED BY <1>0, <1>2, <1>6, <2>1, FitPlain, KeptPlain, ImportAllowed
<1>9. Legal(stored.state, outcome)
  BY <1>3, <1>6 DEF CanApply
<1> DEFINE q == Apply(stored, outcome)
<1>10. Fit(q) /\ q.state \in Validating /\ q.head = run.head
  <2>1. stored \in Run /\ outcome \notin {"MERGEBACK_OK", "GATE", "PUSH", "FINISH"} \cup ClosingActions
    BY <1>2, <1>6 DEF Sound, ClosingActions
  <2> QED BY <1>7, <1>8, <1>9, <2>1, MoveFits, StaysValidating, ApplyState, ApplyKept DEF Kept
<1> HIDE DEF q
<1>11. CASE Commits(q, next)
  <2>1. run' = q /\ cmd' = next
    BY <1>11 DEF Commits
  <2>2. Working'
    BY <1>2, <1>10, <2>1, GoesOn, IdleWorks
  <2> QED BY <1>0, <1>10, <2>1, <2>2 DEF RecordGoal, Somewhere
<1>12. CASE Commits(run, Idle)
  BY <1>0, <1>12, SameEnds
<1> QED BY <1>3, <1>11, <1>12 DEF CommitsBoth, q

\* submit-findings, by the agent or by the configured reviewer.
LEMMA SubmitRecord ==
  ASSUME RecordInv,
         \/ \E batch \in Reported("review") : SubmitReview(batch) \/ SubmitOutput(batch)
         \/ \E batch \in Reported("docs") : SubmitDocs(batch)
  PROVE  RecordGoal
<1>1. cmd.op = "submit" => run.state = "REVIEW_AWAITING_FINDINGS"
  BY DEF RecordInv, Working
<1> QED BY <1>1, AcceptRecord DEF SubmitReview, SubmitOutput, SubmitDocs

\* respond once its guards hold.
LEMMA AnswerRecord ==
  ASSUME RecordInv, NEW i, Answerable(i), NEW answer, NEW r, Sound(r), Marked(r, run),
         r.state = run.state, r.stages = run.stages, r.evidence = run.evidence,
         r.candidates = run.candidates, r.coverage = run.coverage, r.head # NoCommit,
         Answer(i, answer, r)
  PROVE  RecordGoal
<1> DEFINE f == [findings EXCEPT ![i] = answer]
           green == run.state \in {"REVIEW_GREEN", "DOCS_GREEN"}
           next == IF answer.status = "fixed" /\ green THEN Doing("reopen", NoCommit)
                   ELSE IF Resolved(Active(f, run.state)) THEN Doing("resolved", NoCommit)
                   ELSE Idle
           assessed == Assessed(r, Changed(Tree(wt)), f)
           q == Apply(assessed, "RESPOND")
<1>0. /\ Fit(run) /\ run.head # NoCommit /\ wt # NoCommit /\ src # NoCommit
      /\ wt \in Commit /\ UNCHANGED <<wt, src>>
  BY RecordFacts DEF Answer, Still
<1>1. next \in {Doing("reopen", NoCommit), Doing("resolved", NoCommit), Idle}
  OBVIOUS
<1>2. CanApply(run, "RESPOND") /\ CommitsBoth(q, f, next)
  BY DEF Answer
<1>3. run.state \in DOMAIN Moves /\ run.state # "PUSHED" /\ "RESPOND" \in Ordinary
  BY FindingRows DEF Answerable, Ordinary
<1>8. Fit(r) /\ Plain(r)
  <2>1. run \in Run
    BY RecordFacts
  <2>2. Plain(run)
    BY <1>0, <1>3, <2>1, FitPlain
  <2>3. (Plain(run) => Plain(r)) /\ (Fit(run) => Fit(r))
    BY MarkedFits
  <2> QED BY <1>0, <2>2, <2>3
<1>9. /\ Sound(assessed) /\ assessed.state = r.state /\ Kept(assessed, r)
      /\ Fit(assessed) /\ Plain(assessed)
  <2>1. Changed(Tree(wt)) \in SUBSET Patch
    BY <1>0, ChangedTyped
  <2> HIDE DEF f
  <2> QED BY <1>8, <2>1, AssessedFits
<1> HIDE DEF next, f, assessed
<1>4. Allowed(assessed, "RESPOND") /\ Legal(assessed.state, "RESPOND") /\ assessed \in Run
  BY <1>2, <1>3, <1>9, OrdinaryAllowed DEF Fit, CanApply, Sound
<1>5. Fit(q) /\ q.state \in Validating /\ q.head = r.head
  <2>1. "RESPOND" \notin {"MERGEBACK_OK", "GATE", "PUSH", "FINISH"} \cup ClosingActions
    BY DEF ClosingActions
  <2> QED BY <1>4, <1>9, <2>1, MoveFits, StaysValidating, ApplyState, ApplyKept DEF Fit, Kept
<1> HIDE DEF q
<1>6. CASE Commits(q, next)
  <2>1. run' = q /\ cmd' = next
    BY <1>6 DEF Commits
  <2>2. Working'
    BY <1>1, <1>5, <2>1, GoesOn, IdleWorks
  <2> QED BY <1>0, <1>5, <2>1, <2>2 DEF RecordGoal, Somewhere
<1>7. CASE Commits(run, Idle)
  BY <1>0, <1>7, SameEnds
<1> QED BY <1>2, <1>6, <1>7 DEF CommitsBoth

\* respond: a dismissal, a fix in isolation, a fix in place.
LEMMA RespondRecord ==
  ASSUME RecordInv, NEW i \in DOMAIN findings,
         \/ RespondClosed(i) \/ RespondFixedInPlace(i)
         \/ \E n \in DOMAIN wt : RespondFixedIsolated(i, n)
  PROVE  RecordGoal
<1>0. /\ Sound(run) /\ wt \in Commit /\ wt # NoCommit /\ run.head \in Commit /\ run.head # NoCommit
      /\ run.fixes \subseteq Commit \ {NoCommit} /\ IsFiniteSet(run.fixes)
      /\ DOMAIN wt = 1 .. Len(wt)
  BY RecordFacts, LenProperties DEF Sound, Run, Commit
<1>1. CASE RespondClosed(i)
  BY <1>0, <1>1, AnswerRecord DEF RespondClosed, Marked
<1>2. CASE RespondFixedInPlace(i)
  <2> DEFINE fixes == run.fixes \cup CommitsBetween(run.head, wt)
             r == [run EXCEPT !.fixes = fixes, !.head = wt, !.sourceHead = wt]
  <2>1. fixes \subseteq Commit \ {NoCommit} /\ IsFiniteSet(fixes)
    <3>1. /\ CommitsBetween(run.head, wt) \subseteq Commit \ {NoCommit}
          /\ IsFiniteSet(CommitsBetween(run.head, wt))
      BY <1>0, CommitsBetweenTyped
    <3> QED BY <1>0, <3>1, FS_Union
  <2>2. Answerable(i) /\ Answer(i, [findings[i] EXCEPT !.status = "fixed", !.fix = wt], r)
    BY <1>2 DEF RespondFixedInPlace
  <2> HIDE DEF fixes
  <2>3. /\ Sound(r) /\ Marked(r, run) /\ r.state = run.state /\ r.stages = run.stages
        /\ r.evidence = run.evidence /\ r.candidates = run.candidates
        /\ r.coverage = run.coverage /\ r.head = wt
    BY <1>0, <2>1 DEF Sound, Run, Marked
  <2> HIDE DEF r
  <2> QED BY <1>0, <2>2, <2>3, AnswerRecord
<1>3. ASSUME NEW n \in DOMAIN wt, RespondFixedIsolated(i, n)
      PROVE  RecordGoal
  <2> DEFINE c == SubSeq(wt, 1, n)
             fixes == run.fixes \cup {c}
             r == [run EXCEPT !.fixes = fixes]
  <2>1. fixes \subseteq Commit \ {NoCommit} /\ IsFiniteSet(fixes)
    <3>1. c \in Commit \ {NoCommit} /\ IsFiniteSet({c})
      BY <1>0, PrefixTyped, FS_Singleton
    <3> QED BY <1>0, <3>1, FS_Union
  <2>2. Answerable(i) /\ Answer(i, [findings[i] EXCEPT !.status = "fixed", !.fix = c], r)
    BY <1>3 DEF RespondFixedIsolated
  <2> HIDE DEF fixes, c
  <2>3. /\ Sound(r) /\ Marked(r, run) /\ r.state = run.state /\ r.stages = run.stages
        /\ r.evidence = run.evidence /\ r.candidates = run.candidates
        /\ r.coverage = run.coverage /\ r.head = run.head
    BY <1>0, <2>1 DEF Sound, Run, Marked
  <2> HIDE DEF r
  <2> QED BY <1>0, <2>2, <2>3, AnswerRecord
<1> QED BY <1>1, <1>2, <1>3

\* _record_review_command, field by field.
LEMMA ReviewedFields ==
  ASSUME RecordInv, NEW failed \in BOOLEAN
  PROVE  /\ Sound(Reviewed(failed)) /\ Kept(Reviewed(failed), run)
         /\ Reviewed(failed).state = run.state /\ Reviewed(failed).coverage = run.coverage
         /\ Reviewed(failed).evidence = run.evidence
         /\ Reviewed(failed).candidates = run.candidates
         /\ Reviewed(failed).stages["review"].fp = run.stages["review"].fp
         /\ Reviewed(failed).stages["review"].status \in {"red", "green"}
         /\ Reviewed(failed).stages["review"].attempts =
              IF failed THEN run.stages["review"].attempts + 1 ELSE run.stages["review"].attempts
         /\ \A s \in Stages \ {"review"} : Reviewed(failed).stages[s] = run.stages[s]
<1> DEFINE old == run.stages["review"]
           status == IF failed THEN "red" ELSE "green"
           attempts == IF failed THEN old.attempts + 1 ELSE old.attempts
           record == [old EXCEPT !.status = status, !.attempts = attempts, !.head = wt,
                                 !.executor = "command"]
           stages == [run.stages EXCEPT !["review"] = record]
           q == Reviewed(failed)
<1>1. /\ run \in Run /\ old \in StageRecord /\ run.stages \in [Stages -> StageRecord]
      /\ "review" \in Stages
  BY RecordFacts DEF Stages
<1>2. Reviewed(failed) = [run EXCEPT !.stages = stages]
  BY DEF Reviewed
<1> HIDE DEF status, attempts
<1>3. record.fp = old.fp /\ record.status = status /\ record.attempts = attempts
  <2> HIDE DEF old
  <2> QED BY <1>1 DEF StageRecord
<1> HIDE DEF record
<1>4. stages["review"] = record /\ \A s \in Stages \ {"review"} : stages[s] = run.stages[s]
  BY <1>1
<1> HIDE DEF stages
<1>5. /\ Kept(q, run) /\ q.state = run.state /\ q.coverage = run.coverage
      /\ q.evidence = run.evidence /\ q.candidates = run.candidates /\ q.stages = stages
  BY <1>1, <1>2 DEF Run, Kept
<1>6. Sound(q)
  BY ReviewedSound DEF RecordInv
<1> HIDE DEF q
<1> QED BY <1>3, <1>4, <1>5, <1>6 DEF q, status, attempts, old

\* An outcome of the configured reviewer is recorded in a record of the right shape.
LEMMA ReviewedShape ==
  ASSUME RecordInv, NEW failed \in BOOLEAN,
         run.state \in {"REVIEW_AWAITING_FINDINGS", "REVIEW_COMMAND_RUNNING"},
         run.stages["review"].attempts < MaxAttempts
  PROVE  Shaped(Reviewed(failed)) /\ Plain(Reviewed(failed)) /\ Uncovered(Reviewed(failed))
<1> DEFINE q == Reviewed(failed)
<1>1. /\ Kept(q, run) /\ q.coverage = run.coverage /\ q.evidence = run.evidence
      /\ q.candidates = run.candidates /\ q.stages["review"].fp = run.stages["review"].fp
      /\ q.stages["review"].status \in {"red", "green"}
      /\ q.stages["review"].attempts = IF failed THEN run.stages["review"].attempts + 1
                                       ELSE run.stages["review"].attempts
      /\ \A s \in Stages \ {"review"} : q.stages[s] = run.stages[s]
  BY ReviewedFields
<1> HIDE DEF q
<1>2. /\ Fit(run) /\ run \in Run /\ run.state \in Unreviewed /\ run.state \in DOMAIN Moves
      /\ run.state # "PUSHED" /\ run.stages["review"].attempts \in Nat /\ MaxAttempts \in Nat
  BY RecordFacts, FindingRows, LimitAssumption DEF StageRecord, Stages
<1>3. Plain(q)
  BY <1>1, <1>2, FitPlain, KeptPlain
<1>4. Uncovered(q) /\ Covered(q)
  BY <1>1, <1>2, UncoveredShape DEF Fit, Uncovered
<1>5. Greens(q)
  BY <1>1, <1>2 DEF Fit, Shaped, Greens
<1>6. Bounded(q)
  <2>1. q.stages["review"].attempts <= MaxAttempts
    BY <1>1, <1>2
  <2> QED BY <1>1, <1>2, <2>1 DEF Fit, Shaped, Bounded
<1> QED BY <1>3, <1>4, <1>5, <1>6 DEF Shaped, q

\* review run: start, recover, end and reject.
LEMMA ReviewerRecord ==
  ASSUME RecordInv, StartReviewer \/ RecoverReviewer \/ ReviewerEnds \/ RejectOutput
  PROVE  RecordGoal
<1>0. /\ UNCHANGED <<wt, src>> /\ Fit(run) /\ Sound(run) /\ run \in Run
      /\ run.head # NoCommit /\ wt # NoCommit /\ src # NoCommit
  BY RecordFacts DEF StartReviewer, RecoverReviewer, ReviewerEnds, RejectOutput, RecordOnly,
                     ExceptSeen, Still
<1>1. CASE StartReviewer
  <2>1. PICK a \in {"RUN_REVIEW_COMMAND", "RETRY_REVIEW_COMMAND"} :
          /\ run.state \in {"REVIEW_AWAITING_FINDINGS", "REVIEW_COMMAND_RED"}
          /\ NextState(run.state, a) = "REVIEW_COMMAND_RUNNING"
          /\ Transits(run, a, Doing("reviewer", wt))
    BY <1>1 DEF StartReviewer, NextState, Moves
  <2>2. Plain(run) /\ Shaped(run) /\ Allowed(run, a)
    <3>1. run.stages["review"].attempts < MaxAttempts
      BY <1>1 DEF StartReviewer
    <3>2. Plain(run) /\ Uncovered(run)
      BY <1>0, <2>1, FitPlain, FindingRows DEF Fit
    <3> QED BY <1>0, <3>1, <3>2 DEF Fit, Allowed, ClosingActions
  <2>3. /\ Fit(run') /\ cmd' = Doing("reviewer", wt) /\ Kept(run', run)
        /\ run'.state = "REVIEW_COMMAND_RUNNING"
    BY <1>0, <2>1, <2>2, TransitFits
  <2> QED BY <1>0, <2>3, FindingRows, StaysSomewhere DEF RecordGoal, Working, Doing, Merging
<1>2. ASSUME NEW failed \in BOOLEAN, NEW a \in {"REVIEW_COMMAND_PASSED", "REVIEW_COMMAND_FAILED"},
             NEW next, Transits(Reviewed(failed), a, next)
      PROVE  /\ Fit(run') /\ cmd' = next /\ Somewhere'
             /\ a = "REVIEW_COMMAND_PASSED" => run'.state = "REVIEW_AWAITING_FINDINGS"
             /\ run'.stages = Reviewed(failed).stages
             /\ run.stages["review"].attempts < MaxAttempts
  <2> DEFINE q == Reviewed(failed)
  <2>1. Sound(q) /\ Kept(q, run) /\ q.state = run.state
    BY ReviewedFields
  <2>2. Legal(run.state, a) /\ a \notin ClosingActions
    BY <1>2, <2>1 DEF Transits, CanApply, ClosingActions
  <2>3. Row(run.state, a, NextState(run.state, a))
    BY <2>2, LegalRow
  <2>4. run.state = "REVIEW_COMMAND_RUNNING" /\ run.stages["review"].attempts < MaxAttempts
    BY <1>0, <2>3 DEF Row, Fit, Tries
  <2>5. Shaped(q) /\ Plain(q) /\ Allowed(q, a)
    BY <2>4, ReviewedShape, OrdinaryAllowed DEF Ordinary
  <2> HIDE DEF q
  <2>6. Transits(q, a, next)
    BY <1>2 DEF q
  <2>7. /\ Fit(run') /\ cmd' = next /\ Kept(run', q) /\ run'.stages = q.stages
        /\ run'.state = NextState(q.state, a)
    BY <2>1, <2>5, <2>6, TransitFits
  <2> QED BY <1>0, <2>1, <2>3, <2>4, <2>7, StaysSomewhere DEF Row, q, Kept
<1>3. CASE RecoverReviewer
  BY <1>2, <1>3, IdleWorks DEF RecoverReviewer, RecordGoal
<1>4. CASE ReviewerEnds
  <2>1. CASE Transits(Reviewed(TRUE), "REVIEW_COMMAND_FAILED", Idle)
    BY <1>2, <2>1, IdleWorks DEF RecordGoal
  <2>2. CASE Transits(Reviewed(FALSE), "REVIEW_COMMAND_PASSED", Doing("submit", cmd.at))
    <3>1. /\ Fit(run') /\ cmd' = Doing("submit", cmd.at) /\ Somewhere'
          /\ run'.state = "REVIEW_AWAITING_FINDINGS"
          /\ run'.stages = Reviewed(FALSE).stages
          /\ run.stages["review"].attempts < MaxAttempts
      BY <1>2, <2>2
    <3>2. run'.stages["review"].attempts < MaxAttempts
      BY <3>1, ReviewedFields
    <3> QED BY <3>1, <3>2, FindingRows DEF RecordGoal, Working, Doing, Merging
  <2> QED BY <1>4, <2>1, <2>2 DEF ReviewerEnds
<1>5. CASE RejectOutput
  <2>1. CASE Commits([run EXCEPT !.stale = TRUE], Idle)
    BY <1>0, <2>1, StaleFits, SameEnds DEF Kept
  <2>2. CASE Commits(Apply(Apply(Reviewed(TRUE), "RUN_REVIEW_COMMAND"),
                           "REVIEW_COMMAND_FAILED"), Idle)
    <3> DEFINE q == Reviewed(TRUE)
               a == Apply(q, "RUN_REVIEW_COMMAND")
               b == Apply(a, "REVIEW_COMMAND_FAILED")
    <3>1. run.state = "REVIEW_AWAITING_FINDINGS" /\ run.stages["review"].attempts < MaxAttempts
      BY <1>5 DEF RecordInv, Working, RejectOutput
    <3>2. /\ q \in Run /\ Kept(q, run) /\ q.state = run.state /\ Shaped(q) /\ Plain(q)
          /\ Uncovered(q)
      BY <3>1, ReviewedFields, ReviewedShape DEF Sound
    <3> HIDE DEF q
    <3>3. /\ a \in Run /\ a.state = "REVIEW_COMMAND_RUNNING" /\ a.stages = q.stages
          /\ a.evidence = q.evidence /\ a.candidates = q.candidates
          /\ a.coverage = q.coverage /\ Kept(a, q)
      <4>1. NextState("REVIEW_AWAITING_FINDINGS", "RUN_REVIEW_COMMAND") = "REVIEW_COMMAND_RUNNING"
            /\ "REVIEW_COMMAND_RUNNING" \in States
        BY DEF NextState, Moves, States
      <4> QED BY <3>1, <3>2, <4>1, ApplyTyped, ApplyState, ApplyKept
    <3> HIDE DEF a
    <3>4. Shaped(a) /\ Plain(a) /\ Uncovered(a)
      BY <3>2, <3>3, KeptPlain DEF Shaped, Covered, Greens, Bounded, Uncovered
    <3>5. Legal(a.state, "REVIEW_COMMAND_FAILED") /\ Allowed(a, "REVIEW_COMMAND_FAILED")
      BY <3>3, <3>4, OrdinaryAllowed DEF Ordinary, Legal, Moves
    <3>6. Fit(b) /\ Kept(b, a)
      BY <3>3, <3>4, <3>5, MoveFits, ApplyKept
    <3>7. Commits(b, Idle)
      BY <2>2 DEF b, a, q
    <3> HIDE DEF b
    <3> QED BY <1>0, <3>2, <3>3, <3>6, <3>7, SameEnds DEF Kept
  <2> QED BY <1>5, <2>1, <2>2 DEF RejectOutput
<1> QED BY <1>1, <1>3, <1>4, <1>5

-----------------------------------------------------------------------------
(* Every step keeps the records: the shell stages. *)

\* A change of a shell stage's record within the attempts leaves the rest in shape.
LEMMA ShellShape ==
  ASSUME NEW r, Shaped(r), NEW q, NEW s \in ShellStages,
         q.coverage = r.coverage, q.candidates = r.candidates,
         q.evidence["review"] = r.evidence["review"],
         \A x \in Stages \ {s} : q.stages[x] = r.stages[x],
         q.stages[s].attempts <= MaxAttempts
  PROVE  Shaped(q)
<1>1. q.stages["review"] = r.stages["review"] /\ s \in Stages
  BY DEF Stages, ShellStages
<1>2. Bounded(q)
  BY DEF Bounded, Shaped
<1> QED BY <1>1, <1>2 DEF Shaped, Covered, Greens

\* The states and moves of the two shell stages.
LEMMA ShellRows ==
  ASSUME NEW s \in ShellStages
  PROVE  /\ StageTable[s].passed \in Ordinary /\ StageTable[s].failed \in Ordinary
         /\ StageTable[s].restart \in RestartActions
         /\ StageTable[s].retry \notin RestartActions \cup ClosingActions
         /\ StageTable[s].begin \notin RestartActions \cup ClosingActions
         /\ {StageTable[s].running, StageTable[s].red, StageTable[s].ready} \subseteq
              Validating \cap (DOMAIN Moves \ ({"PUSHED"} \cup Unreviewed))
         /\ StageTable[s].passed # "MERGEBACK_OK" /\ StageTable[s].failed # "MERGEBACK_OK"
         /\ \A a \in {StageTable[s].passed, StageTable[s].failed} :
              \A t, x : Row(x, a, t) => x = StageTable[s].running
<1>1. CASE s = "lint"
  BY <1>1 DEF StageTable, Ordinary, RestartActions, ClosingActions, Validating, States, Moves,
              Verified, TerminalStates, Unreviewed, Row
<1>2. CASE s = "test"
  BY <1>2 DEF StageTable, Ordinary, RestartActions, ClosingActions, Validating, States, Moves,
              Verified, TerminalStates, Unreviewed, Row
<1> QED BY <1>1, <1>2 DEF ShellStages

\* A running shell stage may still fail.
LEMMA ShellTries ==
  ASSUME NEW r, Fit(r), NEW s \in ShellStages, r.state = StageTable[s].running
  PROVE  r.stages[s].attempts < MaxAttempts
BY DEF Fit, Tries, ShellStages, StageTable

\* A command that ends, or goes on to the next stage, with an outcome of a shell
\* stage: the record it stores differs from the run's in that stage alone.
LEMMA OutcomeRecord ==
  ASSUME RecordInv, NEW s \in ShellStages, NEW q, Sound(q), q.state = run.state,
         q.head = run.head, q.coverage = run.coverage, q.candidates = run.candidates,
         q.evidence["review"] = run.evidence["review"],
         \A x \in Stages \ {s} : q.stages[x] = run.stages[x],
         q.stages[s].attempts \in {run.stages[s].attempts, run.stages[s].attempts + 1},
         Plain(run) => Plain(q),
         NEW a \in {StageTable[s].passed, StageTable[s].failed},
         NEW next \in {Idle, Doing("skip_test", NoCommit), Doing("advance", NoCommit)},
         Transits(q, a, next), UNCHANGED <<wt, src>>
  PROVE  RecordGoal /\ Forward(a)
<1>1. a \in Ordinary /\ a # "MERGEBACK_OK" /\ a \notin ClosingActions \cup {"GATE"}
  BY ShellRows DEF Ordinary, ClosingActions
<1>2. Legal(run.state, a)
  BY DEF Transits, CanApply
<1>3. run.state = StageTable[s].running
  BY <1>1, <1>2, ShellRows, LegalRow
<1>4. /\ Fit(run) /\ run \in Run /\ run.state \in DOMAIN Moves \ {"PUSHED"}
      /\ run.state \notin Unreviewed
      /\ run.stages[s].attempts < MaxAttempts
      /\ run.stages[s].attempts \in Nat /\ MaxAttempts \in Nat
  BY <1>3, RecordFacts, ShellRows, ShellTries, LimitAssumption DEF StageRecord, Stages, ShellStages
<1>5. q.stages[s].attempts <= MaxAttempts
  BY <1>4
<1>6. Shaped(q) /\ Plain(q) /\ Allowed(q, a)
  BY <1>1, <1>4, <1>5, ShellShape, FitPlain, OrdinaryAllowed DEF Fit
<1>7. /\ Fit(run') /\ cmd' = next /\ Kept(run', q) /\ run'.state \in Validating
      /\ Forward(a)
  BY <1>1, <1>6, TransitFits DEF Forward
<1>8. next = Idle \/ \E op \in {"skip_test", "advance"} : next = Doing(op, NoCommit)
  OBVIOUS
<1>9. Working'
  BY <1>7, <1>8, GoesOn, IdleWorks
<1> QED BY <1>7, <1>9, StaysSomewhere DEF RecordGoal

\* _recover_interrupted_stage.
LEMMA RecoverRecord ==
  ASSUME RecordInv, NEW s \in ShellStages, RecoverStage(s)
  PROVE  RecordGoal /\ Forward(StageTable[s].failed)
<1> DEFINE old == run.stages[s]
           attempts == old.attempts + 1
           record == [old EXCEPT !.status = "red", !.attempts = attempts, !.head = wt]
           stages == [run.stages EXCEPT ![s] = record]
           q == Failed(s)
<1>1. /\ run \in Run /\ run.stages \in [Stages -> StageRecord] /\ s \in Stages
      /\ old \in StageRecord /\ UNCHANGED <<wt, src>>
  BY RecordFacts DEF Stages, ShellStages, RecoverStage, RecordOnly, Still
<1>2. Failed(s) = [run EXCEPT !.stages = stages]
  BY DEF Failed
<1> HIDE DEF attempts
<1>3. record.attempts = attempts
  <2> HIDE DEF old
  <2> QED BY <1>1 DEF StageRecord
<1> HIDE DEF record
<1>4. stages[s] = record /\ \A x \in Stages \ {s} : stages[x] = run.stages[x]
  BY <1>1
<1> HIDE DEF stages
<1>5. /\ Kept(q, run) /\ q.state = run.state /\ q.coverage = run.coverage
      /\ q.evidence = run.evidence /\ q.candidates = run.candidates /\ q.stages = stages
  BY <1>1, <1>2 DEF Run, Kept
<1>6. Sound(q)
  BY <1>1, FailedSound DEF RecordInv
<1>7. Transits(q, StageTable[s].failed, Idle)
  BY DEF RecoverStage
<1> HIDE DEF q
<1>8. Plain(run) => Plain(q)
  BY <1>5, KeptPlain
<1> QED BY <1>1, <1>3, <1>4, <1>5, <1>6, <1>7, <1>8, OutcomeRecord DEF Kept, attempts

\* check_baseline failing to prepare the base.
LEMMA BaselineRecord ==
  ASSUME RecordInv, NEW s \in ShellStages, BaselineFails(s)
  PROVE  RecordGoal /\ Forward(StageTable[s].failed)
<1> DEFINE record == [NoRecord EXCEPT !.status = "red", !.head = wt,
                                      !.attempts = run.stages[s].attempts + 1]
           stages == [run.stages EXCEPT ![s] = record]
           q == [run EXCEPT !.stages = stages, !.setup = s]
<1>1. /\ run \in Run /\ Sound(run) /\ run.stages \in [Stages -> StageRecord] /\ s \in Stages
      /\ s \in {"lint", "test"} /\ run.stages[s].attempts + 1 \in Nat /\ wt \in Commit
      /\ UNCHANGED <<wt, src>>
  BY RecordFacts DEF Stages, ShellStages, BaselineFails, RecordOnly, Still, StageRecord
<1>2. record \in StageRecord /\ record.attempts = run.stages[s].attempts + 1
  BY <1>1, NothingTyped DEF StageRecord, Status, NoRecord
<1>3. Transits(q, StageTable[s].failed, Idle)
  BY DEF BaselineFails
<1> HIDE DEF record
<1>4. /\ stages \in [Stages -> StageRecord]
      /\ stages[s] = record /\ \A x \in Stages \ {s} : stages[x] = run.stages[x]
  BY <1>1, <1>2
<1> HIDE DEF stages
<1>5. /\ Sound(q) /\ q.state = run.state /\ q.coverage = run.coverage /\ q.head = run.head
      /\ q.evidence = run.evidence /\ q.candidates = run.candidates /\ q.stages = stages
      /\ q.setup = s /\ q.pushed = run.pushed /\ q.released = run.released
      /\ q.orphaned = run.orphaned
  BY <1>1, <1>4 DEF Sound, Run
<1> HIDE DEF q
<1>6. Plain(run) => Plain(q)
  BY <1>1, <1>5 DEF Plain
<1> QED BY <1>1, <1>2, <1>3, <1>4, <1>5, <1>6, OutcomeRecord

\* _persist_stage_result.
LEMMA EndStageRecord ==
  ASSUME RecordInv, NEW s \in ShellStages, NEW passed \in BOOLEAN, EndStage(s, passed)
  PROVE  RecordGoal /\ Forward(IF passed THEN StageTable[s].passed ELSE StageTable[s].failed)
<1> DEFINE fp == [flag |-> IF Tree(cmd.at) = Tree(wt) THEN "ok" ELSE "unavailable",
                  tree |-> Tree(wt)]
           old == run.stages[s]
           status == IF passed THEN "green" ELSE "red"
           attempts == IF passed THEN old.attempts ELSE old.attempts + 1
           record == StageResult(s, passed, fp)
           next == IF ~passed THEN Idle
                   ELSE Doing(IF s = "lint" THEN "skip_test" ELSE "advance", NoCommit)
           a == IF passed THEN StageTable[s].passed ELSE StageTable[s].failed
           q == Put(run, s, record)
<1>1. /\ run \in Run /\ Sound(run) /\ s \in Stages /\ s # "review" /\ wt \in Commit
      /\ old \in StageRecord /\ UNCHANGED <<wt, src>>
      /\ Tree(wt) \in SUBSET Patch
  BY RecordFacts, TreeTyped DEF Stages, ShellStages, EndStage, ExceptRan, Still
<1>2. fp \in Fingerprint /\ status \in Status /\ attempts \in Nat
  BY <1>1 DEF Fingerprint, FpFlag, Status, StageRecord
<1>3. record = [old EXCEPT !.status = status, !.attempts = attempts, !.head = wt, !.fp = fp]
  BY DEF StageResult
<1>4. Transits(q, a, next)
  BY DEF EndStage
<1>5. next \in {Idle, Doing("skip_test", NoCommit), Doing("advance", NoCommit)}
      /\ a \in {StageTable[s].passed, StageTable[s].failed}
  OBVIOUS
<1>6. attempts \in {old.attempts, old.attempts + 1}
  OBVIOUS
<1> HIDE DEF fp, status, attempts, next, a, record
<1>7. record \in StageRecord /\ record.attempts = attempts
  <2> HIDE DEF old
  <2> QED BY <1>1, <1>2, <1>3 DEF StageRecord
<1>8. Sound(q) /\ q.state = run.state
  BY <1>1, <1>7, PutSound
<1>9. /\ Kept(q, run) /\ q.coverage = run.coverage /\ q.candidates = run.candidates
      /\ \A x \in Stages : /\ q.stages[x] = IF x = s THEN record ELSE run.stages[x]
                           /\ q.evidence[x] = IF x = s THEN NoEvidence ELSE run.evidence[x]
  BY <1>1, PutFields
<1> HIDE DEF q
<1>10. q.evidence["review"] = run.evidence["review"] /\ q.stages[s] = record
       /\ \A x \in Stages \ {s} : q.stages[x] = run.stages[x]
  BY <1>1, <1>9 DEF Stages
<1>11. Plain(run) => Plain(q)
  BY <1>9, KeptPlain
<1> QED BY <1>1, <1>4, <1>5, <1>6, <1>7, <1>8, <1>9, <1>10, <1>11, OutcomeRecord DEF Kept, a

\* _register_stage_fix_commits.
LEMMA RepairRecord ==
  ASSUME RecordInv, NEW s \in ShellStages, RepairRestart(s)
  PROVE  RecordGoal /\ Forward(StageTable[s].restart)
<1> DEFINE red == run.stages[s].head
           fixes == run.fixes \cup CommitsBetween(red, wt)
           head == IF InPlace THEN wt ELSE run.head
           source == IF InPlace THEN wt ELSE run.sourceHead
           record == [run.stages[s] EXCEPT !.head = NoCommit]
           stages == [run.stages EXCEPT ![s] = record]
           moved == [run EXCEPT !.fixes = fixes, !.head = head, !.sourceHead = source,
                                !.coverage = NoCommit, !.stages = stages]
           reset == Discard(moved, (ShellStages \ {s}) \cup {"review"})
<1>0. /\ Sound(run) /\ Fit(run) /\ run \in Run /\ wt \in Commit /\ wt # NoCommit /\ s \in Stages
      /\ run.head # NoCommit /\ src # NoCommit /\ UNCHANGED <<wt, src>>
      /\ s # "review" /\ "review" \in Stages
      /\ run.state = StageTable[s].red
  BY RecordFacts DEF Stages, ShellStages, RepairRestart, RecordOnly, Still
<1>1. Sound(moved)
  <2>1. fixes \subseteq Commit \ {NoCommit} /\ IsFiniteSet(fixes)
    <3>1. red \in Commit
      BY <1>0 DEF Sound, Run, StageRecord
    <3>2. /\ CommitsBetween(red, wt) \subseteq Commit \ {NoCommit}
          /\ IsFiniteSet(CommitsBetween(red, wt))
      BY <1>0, <3>1, CommitsBetweenTyped
    <3> QED BY <1>0, <3>2, FS_Union DEF Sound, Run
  <2>2. head \in Commit /\ source \in Commit
    BY <1>0 DEF Sound, Run
  <2>3. record \in StageRecord
    BY <1>0, NothingTyped DEF Sound, Run, StageRecord
  <2>4. stages \in [Stages -> StageRecord]
    <3> HIDE DEF record
    <3> QED BY <1>0, <2>3 DEF Sound, Run
  <2> HIDE DEF fixes, head, source, stages
  <2> QED BY <1>0, <2>1, <2>2, <2>4, NothingTyped DEF Sound, Run
<1>2. stages["review"] = run.stages["review"]
      /\ \A x \in Stages : stages[x].attempts = run.stages[x].attempts
  <2>1. run.stages \in [Stages -> StageRecord] /\ run.stages[s] \in StageRecord
    BY <1>0 DEF Run
  <2>2. record.attempts = run.stages[s].attempts
    BY <2>1 DEF StageRecord
  <2> HIDE DEF record
  <2> QED BY <1>0, <2>1, <2>2
<1> HIDE DEF stages
<1>3. /\ Marked(moved, run) /\ moved.state = run.state /\ moved.evidence = run.evidence
      /\ moved.candidates = run.candidates /\ moved.coverage = NoCommit
      /\ moved.stages = stages /\ moved.head = head
  <2> HIDE DEF head, source, fixes
  <2> QED BY <1>0 DEF Run, Marked
<1>4. Transits(reset, StageTable[s].restart, Idle)
  BY DEF RepairRestart, stages
<1>5. head # NoCommit
  BY <1>0
<1> HIDE DEF moved
<1>6. Greens(moved) /\ Bounded(moved)
  BY <1>0, <1>2, <1>3 DEF Fit, Shaped, Greens, Bounded
<1>7. /\ Sound(reset) /\ reset.state = moved.state /\ Kept(reset, moved)
      /\ Shaped(reset) /\ Uncovered(reset)
  <2>1. Sound(reset) /\ reset.state = moved.state
    BY <1>1, DiscardSound
  <2>2. Kept(reset, moved) /\ reset.coverage = moved.coverage
    BY <1>1, DiscardFields
  <2>3. Greens(reset) /\ Bounded(reset) /\ Uncovered(reset)
    BY <1>1, <1>3, <1>6, DiscardShape
  <2> QED BY <1>3, <2>1, <2>2, <2>3, UncoveredShape DEF Shaped
<1> HIDE DEF reset, head
<1>8. Plain(reset)
  <2>1. Plain(run)
    BY <1>0, FitPlain, ShellRows
  <2> QED BY <1>3, <1>7, <2>1, MarkedFits, KeptPlain
<1>9. /\ Fit(run') /\ cmd' = Idle /\ Kept(run', reset) /\ Forward(StageTable[s].restart)
  BY <1>3, <1>4, <1>7, <1>8, ShellRows, BackAllowed, TransitFits DEF Forward
<1> QED BY <1>0, <1>3, <1>5, <1>7, <1>9, IdleWorks DEF RecordGoal, Somewhere, Kept

\* stage run up to the start of the command.
LEMMA BeginStageRecord ==
  ASSUME RecordInv, NEW s \in ShellStages, BeginStage(s)
  PROVE  RecordGoal /\ \E a \in {StageTable[s].retry, StageTable[s].begin} : Forward(a)
<1> DEFINE outdated == run.stages[s].head \notin {NoCommit, wt}
           red == run.state = StageTable[s].red
           base == IF outdated THEN Discard(run, {s}) ELSE run
           q == [base EXCEPT !.setup = "none"]
           a == IF red THEN StageTable[s].retry ELSE StageTable[s].begin
<1>0. /\ Sound(run) /\ Fit(run) /\ run \in Run /\ s \in Stages /\ s # "review"
      /\ run.head # NoCommit /\ src # NoCommit /\ wt # NoCommit /\ UNCHANGED <<wt, src>>
      /\ run.state \in {StageTable[s].ready, StageTable[s].red}
      /\ run.stages[s].attempts < MaxAttempts
  BY RecordFacts DEF Stages, ShellStages, BeginStage, RecordOnly, Still, AttemptsLeft
<1>1. /\ Sound(base) /\ base.state = run.state /\ Kept(base, run)
      /\ base.coverage = run.coverage /\ base.candidates = run.candidates
      /\ base.stages["review"] = run.stages["review"]
      /\ base.evidence["review"] = run.evidence["review"]
      /\ \A x \in Stages : base.stages[x].attempts = run.stages[x].attempts
  <2>1. CASE outdated
    <3>1. Sound(Discard(run, {s})) /\ Discard(run, {s}).state = run.state
      BY <1>0, DiscardSound
    <3>2. /\ Kept(Discard(run, {s}), run) /\ Discard(run, {s}).coverage = run.coverage
          /\ Discard(run, {s}).candidates = run.candidates
          /\ \A x \in Stages :
               /\ Discard(run, {s}).stages[x].attempts = run.stages[x].attempts
               /\ x \notin {s} => /\ Discard(run, {s}).stages[x] = run.stages[x]
                                  /\ Discard(run, {s}).evidence[x] = run.evidence[x]
      BY <1>0, DiscardFields
    <3> QED BY <1>0, <2>1, <3>1, <3>2 DEF Stages
  <2>2. CASE ~outdated
    BY <1>0, <2>2 DEF Kept
  <2> QED BY <2>1, <2>2
<1>2. Transits(q, a, Doing(s, wt))
  BY DEF BeginStage
<1>3. s \in {"lint", "test"} /\ a \in {StageTable[s].retry, StageTable[s].begin}
  BY DEF ShellStages
<1> HIDE DEF base, a
<1>4. /\ Sound(q) /\ q.state = base.state /\ q.stages = base.stages
      /\ q.evidence = base.evidence /\ q.candidates = base.candidates
      /\ q.coverage = base.coverage /\ q.head = base.head /\ q.setup = "none"
      /\ q.pushed = base.pushed /\ q.released = base.released /\ q.orphaned = base.orphaned
  BY <1>1 DEF Sound, Run
<1> HIDE DEF q
<1>5. Shaped(q) /\ Plain(q)
  <2>1. Plain(run)
    BY <1>0, FitPlain, ShellRows
  <2>2. Plain(q)
    BY <1>1, <1>4, <2>1 DEF Plain, Kept
  <2>3. Shaped(q)
    BY <1>0, <1>1, <1>4 DEF Fit, Shaped, Covered, Greens, Bounded
  <2> QED BY <2>2, <2>3
<1>6. Allowed(q, a) /\ a \notin {"MERGEBACK_OK", "GATE"}
  <2>1. run.state \notin Unreviewed
    BY <1>0, ShellRows
  <2>2. q.stages[s].attempts < MaxAttempts
    BY <1>0, <1>1, <1>4
  <2> QED BY <1>1, <1>3, <1>4, <2>1, <2>2 DEF Allowed, StageTable, ClosingActions, RestartActions
<1>7. /\ Fit(run') /\ cmd' = Doing(s, wt) /\ Kept(run', q) /\ run'.state \in Validating
      /\ Forward(a)
  BY <1>1, <1>2, <1>4, <1>5, <1>6, TransitFits DEF Forward
<1>8. Working'
  BY <1>3, <1>7, GoesOn
<1> QED BY <1>0, <1>1, <1>3, <1>4, <1>7, <1>8, StaysSomewhere DEF RecordGoal, Kept

\* Every step of the shell stages keeps the records.
LEMMA StageRecordKept ==
  ASSUME RecordInv, StageStep
  PROVE  RecordGoal
BY SkipRecord, RecoverRecord, RepairRecord, BeginStageRecord, BaselineRecord, EndStageRecord
   DEF StageStep

-----------------------------------------------------------------------------
(* Every step keeps the records: mergeback. *)

\* _record_attempt marks the record with both snapshots.
LEMMA AttemptedFits ==
  ASSUME RecordInv, NEW retrying \in BOOLEAN
  PROVE  /\ Sound(Attempted(retrying)) /\ Shaped(Attempted(retrying))
         /\ Plain(run) => Plain(Attempted(retrying))
         /\ Attempted(retrying).state = run.state /\ Attempted(retrying).head = run.head
         /\ Attempted(retrying).attempt # NoAttempt
<1> DEFINE a == Archive(run, findings)
           q == [a EXCEPT !.attempt = [source |-> src, validation |-> wt, retrying |-> retrying]]
<1>0. Sound(run) /\ Fit(run) /\ src # NoCommit /\ findings \in Seq(Finding)
  BY RecordFacts
<1>1. Sound(a) /\ Shaped(a) /\ Kept(a, run) /\ a.state = run.state
  BY <1>0, ArchiveSound, ArchiveFits, ArchiveFields DEF Fit
<1>2. Sound(Attempted(retrying))
  BY AttemptedSound DEF RecordInv
<1> HIDE DEF a
<1>3. /\ q.state = a.state /\ q.stages = a.stages /\ q.evidence = a.evidence /\ q.head = a.head
      /\ q.candidates = a.candidates /\ q.coverage = a.coverage /\ q.setup = a.setup
      /\ q.pushed = a.pushed /\ q.released = a.released /\ q.orphaned = a.orphaned
      /\ q.attempt = [source |-> src, validation |-> wt, retrying |-> retrying]
  BY <1>1 DEF Sound, Run
<1>4. Attempted(retrying) = q
  BY DEF Attempted, a
<1> HIDE DEF q
<1>5. Shaped(q)
  BY <1>1, <1>3 DEF Shaped, Covered, Greens, Bounded
<1>6. Plain(run) => Plain(q)
  BY <1>1, <1>3 DEF Plain, Kept
<1>7. q.attempt.source # NoAttempt.source
  BY <1>0, <1>3 DEF NoAttempt
<1> QED BY <1>1, <1>2, <1>3, <1>4, <1>5, <1>6, <1>7 DEF Kept

\* The states that mergeback starts from, and what it moves to.
LEMMA MergeRows ==
  /\ {"TEST_GREEN", "MERGEBACK_CONFLICT", "MERGEBACK_PENDING"} \cap Unreviewed = {}
  /\ {"TEST_GREEN", "MERGEBACK_CONFLICT", "MERGEBACK_PENDING"} \subseteq DOMAIN Moves \ {"PUSHED"}
  /\ NextState("TEST_GREEN", "BEGIN_MERGEBACK") = "MERGEBACK_PENDING"
  /\ NextState("MERGEBACK_CONFLICT", "MERGEBACK_RETRY") = "MERGEBACK_PENDING"
  /\ NextState("MERGEBACK_PENDING", "MERGEBACK_OK") = "VERIFIED"
  /\ NextState("MERGEBACK_PENDING", "MERGEBACK_FAILED") = "MERGEBACK_CONFLICT"
  /\ NextState("MERGEBACK_PENDING", "INVALIDATE_REVIEW") = "REVIEW_AWAITING_FINDINGS"
  /\ Legal("MERGEBACK_PENDING", "INVALIDATE_REVIEW") /\ Legal("MERGEBACK_PENDING", "MERGEBACK_OK")
BY DEF Unreviewed, Moves, NextState, Legal

\* mergeback, begun or tried again after a conflict.
LEMMA BeginMergeRecord ==
  ASSUME RecordInv, BeginMergeback \/ RetryMergeback
  PROVE  RecordGoal
<1>0. Sound(run) /\ Fit(run) /\ UNCHANGED <<wt, src>>
  BY RecordFacts DEF BeginMergeback, RetryMergeback, RecordOnly, Still
<1>1. PICK retrying \in BOOLEAN, a \in {"BEGIN_MERGEBACK", "MERGEBACK_RETRY"} :
        /\ run.state = IF a = "BEGIN_MERGEBACK" THEN "TEST_GREEN" ELSE "MERGEBACK_CONFLICT"
        /\ Transits(Attempted(retrying), a, Doing("merge", NoCommit))
  BY DEF BeginMergeback, RetryMergeback
<1> DEFINE r == Attempted(retrying)
<1>2. /\ Sound(r) /\ Shaped(r) /\ Plain(r) /\ r.state = run.state /\ r.head = run.head
      /\ r.attempt # NoAttempt
  BY <1>0, <1>1, AttemptedFits, FitPlain, MergeRows DEF Sound
<1>3. Transits(r, a, Doing("merge", NoCommit))
  BY <1>1
<1> HIDE DEF r
<1>4. r.state \notin Unreviewed
  BY <1>1, <1>2, MergeRows
<1>5. Allowed(r, a)
  BY <1>2, <1>4 DEF Allowed, RestartActions, ClosingActions
<1>6. /\ Fit(run') /\ cmd' = Doing("merge", NoCommit) /\ Kept(run', r)
      /\ run'.state = NextState(r.state, a)
  BY <1>2, <1>3, <1>5, TransitFits
<1>7. run'.state = "MERGEBACK_PENDING"
  BY <1>1, <1>2, <1>6, MergeRows
<1>8. Working'
  BY <1>6, <1>7, MergesOn DEF Merging
<1> QED BY <1>0, <1>2, <1>6, <1>8, StaysSomewhere DEF RecordGoal

\* _reconcile_attempt.
LEMMA ResumeMergeRecord ==
  ASSUME RecordInv, ResumeMergeback
  PROVE  RecordGoal
<1>0. /\ Sound(run) /\ Fit(run) /\ src # NoCommit /\ run.state = "MERGEBACK_PENDING"
      /\ run \in Run /\ UNCHANGED <<wt, src>>
  BY RecordFacts DEF ResumeMergeback, RecordOnly, Still
<1> DEFINE a == Archive(run, findings)
<1>1. Fit(a) /\ a.state = run.state /\ Kept(a, run)
  BY <1>0, ArchiveFits, ArchiveFields
<1> HIDE DEF a
<1>2. CASE Commits([run EXCEPT !.stale = TRUE], Idle)
  BY <1>0, <1>2, StaleFits, SameEnds DEF Kept
<1>3. CASE Commits(a, Doing("merge", NoCommit)) \/ Commits(a, Doing("attest", src))
  <2>1. run' = a
    BY <1>3 DEF Commits
  <2>2. PICK op \in {"merge", "attest"} : \E c : cmd' = Doing(op, c) /\ (op # "merge" => c = src)
    BY <1>3 DEF Commits
  <2>3. Working'
    BY <1>0, <1>1, <2>1, <2>2, MergesOn DEF Merging
  <2> QED BY <1>0, <1>1, <2>1, <2>3, StaysSomewhere DEF RecordGoal, Kept
<1> QED BY <1>2, <1>3 DEF ResumeMergeback, a

\* A step of mergeback that leaves the record alone.
LEMMA BranchRecord ==
  ASSUME RecordInv, NEW op \in Merging, NEW c, op \notin {"merge", "pick"} => c # NoCommit,
         Commits(run, Doing(op, c)), cmd.op \in Merging, wt' # NoCommit, src' # NoCommit
  PROVE  RecordGoal
<1>1. run' = run /\ cmd' = Doing(op, c) /\ run.state = "MERGEBACK_PENDING"
  BY DEF Commits, RecordInv, Working
<1>2. Working'
  BY <1>1, MergesOn
<1> QED BY <1>1, <1>2, RecordFacts DEF RecordGoal, Somewhere

\* The conflict report.
LEMMA ConflictRecord ==
  ASSUME RecordInv, MergeConflicts, cmd.op \in Merging
  PROVE  RecordGoal
<1>1. run.state # "PUSHED"
  BY DEF RecordInv, Working
<1> QED BY <1>1, OrdinaryEnds DEF MergeConflicts, Ordinary

\* _perform_merge up to the synchronization of the source branch.
LEMMA SyncSourceRecord ==
  ASSUME RecordInv, SyncSource
  PROVE  RecordGoal
<1>0. /\ cmd.op \in Merging /\ wt # NoCommit /\ src # NoCommit
      /\ Rebase(src) # NoCommit
  BY RecordFacts, RebaseSomewhere DEF SyncSource, Merging
<1>1. CASE Commits(run, Doing("attest", src)) /\ UNCHANGED <<wt, src>>
  BY <1>0, <1>1, BranchRecord DEF Merging
<1>2. CASE SetSrc(Rebase(src)) /\ Commits(run, Doing("pick", NoCommit))
  BY <1>0, <1>2, BranchRecord DEF Merging, SetSrc
<1>3. CASE MergeConflicts
  BY <1>0, <1>3, ConflictRecord
<1> QED BY <1>1, <1>2, <1>3 DEF SyncSource

\* Picking onto a branch leaves it with commits.
LEMMA PickedSomewhere ==
  ASSUME RecordInv, NEW picked \in SetToSeqs({Last(f) : f \in run.fixes})
  PROVE  src \o picked # NoCommit
<1>1. picked \in Seq(Patch)
  BY PickedTyped DEF RecordInv
<1>2. src \in Seq(Patch) /\ Len(src) # 0 /\ Len(<<>>) = 0
  BY RecordFacts, EmptySeq DEF Commit, NoCommit
<1>3. /\ Len(src \o picked) = Len(src) + Len(picked)
      /\ Len(src) \in Nat /\ Len(picked) \in Nat
  BY <1>1, <1>2, ConcatProperties, LenProperties
<1>4. src \o picked # <<>>
  BY <1>2, <1>3
<1> QED BY <1>4 DEF NoCommit

\* The rest of _perform_merge.
LEMMA PickFixesRecord ==
  ASSUME RecordInv, PickFixes
  PROVE  RecordGoal
<1> DEFINE patches == {Last(f) : f \in run.fixes}
<1>0. cmd.op \in Merging /\ wt # NoCommit /\ src # NoCommit /\ Fit(run)
  BY RecordFacts DEF PickFixes, Merging
<1>1. ASSUME NEW c, c # NoCommit, Commits(run, Compared(c)), wt' # NoCommit, src' # NoCommit
      PROVE  RecordGoal
  <2>1. PICK op \in {"attest", "reset"} : Compared(c) = Doing(op, c)
    BY DEF Compared
  <2> QED BY <1>0, <1>1, <2>1, BranchRecord DEF Merging
<1>2. CASE (Commits(run, Idle) \/ Commits(run, Compared(src))) /\ UNCHANGED <<wt, src>>
  BY <1>0, <1>1, <1>2, SameEnds
<1>3. ASSUME NEW picked \in SetToSeqs(patches),
             SetSrc(src \o picked) /\ Commits(run, Compared(src \o picked))
      PROVE  RecordGoal
  <2>1. src \o picked # NoCommit
    BY PickedSomewhere
  <2>2. wt' # NoCommit /\ src' # NoCommit
    BY <1>0, <1>3, <2>1 DEF SetSrc
  <2> QED BY <1>1, <1>3, <2>1, <2>2
<1>4. CASE MergeConflicts
  BY <1>0, <1>4, ConflictRecord
<1> QED BY <1>2, <1>3, <1>4 DEF PickFixes

\* attestation.build and write, and the checkout that takes a resolution.
LEMMA AttestRecord ==
  ASSUME RecordInv, Attest \/ ResetCheckout
  PROVE  RecordGoal
<1>0. /\ cmd.op \in Merging /\ cmd.at # NoCommit /\ wt # NoCommit /\ src # NoCommit /\ Fit(run)
      /\ wt' # NoCommit /\ src' # NoCommit
  BY RecordFacts DEF RecordInv, Working, Merging, Attest, ResetCheckout, checkouts
<1>1. CASE Commits(run, Idle) /\ UNCHANGED <<wt, src>>
  BY <1>0, <1>1, SameEnds
<1>2. CASE Commits(run, Doing("noted", cmd.at)) \/ Commits(run, Doing("resetting", cmd.at))
  BY <1>0, <1>2, BranchRecord DEF Merging
<1> QED BY <1>1, <1>2 DEF Attest, ResetCheckout, checkouts

\* Recording which head a run stands at.
LEMMA HeadFits ==
  ASSUME NEW r, Sound(r), NEW c \in Commit
  PROVE  /\ Sound([r EXCEPT !.head = c, !.sourceHead = c])
         /\ Marked([r EXCEPT !.head = c, !.sourceHead = c], r)
         /\ [r EXCEPT !.head = c, !.sourceHead = c].head = c
         /\ [r EXCEPT !.head = c, !.sourceHead = c].sourceHead = c
         /\ [r EXCEPT !.head = c, !.sourceHead = c].state = r.state
         /\ [r EXCEPT !.head = c, !.sourceHead = c].stages = r.stages
         /\ [r EXCEPT !.head = c, !.sourceHead = c].evidence = r.evidence
         /\ [r EXCEPT !.head = c, !.sourceHead = c].candidates = r.candidates
         /\ [r EXCEPT !.head = c, !.sourceHead = c].coverage = r.coverage
BY DEF Sound, Run, Marked

\* The transaction that ends a mergeback: the run is verified.
LEMMA RecordMergebackRecord ==
  ASSUME RecordInv, RecordMergeback
  PROVE  /\ RecordGoal /\ cmd' = Idle /\ run'.state = "VERIFIED"
         /\ run'.head = cmd.at /\ run'.sourceHead = cmd.at
<1> DEFINE r == [run EXCEPT !.head = cmd.at, !.sourceHead = cmd.at]
<1>0. /\ Sound(run) /\ Fit(run) /\ cmd.at \in Commit /\ wt # NoCommit /\ src # NoCommit
      /\ UNCHANGED <<wt, src>> /\ Transits(r, "MERGEBACK_OK", Idle)
  BY RecordFacts DEF RecordMergeback, RecordOnly, Still
<1>1. run.state = "MERGEBACK_PENDING" /\ cmd.at # NoCommit
  BY DEF RecordInv, Working, Merging, RecordMergeback
<1>2. Plain(run)
  BY <1>0, <1>1, FitPlain, MergeRows DEF Sound
<1>3. /\ Sound(r) /\ r.head = cmd.at /\ r.sourceHead = cmd.at /\ r.state = "MERGEBACK_PENDING"
      /\ Shaped(r) /\ Plain(r)
  <2>1. /\ Sound(r) /\ Marked(r, run) /\ r.head = cmd.at /\ r.sourceHead = cmd.at
        /\ r.state = run.state /\ r.stages = run.stages /\ r.evidence = run.evidence
        /\ r.candidates = run.candidates /\ r.coverage = run.coverage
    BY <1>0, HeadFits
  <2> HIDE DEF r
  <2> QED BY <1>0, <1>1, <1>2, <2>1, MarkedFits DEF Fit
<1> HIDE DEF r
<1>4. Allowed(r, "MERGEBACK_OK")
  BY <1>3, MergeRows DEF Allowed, ClosingActions, RestartActions
<1>5. /\ Fit(run') /\ cmd' = Idle /\ Kept(run', r)
      /\ run'.state = NextState(r.state, "MERGEBACK_OK")
  BY <1>0, <1>3, <1>4, TransitFits
<1>6. run'.state = "VERIFIED" /\ run'.head = cmd.at /\ run'.sourceHead = cmd.at
  BY <1>3, <1>5, MergeRows DEF Kept
<1>7. Somewhere'
  BY <1>0, <1>1, <1>6 DEF Somewhere
<1> QED BY <1>5, <1>6, <1>7, IdleWorks DEF RecordGoal

\* _reset_non_equivalent_merge_to_review.
LEMMA RecordResetRecord ==
  ASSUME RecordInv, RecordReset
  PROVE  RecordGoal /\ Forward("INVALIDATE_REVIEW")
<1> DEFINE r == [run EXCEPT !.head = cmd.at, !.sourceHead = cmd.at,
                            !.fixes = {}, !.coverage = NoCommit]
           q == Assessed(r, Changed(Tree(cmd.at)), findings)
           d == Discard(q, {"review", "lint", "test"})
<1>0. /\ Sound(run) /\ Fit(run) /\ cmd.at \in Commit /\ wt # NoCommit /\ src # NoCommit
      /\ UNCHANGED <<wt, src>> /\ Transits(d, "INVALIDATE_REVIEW", Idle)
  BY RecordFacts DEF RecordReset, RecordOnly, Still
<1>1. run.state = "MERGEBACK_PENDING" /\ cmd.at # NoCommit
  BY DEF RecordInv, Working, Merging, RecordReset
<1>2. Plain(run)
  BY <1>0, <1>1, FitPlain, MergeRows DEF Sound
<1>3. /\ Sound(r) /\ Marked(r, run) /\ r.head = cmd.at /\ r.state = run.state
      /\ r.stages = run.stages /\ r.evidence = run.evidence
      /\ r.candidates = run.candidates /\ r.coverage = NoCommit
  BY <1>0, NothingTyped, FS_EmptySet DEF Sound, Run, Marked
<1> HIDE DEF r
<1>4. Greens(r) /\ Bounded(r) /\ Plain(r)
  BY <1>0, <1>1, <1>2, <1>3, MarkedFits DEF Fit, Shaped, Greens, Bounded
<1>9. /\ Sound(q) /\ q.state = r.state /\ Greens(q) /\ Bounded(q) /\ Kept(q, r)
      /\ q.coverage = NoCommit
  <2>1. /\ Sound(q) /\ q.state = r.state /\ Kept(q, r) /\ q.coverage = r.coverage
        /\ q.stages = r.stages /\ q.evidence = r.evidence /\ q.candidates = r.candidates
    BY <1>0, <1>3, ChangedTyped, AssessedSound, AssessedFits
  <2> HIDE DEF q
  <2> QED BY <1>3, <1>4, <2>1 DEF Greens, Bounded
<1> HIDE DEF q
<1>5. /\ Sound(d) /\ d.state = r.state /\ Greens(d) /\ Bounded(d) /\ Kept(d, r)
      /\ d.coverage = NoCommit /\ Uncovered(d)
  <2>1. /\ Sound(d) /\ d.state = q.state /\ Greens(d) /\ Bounded(d) /\ Kept(d, q)
        /\ d.coverage = NoCommit /\ Uncovered(d)
    BY <1>9, DiscardSound, DiscardShape, DiscardFields
  <2> HIDE DEF d
  <2> QED BY <1>9, <2>1 DEF Kept
<1> HIDE DEF d
<1>6. Shaped(d) /\ Plain(d) /\ Allowed(d, "INVALIDATE_REVIEW")
  BY <1>4, <1>5, UncoveredShape, KeptPlain, BackAllowed DEF Shaped, RestartActions
<1>7. Fit(run') /\ cmd' = Idle /\ Kept(run', d) /\ Forward("INVALIDATE_REVIEW")
  BY <1>0, <1>3, <1>5, <1>6, TransitFits DEF Forward
<1>8. Somewhere'
  BY <1>0, <1>1, <1>3, <1>5, <1>7 DEF Somewhere, Kept
<1> QED BY <1>7, <1>8, IdleWorks DEF RecordGoal

\* Every step of mergeback keeps the records.
LEMMA MergeRecord ==
  ASSUME RecordInv, MergeStep
  PROVE  RecordGoal
BY SettleRecord, BeginMergeRecord, ResumeMergeRecord, SyncSourceRecord, PickFixesRecord,
   AttestRecord, RecordMergebackRecord, RecordResetRecord DEF MergeStep

-----------------------------------------------------------------------------
(* Every step keeps the records: publication, the world, and the whole. *)

\* The ends of the table.
LEMMA EndRows ==
  /\ Legal("VERIFIED", "GATE") /\ NextState("VERIFIED", "GATE") = "AWAITING_PUSH_CONFIRM"
  /\ NextState("AWAITING_PUSH_CONFIRM", "PUSH") = "PUSHED" /\ NextState("PUSHED", "FINISH") = "DONE"
  /\ NextState("VERIFIED", "ABORT") = "ABORTED"
  /\ {"VERIFIED", "AWAITING_PUSH_CONFIRM"} \subseteq DOMAIN Moves \ {"PUSHED"}
  /\ {"VERIFIED", "AWAITING_PUSH_CONFIRM", "PUSHED", "DONE"} \cap Unreviewed = {}
BY DEF Legal, NextState, Moves, Unreviewed

\* gate: a new token, and the first time the move to the confirmation.
LEMMA GateRecord ==
  ASSUME RecordInv, Gate
  PROVE  /\ RecordGoal /\ cmd' = Idle
         /\ run'.state \in {run.state, "AWAITING_PUSH_CONFIRM"}
         /\ run'.head = run.head /\ run'.sourceHead = run.sourceHead
<1> DEFINE assessed == Assessed(run, Changed(Tree(run.head)), findings)
           r == [assessed EXCEPT !.token = @ + 1]
<1>0. /\ Sound(run) /\ Fit(run) /\ run \in Run /\ UNCHANGED <<wt, src>>
      /\ run.state \in {"VERIFIED", "AWAITING_PUSH_CONFIRM"} /\ run.token \in Nat
      /\ \/ Commits(assessed, Idle)
         \/ run.state = "VERIFIED" /\ Transits(r, "GATE", Idle)
         \/ run.state = "AWAITING_PUSH_CONFIRM" /\ Commits(r, Idle)
  BY RecordFacts DEF Gate, RecordOnly, Still, Run
<1>6. /\ Sound(assessed) /\ Fit(assessed) /\ assessed.state = run.state
      /\ Kept(assessed, run) /\ assessed.stages = run.stages
      /\ assessed.evidence = run.evidence /\ assessed.candidates = run.candidates
      /\ assessed.coverage = run.coverage
  <2>1. run.head \in Commit
    BY <1>0 DEF Run
  <2> QED BY <1>0, <2>1, ChangedTyped, AssessedFits, AssessedSound
<1> HIDE DEF assessed
<1>1. /\ r.state = run.state /\ r.stages = run.stages /\ r.evidence = run.evidence
      /\ r.candidates = run.candidates /\ r.coverage = run.coverage /\ r.head = run.head
      /\ r.sourceHead = run.sourceHead
      /\ r.attempt = run.attempt /\ r.setup = run.setup /\ r.pushed = run.pushed
      /\ r.released = run.released /\ r.orphaned = run.orphaned
      /\ r.token = run.token + 1 /\ Sound(r)
  BY <1>0, <1>6 DEF Run, Sound, Kept
<1> HIDE DEF r
<1>2. Plain(run)
  BY <1>0, FitPlain, EndRows
<1>3. Shaped(r) /\ Plain(r)
  BY <1>0, <1>1, <1>2 DEF Fit, Shaped, Covered, Greens, Bounded, Plain
<1>4. /\ Fit(run') /\ cmd' = Idle /\ run'.state \in {run.state, "AWAITING_PUSH_CONFIRM"}
      /\ run'.head = run.head /\ run'.sourceHead = run.sourceHead
  <2>3. CASE Commits(assessed, Idle)
    BY <1>6, <2>3 DEF Commits, Kept
  <2>1. CASE run.state = "VERIFIED" /\ Transits(r, "GATE", Idle)
    <3>1. Allowed(r, "GATE")
      <4>1. r.token # 0 /\ r.state \notin Unreviewed
        BY <1>0, <1>1, EndRows
      <4> QED BY <4>1 DEF Allowed, ClosingActions, RestartActions
    <3>2. /\ Fit(run') /\ cmd' = Idle /\ Kept(run', r)
          /\ run'.state = NextState(r.state, "GATE")
      BY <1>1, <1>3, <2>1, <3>1, TransitFits
    <3> QED BY <1>1, <2>1, <3>2, EndRows DEF Kept
  <2>2. CASE run.state = "AWAITING_PUSH_CONFIRM" /\ Commits(r, Idle)
    <3>1. r.token # 0
      BY <1>0, <1>1
    <3>2. Fit(r)
      BY <1>0, <1>1, <1>3, <2>2, <3>1, EndRows DEF Fit, Tries, Consistent, Uncovered
    <3> QED BY <1>1, <2>2, <3>2 DEF Commits
  <2> QED BY <1>0, <2>1, <2>2, <2>3
<1>5. Somewhere'
  BY <1>0, <1>4, RecordFacts DEF Somewhere
<1> QED BY <1>4, <1>5, IdleWorks DEF RecordGoal

\* push publishes and leaves the record alone.
LEMMA PushRecord ==
  ASSUME RecordInv, NEW confirm, Push(confirm)
  PROVE  RecordGoal
<1>1. /\ run' = run /\ cmd' = Doing("pushed", run.head) /\ run.head # NoCommit
      /\ run.state = "AWAITING_PUSH_CONFIRM" /\ UNCHANGED <<wt, src>>
  BY RecordFacts DEF Push, Commits, checkouts
<1>2. Working'
  BY <1>1 DEF Working, Doing, Merging
<1> QED BY <1>1, <1>2, RecordFacts DEF RecordGoal, Somewhere

\* The record of a push, and the end of a run.
LEMMA EndFits ==
  ASSUME NEW r, r \in Run, Shaped(r), r.pushed # NoCommit, r.setup # "initial", ~r.orphaned,
         NEW a \in {"PUSH", "FINISH"},
         r.state = IF a = "PUSH" THEN "AWAITING_PUSH_CONFIRM" ELSE "PUSHED",
         r.released => a = "FINISH"
  PROVE  /\ Fit(Apply(r, a)) /\ Kept(Apply(r, a), r)
         /\ Apply(r, a).state = IF a = "PUSH" THEN "PUSHED" ELSE "DONE"
<1> DEFINE q == Apply(r, a)
<1>1. /\ q.state = NextState(r.state, a) /\ q.stages = r.stages /\ q.evidence = r.evidence
      /\ q.candidates = r.candidates /\ q.coverage = r.coverage /\ Kept(q, r)
  BY ApplyState, ApplyKept
<1>2. q.state = IF a = "PUSH" THEN "PUSHED" ELSE "DONE"
  BY <1>1, EndRows
<1> HIDE DEF q
<1>3. Shaped(q) /\ Tries(q) /\ q.state \notin Unreviewed
  BY <1>1, <1>2, EndRows DEF Shaped, Covered, Greens, Bounded, Tries
<1>4. Consistent(q)
  BY <1>1, <1>2 DEF Consistent, TerminalStates, Kept
<1> QED BY <1>1, <1>2, <1>3, <1>4 DEF Fit, q

\* The transaction after a push.
LEMMA RecordPushRecord ==
  ASSUME RecordInv, RecordPush
  PROVE  /\ RecordGoal /\ cmd' = Idle /\ run'.state = "PUSHED"
         /\ run'.head = run.head /\ run'.sourceHead = run.sourceHead
<1> DEFINE r == [run EXCEPT !.pushed = cmd.at]
<1>0. /\ run \in Run /\ Fit(run) /\ run.head # NoCommit /\ UNCHANGED <<wt, src>>
      /\ run.state = "AWAITING_PUSH_CONFIRM" /\ cmd.at = run.head /\ cmd.at \in Commit
      /\ run' = Apply(r, "PUSH") /\ cmd' = Idle
  BY RecordFacts DEF RecordPush, RecordOnly, Still, RecordInv, Working, Transits, Commits
<1>1. Plain(run)
  BY <1>0, FitPlain, EndRows
<1>2. /\ r \in Run /\ r.state = run.state /\ r.stages = run.stages /\ r.evidence = run.evidence
      /\ r.candidates = run.candidates /\ r.coverage = run.coverage /\ r.head = run.head
      /\ r.sourceHead = run.sourceHead /\ r.setup = run.setup /\ r.released = run.released
      /\ r.orphaned = run.orphaned /\ r.pushed = cmd.at
  BY <1>0 DEF Run
<1> HIDE DEF r
<1>3. Shaped(r)
  BY <1>0, <1>2 DEF Fit, Shaped, Covered, Greens, Bounded
<1>4. Fit(run') /\ Kept(run', r) /\ run'.state = "PUSHED"
  BY <1>0, <1>1, <1>2, <1>3, EndFits DEF Plain
<1>5. Somewhere'
  BY <1>0, <1>2, <1>4, RecordFacts DEF Somewhere, Kept
<1> QED BY <1>0, <1>2, <1>4, <1>5, IdleWorks DEF RecordGoal, Kept

\* finish.
LEMMA FinishRecord ==
  ASSUME RecordInv, Finish
  PROVE  /\ RecordGoal /\ cmd' = Idle /\ run'.state = "DONE"
         /\ run'.head = run.head /\ run'.sourceHead = run.sourceHead
<1> DEFINE r == [run EXCEPT !.released = TRUE]
<1>0. /\ run \in Run /\ Fit(run) /\ run.head # NoCommit /\ UNCHANGED <<wt, src>>
      /\ run.state = "PUSHED" /\ run' = Apply(r, "FINISH") /\ cmd' = Idle
  BY RecordFacts DEF Finish, RecordOnly, Still, Transits, Commits
<1>1. run.pushed # NoCommit /\ run.setup # "initial" /\ ~run.orphaned
  BY <1>0 DEF Fit, Consistent, TerminalStates
<1>2. /\ r \in Run /\ r.state = run.state /\ r.stages = run.stages /\ r.evidence = run.evidence
      /\ r.candidates = run.candidates /\ r.coverage = run.coverage /\ r.head = run.head
      /\ r.sourceHead = run.sourceHead /\ r.setup = run.setup
      /\ r.orphaned = run.orphaned /\ r.pushed = run.pushed
  BY <1>0 DEF Run
<1> HIDE DEF r
<1>3. Shaped(r)
  BY <1>0, <1>2 DEF Fit, Shaped, Covered, Greens, Bounded
<1>4. Fit(run') /\ Kept(run', r) /\ run'.state = "DONE"
  BY <1>0, <1>1, <1>2, <1>3, EndFits
<1>5. Somewhere'
  BY <1>0, <1>2, <1>4, RecordFacts DEF Somewhere, Kept
<1> QED BY <1>0, <1>2, <1>4, <1>5, IdleWorks DEF RecordGoal, Kept

\* abort, and the orphaning of a run that another start or gc replaces.
LEMMA CloseRecord ==
  ASSUME RecordInv, Orphan \/ \E force \in BOOLEAN : Abort(force)
  PROVE  /\ RecordGoal /\ cmd' = Idle /\ run.state \notin TerminalStates
         /\ run'.state \in {"ABORTED", "ORPHANED"}
         /\ run'.head = run.head /\ run'.sourceHead = run.sourceHead
<1>0. /\ run \in Run /\ Fit(run) /\ run.head # NoCommit /\ UNCHANGED <<wt, src>>
  BY RecordFacts DEF Orphan, Abort, RecordOnly, Still
<1>1. ASSUME NEW b \in BOOLEAN, NEW o \in BOOLEAN, NEW a \in ClosingActions, a = "ORPHAN" => o,
             NEW r \in Run, r.state = run.state, r.stages = run.stages, r.evidence = run.evidence,
             r.candidates = run.candidates, r.coverage = run.coverage, r.head = run.head,
             r.sourceHead = run.sourceHead, a = "ORPHAN" => r.orphaned, Transits(r, a, Idle)
      PROVE  /\ RecordGoal /\ cmd' = Idle /\ run.state \notin TerminalStates
             /\ run'.state \in {"ABORTED", "ORPHANED"}
             /\ run'.head = run.head /\ run'.sourceHead = run.sourceHead
  <2>1. run' = Apply(r, a) /\ cmd' = Idle /\ Legal(r.state, a)
    BY <1>1 DEF Transits, Commits, CanApply
  <2>2. Shaped(r)
    BY <1>0, <1>1 DEF Fit, Shaped, Covered, Greens, Bounded
  <2>3. Fit(run') /\ Kept(run', r)
    BY <1>1, <2>1, <2>2, CloseFits, ApplyKept
  <2>4. run'.state = NextState(r.state, a)
    BY <1>1, <2>1, ApplyState
  <2>5. r.state \notin TerminalStates
    BY <2>1, <1>1 DEF Legal, ClosingActions, TerminalStates, Moves
  <2>6. run'.state \in {"ABORTED", "ORPHANED"}
    BY <2>4, <1>1 DEF NextState, ClosingActions
  <2>7. Somewhere'
    BY <1>0, <1>1, <2>3, RecordFacts DEF Somewhere, Kept
  <2> QED BY <1>1, <2>1, <2>3, <2>5, <2>6, <2>7, IdleWorks DEF RecordGoal, Kept
<1>2. ASSUME NEW force \in BOOLEAN, Abort(force)
      PROVE  Transits([run EXCEPT !.released = TRUE], "ABORT", Idle)
  BY <1>2 DEF Abort
<1>3. CASE \E force \in BOOLEAN : Abort(force)
  <2> DEFINE r == [run EXCEPT !.released = TRUE]
  <2>1. Transits(r, "ABORT", Idle)
    BY <1>2, <1>3
  <2>2. /\ r \in Run /\ r.state = run.state /\ r.stages = run.stages /\ r.evidence = run.evidence
        /\ r.candidates = run.candidates /\ r.coverage = run.coverage /\ r.head = run.head
        /\ r.sourceHead = run.sourceHead
    BY <1>0 DEF Run
  <2> HIDE DEF r
  <2> QED BY <1>1, <2>1, <2>2 DEF ClosingActions
<1>4. CASE Orphan
  <2>1. PICK b \in BOOLEAN :
          Transits([run EXCEPT !.orphaned = TRUE, !.released = b], "ORPHAN", Idle)
    BY <1>4 DEF Orphan
  <2> DEFINE r == [run EXCEPT !.orphaned = TRUE, !.released = b]
  <2>2. /\ r \in Run /\ r.state = run.state /\ r.stages = run.stages /\ r.evidence = run.evidence
        /\ r.candidates = run.candidates /\ r.coverage = run.coverage /\ r.head = run.head
        /\ r.sourceHead = run.sourceHead /\ r.orphaned
    BY <1>0 DEF Run
  <2>3. Transits(r, "ORPHAN", Idle)
    BY <2>1
  <2> HIDE DEF r
  <2> QED BY <1>1, <2>2, <2>3 DEF ClosingActions
<1> QED BY <1>3, <1>4

\* Every step of the publication keeps the records.
LEMMA PublishRecord ==
  ASSUME RecordInv, PublishStep
  PROVE  RecordGoal
BY GateRecord, PushRecord, RecordPushRecord, FinishRecord, CloseRecord DEF PublishStep

\* Whoever commits or resets, no branch is left without a commit.
LEMMA WorldRecord ==
  ASSUME RecordInv, World
  PROVE  RecordGoal
<1>0. /\ wt \in Commit /\ src \in Commit /\ wt # NoCommit /\ src # NoCommit
      /\ Fit(run) /\ run.head # NoCommit
  BY RecordFacts
<1>1. ASSUME NEW c \in Commit, NEW p \in Patch
      PROVE  Append(c, p) # NoCommit
  <2>1. Len(Append(c, p)) = Len(c) + 1 /\ Len(c) \in Nat /\ Len(<<>>) = 0
    BY AppendProperties, LenProperties, EmptySeq DEF Commit
  <2> QED BY <2>1 DEF NoCommit
<1>2. ASSUME NEW c \in Commit, Len(c) > 1
      PROVE  Front(c) # NoCommit
  <2>1. Len(c) \in Nat /\ Len(<<>>) = 0 /\ c \in Seq(Patch)
    BY LenProperties, EmptySeq DEF Commit
  <2>2. Front(c) = SubSeq(c, 1, Len(c) - 1)
    BY DEF Front
  <2>3. Len(Front(c)) = Len(c) - 1
    BY <1>2, <2>1, <2>2, SubSeqProperties
  <2> QED BY <1>2, <2>1, <2>3 DEF NoCommit
<1>3. ASSUME run' = run, cmd' = cmd, wt' # NoCommit, src' # NoCommit
      PROVE  RecordGoal
  BY <1>0, <1>3 DEF RecordInv, RecordGoal, Working, Somewhere
<1>4. ASSUME NEW p \in Patch, AgentCommits(p) \/ HumanCommits(p)
      PROVE  RecordGoal
  <2>1. wt' # NoCommit /\ src' # NoCommit
    BY <1>0, <1>1, <1>4 DEF AgentCommits, HumanCommits, SetWt, SetSrc
  <2> QED BY <1>3, <1>4, <2>1 DEF AgentCommits, HumanCommits, Outside
<1>5. CASE AgentResets \/ HumanResets
  <2>1. wt' # NoCommit /\ src' # NoCommit
    BY <1>0, <1>2, <1>5 DEF AgentResets, HumanResets, SetWt, SetSrc
  <2> QED BY <1>3, <1>5, <2>1 DEF AgentResets, HumanResets, Outside
<1>6. CASE ChangesCleanliness
  BY <1>0, <1>3, <1>6 DEF ChangesCleanliness
<1>7. CASE Dies
  BY <1>0, <1>7, IdleWorks DEF Dies, checkouts, RecordGoal, Somewhere
<1> QED BY <1>4, <1>5, <1>6, <1>7 DEF World

\* A run that was just created has a fit record.
LEMMA RecordInit == Init => RecordInv
<1> SUFFICES ASSUME Init PROVE RecordInv
  OBVIOUS
<1>1. /\ run = NewRun(src) /\ wt = src /\ cmd = Doing("start", NoCommit) /\ src # NoCommit
      /\ RunInv
  BY SetupAssumption, InitHolds DEF Init, NoCommit
<1>2. /\ run.state = "CREATED" /\ run.head = src /\ run.coverage = NoCommit
      /\ run.setup = "none" /\ run.pushed = NoCommit /\ run.released = FALSE
      /\ run.orphaned = FALSE
  BY <1>1 DEF NewRun
<1>3. /\ \A s \in Stages : run.stages[s] = NoRecord /\ run.evidence[s] = NoEvidence
                           /\ run.candidates[s] = NoEvidence
  BY <1>1 DEF NewRun
<1>4. /\ NoRecord.status = "pending" /\ NoRecord.fp = NoFp /\ NoRecord.attempts = 0
      /\ "review" \in Stages
  BY DEF NoRecord, Stages
<1>5. Shaped(run)
  BY <1>2, <1>3, <1>4, NothingHeld DEF Shaped, Covered, Greens, Bounded
<1>6. Fit(run)
  BY <1>2, <1>3, <1>4, <1>5 DEF Fit, Tries, Consistent, Uncovered
<1>7. Working
  BY <1>1, <1>2, StartRows DEF Working, Doing, Merging
<1> QED BY <1>1, <1>2, <1>6, <1>7 DEF RecordInv, Somewhere

\* Every step of the findings stages keeps the records.
LEMMA FindingRecord ==
  ASSUME RecordInv, FindingStep
  PROVE  RecordGoal
<1>1. CASE \/ ReviewContext \/ DocsContext \/ Deliver \/ ReopenReview
          \/ SkipDocs \/ ReopenAfterFix \/ Verify
          \/ StartReviewer \/ RecoverReviewer \/ ReviewerEnds \/ RejectOutput
  BY <1>1, ContextRecord, ReopenRecord, SkipRecord, ReviewerRecord
<1>2. ASSUME NEW batch \in Reported("review"), SubmitReview(batch) \/ SubmitOutput(batch)
      PROVE  RecordGoal
  BY <1>2, SubmitRecord
<1>3. ASSUME NEW batch \in Reported("docs"), SubmitDocs(batch)
      PROVE  RecordGoal
  BY <1>3, SubmitRecord
<1>4. ASSUME NEW i \in DOMAIN findings, \/ RespondClosed(i) \/ RespondFixedInPlace(i)
                                        \/ \E n \in DOMAIN wt : RespondFixedIsolated(i, n)
      PROVE  RecordGoal
  BY <1>4, RespondRecord
<1> QED BY <1>1, <1>2, <1>3, <1>4 DEF FindingStep

\* Every step keeps the records.
LEMMA RecordKept ==
  ASSUME RecordInv, [Next]_vars
  PROVE  RecordGoal
<1>2. CASE UNCHANGED vars
  BY <1>2 DEF vars, RecordInv, RecordGoal, Working, Somewhere
<1>3. CASE StartStep
  BY <1>3, CreateCheckoutRecord, SynchronizeRecord, SetupRecord DEF StartStep
<1>4. CASE Settle \/ StatusAdvance \/ RefuseStale
  BY <1>4, SettleRecord
<1>5. CASE FindingStep
  BY <1>5, FindingRecord
<1>6. CASE StageStep
  BY <1>6, StageRecordKept
<1>7. CASE MergeStep \/ PublishStep \/ World
  BY <1>7, MergeRecord, PublishRecord, WorldRecord
<1> QED BY <1>2, <1>3, <1>4, <1>5, <1>6, <1>7 DEF Next, Program

\* The invariant is inductive.
LEMMA RecordNext == RecordInv /\ [Next]_vars => RecordInv'
<1> SUFFICES ASSUME RecordInv, [Next]_vars PROVE RecordInv'
  OBVIOUS
<1>1. RunInv'
  BY NextKeeps DEF RecordInv
<1>2. RecordGoal
  BY RecordKept
<1> QED BY <1>1, <1>2 DEF RecordInv, RecordGoal

\* The invariant about the run record holds of every run.
THEOREM RecordInvariant == Spec => []RecordInv
BY RecordInit, RecordNext, PTL DEF Spec

\* No command of any run persists a record that the store's own rules refuse
\* (store.violations), whatever the branches, limits and interleavings.
THEOREM RecordIsConsistent == Spec => []RecordConsistent
<1>1. RecordInv => RecordConsistent
  BY DEF RecordInv, Fit, RecordConsistent
<1> QED BY <1>1, RecordInvariant, PTL

\* The coverage of a run is the review in force, with its fingerprint, after any
\* number of reopenings, imports, submissions and fixes.
THEOREM CoverageIsReviewed == Spec => []CoverageIsTheReview
<1>1. RecordInv => CoverageIsTheReview
  BY DEF RecordInv, Fit, Shaped, Covered, CoverageIsTheReview
<1> QED BY <1>1, RecordInvariant, PTL

\* No stage is tried more often than max_attempts, counting attempts whose
\* process died, for every limit.
THEOREM AttemptsAreBounded == Spec => []AttemptsBounded
<1>1. RecordInv => AttemptsBounded
  BY DEF RecordInv, Fit, Shaped, Bounded, AttemptsBounded
<1> QED BY <1>1, RecordInvariant, PTL

-----------------------------------------------------------------------------
(* What is published, and the findings that nothing may pass. *)

\* NothingBlocksPast of one state and one list of findings.
Unblocked(t, f) ==
  /\ t \in PastReview => Blocking(StageFindings(f, "review")) = {}
  /\ DocsEnabled /\ t \in PastDocs => Blocking(StageFindings(f, "docs")) = {}

\* The run validates, and goes on validating with its findings in order.
Validates == /\ run.state \in Validating
             /\ run'.state \notin Verified
             /\ Unblocked(run'.state, findings')

\* The moves that pass no findings stage.
Passing == {"SUBMIT_CLEAN", "RESOLVE_GREEN", "SKIP_DOCS", "MERGEBACK_OK", "GATE", "PUSH", "FINISH"}

\* A move that passes no stage leaves no finding behind.
LEMMA MoveUnblocked ==
  ASSUME NEW s, NEW a, Legal(s, a), a \notin Passing \cup ClosingActions, NEW f
  PROVE  /\ s \in Validating /\ NextState(s, a) \in Validating
         /\ Unblocked(s, f) => Unblocked(NextState(s, a), f)
<1>1. Row(s, a, NextState(s, a)) /\ NextState(s, a) \in States /\ s \in DOMAIN Moves
  BY LegalRow, LegalTarget
<1>2. s \in Validating /\ NextState(s, a) \in Validating
  <2>1. s \notin Verified /\ NextState(s, a) \notin Verified
    BY <1>1 DEF Row, Passing
  <2>2. s \in States /\ s \notin TerminalStates
    BY <1>1 DEF States, TerminalStates, Moves
  <2>3. NextState(s, a) \notin TerminalStates
    BY <1>1, <2>1 DEF Row, TerminalStates, Verified
  <2> QED BY <1>1, <2>1, <2>2, <2>3 DEF Validating
<1>3. NextState(s, a) \in PastReview => s \in PastReview
  BY <1>1 DEF Row, Passing
<1>4. NextState(s, a) \in PastDocs => s \in PastDocs
  BY <1>1 DEF Row, Passing
<1> QED BY <1>2, <1>3, <1>4 DEF Unblocked

\* The states before a review passed.
LEMMA NotPast ==
  /\ {"CREATED", "SYNC_RUNNING", "REVIEW_AWAITING_FINDINGS", "REVIEW_BLOCKED", "REVIEW_COMMAND_RED",
      "SETUP_FAILED", "ABORTED", "ORPHANED", "DONE"} \cap (PastReview \cup PastDocs) = {}
  /\ {"REVIEW_GREEN", "DOCS_AWAITING_FINDINGS", "DOCS_BLOCKED"} \subseteq PastReview \ PastDocs
  /\ PastDocs \subseteq PastReview
  /\ {"SYNC_RUNNING", "REVIEW_AWAITING_FINDINGS", "REVIEW_COMMAND_RED", "REVIEW_BLOCKED", "REVIEW_GREEN", "DOCS_BLOCKED",
      "DOCS_GREEN", "ABORTED"} \cap Verified = {}
BY DEF PastReview, PastDocs, DocsStates, Verified

\* A transaction that moves the record past no stage.
LEMMA TransitValidates ==
  ASSUME NothingBlocksPast, findings' = findings, NEW r, r \in Run, r.state = run.state,
         NEW a, a \notin Passing \cup ClosingActions, NEW next, Transits(r, a, next)
  PROVE  Validates
<1>1. /\ Legal(run.state, a) /\ run' = Apply(r, a) /\ Unblocked(run.state, findings)
  BY DEF Transits, CanApply, Commits, NothingBlocksPast, Unblocked
<1>2. run'.state = NextState(run.state, a)
  BY <1>1, ApplyState
<1>3. Unblocked(run'.state, findings) /\ run'.state \in Validating
  BY <1>1, <1>2, MoveUnblocked
<1> QED BY <1>1, <1>3, MoveUnblocked DEF Validates, Validating

\* A transaction that leaves the state of a validating run alone.
LEMMA StayValidates ==
  ASSUME NothingBlocksPast, findings' = findings, run.state \in Validating, run'.state = run.state
  PROVE  Validates
BY DEF Validates, NothingBlocksPast, Unblocked, Validating

\* A move of the record changes no result.
LEMMA ApplyFields ==
  ASSUME NEW r, r \in Run, NEW a
  PROVE  /\ Apply(r, a).state = NextState(r.state, a) /\ Apply(r, a).stages = r.stages
         /\ Apply(r, a).evidence = r.evidence /\ Apply(r, a).candidates = r.candidates
BY ApplyState

\* The import of a review, field by field.
LEMMA ImportReviewFields ==
  ASSUME NEW r, Sound(r), NEW f, NEW c \in Commit,
         r.state = "REVIEW_AWAITING_FINDINGS", Reusable(r, f, "review", c)
  PROVE  /\ ImportReview(r, f, c).state = "REVIEW_GREEN"
         /\ ImportReview(r, f, c).stages = Installed(r, f, "review", c).stages
         /\ ImportReview(r, f, c).evidence = Installed(r, f, "review", c).evidence
         /\ ImportReview(r, f, c).candidates = r.candidates
<1> DEFINE put == Installed(r, f, "review", c)
           q == [put EXCEPT !.coverage = c]
<1>1. Sound(put) /\ put.state = r.state /\ put.candidates = r.candidates
  BY InstalledSound, InstalledFields DEF Stages
<1>2. ImportReview(r, f, c) = Apply(q, "SUBMIT_CLEAN")
  BY DEF ImportReview, Import
<1> HIDE DEF put
<1>3. Sound(q) /\ q.state = put.state
  BY <1>1, CoverageSound
<1>4. q.stages = put.stages /\ q.evidence = put.evidence /\ q.candidates = put.candidates
  BY <1>1, CoverageFields
<1> HIDE DEF q
<1> QED BY <1>1, <1>2, <1>3, <1>4, ApplyFields, KnownMoves DEF Sound, put

\* The import of a docs result, field by field.
LEMMA ImportDocsFields ==
  ASSUME NEW r, Sound(r), NEW f, NEW c \in Commit, DocsReady(r, f, c), ~Uninstallable(r, f, c)
  PROVE  /\ ImportDocs(r, f, c).state = "DOCS_GREEN"
         /\ ImportDocs(r, f, c).stages = Installed(r, f, "docs", c).stages
         /\ ImportDocs(r, f, c).evidence = Installed(r, f, "docs", c).evidence
         /\ ImportDocs(r, f, c).candidates = r.candidates
<1> DEFINE put == Installed(r, f, "docs", c)
           opened == IF r.state = "REVIEW_GREEN" THEN Apply(put, "BEGIN_DOCS") ELSE put
<1>0. r.state \in {"REVIEW_GREEN", "DOCS_AWAITING_FINDINGS"}
  BY DEF DocsReady
<1>1. Sound(put) /\ put.state = r.state /\ put.candidates = r.candidates
  BY InstalledSound, InstalledFields DEF Stages
<1>2. CASE r.candidates["docs"].status = "skipped"
  <2>1. ImportDocs(r, f, c) = Apply(put, "SKIP_DOCS") /\ r.state = "REVIEW_GREEN"
    BY <1>0, <1>2 DEF ImportDocs, Import, Uninstallable
  <2> HIDE DEF put
  <2> QED BY <1>1, <2>1, ApplyFields, KnownMoves DEF Sound, put
<1>3. CASE r.candidates["docs"].status # "skipped"
  <2>1. ImportDocs(r, f, c) = Apply(opened, "SUBMIT_CLEAN")
    BY <1>3 DEF ImportDocs, Import
  <2> HIDE DEF put
  <2>2. /\ opened \in Run /\ opened.state = "DOCS_AWAITING_FINDINGS"
        /\ opened.stages = put.stages /\ opened.evidence = put.evidence
        /\ opened.candidates = put.candidates
    <3>1. CASE r.state = "REVIEW_GREEN"
      <4>1. Apply(put, "BEGIN_DOCS") \in Run
        BY <1>1, <3>1, KnownMoves, KnownStates, ApplyTyped DEF Sound
      <4> QED BY <1>1, <3>1, <4>1, ApplyFields, KnownMoves DEF Sound
    <3>2. CASE r.state # "REVIEW_GREEN"
      BY <1>0, <1>1, <3>2 DEF Sound
    <3> QED BY <3>1, <3>2
  <2> HIDE DEF opened
  <2> QED BY <1>1, <2>1, <2>2, ApplyFields, KnownMoves DEF put
<1> QED BY <1>2, <1>3

\* evidence.advance passes a stage only with a result whose findings are settled.
LEMMA AdvanceUnblocked ==
  ASSUME NEW r, Sound(r), r.state \in Validating, NEW f \in Seq(Finding), Unblocked(r.state, f),
         NEW c \in Commit
  PROVE  Advance(r, f, c).state \in Validating /\ Unblocked(Advance(r, f, c).state, f)
<1> DEFINE opened == IF InputsChanged(r, c) THEN ReopenChanged(r, f) ELSE r
           reviewed == ImportReview(opened, f, c)
           imported == ImportDocs(reviewed, f, c)
           Good(q) == q.state \in Validating /\ Unblocked(q.state, f)
<1>0. {"REVIEW_AWAITING_FINDINGS", "REVIEW_GREEN", "DOCS_GREEN"} \subseteq Validating
  BY FindingRows
<1>1. Sound(opened) /\ Good(opened)
  <2>1. CASE InputsChanged(r, c)
    <3>1. r.state \in GreenStates /\ Sound(ReopenChanged(r, f)) /\ opened = ReopenChanged(r, f)
      BY <2>1, ReopenChangedSound DEF InputsChanged
    <3>2. ReopenChanged(r, f).state = "REVIEW_AWAITING_FINDINGS"
      BY <3>1, ReopenChangedSound
    <3> QED BY <1>0, <3>1, <3>2, NotPast DEF Unblocked
  <2>2. CASE ~InputsChanged(r, c)
    BY <2>2
  <2> QED BY <2>1, <2>2
<1> HIDE DEF opened
<1>2. CASE LimitReached(opened)
  BY <1>1, <1>2 DEF Advance, opened
<1>3. CASE ~LimitReached(opened)
  <2>1. Sound(reviewed) /\ Good(reviewed)
    <3>1. Sound(reviewed)
      BY <1>1, <1>3, ImportReviewSound
    <3>2. CASE opened.state = "REVIEW_AWAITING_FINDINGS" /\ Reusable(opened, f, "review", c)
      <4>4. reviewed.state = "REVIEW_GREEN"
        BY <1>1, <3>2, ImportReviewFields
      <4>5. Blocking(StageFindings(f, "review")) = {}
        BY <3>2 DEF Reusable, Resolved, Blocking
      <4> QED BY <1>0, <3>1, <4>4, <4>5, NotPast DEF Unblocked
    <3>3. CASE ~(opened.state = "REVIEW_AWAITING_FINDINGS" /\ Reusable(opened, f, "review", c))
      BY <1>1, <3>1, <3>3 DEF ImportReview
    <3> QED BY <3>2, <3>3
  <2> HIDE DEF reviewed
  <2>2. CASE Uninstallable(reviewed, f, c)
    BY <1>3, <2>1, <2>2 DEF Advance, opened, reviewed
  <2>3. CASE ~Uninstallable(reviewed, f, c)
    <3>1. Sound(imported) /\ Good(imported)
      <4>1. Sound(imported)
        BY <2>1, <2>3, ImportDocsSound
      <4>2. CASE ~DocsReady(reviewed, f, c)
        BY <2>1, <4>1, <4>2 DEF ImportDocs
      <4>3. CASE DocsReady(reviewed, f, c)
        <5>1. Blocking(StageFindings(f, "docs")) = {} /\ reviewed.state \in PastReview
          BY <4>3, NotPast DEF DocsReady, Reusable, Resolved, Blocking
        <5>2. imported.state = "DOCS_GREEN"
          BY <2>1, <2>3, <4>3, ImportDocsFields
        <5> QED BY <1>0, <2>1, <4>1, <5>1, <5>2 DEF Unblocked
      <4> QED BY <4>2, <4>3
    <3> HIDE DEF imported
    <3>2. Archive(imported, f).state = imported.state
      BY <3>1, ArchiveFields
    <3>3. Advance(r, f, c) = Archive(imported, f)
      BY <1>3, <2>3 DEF Advance, opened, reviewed, imported
    <3> QED BY <3>1, <3>2, <3>3
  <2> QED BY <2>2, <2>3
<1> QED BY <1>2, <1>3

\* Every step that is not about a verified run leaves no finding behind.

\* start.
LEMMA StartValidates ==
  ASSUME RecordInv, NothingBlocksPast, StartStep
  PROVE  Validates
<1>0. /\ run \in Run /\ Sound(run) /\ Fit(run) /\ run.state \in Validating /\ findings' = findings
      /\ cmd.op = "start" => run.state = "CREATED"
      /\ cmd.op \in {"sync", "setup"} => run.state = "SYNC_RUNNING"
  BY RecordFacts DEF RecordInv, RunInv, StartState, Working, StartStep, CreateCheckout, Synchronize,
                     Setup, ExceptCheckouts, RecordOnly
<1>1. ASSUME run'.state \in {"SYNC_RUNNING", "ABORTED", "REVIEW_AWAITING_FINDINGS"}
      PROVE  Validates
  BY <1>0, <1>1, NotPast DEF Validates, Unblocked
<1>2. CASE CreateCheckout
  <2>0. run.state = "CREATED"
    BY <1>0, <1>2 DEF CreateCheckout
  <2>1. CASE run' = Apply(Apply(run, "CREATE_WORKTREE"), "BEGIN_SYNC")
    BY <1>0, <1>1, <2>0, <2>1, TwiceFits, StartRows, KnownMoves DEF Ordinary
  <2>2. ASSUME NEW b \in BOOLEAN, run' = [Apply(run, "ABORT") EXCEPT !.released = b]
        PROVE  Validates
    BY <1>0, <1>1, <2>2, AbortFits
  <2> QED BY <1>2, <2>1, <2>2 DEF CreateCheckout, Commits
<1>3. CASE Synchronize
  <2>0. run.state = "SYNC_RUNNING"
    BY <1>0, <1>3 DEF Synchronize
  <2>1. CASE Transits(run, "SYNC_FAILED", Idle)
    BY <1>0, <2>1, TransitValidates DEF Passing, ClosingActions
  <2>2. CASE run' = [Apply(run, "ABORT") EXCEPT !.released = TRUE]
    BY <1>0, <1>1, <2>2, AbortFits
  <2>3. CASE run' = [run EXCEPT !.head = Rebase(wt), !.sourceHead = IF InPlace THEN Rebase(wt) ELSE @,
                                !.changed = Changed(Tree(Rebase(wt)))]
    BY <1>0, <1>1, <2>0, <2>3 DEF Run
  <2> QED BY <1>3, <2>1, <2>2, <2>3 DEF Synchronize, Commits
<1>4. CASE Setup
  <2>0. run.state = "SYNC_RUNNING"
    BY <1>0, <1>4 DEF Setup
  <2> DEFINE assessed == Assessed(run, run.changed, <<>>)
  <2>3. /\ Sound(assessed) /\ assessed \in Run /\ Fit(assessed)
        /\ assessed.state = "SYNC_RUNNING"
    <3>1. run.changed \in SUBSET Patch /\ Sound(run) /\ Fit(run)
      BY <1>0, RecordFacts DEF Run
    <3> QED BY <2>0, <3>1, AssessedFits DEF Sound
  <2>1. CASE run' = Apply(Apply(assessed, "SYNC_PASSED"), "BEGIN_REVIEW")
    <3> HIDE DEF assessed
    <3> QED BY <1>1, <2>1, <2>3, TwiceFits, StartRows, KnownMoves DEF Ordinary
  <2>2. CASE Transits([assessed EXCEPT !.setup = "initial"], "SETUP_FAILED", Idle)
    <3> HIDE DEF assessed
    <3>1. /\ [assessed EXCEPT !.setup = "initial"] \in Run
          /\ [assessed EXCEPT !.setup = "initial"].state = run.state
      BY <2>0, <2>3 DEF Run
    <3> QED BY <1>0, <2>2, <3>1, TransitValidates DEF Passing, ClosingActions
  <2> QED BY <1>4, <2>1, <2>2 DEF Setup, Commits
<1> QED BY <1>2, <1>3, <1>4 DEF StartStep

\* evidence.advance, wherever it is called.
LEMMA AdvanceValidates ==
  ASSUME RecordInv, NothingBlocksPast, Settle \/ StatusAdvance \/ MergebackReopens
  PROVE  Validates
<1>0. /\ run.state \in Validating /\ findings' = findings /\ Unblocked(run.state, findings)
  <2>1. {"REVIEW_AWAITING_FINDINGS", "REVIEW_GREEN", "DOCS_AWAITING_FINDINGS", "DOCS_GREEN",
         "LINT_GREEN", "TEST_GREEN"} \subseteq Validating
    BY DEF Validating, States, Moves, Verified, TerminalStates
  <2> QED BY <2>1 DEF RecordInv, Working, Settle, StatusAdvance, MergebackReopens, RecordOnly,
                      NothingBlocksPast, Unblocked
<1>1. run' = Advance(run, findings, wt) \/ run' = run
  BY DEF Settle, StatusAdvance, MergebackReopens, Commits
<1>2. CASE run' = Advance(run, findings, wt)
  BY <1>0, <1>2, RecordFacts, AdvanceUnblocked DEF Validates, Validating
<1> QED BY <1>0, <1>1, <1>2, StayValidates

\* context, reopening, and the reviewer.
LEMMA ContextValidates ==
  ASSUME RecordInv, NothingBlocksPast,
         \/ ReviewContext \/ DocsContext \/ Deliver \/ ReopenReview \/ ReopenAfterFix
         \/ StartReviewer \/ RecoverReviewer \/ ReviewerEnds \/ RejectOutput
  PROVE  Validates
<1>0. /\ run \in Run /\ Sound(run) /\ Fit(run) /\ findings' = findings
  BY RecordFacts DEF ReviewContext, DocsContext, Deliver, ReopenReview, ReopenAfterFix, StartReviewer,
                     RecoverReviewer, ReviewerEnds, RejectOutput, ExceptSeen, RecordOnly
<1>1. run.state \in Validating
  BY FindingRows DEF ReviewContext, DocsContext, Deliver, ReopenReview, ReopenAfterFix, StartReviewer,
                     RecoverReviewer, ReviewerEnds, RejectOutput, RecordInv, Working, Validating,
                     States, Moves, Verified, TerminalStates
<1>2. CASE run'.state = run.state
  BY <1>0, <1>1, <1>2, StayValidates
<1>3. \A b \in BOOLEAN : Reviewed(b) \in Run /\ Reviewed(b).state = run.state
  BY <1>0, ReviewedSound DEF RecordInv, Sound, Reviewed, Run
<1>4. ASSUME NEW r \in {run, Reviewed(TRUE), Reviewed(FALSE)}, NEW next,
             NEW a \in {"BEGIN_DOCS", "RUN_REVIEW_COMMAND", "RETRY_REVIEW_COMMAND",
                        "REVIEW_COMMAND_FAILED", "REVIEW_COMMAND_PASSED"}, Transits(r, a, next)
      PROVE  Validates
  BY <1>0, <1>3, <1>4, TransitValidates DEF Passing, ClosingActions
<1>5. CASE CanApply(run, "INVALIDATE_REVIEW") /\ run' = Reopen(run)
  <2>1. Legal(run.state, "INVALIDATE_REVIEW")
    BY <1>5 DEF CanApply
  <2>2. run'.state = NextState(run.state, "INVALIDATE_REVIEW")
    BY <1>0, <1>1, <1>5, <2>1, ReopenFits DEF Validating, Verified
  <2>3. Unblocked(run'.state, findings) /\ run'.state \in Validating
    BY <2>1, <2>2, MoveUnblocked DEF Passing, ClosingActions, NothingBlocksPast, Unblocked
  <2> QED BY <1>0, <1>1, <2>3 DEF Validates, Validating
<1>6. CASE RejectOutput
  <2>1. run.state = "REVIEW_AWAITING_FINDINGS"
    BY <1>6 DEF RejectOutput, RecordInv, Working
  <2>2. CASE run' = [run EXCEPT !.stale = TRUE]
    BY <1>0, <1>2, <2>2 DEF Run
  <2>3. CASE run' = Apply(Apply(Reviewed(TRUE), "RUN_REVIEW_COMMAND"), "REVIEW_COMMAND_FAILED")
    <3> DEFINE q == Apply(Reviewed(TRUE), "RUN_REVIEW_COMMAND")
    <3> DEFINE p == Reviewed(TRUE)
    <3>1. q \in Run /\ q.state = "REVIEW_COMMAND_RUNNING"
      <4>0. p \in Run /\ p.state = "REVIEW_AWAITING_FINDINGS" /\ q = Apply(p, "RUN_REVIEW_COMMAND")
        BY <1>3, <2>1
      <4> HIDE DEF p, q
      <4>1. NextState("REVIEW_AWAITING_FINDINGS", "RUN_REVIEW_COMMAND") = "REVIEW_COMMAND_RUNNING"
            /\ "REVIEW_COMMAND_RUNNING" \in States
        BY DEF NextState, Moves, States
      <4>2. q.state = "REVIEW_COMMAND_RUNNING"
        BY <4>0, <4>1, ApplyFields
      <4>3. q \in Run
        BY <4>0, <4>1, ApplyTyped
      <4> QED BY <4>2, <4>3
    <3> HIDE DEF q
    <3>2. NextState("REVIEW_COMMAND_RUNNING", "REVIEW_COMMAND_FAILED") = "REVIEW_COMMAND_RED"
      BY DEF NextState, Moves
    <3>3. run'.state = "REVIEW_COMMAND_RED"
      BY <2>3, <3>1, <3>2, ApplyState DEF q
    <3> QED BY <1>0, <1>1, <3>3, NotPast DEF Validates, Unblocked
  <2> QED BY <1>6, <2>2, <2>3 DEF RejectOutput, Commits
<1>7. CASE Deliver
  BY <1>0, <1>2, <1>7 DEF Deliver, Commits, Run
<1> QED BY <1>2, <1>4, <1>5, <1>6, <1>7 DEF ReviewContext, DocsContext, ReopenReview, ReopenAfterFix,
           StartReviewer, RecoverReviewer, ReviewerEnds, Commits

\* verify closes a stage when none of its findings blocks, and a disabled docs
\* stage is passed without findings.
LEMMA VerifyValidates ==
  ASSUME RecordInv, NothingBlocksPast, Verify \/ SkipDocs \/ SkipTest
  PROVE  Validates
<1>0. /\ run \in Run /\ findings' = findings /\ Unblocked(run.state, findings)
  BY RecordFacts DEF Verify, SkipDocs, SkipTest, RecordOnly, NothingBlocksPast, Unblocked
<1>1. run.state \in Validating
  BY FindingRows DEF Verify, SkipDocs, SkipTest, RecordInv, Working
<1>2. CASE run' = run
  BY <1>0, <1>1, <1>2, StayValidates
<1>3. CASE /\ Verify /\ run.state \in {"REVIEW_BLOCKED", "DOCS_BLOCKED"}
           /\ Transits(run, "RESOLVE_GREEN", Doing("resolved", NoCommit))
  <2>1. run'.state = NextState(run.state, "RESOLVE_GREEN")
        /\ Blocking(StageFindings(findings, FindingStage(run.state))) = {}
    BY <1>0, <1>3, ApplyState DEF Transits, Commits, Verify, Active
  <2>2. CASE run.state = "REVIEW_BLOCKED"
    <3>1. run'.state = "REVIEW_GREEN" /\ FindingStage(run.state) = "review"
      BY <2>1, <2>2 DEF NextState, Moves, FindingStage, DocsStates
    <3> QED BY <1>0, <1>1, <2>1, <3>1, NotPast DEF Validates, Unblocked
  <2>3. CASE run.state = "DOCS_BLOCKED"
    <3>1. run'.state = "DOCS_GREEN" /\ FindingStage(run.state) = "docs"
      BY <2>1, <2>3 DEF NextState, Moves, FindingStage, DocsStates
    <3> QED BY <1>0, <1>1, <2>1, <2>3, <3>1, NotPast DEF Validates, Unblocked
  <2> QED BY <1>3, <2>2, <2>3
<1>4. CASE SkipDocs
  <2> DEFINE q == Put(run, "docs", [NoRecord EXCEPT !.status = "skipped", !.head = wt, !.fp = FpOf(wt)])
  <2>1. CASE ~DocsEnabled /\ run.state = "REVIEW_GREEN" /\ run' = Apply(q, "SKIP_DOCS")
    <3>1. q \in Run /\ q.state = run.state
      BY SkippedFits DEF Sound
    <3> HIDE DEF q
    <3>2. run'.state = "DOCS_GREEN"
      BY <2>1, <3>1, ApplyState, KnownMoves
    <3> QED BY <1>0, <1>1, <2>1, <3>2, NotPast DEF Validates, Unblocked
  <2> QED BY <1>2, <1>4, <2>1 DEF SkipDocs, Transits, Commits
<1>5. CASE SkipTest
  <2> DEFINE q == Put(run, "test", [NoRecord EXCEPT !.status = "skipped", !.head = wt, !.fp = FpOf(wt)])
  <2>1. CASE Transits(q, "SKIP_TEST", Doing("advance", NoCommit))
    <3>1. q \in Run /\ q.state = run.state
      BY SkippedFits DEF Sound
    <3> HIDE DEF q
    <3> QED BY <1>0, <2>1, <3>1, TransitValidates DEF Passing, ClosingActions
  <2> QED BY <1>2, <1>5, <2>1 DEF SkipTest, Commits
<1> QED BY <1>2, <1>3, <1>4, <1>5 DEF Verify, Commits

\* A move of the record that passes no stage, whatever else it changes.
LEMMA ForwardValidates ==
  ASSUME NothingBlocksPast, findings' = findings, NEW a, a \notin Passing \cup ClosingActions,
         Forward(a)
  PROVE  Validates
<1>1. Unblocked(run.state, findings)
  BY DEF NothingBlocksPast, Unblocked
<1>2. Unblocked(run'.state, findings) /\ run'.state \in Validating
  BY <1>1, MoveUnblocked DEF Forward
<1> QED BY <1>2, MoveUnblocked DEF Validates, Validating, Forward

\* A batch of one stage adds no finding to another.
LEMMA OtherStage ==
  ASSUME NEW f \in Seq(Finding), NEW stage \in {"review", "docs"}, NEW batch \in Reported(stage),
         NEW s, s # stage
  PROVE  StageFindings(f \o batch, s) = StageFindings(f, s)
<1> DEFINE all == f \o batch
<1>1. batch \in Seq(Finding) /\ \A i \in 1 .. Len(batch) : batch[i].stage = stage
  <2>1. CASE batch = <<>>
    BY <2>1, ReportedTyped, EmptySeq
  <2>2. ASSUME NEW k \in Kinds,
               batch = <<[stage |-> stage, kind |-> k[1], risk |-> k[2], status |-> "open",
                           fix |-> NoCommit]>>
        PROVE  batch \in Seq(Finding) /\ \A i \in 1 .. Len(batch) : batch[i].stage = stage
    <3>1. Len(batch) = 1 /\ batch[1].stage = stage
      BY <2>2
    <3>2. batch \in Seq(Finding)
      BY ReportedTyped
    <3> QED BY <3>1, <3>2
  <2> QED BY <2>1, <2>2 DEF Reported
<1>2. /\ all \in Seq(Finding) /\ Len(all) = Len(f) + Len(batch)
      /\ \A i \in 1 .. Len(f) + Len(batch) :
           all[i] = IF i <= Len(f) THEN f[i] ELSE batch[i - Len(f)]
      /\ Len(f) \in Nat /\ Len(batch) \in Nat
  BY <1>1, ConcatProperties, LenProperties
<1>3. DOMAIN all = 1 .. Len(f) + Len(batch) /\ DOMAIN f = 1 .. Len(f)
  BY <1>2, LenProperties
<1> HIDE DEF all
<1>4. ASSUME NEW i \in DOMAIN all, all[i].stage = s
      PROVE  i \in DOMAIN f /\ all[i] = f[i]
  <2>1. CASE i <= Len(f)
    BY <1>2, <1>3, <2>1
  <2>2. CASE ~(i <= Len(f))
    <3>1. i - Len(f) \in 1 .. Len(batch) /\ all[i] = batch[i - Len(f)]
      BY <1>2, <1>3, <2>2
    <3> QED BY <1>1, <1>4, <3>1
  <2> QED BY <2>1, <2>2
<1>5. ASSUME NEW i \in DOMAIN f
      PROVE  i \in DOMAIN all /\ all[i] = f[i]
  BY <1>2, <1>3
<1>6. {j \in DOMAIN all : all[j].stage = s} = {j \in DOMAIN f : f[j].stage = s}
  BY <1>4, <1>5
<1> QED BY <1>5, <1>6 DEF StageFindings, all

\* An answer opens no finding.
LEMMA AnswerShrinks ==
  ASSUME NEW f \in Seq(Finding), NEW i, NEW answer, answer.status # "open", NEW s
  PROVE  Blocking(StageFindings([f EXCEPT ![i] = answer], s)) \subseteq Blocking(StageFindings(f, s))
<1> DEFINE g == [f EXCEPT ![i] = answer]
<1>1. DOMAIN g = DOMAIN f /\ \A j \in DOMAIN f : g[j] = IF j = i THEN answer ELSE f[j]
  OBVIOUS
<1> HIDE DEF g
<1>2. SUFFICES ASSUME NEW x \in Blocking(StageFindings(g, s))
               PROVE  x \in Blocking(StageFindings(f, s))
  BY DEF g
<1>3. PICK j \in DOMAIN g : g[j].stage = s /\ x = <<j, g[j]>>
  BY DEF Blocking, StageFindings
<1>4. x[2] = g[j] /\ g[j].status = "open"
  BY <1>3 DEF Blocking
<1>5. j # i /\ g[j] = f[j] /\ j \in DOMAIN f
  BY <1>1, <1>3, <1>4
<1> QED BY <1>3, <1>5 DEF Blocking, StageFindings

\* submit-findings: the stage is green only when none of its findings blocks.
LEMMA AcceptValidates ==
  ASSUME RecordInv, NothingBlocksPast, NEW stage \in {"review", "docs"},
         NEW batch \in Reported(stage),
         stage = "review" => run.state = "REVIEW_AWAITING_FINDINGS",
         stage = "docs" => run.state = "DOCS_AWAITING_FINDINGS",
         Accept(stage, batch)
  PROVE  Validates /\ run'.state \in Validating
<1> DEFINE all == findings \o batch
           own == StageFindings(all, stage)
           stored == Submitted(stage, all)
           outcome == IF Blocking(own) = {} THEN "SUBMIT_CLEAN" ELSE "SUBMIT_BLOCKING"
           next == IF Resolved(own) THEN Doing("submitted", NoCommit) ELSE Idle
<1>0. /\ Sound(run) /\ run \in Run /\ findings \in Seq(Finding) /\ stage \in Stages
      /\ run.state \in Validating /\ wt \in Commit /\ run.coverage \in Commit
      /\ Unblocked(run.state, findings)
  BY RecordFacts, FindingRows DEF Stages, NothingBlocksPast, Unblocked, Run
<1>1. CommitsBoth(Apply(stored, outcome), all, next)
  BY DEF Accept, Submitted, SubmittedStage
<1>2. stored \in Run /\ stored.state = run.state
  <2> HIDE DEF all
  <2> QED BY SubmittedFields DEF Sound
<1> HIDE DEF stored
<1>3. \A s \in {"review", "docs"} \ {stage} : StageFindings(all, s) = StageFindings(findings, s)
  BY <1>0, OtherStage
<1>4. CASE Commits(run, Idle)
  <2>1. Unblocked(run.state, all)
    BY <1>0, <1>3, NotPast DEF Unblocked
  <2> QED BY <1>0, <1>1, <1>4, <2>1 DEF Validates, Validating, Commits, CommitsBoth
<1>5. CASE Commits(Apply(stored, outcome), next)
  <2>1. run'.state = NextState(run.state, outcome)
    BY <1>2, <1>5, ApplyState DEF Commits
  <2>2. findings' = all
    BY <1>1 DEF CommitsBoth
  <2>3. CASE Blocking(own) = {} /\ stage = "review"
    <3>1. run'.state = "REVIEW_GREEN"
      BY <2>1, <2>3, KnownMoves
    <3> QED BY <1>0, <2>2, <2>3, <3>1, NotPast, FindingRows DEF Validates, Unblocked
  <2>4. CASE Blocking(own) = {} /\ stage = "docs"
    <3>1. run'.state = "DOCS_GREEN"
      BY <2>1, <2>4, KnownMoves
    <3>2. Blocking(StageFindings(all, "review")) = {}
      BY <1>0, <1>3, <2>4, NotPast DEF Unblocked
    <3> QED BY <1>0, <2>2, <2>4, <3>1, <3>2, NotPast, FindingRows DEF Validates, Unblocked
  <2>5. CASE Blocking(own) # {} /\ stage = "review"
    <3>1. run'.state = "REVIEW_BLOCKED"
      BY <2>1, <2>5 DEF NextState, Moves
    <3> QED BY <1>0, <2>2, <3>1, NotPast, FindingRows DEF Validates, Unblocked
  <2>6. CASE Blocking(own) # {} /\ stage = "docs"
    <3>1. run'.state = "DOCS_BLOCKED"
      BY <2>1, <2>6 DEF NextState, Moves
    <3>2. Blocking(StageFindings(all, "review")) = {}
      BY <1>0, <1>3, <2>6, NotPast DEF Unblocked
    <3> QED BY <1>0, <2>2, <3>1, <3>2, NotPast, FindingRows DEF Validates, Unblocked
  <2> QED BY <2>3, <2>4, <2>5, <2>6
<1> QED BY <1>1, <1>4, <1>5 DEF CommitsBoth

\* submit-findings, by the agent or by the configured reviewer.
LEMMA SubmitValidates ==
  ASSUME RecordInv, NothingBlocksPast,
         \/ \E batch \in Reported("review") : SubmitReview(batch) \/ SubmitOutput(batch)
         \/ \E batch \in Reported("docs") : SubmitDocs(batch)
  PROVE  Validates /\ run'.state \in Validating
<1>1. cmd.op = "submit" => run.state = "REVIEW_AWAITING_FINDINGS"
  BY DEF RecordInv, Working
<1> QED BY <1>1, AcceptValidates DEF SubmitReview, SubmitOutput, SubmitDocs

\* respond once its guards hold.
LEMMA AnswerValidates ==
  ASSUME RecordInv, NothingBlocksPast, NEW i, Answerable(i), NEW answer, answer.status # "open",
         NEW r, Sound(r), r.state = run.state, Answer(i, answer, r)
  PROVE  Validates
<1> DEFINE f == [findings EXCEPT ![i] = answer]
           q == Assessed(r, Changed(Tree(wt)), f)
<1>0. /\ findings \in Seq(Finding) /\ run.state \in Validating /\ Unblocked(run.state, findings)
      /\ run \in Run /\ q \in Run /\ q.state = run.state
  <2>1. q \in Run /\ q.state = r.state
    BY RecordFacts, ChangedTyped, AssessedSound DEF Sound
  <2> HIDE DEF q
  <2> QED BY <2>1, RecordFacts, FindingRows DEF Answerable, NothingBlocksPast, Unblocked
<1>1. findings' = f /\ (run' = run \/ run' = Apply(q, "RESPOND")) /\ Legal(run.state, "RESPOND")
  BY DEF Answer, CommitsBoth, Commits, CanApply
<1>2. NextState(run.state, "RESPOND") = run.state
  BY <1>1, LegalRow DEF Row, ClosingActions
<1> HIDE DEF q
<1>3. run'.state = run.state
  BY <1>0, <1>1, <1>2, ApplyState
<1>4. \A s : Blocking(StageFindings(f, s)) \subseteq Blocking(StageFindings(findings, s))
  BY <1>0, AnswerShrinks
<1>5. Unblocked(run.state, f)
  <2> HIDE DEF f
  <2> QED BY <1>0, <1>4 DEF Unblocked
<1> QED BY <1>0, <1>1, <1>3, <1>5 DEF Validates, Validating

\* respond: a dismissal, a fix in isolation, a fix in place.
LEMMA RespondValidates ==
  ASSUME RecordInv, NothingBlocksPast, NEW i \in DOMAIN findings,
         \/ RespondClosed(i) \/ RespondFixedInPlace(i)
         \/ \E n \in DOMAIN wt : RespondFixedIsolated(i, n)
  PROVE  Validates
<1>0. /\ Sound(run) /\ wt \in Commit /\ run.head \in Commit
      /\ run.fixes \subseteq Commit \ {NoCommit} /\ IsFiniteSet(run.fixes)
      /\ DOMAIN wt = 1 .. Len(wt)
      /\ findings[i] \in Finding
  BY RecordFacts, LenProperties DEF Sound, Run, Commit
<1>1. /\ [findings[i] EXCEPT !.status = "closed"].status # "open"
      /\ \A c : [findings[i] EXCEPT !.status = "fixed", !.fix = c].status # "open"
  BY <1>0 DEF Finding
<1>2. CASE RespondClosed(i)
  BY <1>0, <1>1, <1>2, AnswerValidates DEF RespondClosed
<1>3. CASE RespondFixedInPlace(i)
  <2> DEFINE fixes == run.fixes \cup CommitsBetween(run.head, wt)
             r == [run EXCEPT !.fixes = fixes, !.head = wt, !.sourceHead = wt]
  <2>1. fixes \subseteq Commit \ {NoCommit} /\ IsFiniteSet(fixes)
    <3>1. /\ CommitsBetween(run.head, wt) \subseteq Commit \ {NoCommit}
          /\ IsFiniteSet(CommitsBetween(run.head, wt))
      BY <1>0, CommitsBetweenTyped
    <3> QED BY <1>0, <3>1, FS_Union
  <2>2. Answerable(i) /\ Answer(i, [findings[i] EXCEPT !.status = "fixed", !.fix = wt], r)
    BY <1>3 DEF RespondFixedInPlace
  <2> HIDE DEF fixes
  <2>3. Sound(r) /\ r.state = run.state
    BY <1>0, <2>1 DEF Sound, Run
  <2> HIDE DEF r
  <2> QED BY <1>1, <2>2, <2>3, AnswerValidates
<1>4. ASSUME NEW n \in DOMAIN wt, RespondFixedIsolated(i, n)
      PROVE  Validates
  <2> DEFINE c == SubSeq(wt, 1, n)
             fixes == run.fixes \cup {c}
             r == [run EXCEPT !.fixes = fixes]
  <2>1. fixes \subseteq Commit \ {NoCommit} /\ IsFiniteSet(fixes)
    <3>1. c \in Commit \ {NoCommit} /\ IsFiniteSet({c})
      BY <1>0, PrefixTyped, FS_Singleton
    <3> QED BY <1>0, <3>1, FS_Union
  <2>2. Answerable(i) /\ Answer(i, [findings[i] EXCEPT !.status = "fixed", !.fix = c], r)
    BY <1>4 DEF RespondFixedIsolated
  <2> HIDE DEF fixes
  <2>3. Sound(r) /\ r.state = run.state
    BY <1>0, <2>1 DEF Sound, Run
  <2> HIDE DEF r, c
  <2> QED BY <1>1, <2>2, <2>3, AnswerValidates
<1> QED BY <1>2, <1>3, <1>4

\* The shell stages pass no findings stage.
LEMMA ShellValidates ==
  ASSUME RecordInv, NothingBlocksPast, NEW s \in ShellStages,
         \/ RecoverStage(s) \/ RepairRestart(s) \/ BeginStage(s) \/ BaselineFails(s)
         \/ \E passed \in BOOLEAN : EndStage(s, passed)
  PROVE  Validates
<1>1. \A x \in {"restart", "retry", "begin", "passed", "failed"} :
        StageTable[s][x] \notin Passing \cup ClosingActions
  BY DEF StageTable, ShellStages, Passing, ClosingActions
<1>2. findings' = findings
  BY DEF RecoverStage, RepairRestart, BeginStage, BaselineFails, EndStage, RecordOnly, ExceptRan
<1>3. PICK a \in {StageTable[s].restart, StageTable[s].retry, StageTable[s].begin,
                  StageTable[s].passed, StageTable[s].failed} : Forward(a)
  BY RecoverRecord, RepairRecord, BeginStageRecord, BaselineRecord, EndStageRecord
<1> QED BY <1>1, <1>2, <1>3, ForwardValidates

\* mergeback up to its last transaction passes no findings stage.
LEMMA MergeValidates ==
  ASSUME RecordInv, NothingBlocksPast,
         \/ BeginMergeback \/ RetryMergeback \/ ResumeMergeback
         \/ SyncSource \/ PickFixes \/ Attest \/ ResetCheckout \/ RecordReset
  PROVE  Validates
<1>0. /\ run \in Run /\ Sound(run) /\ Fit(run) /\ findings \in Seq(Finding)
      /\ findings' = findings
  BY RecordFacts DEF BeginMergeback, RetryMergeback, ResumeMergeback, SyncSource, PickFixes, Attest,
                     ResetCheckout, RecordReset, RecordOnly, ExceptCheckouts
<1>1. run.state \in Validating
  <2>1. {"TEST_GREEN", "MERGEBACK_CONFLICT", "MERGEBACK_PENDING"} \subseteq Validating
    BY DEF Validating, States, Moves, Verified, TerminalStates
  <2> QED BY <2>1 DEF BeginMergeback, RetryMergeback, ResumeMergeback, SyncSource, PickFixes, Attest,
                      ResetCheckout, RecordReset, RecordInv, Working
<1>2. CASE run'.state = run.state
  BY <1>0, <1>1, <1>2, StayValidates
<1>3. ASSUME NEW retrying \in BOOLEAN, NEW a \in {"BEGIN_MERGEBACK", "MERGEBACK_RETRY"},
             Transits(Attempted(retrying), a, Doing("merge", NoCommit))
      PROVE  Validates
  <2>1. Attempted(retrying) \in Run /\ Attempted(retrying).state = run.state
    BY AttemptedFits DEF Sound
  <2> HIDE DEF Attempted
  <2> QED BY <1>0, <1>3, <2>1, TransitValidates DEF Passing, ClosingActions
<1>4. CASE BeginMergeback \/ RetryMergeback
  BY <1>3, <1>4 DEF BeginMergeback, RetryMergeback
<1>5. CASE ResumeMergeback
  <2>1. Archive(run, findings).state = run.state
    BY <1>0, ArchiveFields
  <2> QED BY <1>0, <1>2, <1>5, <2>1, StaleFits DEF ResumeMergeback, Commits, Run
<1>6. CASE MergeConflicts
  BY <1>0, <1>6, TransitValidates DEF MergeConflicts, Passing, ClosingActions
<1>7. CASE SyncSource \/ PickFixes \/ Attest \/ ResetCheckout
  BY <1>2, <1>6, <1>7 DEF SyncSource, PickFixes, Attest, ResetCheckout, Commits
<1>8. CASE RecordReset
  BY <1>0, <1>8, RecordResetRecord, ForwardValidates DEF Passing, ClosingActions
<1> QED BY <1>4, <1>5, <1>7, <1>8

-----------------------------------------------------------------------------
(* The note and the publication. *)

\* The note that a mergeback has written and not yet recorded is its own.
Noted == cmd.op = "noted" => note.sha = cmd.at

\* The inductive invariant about what is attested and published.
PublishInv == /\ RecordInv /\ NothingBlocksPast
              /\ VerifiedIsAttested /\ PublishedStands /\ Noted /\ AttestedIsResolved

\* What one step has to keep besides RecordInv.
PublishGoal == (NothingBlocksPast /\ VerifiedIsAttested /\ PublishedStands /\ Noted
                /\ AttestedIsResolved)'

\* Neither note changes, and no mergeback is about to be recorded that was not before.
Quiet == note' = note /\ remote' = remote /\ (cmd'.op = "noted" => cmd' = cmd)

\* The command in flight after one transaction.
LEMMA NextCommand ==
  /\ \A r, next : Commits(r, next) => cmd' = next
  /\ \A r, a, next : Transits(r, a, next) => cmd' = next
  /\ \A r, f, next : CommitsBoth(r, f, next) => cmd' \in {next, Idle}
  /\ Idle.op # "noted" /\ \A op, c : Doing(op, c).op = op
BY DEF Commits, Transits, CommitsBoth, Idle, Doing

\* start and evidence.advance write no note.
LEMMA StartIsQuiet ==
  ASSUME StartStep \/ Settle \/ StatusAdvance \/ RefuseStale \/ MergebackReopens
  PROVE  Quiet
<1>1. note' = note /\ remote' = remote
  BY DEF StartStep, CreateCheckout, Synchronize, Setup, Settle, StatusAdvance, RefuseStale,
         MergebackReopens, RecordOnly, Still, ExceptCheckouts
<1>2. CASE StartStep
  <2>1. PICK op \in {"sync", "setup", "settle", "idle"} : cmd' = Doing(op, NoCommit) \/ cmd' = Idle
    BY <1>2, NextCommand DEF StartStep, CreateCheckout, Synchronize, Setup
  <2> QED BY <1>1, <2>1, NextCommand DEF Quiet
<1>3. CASE Settle \/ StatusAdvance \/ RefuseStale \/ MergebackReopens
  <2>1. cmd' = Idle
    BY <1>3, NextCommand DEF Settle, StatusAdvance, RefuseStale, MergebackReopens
  <2> QED BY <1>1, <2>1, NextCommand DEF Quiet
<1> QED BY <1>2, <1>3

\* The findings stages write no note.
LEMMA FindingIsQuiet ==
  ASSUME FindingStep
  PROVE  Quiet
<1>1. CASE \/ ReviewContext \/ DocsContext \/ Deliver \/ ReopenReview
          \/ SkipDocs \/ ReopenAfterFix \/ Verify
          \/ StartReviewer \/ RecoverReviewer \/ ReviewerEnds \/ RejectOutput
  <2>1. note' = note /\ remote' = remote
    BY <1>1 DEF ReviewContext, DocsContext, Deliver, ReopenReview, SkipDocs, ReopenAfterFix, Verify,
                StartReviewer, RecoverReviewer, ReviewerEnds, RejectOutput, RecordOnly, ExceptSeen,
                Still
  <2>2. \/ cmd' = Idle
        \/ \E op \in {"deliver", "settle", "resolved", "reviewer", "submit"} : \E c : cmd' = Doing(op, c)
    BY <1>1, NextCommand
       DEF ReviewContext, DocsContext, Deliver, ReopenReview, SkipDocs, ReopenAfterFix, Verify,
           StartReviewer, RecoverReviewer, ReviewerEnds, RejectOutput
  <2> QED BY <2>1, <2>2, NextCommand DEF Quiet
<1>2. ASSUME NEW stage, NEW batch, Accept(stage, batch)
      PROVE  Quiet
  <2>1. note' = note /\ remote' = remote /\ (cmd' = Idle \/ cmd' = Doing("submitted", NoCommit))
    BY <1>2, NextCommand DEF Accept, Still
  <2> QED BY <2>1, NextCommand DEF Quiet
<1>3. ASSUME NEW i, NEW answer, NEW r, Answer(i, answer, r)
      PROVE  Quiet
  <2>1. /\ note' = note /\ remote' = remote
        /\ cmd' = Idle \/ cmd' = Doing("reopen", NoCommit) \/ cmd' = Doing("resolved", NoCommit)
    BY <1>3, NextCommand DEF Answer, Still
  <2> QED BY <2>1, NextCommand DEF Quiet
<1>4. ASSUME NEW stage \in {"review", "docs"}, NEW batch \in Reported(stage),
             SubmitReview(batch) \/ SubmitOutput(batch) \/ SubmitDocs(batch)
      PROVE  Quiet
  BY <1>2, <1>4 DEF SubmitReview, SubmitOutput, SubmitDocs
<1>5. ASSUME NEW i \in DOMAIN findings, \/ RespondClosed(i) \/ RespondFixedInPlace(i)
                                        \/ \E n \in DOMAIN wt : RespondFixedIsolated(i, n)
      PROVE  Quiet
  BY <1>3, <1>5 DEF RespondClosed, RespondFixedInPlace, RespondFixedIsolated
<1> QED BY <1>1, <1>4, <1>5 DEF FindingStep

\* The shell stages write no note.
LEMMA StageIsQuiet ==
  ASSUME StageStep
  PROVE  Quiet
<1>1. CASE SkipTest
  BY <1>1, NextCommand DEF SkipTest, RecordOnly, Still, Quiet
<1>2. ASSUME NEW s \in ShellStages,
             \/ RecoverStage(s) \/ RepairRestart(s) \/ BeginStage(s) \/ BaselineFails(s)
             \/ \E passed \in BOOLEAN : EndStage(s, passed)
      PROVE  Quiet
  <2>1. note' = note /\ remote' = remote
    BY <1>2 DEF RecoverStage, RepairRestart, BeginStage, BaselineFails, EndStage, RecordOnly,
                ExceptRan, Still
  <2>2. \/ cmd' = Idle
        \/ \E op \in ShellStages \cup {"skip_test", "advance"} : \E c : cmd' = Doing(op, c)
    BY <1>2, NextCommand DEF RecoverStage, RepairRestart, BeginStage, BaselineFails, EndStage
  <2> QED BY <2>1, <2>2, NextCommand DEF Quiet, ShellStages
<1> QED BY <1>1, <1>2 DEF StageStep

\* Of mergeback only the attestation writes the note, and only its command records it.
LEMMA MergeIsQuiet ==
  ASSUME \/ BeginMergeback \/ RetryMergeback \/ ResumeMergeback
         \/ SyncSource \/ PickFixes \/ ResetCheckout \/ RecordReset
  PROVE  Quiet
<1>1. note' = note /\ remote' = remote
  BY DEF BeginMergeback, RetryMergeback, ResumeMergeback, SyncSource, PickFixes, ResetCheckout,
         RecordReset, RecordOnly, Still, ExceptCheckouts
<1>2. \A c : \E op \in {"attest", "reset"} : Compared(c) = Doing(op, c)
  BY DEF Compared
<1>3. CASE BeginMergeback \/ RetryMergeback \/ ResumeMergeback \/ RecordReset \/ ResetCheckout
  <2>1. \/ cmd' = Idle
        \/ \E op \in {"merge", "attest", "resetting"} : \E c : cmd' = Doing(op, c)
    BY <1>3, NextCommand DEF BeginMergeback, RetryMergeback, ResumeMergeback, ResetCheckout,
                             RecordReset
  <2> QED BY <1>1, <2>1, NextCommand DEF Quiet
<1>4. CASE SyncSource
  <2>1. cmd' \in {Idle, Doing("attest", src), Doing("pick", NoCommit)}
    BY <1>4, NextCommand DEF SyncSource, MergeConflicts
  <2> QED BY <1>1, <2>1, NextCommand DEF Quiet
<1>5. CASE PickFixes
  <2>1. cmd' = Idle \/ \E c : cmd' = Compared(c)
    BY <1>5, NextCommand DEF PickFixes, MergeConflicts
  <2> QED BY <1>1, <1>2, <2>1, NextCommand DEF Quiet
<1> QED BY <1>3, <1>4, <1>5

\* While a run validates, nothing is published and no attestation is relied upon.
LEMMA ValidatingKeeps ==
  ASSUME PublishInv, Validates, Quiet
  PROVE  PublishGoal
<1>1. remote.sha = NoCommit
  BY DEF PublishInv, PublishedStands, Validates, Validating, Verified
<1> QED BY <1>1 DEF PublishInv, PublishGoal, NothingBlocksPast, VerifiedIsAttested, PublishedStands,
                    Noted, AttestedIsResolved, Validates, Unblocked, Verified, Quiet

\* A step that leaves the record's state and heads alone.
LEMMA StayKeeps ==
  ASSUME PublishInv, Quiet, findings' = findings, run'.state = run.state, run'.head = run.head,
         run'.sourceHead = run.sourceHead
  PROVE  PublishGoal
BY DEF PublishInv, PublishGoal, NothingBlocksPast, VerifiedIsAttested, PublishedStands, Noted,
       AttestedIsResolved, Quiet

\* attestation.build: every piece of evidence it gathers is settled.
LEMMA AttestKeeps ==
  ASSUME PublishInv, Attest
  PROVE  PublishGoal
<1>0. /\ run' = run /\ findings' = findings /\ remote' = remote
      /\ run.state = "MERGEBACK_PENDING"
  BY DEF Attest, Commits, PublishInv, RecordInv, Working, Merging
<1>1. remote.sha = NoCommit
  BY <1>0 DEF PublishInv, PublishedStands, TerminalStates
<1>2. CASE ~Attestable(run, findings, cmd.at)
  <2>1. Quiet
    BY <1>0, <1>2, NextCommand DEF Attest, Quiet
  <2> QED BY <1>0, <2>1, StayKeeps
<1>3. CASE Attestable(run, findings, cmd.at)
  <2>1. /\ note'.sha = cmd.at /\ cmd' = Doing("noted", cmd.at)
        /\ note'.findings = UNION {run.evidence[s].findings : s \in Stages}
    BY <1>3, NextCommand DEF Attest
  <2>2. \A s \in Stages : Resolved(run.evidence[s].findings)
    BY <1>3 DEF Attestable
  <2>3. Resolved(note'.findings)
    BY <2>1, <2>2 DEF Resolved, Blocking, Actionable
  <2> QED BY <1>0, <1>1, <2>1, <2>3
          DEF PublishInv, PublishGoal, NothingBlocksPast, VerifiedIsAttested, PublishedStands, Noted,
              AttestedIsResolved, Doing
<1> QED BY <1>2, <1>3

\* The last transaction of mergeback: the run is verified at the commit of its note.
LEMMA RecordMergebackKeeps ==
  ASSUME PublishInv, RecordMergeback
  PROVE  PublishGoal
<1>1. /\ cmd' = Idle /\ run'.state = "VERIFIED" /\ run'.head = cmd.at /\ run'.sourceHead = cmd.at
  BY RecordMergebackRecord DEF PublishInv
<1>2. /\ note' = note /\ remote' = remote /\ findings' = findings /\ note.sha = cmd.at
      /\ run.state = "MERGEBACK_PENDING"
  BY DEF RecordMergeback, RecordOnly, Still, PublishInv, Noted, RecordInv, Working, Merging
<1>3. remote.sha = NoCommit
  BY <1>2 DEF PublishInv, PublishedStands, TerminalStates
<1>4. "MERGEBACK_PENDING" \in PastReview \cap PastDocs
  BY DEF PastReview, PastDocs
<1> QED BY <1>1, <1>2, <1>3, <1>4, NextCommand
        DEF PublishInv, PublishGoal, NothingBlocksPast, VerifiedIsAttested, PublishedStands, Noted,
            AttestedIsResolved

\* gate, push, finish, and the runs that are closed.
LEMMA PublicationKeeps ==
  ASSUME PublishInv, PublishStep
  PROVE  PublishGoal
<1>0. RecordInv /\ findings' = findings /\ note' = note
  BY DEF PublishInv, PublishStep, Gate, RecordPush, Finish, Orphan, Push, Abort, RecordOnly, Still
<1>1. {"VERIFIED", "AWAITING_PUSH_CONFIRM", "PUSHED"} \subseteq PastReview \cap PastDocs
  BY DEF PastReview, PastDocs, DocsStates
<1>2. CASE Gate
  <2>1. /\ cmd' = Idle /\ run'.state \in {run.state, "AWAITING_PUSH_CONFIRM"}
        /\ run'.head = run.head /\ run'.sourceHead = run.sourceHead
    BY <1>0, <1>2, GateRecord
  <2>2. remote' = remote /\ run.state \in {"VERIFIED", "AWAITING_PUSH_CONFIRM"}
    BY <1>2 DEF Gate, RecordOnly, Still
  <2> QED BY <1>0, <1>1, <2>1, <2>2, NextCommand
          DEF PublishInv, PublishGoal, NothingBlocksPast, VerifiedIsAttested, PublishedStands, Noted,
              AttestedIsResolved
<1>3. ASSUME NEW confirm, Push(confirm)
      PROVE  PublishGoal
  <2>1. /\ run' = run /\ remote' = [sha |-> run.head, note |-> note]
        /\ cmd' = Doing("pushed", run.head) /\ run.state = "AWAITING_PUSH_CONFIRM"
    BY <1>3, NextCommand DEF Push, Commits
  <2> QED BY <1>0, <2>1, NextCommand
          DEF PublishInv, PublishGoal, NothingBlocksPast, VerifiedIsAttested, PublishedStands, Noted,
              AttestedIsResolved
<1>4. CASE RecordPush \/ Finish
  <2>1. /\ cmd' = Idle /\ run'.state \in {"PUSHED", "DONE"}
        /\ run'.head = run.head /\ run'.sourceHead = run.sourceHead
    BY <1>0, <1>4, RecordPushRecord, FinishRecord
  <2>2. remote' = remote /\ run.state \in {"AWAITING_PUSH_CONFIRM", "PUSHED"}
    BY <1>0, <1>4 DEF RecordPush, Finish, RecordOnly, Still, RecordInv, Working
  <2> QED BY <1>0, <1>1, <2>1, <2>2, NextCommand, NotPast
          DEF PublishInv, PublishGoal, NothingBlocksPast, VerifiedIsAttested, PublishedStands, Noted,
              AttestedIsResolved, TerminalStates
<1>5. CASE Orphan \/ \E force \in BOOLEAN : Abort(force)
  <2>1. /\ cmd' = Idle /\ run'.state \in {"ABORTED", "ORPHANED"}
        /\ run'.head = run.head /\ run'.sourceHead = run.sourceHead
    BY <1>0, <1>5, CloseRecord
  <2>2. remote' = remote
    BY <1>5 DEF Orphan, Abort, RecordOnly, Still
  <2> QED BY <1>0, <2>1, <2>2, NextCommand, NotPast
          DEF PublishInv, PublishGoal, NothingBlocksPast, VerifiedIsAttested, PublishedStands, Noted,
              AttestedIsResolved, TerminalStates
<1> QED BY <1>2, <1>3, <1>4, <1>5 DEF PublishStep

\* A step of a validating run leaves no finding behind.
LEMMA FindingValidates ==
  ASSUME RecordInv, NothingBlocksPast, FindingStep
  PROVE  Validates
<1>1. CASE \/ ReviewContext \/ DocsContext \/ Deliver \/ ReopenReview
          \/ SkipDocs \/ ReopenAfterFix \/ Verify
          \/ StartReviewer \/ RecoverReviewer \/ ReviewerEnds \/ RejectOutput
  BY <1>1, ContextValidates, VerifyValidates
<1>2. ASSUME NEW batch \in Reported("review"), SubmitReview(batch) \/ SubmitOutput(batch)
      PROVE  Validates
  BY <1>2, SubmitValidates
<1>3. ASSUME NEW batch \in Reported("docs"), SubmitDocs(batch)
      PROVE  Validates
  BY <1>3, SubmitValidates
<1>4. ASSUME NEW i \in DOMAIN findings, \/ RespondClosed(i) \/ RespondFixedInPlace(i)
                                        \/ \E n \in DOMAIN wt : RespondFixedIsolated(i, n)
      PROVE  Validates
  BY <1>4, RespondValidates
<1> QED BY <1>1, <1>2, <1>3, <1>4 DEF FindingStep

\* Every step keeps what is attested and published.
LEMMA PublishKept ==
  ASSUME PublishInv, [Next]_vars
  PROVE  PublishGoal
<1>0. RecordInv /\ NothingBlocksPast /\ run \in Run
  BY RecordFacts DEF PublishInv
<1>1. CASE UNCHANGED vars \/ World
  <2>1. /\ run' = run /\ findings' = findings /\ note' = note /\ remote' = remote
        /\ cmd' = cmd \/ cmd' = Idle
    BY <1>1 DEF vars, World, AgentCommits, HumanCommits, AgentResets, HumanResets, Outside,
                ChangesCleanliness, Dies
  <2> QED BY <2>1, NextCommand, StayKeeps DEF Quiet
<1>2. CASE StartStep \/ Settle \/ StatusAdvance \/ MergebackReopens
  BY <1>0, <1>2, StartIsQuiet, StartValidates, AdvanceValidates, ValidatingKeeps
<1>3. CASE RefuseStale
  <2>1. findings' = findings /\ run' = [run EXCEPT !.stale = TRUE]
    BY <1>3 DEF RefuseStale, RecordOnly, Commits
  <2> QED BY <1>0, <1>3, <2>1, StartIsQuiet, StayKeeps DEF Run
<1>4. CASE FindingStep
  BY <1>0, <1>4, FindingIsQuiet, FindingValidates, ValidatingKeeps
<1>5. CASE StageStep
  <2>1. Validates
    BY <1>0, <1>5, ShellValidates, VerifyValidates DEF StageStep
  <2> QED BY <1>5, <2>1, StageIsQuiet, ValidatingKeeps
<1>6. CASE \/ BeginMergeback \/ RetryMergeback \/ ResumeMergeback
          \/ SyncSource \/ PickFixes \/ ResetCheckout \/ RecordReset
  BY <1>0, <1>6, MergeValidates, MergeIsQuiet, ValidatingKeeps
<1>7. CASE Attest \/ RecordMergeback \/ PublishStep
  BY <1>7, AttestKeeps, RecordMergebackKeeps, PublicationKeeps
<1> QED BY <1>1, <1>2, <1>3, <1>4, <1>5, <1>6, <1>7 DEF Next, Program, MergeStep

\* A run begins with nothing attested and nothing published.
LEMMA PublishInit == Init => PublishInv
<1> SUFFICES ASSUME Init PROVE PublishInv
  OBVIOUS
<1>1. /\ run.state = "CREATED" /\ findings = <<>> /\ note = NoNote /\ remote.sha = NoCommit
      /\ cmd = Doing("start", NoCommit)
  BY DEF Init, NewRun
<1>2. Resolved({}) /\ NoNote.findings = {}
  BY DEF Resolved, Blocking, Actionable, NoNote
<1> QED BY <1>1, <1>2, RecordInit, NotPast
        DEF PublishInv, NothingBlocksPast, VerifiedIsAttested, PublishedStands, Noted,
            AttestedIsResolved, Doing

\* The invariant is inductive.
LEMMA PublishNext == PublishInv /\ [Next]_vars => PublishInv'
<1> SUFFICES ASSUME PublishInv, [Next]_vars PROVE PublishInv'
  OBVIOUS
<1>1. RecordInv'
  BY RecordNext DEF PublishInv
<1>2. PublishGoal
  BY PublishKept
<1> QED BY <1>1, <1>2 DEF PublishInv, PublishGoal

\* The invariant about attestations and publications holds of every run.
THEOREM PublishInvariant == Spec => []PublishInv
BY PublishInit, PublishNext, PTL DEF Spec

\* No run is past review or docs while a finding of that stage blocks, whatever
\* was imported, answered, or left half-written by a dead process.
THEOREM NothingIsPassed == Spec => []NothingBlocksPast
<1>1. PublishInv => NothingBlocksPast
  BY DEF PublishInv
<1> QED BY <1>1, PublishInvariant, PTL

\* A verified run has an attestation of exactly the commit it will publish.
THEOREM AttestedWhenVerified == Spec => []VerifiedIsAttested
<1>1. PublishInv => VerifiedIsAttested
  BY DEF PublishInv
<1> QED BY <1>1, PublishInvariant, PTL

\* What was published stands, and the record keeps naming it.
THEOREM PublicationStands == Spec => []PublishedStands
<1>1. PublishInv => PublishedStands
  BY DEF PublishInv
<1> QED BY <1>1, PublishInvariant, PTL

\* No attestation carries a finding that waits for an answer.
THEOREM AttestationResolved == Spec => []AttestedIsResolved
<1>1. PublishInv => AttestedIsResolved
  BY DEF PublishInv
<1> QED BY <1>1, PublishInvariant, PTL

-----------------------------------------------------------------------------
(* What stands behind a result. *)

\* A fingerprint that names its inputs is of a stage carried out on them, or excused.
Backed(s, fp, done) == fp.flag = "ok" => <<s, fp.tree>> \in done \/ Excused(s, fp.tree)

\* Every candidate, every finished stage and every evidence is backed, save those of docs.
Results(r, done) ==
  /\ \A s \in Stages : Backed(s, r.candidates[s].fp, done)
  /\ \A s \in Stages \ {"docs"} : Done(r.stages[s]) => Backed(s, r.stages[s].fp, done)
  /\ \A s \in Stages \ {"docs"} : Backed(s, r.evidence[s].fp, done)

\* So is the docs stage.
DocsResult(r, done) == /\ Backed("docs", r.stages["docs"].fp, done)
                       /\ Backed("docs", r.evidence["docs"].fp, done)

\* Where the docs stage holds what was delivered and not yet submitted, or nothing matters.
Loose == {"DOCS_AWAITING_FINDINGS"} \cup TerminalStates

\* What waits for a submission is backed, or of the tree that was delivered last.
Offered(r, done, delivered) ==
  LET fp == r.stages["docs"].fp
  IN Backed("docs", fp, done) \/ fp.tree = Tree(delivered)

Carried(r, done, delivered) ==
  /\ Results(r, done)
  /\ r.state \notin Loose => DocsResult(r, done)
  /\ r.state = "DOCS_AWAITING_FINDINGS" => Offered(r, done, delivered)

\* Nothing vouches for nothing.
LEMMA NothingBacked ==
  /\ \A s, done : Backed(s, NoFp, done) /\ Backed(s, NoEvidence.fp, done)
  /\ NoRecord.fp = NoFp /\ ~Done(NoRecord)
BY DEF Backed, NoFp, NoEvidence, NoRecord, Done

\* A result stays backed when more stages are carried out.
LEMMA MoreBacked ==
  ASSUME NEW done, NEW more, done \subseteq more
  PROVE  /\ \A s, fp : Backed(s, fp, done) => Backed(s, fp, more)
         /\ \A r : Results(r, done) => Results(r, more)
         /\ \A r : DocsResult(r, done) => DocsResult(r, more)
         /\ \A r, c : Carried(r, done, c) => Carried(r, more, c)
<1>1. \A s, fp : Backed(s, fp, done) => Backed(s, fp, more)
  BY DEF Backed
<1> HIDE DEF Backed
<1>2. \A r : Results(r, done) => Results(r, more)
  BY <1>1 DEF Results
<1>3. \A r : DocsResult(r, done) => DocsResult(r, more)
  BY <1>1 DEF DocsResult
<1>4. \A r, c : Offered(r, done, c) => Offered(r, more, c)
  BY <1>1 DEF Offered
<1> QED BY <1>1, <1>2, <1>3, <1>4 DEF Carried

\* The results of a record are those of one with the same stages.
LEMMA SameResults ==
  ASSUME NEW q, NEW r, NEW done, q.candidates = r.candidates, q.evidence = r.evidence,
         \A s \in Stages : q.stages[s].status = r.stages[s].status /\ q.stages[s].fp = r.stages[s].fp
  PROVE  /\ Results(r, done) => Results(q, done)
         /\ DocsResult(r, done) => DocsResult(q, done)
         /\ \A c : Carried(r, done, c) /\ q.state = r.state => Carried(q, done, c)
BY DEF Results, DocsResult, Carried, Offered, Done, Stages

\* The rows that leave the docs stage while it waits.
LEMMA AwaitingRow ==
  ASSUME NEW a, Legal("DOCS_AWAITING_FINDINGS", a)
  PROVE  a \in {"SUBMIT_CLEAN", "SUBMIT_BLOCKING", "INVALIDATE_REVIEW"} \cup ClosingActions
BY DEF Legal, Moves, ClosingActions

\* A move of a record whose every result is backed.
LEMMA BackedMoves ==
  ASSUME NEW r, r \in Run, NEW a, NEW done, NEW c, Results(r, done), DocsResult(r, done)
  PROVE  Carried(Apply(r, a), done, c)
<1> DEFINE q == Apply(r, a)
<1>1. q.stages = r.stages /\ q.evidence = r.evidence /\ q.candidates = r.candidates
  BY ApplyFields
<1> HIDE DEF q
<1>2. Results(q, done) /\ DocsResult(q, done)
  BY <1>1 DEF Results, DocsResult
<1> QED BY <1>2 DEF Carried, Offered, DocsResult, q

\* A move of a record that is no submission and no return to review.
LEMMA MoveCarries ==
  ASSUME NEW r, r \in Run, NEW a, Legal(r.state, a), NEW done, NEW c, Carried(r, done, c),
         a \notin {"SUBMIT_CLEAN", "SUBMIT_BLOCKING", "INVALIDATE_REVIEW"}
  PROVE  Carried(Apply(r, a), done, c)
<1> DEFINE q == Apply(r, a)
<1>0. r.state \notin TerminalStates
  BY DEF Legal, ClosingActions, TerminalStates, Moves
<1>1. CASE r.state \notin Loose
  BY <1>1, BackedMoves DEF Carried
<1>2. CASE r.state = "DOCS_AWAITING_FINDINGS"
  <2>1. a \in ClosingActions
    BY <1>2, AwaitingRow
  <2>2. /\ q.stages = r.stages /\ q.evidence = r.evidence /\ q.candidates = r.candidates
        /\ q.state \in TerminalStates
    BY <2>1, ApplyFields DEF NextState, ClosingActions, TerminalStates
  <2>3. "DOCS_AWAITING_FINDINGS" \notin TerminalStates
    BY DEF TerminalStates
  <2> HIDE DEF q
  <2> QED BY <2>2, <2>3 DEF Carried, Results, Loose, q
<1> QED BY <1>0, <1>1, <1>2 DEF Loose

\* Discarding results leaves the others backed.
LEMMA DiscardCarries ==
  ASSUME NEW r, Sound(r), NEW S, NEW done, Results(r, done), DocsResult(r, done) \/ "docs" \in S
  PROVE  Results(Discard(r, S), done) /\ DocsResult(Discard(r, S), done)
<1> DEFINE q == Discard(r, S)
<1>1. q.candidates = r.candidates
  BY DiscardFields
<1>2. \A s \in Stages :
        /\ s \in S => /\ q.stages[s].status = "pending" /\ q.stages[s].fp = NoFp
                      /\ q.evidence[s] = NoEvidence
        /\ s \notin S => q.stages[s] = r.stages[s] /\ q.evidence[s] = r.evidence[s]
  BY DiscardFields
<1> HIDE DEF q
<1>3. \A s \in Stages \ {"docs"} : Done(q.stages[s]) => Backed(s, q.stages[s].fp, done)
  BY <1>2, NothingBacked DEF Results, Done
<1>4. \A s \in Stages \ {"docs"} : Backed(s, q.evidence[s].fp, done)
  BY <1>2, NothingBacked DEF Results
<1>5. DocsResult(q, done)
  BY <1>2, NothingBacked DEF DocsResult, Stages
<1> QED BY <1>1, <1>3, <1>4, <1>5 DEF Results, q

\* Installing a result that is backed.
LEMMA PutCarries ==
  ASSUME NEW r, Sound(r), NEW s \in Stages, NEW record, NEW done, Results(r, done),
         Done(record) \/ s = "docs" => Backed(s, record.fp, done)
  PROVE  /\ Results(Put(r, s, record), done)
         /\ DocsResult(r, done) \/ s = "docs" => DocsResult(Put(r, s, record), done)
<1> DEFINE q == Put(r, s, record)
<1>1. q.candidates = r.candidates
  BY PutFields
<1>2. \A x \in Stages : /\ q.stages[x] = IF x = s THEN record ELSE r.stages[x]
                        /\ q.evidence[x] = IF x = s THEN NoEvidence ELSE r.evidence[x]
  BY PutFields
<1> HIDE DEF q
<1>3. \A x \in Stages \ {"docs"} : Done(q.stages[x]) => Backed(x, q.stages[x].fp, done)
  BY <1>2 DEF Results
<1>4. \A x \in Stages \ {"docs"} : Backed(x, q.evidence[x].fp, done)
  BY <1>2, NothingBacked DEF Results
<1>5. DocsResult(r, done) \/ s = "docs" => DocsResult(q, done)
  BY <1>2, NothingBacked DEF DocsResult, Stages
<1> QED BY <1>1, <1>3, <1>4, <1>5 DEF Results, q

\* Archiving copies results that are backed.
LEMMA ArchiveCarries ==
  ASSUME NEW r, Sound(r), NEW f, NEW done, Results(r, done)
  PROVE  /\ Results(Archive(r, f), done)
         /\ DocsResult(r, done) => DocsResult(Archive(r, f), done)
         /\ \A c : Carried(r, done, c) => Carried(Archive(r, f), done, c)
<1> DEFINE q == Archive(r, f)
<1>1. /\ q.candidates = r.candidates /\ q.stages = r.stages /\ q.state = r.state
      /\ \A s \in Stages : \/ q.evidence[s] = r.evidence[s]
                           \/ Done(r.stages[s]) /\ q.evidence[s] = Origin(r, f, s)
  BY ArchiveFields
<1>2. \A s : Origin(r, f, s).fp = r.stages[s].fp
  BY DEF Origin
<1> HIDE DEF q
<1>3. Results(q, done)
  BY <1>1, <1>2 DEF Results
<1>4. DocsResult(r, done) => DocsResult(q, done)
  BY <1>1, <1>2 DEF DocsResult, Stages
<1> QED BY <1>1, <1>3, <1>4 DEF Carried, Offered, q

\* reopen_changed_inputs: what becomes a candidate is backed.
LEMMA ReopenChangedCarries ==
  ASSUME NEW r, Sound(r), r.state \in GreenStates, NEW f \in Seq(Finding), NEW done, NEW c,
         Carried(r, done, c)
  PROVE  Carried(ReopenChanged(r, f), done, c)
<1> DEFINE a == Archive(r, f)
           candidates == [s \in Stages |-> IF Held(a.evidence[s]) THEN a.evidence[s] ELSE a.candidates[s]]
           b == [a EXCEPT !.candidates = candidates]
           d == Discard(b, Stages)
           e == [d EXCEPT !.coverage = NoCommit]
<1>0. r.state \notin Loose
  BY DEF GreenStates, Loose, TerminalStates
<1>1. Sound(a) /\ Results(a, done) /\ DocsResult(a, done)
  BY <1>0, ArchiveSound, ArchiveCarries DEF Carried
<1>2. a \in Run
  BY <1>1 DEF Sound
<1>3. ReopenChanged(r, f) = Apply(e, "INVALIDATE_REVIEW")
  BY DEF ReopenChanged
<1> HIDE DEF a
<1>4. candidates \in [Stages -> Evidence]
      /\ \A s \in Stages : candidates[s] \in {a.evidence[s], a.candidates[s]}
  BY <1>2 DEF Run
<1> HIDE DEF candidates
<1>5. Sound(b) /\ b.candidates = candidates /\ b.stages = a.stages /\ b.evidence = a.evidence
  BY <1>1, <1>4 DEF Sound, Run
<1> HIDE DEF b
<1>6. Results(b, done)
  BY <1>1, <1>4, <1>5 DEF Results, DocsResult, Stages
<1>7. Sound(d) /\ Results(d, done) /\ DocsResult(d, done)
  BY <1>5, <1>6, DiscardSound, DiscardCarries DEF Stages
<1> HIDE DEF d
<1>8. /\ e \in Run /\ e.stages = d.stages /\ e.evidence = d.evidence
      /\ e.candidates = d.candidates
  BY <1>7, NothingTyped, CoverageSound, CoverageFields DEF Sound
<1> HIDE DEF e
<1>9. Results(e, done) /\ DocsResult(e, done)
  BY <1>7, <1>8 DEF Results, DocsResult
<1> QED BY <1>3, <1>8, <1>9, BackedMoves

\* reopen_if_stale discards every result.
LEMMA ReopenCarries ==
  ASSUME NEW r, Sound(r), NEW done, NEW c, Results(r, done)
  PROVE  Carried(Reopen(r), done, c)
<1> DEFINE d == Discard(r, Stages)
           e == [d EXCEPT !.coverage = NoCommit]
<1>1. Sound(d) /\ Results(d, done) /\ DocsResult(d, done)
  BY DiscardSound, DiscardCarries DEF Stages
<1> HIDE DEF d
<1>2. /\ e \in Run /\ e.stages = d.stages /\ e.evidence = d.evidence
      /\ e.candidates = d.candidates
  BY <1>1, NothingTyped, CoverageSound, CoverageFields DEF Sound
<1> HIDE DEF e
<1>3. Results(e, done) /\ DocsResult(e, done)
  BY <1>1, <1>2 DEF Results, DocsResult
<1> QED BY <1>2, <1>3, BackedMoves DEF Reopen, d, e

\* An imported result is backed by its candidate.
LEMMA InstalledCarries ==
  ASSUME NEW r, Sound(r), NEW f, NEW s \in Stages, NEW c \in Commit, r.candidates[s].fp = FpOf(c),
         NEW done, Results(r, done)
  PROVE  /\ Results(Installed(r, f, s, c), done)
         /\ DocsResult(r, done) \/ s = "docs" => DocsResult(Installed(r, f, s, c), done)
<1> DEFINE q == Installed(r, f, s, c)
<1>1. /\ q.candidates = r.candidates /\ q.stages[s] = Imported(r, s, c)
      /\ q.evidence[s] = Again(r, s)
      /\ \A x \in Stages \ {s} : q.stages[x] = r.stages[x] /\ q.evidence[x] = r.evidence[x]
  BY InstalledFields
<1>2. Imported(r, s, c).fp = FpOf(c) /\ Again(r, s).fp = r.candidates[s].fp
  <2>1. r.candidates[s] \in Evidence
    BY DEF Sound, Run
  <2> QED BY <2>1 DEF Imported, Again, NoRecord, Evidence
<1>3. Backed(s, FpOf(c), done)
  BY DEF Results
<1> HIDE DEF q
<1>4. \A x \in Stages \ {"docs"} : Done(q.stages[x]) => Backed(x, q.stages[x].fp, done)
  BY <1>1, <1>2, <1>3 DEF Results
<1>5. \A x \in Stages \ {"docs"} : Backed(x, q.evidence[x].fp, done)
  BY <1>1, <1>2, <1>3 DEF Results
<1>6. DocsResult(r, done) \/ s = "docs" => DocsResult(q, done)
  BY <1>1, <1>2, <1>3 DEF DocsResult, Stages
<1> QED BY <1>1, <1>4, <1>5, <1>6 DEF Results, q

\* evidence.advance: what it imports is backed.
LEMMA AdvanceCarries ==
  ASSUME NEW r, Sound(r), NEW f \in Seq(Finding), NEW c \in Commit, NEW done, NEW delivered,
         Carried(r, done, delivered)
  PROVE  Carried(Advance(r, f, c), done, delivered)
<1> DEFINE opened == IF InputsChanged(r, c) THEN ReopenChanged(r, f) ELSE r
           reviewed == ImportReview(opened, f, c)
           imported == ImportDocs(reviewed, f, c)
           Good(q) == Sound(q) /\ Carried(q, done, delivered)
<1>1. Good(opened)
  BY ReopenChangedSound, ReopenChangedCarries DEF InputsChanged
<1> HIDE DEF opened
<1>2. CASE LimitReached(opened)
  BY <1>1, <1>2 DEF Advance, opened
<1>3. CASE ~LimitReached(opened)
  <2>1. Good(reviewed)
    <3>1. Sound(reviewed)
      BY <1>1, <1>3, ImportReviewSound
    <3>2. CASE opened.state = "REVIEW_AWAITING_FINDINGS" /\ Reusable(opened, f, "review", c)
      <4> DEFINE put == Installed(opened, f, "review", c)
      <4>1. DocsResult(opened, done) /\ "review" \in Stages
        BY <1>1, <3>2 DEF Carried, Loose, TerminalStates, Stages
      <4>2. Results(put, done) /\ DocsResult(put, done)
        <5>1. opened.candidates["review"].fp = FpOf(c)
          BY <3>2 DEF Reusable, SameInputs
        <5>2. Results(opened, done)
          BY <1>1 DEF Carried
        <5> QED BY <1>1, <4>1, <5>1, <5>2, InstalledCarries
      <4>3. /\ reviewed.stages = put.stages /\ reviewed.evidence = put.evidence
            /\ put.candidates = opened.candidates /\ reviewed.candidates = put.candidates
            /\ reviewed.state = "REVIEW_GREEN"
        <5>1. put.candidates = opened.candidates
          BY <1>1, <4>1, InstalledFields
        <5> HIDE DEF put
        <5>2. /\ reviewed.state = "REVIEW_GREEN"
              /\ reviewed.stages = Installed(opened, f, "review", c).stages
              /\ reviewed.evidence = Installed(opened, f, "review", c).evidence
              /\ reviewed.candidates = opened.candidates
          BY <1>1, <3>2, ImportReviewFields
        <5> HIDE DEF reviewed
        <5> QED BY <5>1, <5>2 DEF put
      <4> HIDE DEF put, reviewed
      <4>4. Results(reviewed, done) /\ DocsResult(reviewed, done)
        BY <4>2, <4>3 DEF Results, DocsResult
      <4> QED BY <3>1, <4>3, <4>4 DEF Carried
    <3>3. CASE ~(opened.state = "REVIEW_AWAITING_FINDINGS" /\ Reusable(opened, f, "review", c))
      BY <1>1, <3>3 DEF ImportReview
    <3> QED BY <3>2, <3>3
  <2> HIDE DEF reviewed
  <2>2. CASE Uninstallable(reviewed, f, c)
    BY <1>3, <2>1, <2>2 DEF Advance, opened, reviewed
  <2>3. CASE ~Uninstallable(reviewed, f, c)
    <3>1. Good(imported)
      <4>1. Sound(imported)
        BY <2>1, <2>3, ImportDocsSound
      <4>2. CASE ~DocsReady(reviewed, f, c)
        BY <2>1, <4>2 DEF ImportDocs
      <4>3. CASE DocsReady(reviewed, f, c)
        <5> DEFINE put == Installed(reviewed, f, "docs", c)
        <5>1. "docs" \in Stages /\ reviewed.candidates["docs"].fp = FpOf(c)
          BY <4>3 DEF Stages, DocsReady, Reusable, SameInputs
        <5>2. Results(put, done) /\ DocsResult(put, done)
          BY <2>1, <5>1, InstalledCarries DEF Carried
        <5>3. /\ imported.stages = put.stages /\ imported.evidence = put.evidence
              /\ put.candidates = reviewed.candidates /\ imported.candidates = put.candidates
              /\ imported.state = "DOCS_GREEN"
          <6>1. put.candidates = reviewed.candidates
            BY <2>1, <5>1, InstalledFields
          <6> HIDE DEF put
          <6>2. /\ imported.state = "DOCS_GREEN"
                /\ imported.stages = Installed(reviewed, f, "docs", c).stages
                /\ imported.evidence = Installed(reviewed, f, "docs", c).evidence
                /\ imported.candidates = reviewed.candidates
            BY <2>1, <2>3, <4>3, ImportDocsFields
          <6> HIDE DEF imported
          <6> QED BY <6>1, <6>2 DEF put
        <5> HIDE DEF put, imported
        <5>4. Results(imported, done) /\ DocsResult(imported, done)
          BY <5>2, <5>3 DEF Results, DocsResult
        <5> QED BY <4>1, <5>3, <5>4 DEF Carried
      <4> QED BY <4>2, <4>3
    <3> HIDE DEF imported
    <3>2. Carried(Archive(imported, f), done, delivered)
      BY <3>1, ArchiveCarries DEF Carried
    <3>3. Advance(r, f, c) = Archive(imported, f)
      BY <1>3, <2>3 DEF Advance, opened, reviewed, imported
    <3> QED BY <3>2, <3>3
  <2> QED BY <2>2, <2>3
<1> QED BY <1>2, <1>3

\* The stages carried out, and docs of every tree that its context was recorded for
\* although it had read another.
Credited == ran \cup ({"docs"} \X torn)

\* The results of the run are backed by them.
CarriedOut == Carried(run, Credited, seen["docs"])

\* What one step has to show of them.
CarriedGoal == Carried(run', Credited', seen'["docs"])

\* The facts about the run that the steps use.
LEMMA CarriedFacts ==
  ASSUME RecordInv, CarriedOut
  PROVE  /\ Results(run, Credited) /\ (run.state \notin Loose => DocsResult(run, Credited))
         /\ seen \in [{"review", "docs"} -> Commit]
         /\ run \in Run /\ Sound(run) /\ wt \in Commit /\ findings \in Seq(Finding)
BY RecordFacts DEF CarriedOut, Carried, RecordInv, RunInv, TypeOK

\* A step that leaves the results alone.
LEMMA StayCarries ==
  ASSUME CarriedOut, Credited \subseteq Credited', seen'["docs"] = seen["docs"], run'.state = run.state,
         run'.stages = run.stages, run'.evidence = run.evidence, run'.candidates = run.candidates
  PROVE  CarriedGoal
<1>1. Carried(run, Credited', seen'["docs"])
  BY MoreBacked DEF CarriedOut
<1> QED BY <1>1, SameResults DEF CarriedGoal

\* A transaction that moves a record with the results of the run.
LEMMA TransitCarries ==
  ASSUME CarriedOut, Credited' = Credited, seen'["docs"] = seen["docs"],
         NEW r, r \in Run, r.state = run.state, r.candidates = run.candidates,
         r.evidence = run.evidence,
         \A s \in Stages : r.stages[s].status = run.stages[s].status /\ r.stages[s].fp = run.stages[s].fp,
         NEW a, a \notin {"SUBMIT_CLEAN", "SUBMIT_BLOCKING", "INVALIDATE_REVIEW"},
         NEW next, Transits(r, a, next)
  PROVE  CarriedGoal
<1>1. Carried(r, Credited, seen["docs"])
  BY SameResults DEF CarriedOut
<1>2. Legal(r.state, a) /\ run' = Apply(r, a)
  BY DEF Transits, CanApply, Commits
<1> QED BY <1>1, <1>2, MoveCarries DEF CarriedGoal

\* Two moves in one transaction.
LEMMA TwiceCarries ==
  ASSUME NEW r, r \in Run, NEW done, NEW c, Results(r, done), DocsResult(r, done),
         NEW a, NextState(r.state, a) \in States, NEW b
  PROVE  Carried(Apply(Apply(r, a), b), done, c)
<1> DEFINE q == Apply(r, a)
<1>1. q \in Run /\ q.stages = r.stages /\ q.evidence = r.evidence /\ q.candidates = r.candidates
  BY ApplyFields, ApplyTyped
<1> HIDE DEF q
<1>2. Results(q, done) /\ DocsResult(q, done)
  BY <1>1 DEF Results, DocsResult
<1> QED BY <1>1, <1>2, BackedMoves DEF q

\* start.
LEMMA StartCarries ==
  ASSUME RecordInv, CarriedOut, StartStep
  PROVE  CarriedGoal
<1>0. /\ run \in Run /\ Credited' = Credited /\ seen' = seen /\ Results(run, Credited)
      /\ run.state \notin Loose => DocsResult(run, Credited)
      /\ cmd.op = "start" => run.state = "CREATED"
      /\ cmd.op \in {"sync", "setup"} => run.state = "SYNC_RUNNING"
      /\ {"CREATED", "SYNC_RUNNING"} \cap Loose = {}
  BY CarriedFacts DEF StartStep, CreateCheckout, Synchronize, Setup, RecordOnly, Still, history, Credited, ExceptCheckouts,
                      RecordInv, RunInv, StartState, Loose, TerminalStates
<1>1. ASSUME NEW b \in BOOLEAN, run' = [Apply(run, "ABORT") EXCEPT !.released = b]
      PROVE  CarriedGoal
  <2> DEFINE q == Apply(run, "ABORT")
  <2>1. /\ q.state = "ABORTED" /\ q.stages = run.stages /\ q.evidence = run.evidence
        /\ q.candidates = run.candidates /\ q \in Run
    BY <1>0, ApplyFields, ApplyTyped, KnownStates DEF NextState, ClosingActions
  <2>2. run' = [q EXCEPT !.released = b]
    BY <1>1
  <2> HIDE DEF q
  <2>3. /\ run'.state = "ABORTED" /\ run'.stages = run.stages /\ run'.evidence = run.evidence
        /\ run'.candidates = run.candidates
    BY <2>1, <2>2 DEF Run
  <2>4. Results(run', Credited)
    BY <1>0, <2>3 DEF Results
  <2> QED BY <1>0, <2>3, <2>4 DEF CarriedGoal, Carried, Loose, TerminalStates
<1>2. CASE CreateCheckout
  <2>1. CASE run' = Apply(Apply(run, "CREATE_WORKTREE"), "BEGIN_SYNC")
    BY <1>0, <1>2, <2>1, TwiceCarries, KnownMoves, KnownStates DEF CreateCheckout, CarriedGoal
  <2> QED BY <1>1, <1>2, <2>1 DEF CreateCheckout, Commits
<1>3. CASE Synchronize
  <2>1. CASE Transits(run, "SYNC_FAILED", Idle)
    BY <1>0, <2>1, TransitCarries
  <2>2. CASE run' = [run EXCEPT !.head = Rebase(wt), !.sourceHead = IF InPlace THEN Rebase(wt) ELSE @,
                                !.changed = Changed(Tree(Rebase(wt)))]
    <3>1. /\ run'.state = run.state /\ run'.stages = run.stages /\ run'.evidence = run.evidence
          /\ run'.candidates = run.candidates
      BY <1>0, <2>2 DEF Run
    <3> QED BY <1>0, <3>1, StayCarries
  <2> QED BY <1>1, <1>3, <2>1, <2>2 DEF Synchronize, Commits
<1>4. CASE Setup
  <2> DEFINE assessed == Assessed(run, run.changed, <<>>)
  <2>0. /\ assessed \in Run /\ assessed.state = run.state /\ assessed.stages = run.stages
        /\ assessed.evidence = run.evidence /\ assessed.candidates = run.candidates
    <3>1. Sound(run) /\ run.changed \in SUBSET Patch
      BY CarriedFacts DEF Run
    <3> QED BY <3>1, AssessedSound DEF Sound
  <2>3. \/ run' = Apply(Apply(assessed, "SYNC_PASSED"), "BEGIN_REVIEW")
        \/ Transits([assessed EXCEPT !.setup = "initial"], "SETUP_FAILED", Idle)
    BY <1>4 DEF Setup, Commits
  <2> HIDE DEF assessed
  <2>1. CASE run' = Apply(Apply(assessed, "SYNC_PASSED"), "BEGIN_REVIEW")
    <3>1. Results(assessed, Credited) /\ DocsResult(assessed, Credited)
      BY <1>0, <1>4, <2>0 DEF Results, DocsResult, Setup
    <3>2. run.state = "SYNC_RUNNING"
      BY <1>0, <1>4 DEF Setup
    <3> QED BY <1>0, <2>0, <2>1, <3>1, <3>2, TwiceCarries, KnownMoves, KnownStates DEF CarriedGoal
  <2>2. CASE Transits([assessed EXCEPT !.setup = "initial"], "SETUP_FAILED", Idle)
    <3> DEFINE r == [assessed EXCEPT !.setup = "initial"]
    <3>1. /\ r \in Run /\ r.state = run.state /\ r.stages = run.stages
          /\ r.evidence = run.evidence /\ r.candidates = run.candidates
      BY <2>0 DEF Run
    <3>2. Transits(r, "SETUP_FAILED", Idle)
      BY <2>2
    <3> HIDE DEF r
    <3> QED BY <1>0, <3>1, <3>2, TransitCarries
  <2> QED BY <2>1, <2>2, <2>3
<1> QED BY <1>2, <1>3, <1>4 DEF StartStep

\* evidence.advance, wherever it is called, and a refusal.
LEMMA SettleCarries ==
  ASSUME RecordInv, CarriedOut, Settle \/ StatusAdvance \/ RefuseStale \/ MergebackReopens
  PROVE  CarriedGoal
<1>0. run \in Run /\ Sound(run) /\ Credited' = Credited /\ seen' = seen /\ wt \in Commit
      /\ findings \in Seq(Finding)
  BY CarriedFacts DEF Settle, StatusAdvance, RefuseStale, MergebackReopens, RecordOnly, Still, Credited
<1>1. CASE run' = Advance(run, findings, wt)
  BY <1>0, <1>1, AdvanceCarries DEF CarriedOut, CarriedGoal
<1>2. CASE run' \in {run, [run EXCEPT !.stale = TRUE]}
  <2>1. /\ run'.state = run.state /\ run'.stages = run.stages /\ run'.evidence = run.evidence
        /\ run'.candidates = run.candidates
    BY <1>0, <1>2 DEF Run
  <2> QED BY <1>0, <2>1, StayCarries
<1> QED BY <1>1, <1>2 DEF Settle, StatusAdvance, RefuseStale, MergebackReopens, Commits

\* context: what is delivered is of the commit that was read.
LEMMA ContextCarries ==
  ASSUME RecordInv, CarriedOut, ReviewContext \/ DocsContext \/ Deliver
  PROVE  CarriedGoal
<1>0. /\ run \in Run /\ wt \in Commit /\ Results(run, Credited)
      /\ seen \in [{"review", "docs"} -> Commit]
  BY CarriedFacts
<1>1. CASE ReviewContext
  <2>1. Credited' = Credited /\ run' = run /\ seen'["docs"] = seen["docs"]
    BY <1>0, <1>1 DEF ReviewContext, Commits, ExceptSeen, Still, Credited
  <2> QED BY <2>1, StayCarries
<1>2. CASE DocsContext
  <2>1. /\ Credited' = Credited /\ seen' = seen
        /\ run' = run \/ Transits(run, "BEGIN_DOCS", Doing("deliver", wt))
    BY <1>2 DEF DocsContext, RecordOnly, Still, Credited, Commits
  <2> QED BY <1>0, <2>1, StayCarries, TransitCarries
<1>3. CASE Deliver
  <2> DEFINE old == run.stages["docs"]
             record == [old EXCEPT !.fp = FpOf(wt)]
             stages == [run.stages EXCEPT !["docs"] = record]
  <2>1. run' = [run EXCEPT !.stages = stages] /\ run.state = "DOCS_AWAITING_FINDINGS"
    BY <1>3 DEF Deliver, Commits, RecordInv, Working
  <2>2. old \in StageRecord /\ "docs" \in Stages
    BY <1>0 DEF Run, Stages
  <2> HIDE DEF old
  <2>3. record.fp = FpOf(wt)
    BY <2>2 DEF StageRecord
  <2> HIDE DEF record
  <2>4. stages["docs"] = record /\ \A s \in Stages \ {"docs"} : stages[s] = run.stages[s]
    BY <1>0, <2>2 DEF Run
  <2> HIDE DEF stages
  <2>5. /\ run'.state = run.state /\ run'.stages = stages /\ run'.evidence = run.evidence
        /\ run'.candidates = run.candidates
    BY <1>0, <2>1 DEF Run
  <2>6. Results(run', Credited')
    <3>1. Credited \subseteq Credited'
      BY <1>3 DEF Deliver, Credited
    <3>2. Results(run', Credited)
      BY <1>0, <2>4, <2>5 DEF Results
    <3> QED BY <3>1, <3>2, MoreBacked
  <2>7. Offered(run', Credited', seen'["docs"])
    <3>1. run'.stages["docs"].fp = FpOf(wt) /\ FpOf(wt).tree = Tree(wt)
      BY <2>3, <2>4, <2>5 DEF FpOf
    <3>2. seen'["docs"] = cmd.at
      BY <1>0, <1>3 DEF Deliver
    <3>3. CASE Tree(cmd.at) = Tree(wt)
      BY <3>1, <3>2, <3>3 DEF Offered
    <3>4. CASE Tree(cmd.at) # Tree(wt)
      <4>1. <<"docs", Tree(wt)>> \in Credited'
        BY <1>3, <3>4 DEF Deliver, Credited
      <4> QED BY <3>1, <4>1 DEF Offered, Backed
    <3> QED BY <3>3, <3>4
  <2> QED BY <1>0, <2>1, <2>5, <2>6, <2>7 DEF CarriedGoal, Carried, Loose
<1> QED BY <1>1, <1>2, <1>3

\* verify, and the reopenings.
LEMMA VerifyCarries ==
  ASSUME RecordInv, CarriedOut, ReopenReview \/ ReopenAfterFix \/ Verify
  PROVE  CarriedGoal
<1>0. run \in Run /\ Sound(run) /\ Credited' = Credited /\ seen' = seen /\ Results(run, Credited)
  BY CarriedFacts DEF ReopenReview, ReopenAfterFix, Verify, RecordOnly, Still, Credited
<1>1. CASE run' = Reopen(run)
  BY <1>0, <1>1, ReopenCarries DEF CarriedGoal
<1>2. CASE run' = run
  BY <1>0, <1>2, StayCarries
<1>3. CASE Transits(run, "RESOLVE_GREEN", Doing("resolved", NoCommit))
  BY <1>0, <1>3, TransitCarries
<1> QED BY <1>1, <1>2, <1>3 DEF ReopenReview, ReopenAfterFix, Verify, Commits

\* A skipped stage is one that the policy excuses.
LEMMA SkipCarries ==
  ASSUME RecordInv, CarriedOut, SkipDocs \/ SkipTest
  PROVE  CarriedGoal
<1> DEFINE record == [NoRecord EXCEPT !.status = "skipped", !.head = wt, !.fp = FpOf(wt)]
<1>0. /\ run \in Run /\ Sound(run) /\ Credited' = Credited /\ seen' = seen /\ Results(run, Credited)
      /\ run.state \notin Loose => DocsResult(run, Credited)
      /\ {"REVIEW_GREEN", "LINT_GREEN"} \cap Loose = {}
  BY CarriedFacts DEF SkipDocs, SkipTest, RecordOnly, Still, Credited, Loose, TerminalStates
<1>1. record.fp = FpOf(wt)
  BY DEF NoRecord
<1> HIDE DEF record
<1>2. ASSUME NEW s \in {"docs", "test"}, NEW a, NEW next, Transits(Put(run, s, record), a, next),
             run.state \in {"REVIEW_GREEN", "LINT_GREEN"}, Excused(s, Tree(wt))
      PROVE  CarriedGoal
  <2> DEFINE q == Put(run, s, record)
  <2>1. q \in Run
    <3>1. s \in Stages /\ record \in StageRecord
      BY SkippedTyped DEF RecordInv, record, Stages
    <3> QED BY <1>0, <3>1, PutSound DEF Sound
  <2>2. Results(q, Credited) /\ DocsResult(q, Credited)
    <3>1. Backed(s, record.fp, Credited) /\ s \in Stages /\ DocsResult(run, Credited)
      BY <1>0, <1>1, <1>2 DEF Stages, Backed, FpOf
    <3> QED BY <1>0, <3>1, PutCarries
  <2>3. run' = Apply(q, a)
    BY <1>2 DEF Transits, Commits
  <2> HIDE DEF q
  <2> QED BY <1>0, <2>1, <2>2, <2>3, BackedMoves DEF CarriedGoal
<1>3. CASE run' = run
  BY <1>0, <1>3, StayCarries
<1>4. CASE SkipDocs
  <2>1. CASE ~DocsEnabled /\ run.state = "REVIEW_GREEN"
    BY <1>2, <1>4, <2>1 DEF SkipDocs, Excused, record
  <2> QED BY <1>3, <1>4, <2>1 DEF SkipDocs, Commits
<1>5. CASE SkipTest
  <2>1. CASE run.state = "LINT_GREEN" /\ DocsOnly(Tree(wt))
    BY <1>2, <1>5, <2>1 DEF SkipTest, Excused, record
  <2> QED BY <1>3, <1>5, <2>1 DEF SkipTest, Commits
<1> QED BY <1>4, <1>5

\* submit-findings: the stage was carried out on the tree its result names.
LEMMA AcceptCarries ==
  ASSUME RecordInv, CarriedOut, NEW stage \in {"review", "docs"}, NEW batch, Accept(stage, batch),
         stage = "review" => run.state = "REVIEW_AWAITING_FINDINGS" /\ seen["review"] = wt,
         stage = "docs" => run.state = "DOCS_AWAITING_FINDINGS" /\ run.stages["docs"].fp = FpOf(wt)
  PROVE  CarriedGoal
<1> DEFINE all == findings \o batch
           own == StageFindings(all, stage)
           stored == Submitted(stage, all)
           outcome == IF Blocking(own) = {} THEN "SUBMIT_CLEAN" ELSE "SUBMIT_BLOCKING"
           next == IF Resolved(own) THEN Doing("submitted", NoCommit) ELSE Idle
<1>0. /\ run \in Run /\ stage \in Stages /\ wt \in Commit /\ seen' = seen
      /\ Credited' = Credited \cup {<<stage, Tree(seen[stage])>>}
      /\ Results(run, Credited) /\ (run.state \notin Loose => DocsResult(run, Credited))
  BY CarriedFacts DEF Stages, Accept, Still, Credited
<1>1. CommitsBoth(Apply(stored, outcome), all, next)
  BY DEF Accept, Submitted, SubmittedStage
<1>2. Backed(stage, FpOf(wt), Credited')
  <2>1. CASE stage = "review"
    BY <1>0, <2>1 DEF Backed, FpOf
  <2>2. CASE stage = "docs"
    <3>1. Offered(run, Credited, seen["docs"])
      BY <2>2 DEF CarriedOut, Carried
    <3>2. Backed("docs", FpOf(wt), Credited) \/ Tree(wt) = Tree(seen["docs"])
      BY <2>2, <3>1 DEF Offered, FpOf
    <3> QED BY <1>0, <2>2, <3>2, MoreBacked DEF Backed, FpOf
  <2> QED BY <2>1, <2>2
<1>3. /\ stored \in Run /\ stored.candidates = run.candidates
      /\ SubmittedStage(stage).fp = FpOf(wt)
      /\ \A x \in Stages :
           /\ stored.stages[x] = IF x = stage THEN SubmittedStage(stage) ELSE run.stages[x]
           /\ stored.evidence[x] = IF x = stage THEN NoEvidence ELSE run.evidence[x]
  BY SubmittedFields DEF Sound
<1> HIDE DEF stored
<1>4. Results(run, Credited') /\ (run.state \notin Loose => DocsResult(run, Credited'))
  BY <1>0, MoreBacked
<1>5. Results(stored, Credited') /\ DocsResult(stored, Credited')
  <2>1. \A x \in Stages \ {"docs"} : Done(stored.stages[x]) => Backed(x, stored.stages[x].fp, Credited')
    BY <1>2, <1>3, <1>4 DEF Results
  <2>2. \A x \in Stages \ {"docs"} : Backed(x, stored.evidence[x].fp, Credited')
    BY <1>3, <1>4, NothingBacked DEF Results
  <2>3. \A x \in Stages : Backed(x, stored.candidates[x].fp, Credited')
    BY <1>3, <1>4 DEF Results
  <2>4. stage = "review" => run.state \notin Loose
    BY DEF Loose, TerminalStates
  <2>5. DocsResult(stored, Credited')
    <3>1. CASE stage = "review"
      BY <1>3, <1>4, <2>4, <3>1 DEF DocsResult, Stages
    <3>2. CASE stage = "docs"
      BY <1>2, <1>3, <3>2, NothingBacked DEF DocsResult, Stages
    <3> QED BY <3>1, <3>2
  <2> QED BY <2>1, <2>2, <2>3, <2>5 DEF Results
<1>9. CASE run' = Apply(stored, outcome)
  BY <1>3, <1>5, <1>9, BackedMoves DEF CarriedGoal
<1>10. CASE run' = run
  BY <1>0, <1>10, StayCarries
<1> QED BY <1>1, <1>9, <1>10 DEF CommitsBoth, Commits

\* submit-findings, by the agent or by the configured reviewer.
LEMMA SubmitCarries ==
  ASSUME RecordInv, CarriedOut, cmd.op = "submit" => seen["review"] = cmd.at,
         \/ \E batch \in Reported("review") : SubmitReview(batch) \/ SubmitOutput(batch)
         \/ \E batch \in Reported("docs") : SubmitDocs(batch)
  PROVE  CarriedGoal
<1>1. cmd.op = "submit" => run.state = "REVIEW_AWAITING_FINDINGS"
  BY DEF RecordInv, Working
<1> QED BY <1>1, AcceptCarries DEF SubmitReview, SubmitOutput, SubmitDocs

\* respond changes no result.
LEMMA AnswerCarries ==
  ASSUME RecordInv, CarriedOut, NEW i, NEW answer,
         NEW r, Sound(r), r.state = run.state, r.candidates = run.candidates,
         r.evidence = run.evidence, r.stages = run.stages, Answer(i, answer, r)
  PROVE  CarriedGoal
<1> DEFINE f == [findings EXCEPT ![i] = answer]
           assessed == Assessed(r, Changed(Tree(wt)), f)
<1>1. /\ Credited' = Credited /\ seen' = seen /\ Legal(run.state, "RESPOND")
      /\ run' = run \/ run' = Apply(assessed, "RESPOND")
  BY DEF Answer, CommitsBoth, Commits, CanApply, history, Still, Credited
<1>2. CASE run' = run
  BY <1>1, <1>2, StayCarries
<1>3. CASE run' = Apply(assessed, "RESPOND")
  <2>1. /\ assessed \in Run /\ assessed.state = run.state /\ assessed.stages = run.stages
        /\ assessed.evidence = run.evidence /\ assessed.candidates = run.candidates
    BY RecordFacts, ChangedTyped, AssessedSound DEF Sound
  <2> HIDE DEF assessed
  <2>2. Carried(assessed, Credited, seen["docs"])
    BY <2>1, SameResults DEF CarriedOut
  <2> QED BY <1>1, <1>3, <2>1, <2>2, MoveCarries DEF CarriedGoal
<1> QED BY <1>1, <1>2, <1>3

\* respond: a dismissal, a fix in isolation, a fix in place.
LEMMA RespondCarries ==
  ASSUME RecordInv, CarriedOut, NEW i \in DOMAIN findings,
         \/ RespondClosed(i) \/ RespondFixedInPlace(i)
         \/ \E n \in DOMAIN wt : RespondFixedIsolated(i, n)
  PROVE  CarriedGoal
<1>0. /\ run \in Run /\ wt \in Commit /\ run.head \in Commit /\ Sound(run)
      /\ run.fixes \subseteq Commit \ {NoCommit} /\ IsFiniteSet(run.fixes)
      /\ DOMAIN wt = 1 .. Len(wt)
  BY RecordFacts, LenProperties DEF Run, Commit, Sound
<1>1. CASE RespondClosed(i)
  BY <1>0, <1>1, AnswerCarries DEF RespondClosed
<1>2. CASE RespondFixedInPlace(i)
  <2> DEFINE fixes == run.fixes \cup CommitsBetween(run.head, wt)
             r == [run EXCEPT !.fixes = fixes, !.head = wt, !.sourceHead = wt]
  <2>1. fixes \subseteq Commit \ {NoCommit} /\ IsFiniteSet(fixes)
    <3>1. /\ CommitsBetween(run.head, wt) \subseteq Commit \ {NoCommit}
          /\ IsFiniteSet(CommitsBetween(run.head, wt))
      BY <1>0, CommitsBetweenTyped
    <3> QED BY <1>0, <3>1, FS_Union
  <2>2. Answer(i, [findings[i] EXCEPT !.status = "fixed", !.fix = wt], r)
    BY <1>2 DEF RespondFixedInPlace
  <2> HIDE DEF fixes
  <2>3. /\ Sound(r) /\ r.state = run.state /\ r.stages = run.stages
        /\ r.evidence = run.evidence /\ r.candidates = run.candidates
    BY <1>0, <2>1 DEF Sound, Run
  <2> HIDE DEF r
  <2> QED BY <2>2, <2>3, AnswerCarries
<1>3. ASSUME NEW n \in DOMAIN wt, RespondFixedIsolated(i, n)
      PROVE  CarriedGoal
  <2> DEFINE c == SubSeq(wt, 1, n)
             fixes == run.fixes \cup {c}
             r == [run EXCEPT !.fixes = fixes]
  <2>1. fixes \subseteq Commit \ {NoCommit} /\ IsFiniteSet(fixes)
    <3>1. c \in Commit \ {NoCommit} /\ IsFiniteSet({c})
      BY <1>0, PrefixTyped, FS_Singleton
    <3> QED BY <1>0, <3>1, FS_Union
  <2>2. Answer(i, [findings[i] EXCEPT !.status = "fixed", !.fix = c], r)
    BY <1>3 DEF RespondFixedIsolated
  <2> HIDE DEF fixes
  <2>3. /\ Sound(r) /\ r.state = run.state /\ r.stages = run.stages
        /\ r.evidence = run.evidence /\ r.candidates = run.candidates
    BY <1>0, <2>1 DEF Sound, Run
  <2> HIDE DEF r, c
  <2> QED BY <2>2, <2>3, AnswerCarries
<1> QED BY <1>1, <1>2, <1>3

\* The configured reviewer: before its output is accepted no inputs are named.
LEMMA ReviewerCarries ==
  ASSUME RecordInv, CarriedOut, StartReviewer \/ RecoverReviewer \/ ReviewerEnds \/ RejectOutput
  PROVE  CarriedGoal
<1>0. /\ run \in Run /\ Credited' = Credited /\ seen'["docs"] = seen["docs"] /\ Results(run, Credited)
  BY CarriedFacts DEF StartReviewer, RecoverReviewer, ReviewerEnds, RejectOutput, RecordOnly, ExceptSeen,
                      Still, Credited
<1>1. CASE StartReviewer
  BY <1>0, <1>1, TransitCarries DEF StartReviewer
<1>2. CASE RecoverReviewer \/ ReviewerEnds \/ RejectOutput
  <2>1. run.state \in {"REVIEW_COMMAND_RUNNING", "REVIEW_AWAITING_FINDINGS"}
    BY <1>2 DEF RecoverReviewer, ReviewerEnds, RejectOutput, RecordInv, Working
  <2>2. run.state \notin Loose /\ run.stages["review"].fp = NoFp
    <3>1. run.state \in Unreviewed
      BY <2>1 DEF Unreviewed
    <3> QED BY <2>1, <3>1 DEF RecordInv, Fit, Uncovered, Loose, TerminalStates
  <2>3. \A b \in BOOLEAN : /\ Reviewed(b) \in Run /\ Reviewed(b).state = run.state
                           /\ Results(Reviewed(b), Credited) /\ DocsResult(Reviewed(b), Credited)
    <3> SUFFICES ASSUME NEW b \in BOOLEAN
                 PROVE  /\ Reviewed(b) \in Run /\ Reviewed(b).state = run.state
                        /\ Results(Reviewed(b), Credited) /\ DocsResult(Reviewed(b), Credited)
      OBVIOUS
    <3> DEFINE q == Reviewed(b)
    <3>1. /\ q \in Run /\ q.state = run.state /\ q.evidence = run.evidence
          /\ q.candidates = run.candidates /\ q.stages["review"].fp = NoFp
          /\ \A s \in Stages \ {"review"} : q.stages[s] = run.stages[s]
      BY <2>2, ReviewedFields DEF Sound
    <3> HIDE DEF q
    <3>2. Results(q, Credited)
      BY <1>0, <3>1, NothingBacked DEF Results
    <3>3. DocsResult(q, Credited)
      BY <2>2, <3>1 DEF DocsResult, CarriedOut, Carried, Stages
    <3> QED BY <3>1, <3>2, <3>3 DEF q
  <2>4. ASSUME NEW b \in BOOLEAN, NEW a, NEW next, Transits(Reviewed(b), a, next)
        PROVE  CarriedGoal
    BY <1>0, <2>3, <2>4, BackedMoves DEF CarriedGoal, Transits, Commits
  <2>5. CASE RejectOutput /\ run' = [run EXCEPT !.stale = TRUE]
    <3>1. /\ run'.state = run.state /\ run'.stages = run.stages /\ run'.evidence = run.evidence
          /\ run'.candidates = run.candidates
      BY <1>0, <2>5 DEF Run
    <3> QED BY <1>0, <3>1, StayCarries
  <2>6. CASE /\ RejectOutput
             /\ run' = Apply(Apply(Reviewed(TRUE), "RUN_REVIEW_COMMAND"), "REVIEW_COMMAND_FAILED")
    <3>1. run.state = "REVIEW_AWAITING_FINDINGS"
      BY <2>6 DEF RejectOutput, RecordInv, Working
    <3>2. NextState("REVIEW_AWAITING_FINDINGS", "RUN_REVIEW_COMMAND") \in States
      BY DEF NextState, Moves, States
    <3> QED BY <1>0, <2>3, <2>6, <3>1, <3>2, TwiceCarries DEF CarriedGoal
  <2> QED BY <1>2, <2>4, <2>5, <2>6 DEF RecoverReviewer, ReviewerEnds, RejectOutput, Commits
<1> QED BY <1>1, <1>2

\* The findings stages.
LEMMA FindingCarries ==
  ASSUME RecordInv, CarriedOut, cmd.op = "submit" => seen["review"] = cmd.at,
         FindingStep
  PROVE  CarriedGoal
<1>1. CASE \/ ReviewContext \/ DocsContext \/ Deliver \/ ReopenReview
          \/ SkipDocs \/ ReopenAfterFix \/ Verify
          \/ StartReviewer \/ RecoverReviewer \/ ReviewerEnds \/ RejectOutput
  BY <1>1, ContextCarries, VerifyCarries, SkipCarries, ReviewerCarries
<1>2. ASSUME NEW batch \in Reported("review"), SubmitReview(batch) \/ SubmitOutput(batch)
      PROVE  CarriedGoal
  BY <1>2, SubmitCarries
<1>3. ASSUME NEW batch \in Reported("docs"), SubmitDocs(batch)
      PROVE  CarriedGoal
  BY <1>3, SubmitCarries
<1>4. ASSUME NEW i \in DOMAIN findings, \/ RespondClosed(i) \/ RespondFixedInPlace(i)
                                        \/ \E n \in DOMAIN wt : RespondFixedIsolated(i, n)
      PROVE  CarriedGoal
  BY <1>4, RespondCarries
<1> QED BY <1>1, <1>2, <1>3, <1>4 DEF FindingStep

\* _recover_interrupted_stage and check_baseline: a failed stage names no inputs it was carried out on.
LEMMA FailureCarries ==
  ASSUME RecordInv, CarriedOut, NEW s \in ShellStages, RecoverStage(s) \/ BaselineFails(s)
  PROVE  CarriedGoal
<1>0. /\ run \in Run /\ Credited' = Credited /\ seen' = seen /\ Results(run, Credited) /\ s \in Stages
      /\ s # "docs" /\ run.stages \in [Stages -> StageRecord] /\ run.stages[s] \in StageRecord
      /\ wt \in Commit
  BY CarriedFacts DEF RecoverStage, BaselineFails, RecordOnly, Still, Credited, Stages, ShellStages, Run
<1>1. run.state \notin Loose
  <2>1. Forward(StageTable[s].failed)
    BY RecoverRecord, BaselineRecord
  <2>2. run.state # "DOCS_AWAITING_FINDINGS"
    BY <2>1, AwaitingRow, ShellRows DEF Forward, StageTable, ShellStages, ClosingActions
  <2>3. run.state \notin TerminalStates
    BY <2>1 DEF Forward, Legal, StageTable, ShellStages, ClosingActions, TerminalStates, Moves
  <2> QED BY <2>2, <2>3 DEF Loose
<1>2. DocsResult(run, Credited)
  BY <1>1 DEF CarriedOut, Carried
<1>3. ASSUME NEW q \in Run, q.evidence = run.evidence, q.candidates = run.candidates,
             q.stages[s].status = "red", \A x \in Stages \ {s} : q.stages[x] = run.stages[x],
             Transits(q, StageTable[s].failed, Idle)
      PROVE  CarriedGoal
  <2>1. Results(q, Credited)
    BY <1>0, <1>3 DEF Results, Done
  <2>2. DocsResult(q, Credited)
    BY <1>0, <1>2, <1>3 DEF DocsResult, Stages
  <2>3. run' = Apply(q, StageTable[s].failed)
    BY <1>3 DEF Transits, Commits
  <2> QED BY <1>0, <2>1, <2>2, <2>3, BackedMoves DEF CarriedGoal
<1>4. CASE RecoverStage(s)
  <2> DEFINE old == run.stages[s]
             attempts == old.attempts + 1
             record == [old EXCEPT !.status = "red", !.attempts = attempts, !.head = wt]
             stages == [run.stages EXCEPT ![s] = record]
             q == Failed(s)
  <2>1. q = [run EXCEPT !.stages = stages] /\ q \in Run
    BY <1>0, FailedSound DEF Failed, RecordInv, Sound
  <2> HIDE DEF attempts
  <2>2. record.status = "red"
    <3> HIDE DEF old
    <3>1. old \in StageRecord
      BY <1>0 DEF old
    <3> QED BY <3>1 DEF StageRecord
  <2> HIDE DEF record
  <2>3. stages[s] = record /\ \A x \in Stages \ {s} : stages[x] = run.stages[x]
    BY <1>0
  <2> HIDE DEF stages
  <2>4. q.evidence = run.evidence /\ q.candidates = run.candidates /\ q.stages = stages
    BY <1>0, <2>1 DEF Run
  <2>5. Transits(q, StageTable[s].failed, Idle)
    BY <1>4 DEF RecoverStage
  <2> HIDE DEF q
  <2> QED BY <1>3, <2>1, <2>2, <2>3, <2>4, <2>5
<1>5. CASE BaselineFails(s)
  <2> DEFINE attempts == run.stages[s].attempts + 1
             record == [NoRecord EXCEPT !.status = "red", !.head = wt, !.attempts = attempts]
             stages == [run.stages EXCEPT ![s] = record]
             q == [run EXCEPT !.stages = stages, !.setup = s]
  <2>0. attempts \in Nat
    BY <1>0 DEF StageRecord
  <2>2. Transits(q, StageTable[s].failed, Idle)
    BY <1>5 DEF BaselineFails
  <2> HIDE DEF attempts
  <2>1. record \in StageRecord /\ record.status = "red"
    BY <1>0, <2>0, NothingTyped DEF StageRecord, Status, NoRecord
  <2> HIDE DEF record
  <2>3. /\ stages \in [Stages -> StageRecord]
        /\ stages[s] = record /\ \A x \in Stages \ {s} : stages[x] = run.stages[x]
    BY <1>0, <2>1
  <2> HIDE DEF stages
  <2>4. s \in {"lint", "test"}
    BY DEF ShellStages
  <2>5. /\ q \in Run /\ q.evidence = run.evidence /\ q.candidates = run.candidates
        /\ q.stages = stages
    BY <1>0, <2>3, <2>4 DEF Run
  <2> HIDE DEF q
  <2> QED BY <1>3, <2>1, <2>2, <2>3, <2>5
<1> QED BY <1>4, <1>5

\* The end of run_stage: a result names its inputs only when they did not change,
\* and then the stage was carried out on them.
LEMMA EndStageCarries ==
  ASSUME RecordInv, CarriedOut, NEW s \in ShellStages, NEW passed \in BOOLEAN, EndStage(s, passed)
  PROVE  CarriedGoal
<1> DEFINE same == Tree(cmd.at) = Tree(wt)
           fp == [flag |-> IF same THEN "ok" ELSE "unavailable", tree |-> Tree(wt)]
           old == run.stages[s]
           status == IF passed THEN "green" ELSE "red"
           attempts == IF passed THEN old.attempts ELSE old.attempts + 1
           record == StageResult(s, passed, fp)
           a == IF passed THEN StageTable[s].passed ELSE StageTable[s].failed
           q == Put(run, s, record)
<1>0. /\ run \in Run /\ Sound(run) /\ seen' = seen /\ Results(run, Credited) /\ s \in Stages
      /\ s # "docs" /\ old \in StageRecord /\ wt \in Commit /\ Tree(wt) \in SUBSET Patch
      /\ Credited' = IF passed /\ same THEN Credited \cup {<<s, Tree(wt)>>} ELSE Credited
  BY CarriedFacts, TreeTyped DEF EndStage, ExceptRan, Still, Credited, Stages, ShellStages, Run
<1>1. run' = Apply(q, a) /\ Legal(run.state, a)
  BY EndStageRecord DEF EndStage, Transits, Commits, Forward
<1>2. run.state \notin Loose
  <2>2. run.state # "DOCS_AWAITING_FINDINGS"
    BY <1>1, AwaitingRow DEF StageTable, ShellStages, ClosingActions
  <2>3. run.state \notin TerminalStates
    BY <1>1 DEF Legal, StageTable, ShellStages, ClosingActions, TerminalStates, Moves
  <2> QED BY <2>2, <2>3 DEF Loose
<1>3. fp \in Fingerprint /\ status \in Status /\ attempts \in Nat
  BY <1>0 DEF Fingerprint, FpFlag, Status, StageRecord
<1>4. record = [old EXCEPT !.status = status, !.attempts = attempts, !.head = wt, !.fp = fp]
  BY DEF StageResult
<1>5. record \in StageRecord /\ record.status = status /\ record.fp = fp
  <2> HIDE DEF old, status, attempts, fp, record
  <2> QED BY <1>0, <1>3, <1>4 DEF StageRecord
<1> HIDE DEF record
<1>6. Done(record) => Backed(s, record.fp, Credited')
  BY <1>0, <1>5 DEF Done, Backed
<1>7. Results(run, Credited') /\ DocsResult(run, Credited')
  <2>1. Credited \subseteq Credited' /\ DocsResult(run, Credited)
    BY <1>0, <1>2 DEF CarriedOut, Carried
  <2> QED BY <1>0, <2>1, MoreBacked
<1>8. q \in Run
  BY <1>0, <1>5, PutSound DEF Sound
<1>9. Results(q, Credited') /\ DocsResult(q, Credited')
  BY <1>0, <1>6, <1>7, PutCarries
<1> HIDE DEF q
<1> QED BY <1>1, <1>8, <1>9, BackedMoves DEF CarriedGoal

\* _register_stage_fix_commits and the start of a stage.
LEMMA BeginCarries ==
  ASSUME RecordInv, CarriedOut, NEW s \in ShellStages, RepairRestart(s) \/ BeginStage(s)
  PROVE  CarriedGoal
<1>0. /\ run \in Run /\ Sound(run) /\ Credited' = Credited /\ seen' = seen /\ Results(run, Credited) /\ s \in Stages
      /\ s # "docs" /\ run.stages[s] \in StageRecord /\ wt \in Commit
      /\ run.stages \in [Stages -> StageRecord]
  BY CarriedFacts DEF RepairRestart, BeginStage, RecordOnly, Still, Credited, Stages, ShellStages, Run
<1>1. run.state \notin Loose
  BY DEF RepairRestart, BeginStage, StageTable, ShellStages, Loose, TerminalStates
<1>2. DocsResult(run, Credited)
  BY <1>1 DEF CarriedOut, Carried
<1>3. CASE RepairRestart(s)
  <2> DEFINE red == run.stages[s].head
             fixes == run.fixes \cup CommitsBetween(red, wt)
             head == IF InPlace THEN wt ELSE run.head
             source == IF InPlace THEN wt ELSE run.sourceHead
             record == [run.stages[s] EXCEPT !.head = NoCommit]
             stages == [run.stages EXCEPT ![s] = record]
             moved == [run EXCEPT !.fixes = fixes, !.head = head, !.sourceHead = source,
                                  !.coverage = NoCommit, !.stages = stages]
             reset == Discard(moved, (ShellStages \ {s}) \cup {"review"})
  <2>1. Sound(moved)
    <3>1. fixes \subseteq Commit \ {NoCommit} /\ IsFiniteSet(fixes)
      <4>1. red \in Commit
        BY <1>0 DEF StageRecord
      <4>2. /\ CommitsBetween(red, wt) \subseteq Commit \ {NoCommit}
            /\ IsFiniteSet(CommitsBetween(red, wt))
        BY <1>0, <4>1, CommitsBetweenTyped
      <4> QED BY <1>0, <4>2, FS_Union DEF Sound, Run
    <3>2. head \in Commit /\ source \in Commit
      BY <1>0 DEF Run
    <3>3. record \in StageRecord
      BY <1>0, NothingTyped DEF StageRecord
    <3>4. stages \in [Stages -> StageRecord]
      <4> HIDE DEF record
      <4> QED BY <1>0, <3>3
    <3> HIDE DEF fixes, head, source, stages
    <3> QED BY <1>0, <3>1, <3>2, <3>4, NothingTyped DEF Sound, Run
  <2>2. \A x \in Stages : /\ stages[x].status = run.stages[x].status
                          /\ stages[x].fp = run.stages[x].fp
    <3>1. record.status = run.stages[s].status /\ record.fp = run.stages[s].fp
      BY <1>0 DEF StageRecord
    <3> HIDE DEF record
    <3> QED BY <1>0, <3>1
  <2> HIDE DEF stages
  <2>3. /\ moved.evidence = run.evidence /\ moved.candidates = run.candidates
        /\ moved.stages = stages
    <3> HIDE DEF head, source, fixes
    <3> QED BY <1>0 DEF Run
  <2>4. run' = Apply(reset, StageTable[s].restart)
    BY <1>3 DEF RepairRestart, Transits, Commits, stages
  <2> HIDE DEF moved
  <2>5. Results(moved, Credited) /\ DocsResult(moved, Credited)
    BY <1>0, <1>2, <2>2, <2>3, SameResults
  <2>6. Results(reset, Credited) /\ DocsResult(reset, Credited) /\ reset \in Run
    BY <2>1, <2>5, DiscardCarries, DiscardSound DEF Sound
  <2> HIDE DEF reset
  <2> QED BY <1>0, <2>4, <2>6, BackedMoves DEF CarriedGoal
<1>4. CASE BeginStage(s)
  <2> DEFINE outdated == run.stages[s].head \notin {NoCommit, wt}
             base == IF outdated THEN Discard(run, {s}) ELSE run
             q == [base EXCEPT !.setup = "none"]
             a == IF run.state = StageTable[s].red THEN StageTable[s].retry ELSE StageTable[s].begin
  <2>1. Sound(base) /\ Results(base, Credited) /\ DocsResult(base, Credited)
    BY <1>0, <1>2, DiscardSound, DiscardCarries
  <2>2. run' = Apply(q, a)
    BY <1>4 DEF BeginStage, Transits, Commits
  <2> HIDE DEF base, a
  <2>3. /\ q \in Run /\ q.stages = base.stages /\ q.evidence = base.evidence
        /\ q.candidates = base.candidates
    BY <2>1 DEF Sound, Run
  <2> HIDE DEF q
  <2>4. Results(q, Credited) /\ DocsResult(q, Credited)
    BY <2>1, <2>3 DEF Results, DocsResult
  <2> QED BY <1>0, <2>2, <2>3, <2>4, BackedMoves DEF CarriedGoal
<1> QED BY <1>3, <1>4

\* The shell stages.
LEMMA StageCarries ==
  ASSUME RecordInv, CarriedOut, StageStep
  PROVE  CarriedGoal
BY SkipCarries, FailureCarries, EndStageCarries, BeginCarries DEF StageStep

\* mergeback, begun or tried again: what is archived stays backed.
LEMMA BeginMergeCarries ==
  ASSUME RecordInv, CarriedOut, BeginMergeback \/ RetryMergeback
  PROVE  CarriedGoal
<1>0. /\ run \in Run /\ Sound(run) /\ Credited' = Credited /\ seen' = seen /\ Results(run, Credited)
      /\ {"TEST_GREEN", "MERGEBACK_CONFLICT"} \cap Loose = {}
  BY CarriedFacts DEF BeginMergeback, RetryMergeback, RecordOnly, Still, Credited, Loose, TerminalStates
<1>1. PICK retrying \in BOOLEAN, a \in {"BEGIN_MERGEBACK", "MERGEBACK_RETRY"} :
        /\ run.state \in {"TEST_GREEN", "MERGEBACK_CONFLICT"}
        /\ Transits(Attempted(retrying), a, Doing("merge", NoCommit))
  BY DEF BeginMergeback, RetryMergeback
<1> DEFINE b == Archive(run, findings)
           q == Attempted(retrying)
<1>2. Results(b, Credited) /\ DocsResult(b, Credited) /\ Sound(b)
  <2>1. DocsResult(run, Credited)
    BY <1>0, <1>1 DEF CarriedOut, Carried
  <2> QED BY <1>0, <2>1, ArchiveCarries, ArchiveSound, RecordFacts
<1>3. q = [b EXCEPT !.attempt = [source |-> src, validation |-> wt, retrying |-> retrying]]
  BY DEF Attempted
<1>4. q \in Run /\ run' = Apply(q, a)
  BY <1>1, AttemptedFits DEF Sound, Transits, Commits
<1> HIDE DEF b, q
<1>5. q.stages = b.stages /\ q.evidence = b.evidence /\ q.candidates = b.candidates
  BY <1>2, <1>3 DEF Sound, Run
<1>6. Results(q, Credited) /\ DocsResult(q, Credited)
  BY <1>2, <1>5 DEF Results, DocsResult
<1> QED BY <1>0, <1>4, <1>6, BackedMoves DEF CarriedGoal

\* mergeback after its first transaction, up to the attestation.
LEMMA MergeOnCarries ==
  ASSUME RecordInv, CarriedOut,
         \/ ResumeMergeback \/ SyncSource \/ PickFixes \/ Attest \/ ResetCheckout
  PROVE  CarriedGoal
<1>0. /\ run \in Run /\ Sound(run) /\ Credited' = Credited /\ seen' = seen /\ Results(run, Credited)
  BY CarriedFacts DEF ResumeMergeback, SyncSource, PickFixes, Attest, ResetCheckout,
                      RecordOnly, Still, history, Credited, ExceptCheckouts, history
<1>1. CASE run' = run
  BY <1>0, <1>1, StayCarries
<1>2. CASE Transits(run, "MERGEBACK_FAILED", Idle)
  BY <1>0, <1>2, TransitCarries
<1>3. CASE run' = [run EXCEPT !.stale = TRUE]
  <2>1. /\ run'.state = run.state /\ run'.stages = run.stages /\ run'.evidence = run.evidence
        /\ run'.candidates = run.candidates
    BY <1>0, <1>3 DEF Run
  <2> QED BY <1>0, <2>1, StayCarries
<1>4. CASE run' = Archive(run, findings)
  BY <1>0, <1>4, ArchiveCarries DEF CarriedOut, CarriedGoal
<1>5. CASE SyncSource \/ PickFixes
  BY <1>1, <1>2, <1>5 DEF SyncSource, PickFixes, MergeConflicts, Commits
<1> QED BY <1>1, <1>3, <1>4, <1>5 DEF ResumeMergeback, Attest, ResetCheckout, Commits

\* The transactions that end a mergeback.
LEMMA MergeEndCarries ==
  ASSUME RecordInv, CarriedOut, RecordMergeback \/ RecordReset
  PROVE  CarriedGoal
<1>0. /\ run \in Run /\ Sound(run) /\ Credited' = Credited /\ seen' = seen /\ Results(run, Credited)
      /\ cmd.at \in Commit
  BY CarriedFacts, RecordFacts DEF RecordMergeback, RecordReset, RecordOnly, Still, Credited
<1>1. CASE RecordMergeback
  <2> DEFINE r == [run EXCEPT !.head = cmd.at, !.sourceHead = cmd.at]
  <2>1. /\ r \in Run /\ r.state = run.state /\ r.stages = run.stages
        /\ r.evidence = run.evidence /\ r.candidates = run.candidates
    BY <1>0, HeadFits DEF Sound
  <2>2. Transits(r, "MERGEBACK_OK", Idle)
    BY <1>1 DEF RecordMergeback
  <2> HIDE DEF r
  <2> QED BY <1>0, <2>1, <2>2, TransitCarries
<1>2. CASE RecordReset
  <2> DEFINE taken == [run EXCEPT !.head = cmd.at, !.sourceHead = cmd.at,
                                  !.fixes = {}, !.coverage = NoCommit]
             r == Assessed(taken, Changed(Tree(cmd.at)), findings)
             d == Discard(r, {"review", "lint", "test"})
  <2>1. run' = Apply(d, "INVALIDATE_REVIEW")
    BY <1>2 DEF RecordReset, Transits, Commits
  <2>0. /\ Sound(taken) /\ taken.stages = run.stages /\ taken.evidence = run.evidence
        /\ taken.candidates = run.candidates
    BY <1>0, NothingTyped, FS_EmptySet DEF Sound, Run
  <2> HIDE DEF taken
  <2>2. /\ Sound(r) /\ r.stages = run.stages /\ r.evidence = run.evidence
        /\ r.candidates = run.candidates
    BY <1>0, <2>0, ChangedTyped, AssessedSound
  <2>3. DocsResult(run, Credited)
    <3>1. run.state = "MERGEBACK_PENDING"
      BY <1>2 DEF RecordReset, RecordInv, Working, Merging
    <3> QED BY <3>1 DEF CarriedOut, Carried, Loose, TerminalStates
  <2> HIDE DEF r
  <2>4. Results(r, Credited) /\ DocsResult(r, Credited)
    BY <1>0, <2>2, <2>3, SameResults
  <2>5. d \in Run /\ Results(d, Credited) /\ DocsResult(d, Credited)
    BY <2>2, <2>4, DiscardCarries, DiscardSound DEF Sound
  <2> HIDE DEF d
  <2> QED BY <1>0, <2>1, <2>5, BackedMoves DEF CarriedGoal
<1> QED BY <1>1, <1>2

\* gate, push, finish, and the runs that are closed.
LEMMA PublishCarries ==
  ASSUME RecordInv, CarriedOut, PublishStep
  PROVE  CarriedGoal
<1>0. /\ run \in Run /\ Credited' = Credited /\ seen' = seen /\ Results(run, Credited) /\ cmd.at \in Commit
      /\ run.token + 1 \in Nat
  <2>1. Credited' = Credited /\ seen' = seen
    BY DEF PublishStep, Gate, Push, RecordPush, Finish, Abort, Orphan, RecordOnly, Still, Credited, history
  <2>2. run \in Run /\ Results(run, Credited) /\ cmd.at \in Commit
    BY CarriedFacts, RecordFacts
  <2>3. run.token \in Nat
    BY <2>2 DEF Run
  <2> QED BY <2>1, <2>2, <2>3
<1>1. ASSUME NEW r, NEW a \in {"GATE", "PUSH", "FINISH", "ABORT", "ORPHAN"}, NEW next,
             Transits(r, a, next),
             r \in Run, r.state = run.state, r.stages = run.stages, r.evidence = run.evidence,
             r.candidates = run.candidates
      PROVE  CarriedGoal
  BY <1>0, <1>1, TransitCarries
<1>2. CASE Gate
  <2> DEFINE assessed == Assessed(run, Changed(Tree(run.head)), findings)
             r == [assessed EXCEPT !.token = @ + 1]
  <2>1. Transits(r, "GATE", Idle) \/ run' = r \/ run' = assessed
    BY <1>2 DEF Gate, Commits
  <2>2. /\ assessed \in Run /\ assessed.state = run.state /\ assessed.stages = run.stages
        /\ assessed.evidence = run.evidence /\ assessed.candidates = run.candidates
    <3>1. Sound(run) /\ run.head \in Commit
      BY CarriedFacts DEF Run
    <3> QED BY <3>1, ChangedTyped, AssessedSound DEF Sound
  <2> HIDE DEF assessed
  <2>3. /\ r \in Run /\ r.state = run.state /\ r.stages = run.stages
        /\ r.evidence = run.evidence /\ r.candidates = run.candidates
    BY <2>2 DEF Run
  <2> HIDE DEF r
  <2> QED BY <1>0, <1>1, <2>1, <2>2, <2>3, StayCarries
<1>3. ASSUME NEW confirm, Push(confirm)
      PROVE  CarriedGoal
  BY <1>0, <1>3, StayCarries DEF Push, Commits
<1>4. CASE RecordPush
  <2> DEFINE r == [run EXCEPT !.pushed = cmd.at]
  <2>1. /\ r \in Run /\ r.state = run.state /\ r.stages = run.stages
        /\ r.evidence = run.evidence /\ r.candidates = run.candidates
    BY <1>0 DEF Run
  <2>2. Transits(r, "PUSH", Idle)
    BY <1>4 DEF RecordPush
  <2> HIDE DEF r
  <2> QED BY <1>1, <2>1, <2>2
<1>5. CASE Finish \/ \E force \in BOOLEAN : Abort(force)
  <2> DEFINE r == [run EXCEPT !.released = TRUE]
  <2>1. /\ r \in Run /\ r.state = run.state /\ r.stages = run.stages
        /\ r.evidence = run.evidence /\ r.candidates = run.candidates
    BY <1>0 DEF Run
  <2>2. Transits(r, "FINISH", Idle) \/ Transits(r, "ABORT", Idle)
    BY <1>5 DEF Finish, Abort
  <2> HIDE DEF r
  <2> QED BY <1>1, <2>1, <2>2
<1>6. CASE Orphan
  <2>0. PICK b \in BOOLEAN :
          Transits([run EXCEPT !.orphaned = TRUE, !.released = b], "ORPHAN", Idle)
    BY <1>6 DEF Orphan
  <2> DEFINE r == [run EXCEPT !.orphaned = TRUE, !.released = b]
  <2>1. /\ r \in Run /\ r.state = run.state /\ r.stages = run.stages
        /\ r.evidence = run.evidence /\ r.candidates = run.candidates
    BY <1>0 DEF Run
  <2>2. Transits(r, "ORPHAN", Idle)
    BY <2>0
  <2> HIDE DEF r
  <2> QED BY <1>1, <2>1, <2>2
<1> QED BY <1>2, <1>3, <1>4, <1>5, <1>6 DEF PublishStep

-----------------------------------------------------------------------------
(* What an attestation vouches for. *)

\* The configured reviewer was given the commit that the command holds.
Reviewing == cmd.op \in {"reviewer", "submit"} => seen["review"] = cmd.at

\* The inductive invariant about what the attestation means.
ValidInv == PublishInv /\ CarriedOut /\ Reviewing /\ AttestedIsValidated

\* The results of the run are carried out, whatever step is taken.
LEMMA CarriedKept ==
  ASSUME ValidInv, [Next]_vars
  PROVE  CarriedGoal
<1>0. RecordInv /\ CarriedOut /\ (cmd.op = "submit" => seen["review"] = cmd.at)
  BY DEF ValidInv, PublishInv, Reviewing
<1>1. CASE UNCHANGED vars \/ World
  <2>1. run' = run /\ Credited' = Credited /\ seen' = seen
    BY <1>1 DEF vars, World, AgentCommits, HumanCommits, AgentResets, HumanResets, Outside,
                ChangesCleanliness, Dies, history, Credited
  <2> QED BY <1>0, <2>1, StayCarries
<1>2. CASE StartStep \/ Settle \/ StatusAdvance \/ RefuseStale \/ MergebackReopens
  BY <1>0, <1>2, StartCarries, SettleCarries
<1>3. CASE FindingStep
  BY <1>0, <1>3, FindingCarries
<1>4. CASE StageStep \/ PublishStep
  BY <1>0, <1>4, StageCarries, PublishCarries
<1>5. CASE MergeStep
  BY <1>0, <1>2, <1>5, BeginMergeCarries, MergeOnCarries, MergeEndCarries DEF MergeStep
<1> QED BY <1>1, <1>2, <1>3, <1>4, <1>5 DEF Next, Program

\* What the command in flight becomes, where no reviewer is about to run or to submit.
Unreviewing == \/ cmd'.op \notin {"reviewer", "submit"}
               \/ cmd' = cmd /\ seen' = seen

\* No step outside the configured reviewer puts its command in flight.
LEMMA OthersUnreviewing ==
  ASSUME [Next]_vars, ~StartReviewer, ~ReviewerEnds
  PROVE  Unreviewing
<1> DEFINE Other == StartOps \cup {"settle", "deliver", "submitted", "reopen", "resolved",
                                   "lint", "test", "skip_test", "advance", "merge", "pick",
                                   "attest", "noted", "reset", "resetting", "pushed"}
<1>0. /\ Idle.op \notin {"reviewer", "submit"}
      /\ \A op \in Other : \A c : Doing(op, c).op \notin {"reviewer", "submit"}
  BY DEF Idle, Doing, StartOps
<1>1. {"sync", "setup", "settle", "deliver", "submitted", "reopen", "resolved", "lint", "test",
       "skip_test", "advance", "merge", "pick", "attest", "noted", "reset", "resetting", "pushed"}
        \subseteq Other
  BY DEF StartOps
<1> HIDE DEF Other
<1> SUFFICES \/ cmd' = Idle \/ (\E op \in Other : \E c : cmd' = Doing(op, c))
             \/ (cmd' = cmd /\ seen' = seen)
  <2>1. ASSUME NEW op \in Other, NEW c, cmd' = Doing(op, c)
        PROVE  Unreviewing
    BY <1>0, <2>1 DEF Unreviewing
  <2> QED BY <1>0, <2>1 DEF Unreviewing
<1>2. CASE UNCHANGED vars \/ World
  BY <1>2 DEF vars, World, AgentCommits, HumanCommits, AgentResets, HumanResets, Outside,
              ChangesCleanliness, Dies, history
<1>3. CASE StartStep
  BY <1>1, <1>3, NextCommand DEF StartStep, CreateCheckout, Synchronize, Setup
<1>4. CASE Settle \/ StatusAdvance \/ RefuseStale \/ MergebackReopens
  BY <1>4, NextCommand DEF Settle, StatusAdvance, RefuseStale, MergebackReopens
<1>5. CASE \/ ReviewContext \/ DocsContext \/ Deliver \/ ReopenReview \/ SkipDocs
          \/ ReopenAfterFix \/ Verify \/ RecoverReviewer \/ RejectOutput
  BY <1>1, <1>5, NextCommand
     DEF ReviewContext, DocsContext, Deliver, ReopenReview, SkipDocs, ReopenAfterFix, Verify,
         RecoverReviewer, RejectOutput
<1>6. ASSUME NEW stage, NEW batch, Accept(stage, batch)
      PROVE  cmd' = Idle \/ \E op \in Other : \E c : cmd' = Doing(op, c)
  <2>1. cmd' = Idle \/ cmd' = Doing("submitted", NoCommit)
    BY <1>6, NextCommand DEF Accept
  <2> QED BY <1>1, <2>1
<1>7. ASSUME NEW i, NEW answer, NEW r, Answer(i, answer, r)
      PROVE  cmd' = Idle \/ \E op \in Other : \E c : cmd' = Doing(op, c)
  <2>1. cmd' = Idle \/ cmd' = Doing("reopen", NoCommit) \/ cmd' = Doing("resolved", NoCommit)
    BY <1>7, NextCommand DEF Answer
  <2> QED BY <1>1, <2>1
<1>8. ASSUME NEW stage \in {"review", "docs"}, NEW batch \in Reported(stage),
             SubmitReview(batch) \/ SubmitOutput(batch) \/ SubmitDocs(batch)
      PROVE  cmd' = Idle \/ \E op \in Other : \E c : cmd' = Doing(op, c)
  BY <1>6, <1>8 DEF SubmitReview, SubmitOutput, SubmitDocs
<1>9. ASSUME NEW i \in DOMAIN findings, \/ RespondClosed(i) \/ RespondFixedInPlace(i)
                                        \/ \E n \in DOMAIN wt : RespondFixedIsolated(i, n)
      PROVE  cmd' = Idle \/ \E op \in Other : \E c : cmd' = Doing(op, c)
  BY <1>7, <1>9 DEF RespondClosed, RespondFixedInPlace, RespondFixedIsolated
<1>10. CASE FindingStep
  BY <1>5, <1>8, <1>9, <1>10 DEF FindingStep
<1>11. CASE StageStep
  BY <1>1, <1>11, NextCommand
     DEF StageStep, SkipTest, RecoverStage, RepairRestart, BeginStage, BaselineFails, EndStage,
         ShellStages
<1>12. CASE MergeStep
  <2>1. \A c : \E op \in {"attest", "reset"} : Compared(c) = Doing(op, c)
    BY DEF Compared
  <2>2. CASE PickFixes
    <3>1. cmd' = Idle \/ \E c : cmd' = Compared(c)
      BY <2>2, NextCommand DEF PickFixes, MergeConflicts
    <3> QED BY <1>1, <2>1, <3>1
  <2>3. CASE \/ BeginMergeback \/ RetryMergeback \/ ResumeMergeback \/ SyncSource \/ Attest
            \/ RecordMergeback \/ ResetCheckout \/ RecordReset
    BY <1>1, <2>3, NextCommand
       DEF BeginMergeback, RetryMergeback, ResumeMergeback, SyncSource, MergeConflicts, Attest,
           RecordMergeback, ResetCheckout, RecordReset
  <2> QED BY <1>4, <1>12, <2>2, <2>3 DEF MergeStep
<1>13. CASE PublishStep
  BY <1>1, <1>13, NextCommand DEF PublishStep, Gate, Push, RecordPush, Finish, Abort, Orphan
<1> QED BY <1>2, <1>3, <1>4, <1>10, <1>11, <1>12, <1>13 DEF Next, Program

\* The commit that the reviewer was given and the one its submission names are one.
LEMMA ReviewingKept ==
  ASSUME RecordInv, Reviewing, [Next]_vars
  PROVE  Reviewing'
<1>0. wt \in Commit /\ seen \in [{"review", "docs"} -> Commit]
  BY DEF RecordInv, RunInv, TypeOK
<1>1. CASE StartReviewer
  <2>1. cmd' = Doing("reviewer", wt) /\ seen'["review"] = wt
    BY <1>0, <1>1, NextCommand DEF StartReviewer
  <2> QED BY <2>1 DEF Reviewing, Doing
<1>2. CASE ReviewerEnds
  <2>1. seen' = seen /\ (cmd' = Idle \/ cmd' = Doing("submit", cmd.at)) /\ cmd.op = "reviewer"
    BY <1>2, NextCommand DEF ReviewerEnds, RecordOnly
  <2> QED BY <2>1 DEF Reviewing, Doing, Idle
<1>3. CASE Unreviewing
  BY <1>3 DEF Unreviewing, Reviewing
<1> QED BY <1>1, <1>2, <1>3, OthersUnreviewing

\* Nothing is carried out, and no docs context recorded for a tree it did not read.
KeepsHistory == ran' = ran /\ torn' = torn

\* One stage is carried out, and the run goes on validating.
CarriesOut == /\ torn' = torn
              /\ run'.state \in Validating
              /\ \E result \in Stages \X SUBSET Patch : ran' = ran \cup {result}

\* A docs context is recorded for a tree that it did not read.
Tears == /\ ran' = ran
         /\ run'.state \in Validating
         /\ \E tree \in SUBSET Patch : torn' = torn \cup {tree}

\* context --section docs, as it ends.
LEMMA DeliverTears ==
  ASSUME RecordInv, Deliver
  PROVE  KeepsHistory \/ Tears
<1>1. run.state \in Validating /\ run \in Run /\ Tree(wt) \in SUBSET Patch
  BY RecordFacts, TreeTyped DEF Deliver, RecordInv, Working, Validating
<1>2. run'.state = run.state
  BY <1>1 DEF Deliver, Commits, Run
<1>3. ran' = ran /\ torn' \in {torn, torn \cup {Tree(wt)}}
  BY DEF Deliver
<1> QED BY <1>1, <1>2, <1>3 DEF KeepsHistory, Tears

\* A submission carries out the stage that it is for.
LEMMA SubmitCarriesOut ==
  ASSUME PublishInv,
         \/ \E batch \in Reported("review") : SubmitReview(batch) \/ SubmitOutput(batch)
         \/ \E batch \in Reported("docs") : SubmitDocs(batch)
  PROVE  CarriesOut
<1>1. run'.state \in Validating
  BY SubmitValidates DEF PublishInv
<1>2. seen \in [{"review", "docs"} -> Commit]
  BY DEF PublishInv, RecordInv, RunInv, TypeOK
<1>3. PICK stage \in {"review", "docs"} :
        torn' = torn /\ ran' = ran \cup {<<stage, Tree(seen[stage])>>}
  BY DEF SubmitReview, SubmitOutput, SubmitDocs, Accept, Still
<1>4. <<stage, Tree(seen[stage])>> \in Stages \X SUBSET Patch
  BY <1>2, TreeTyped DEF Stages
<1> QED BY <1>1, <1>3, <1>4 DEF CarriesOut

\* So does the end of a shell stage that passed on unchanged inputs.
LEMMA EndStageCarriesOut ==
  ASSUME RecordInv, NEW s \in ShellStages, NEW passed \in BOOLEAN, EndStage(s, passed)
  PROVE  KeepsHistory \/ CarriesOut
<1> DEFINE a == IF passed THEN StageTable[s].passed ELSE StageTable[s].failed
<1>1. torn' = torn /\ (ran' = ran \/ ran' = ran \cup {<<s, Tree(wt)>>})
  BY DEF EndStage, ExceptRan, Still
<1>2. <<s, Tree(wt)>> \in Stages \X SUBSET Patch
  BY RecordFacts, TreeTyped DEF Stages, ShellStages
<1>3. Forward(a)
  BY EndStageRecord
<1>4. a \notin {"MERGEBACK_OK", "GATE", "PUSH", "FINISH"} \cup ClosingActions
  BY DEF StageTable, ShellStages, ClosingActions
<1> HIDE DEF a
<1>5. run'.state \in Validating
  BY <1>3, <1>4, StaysValidating DEF Forward
<1> QED BY <1>1, <1>2, <1>5 DEF CarriesOut, KeepsHistory

\* No stage that was carried out is forgotten, and only Attest writes a note.
LEMMA HistoryGrows ==
  ASSUME PublishInv, [Next]_vars
  PROVE  (KeepsHistory \/ CarriesOut \/ Tears) /\ (Attest \/ note' = note)
<1>1. CASE UNCHANGED vars \/ World
  BY <1>1 DEF vars, World, AgentCommits, HumanCommits, AgentResets, HumanResets, Outside,
              ChangesCleanliness, Dies, history, KeepsHistory
<1>2. CASE StartStep \/ Settle \/ StatusAdvance \/ RefuseStale \/ MergebackReopens
  BY <1>2, StartIsQuiet
     DEF Quiet, StartStep, CreateCheckout, Synchronize, Setup, Settle, StatusAdvance, RefuseStale,
         MergebackReopens, RecordOnly, Still, history, ExceptCheckouts, KeepsHistory
<1>3. CASE FindingStep
  <2>1. note' = note
    BY <1>3, FindingIsQuiet DEF Quiet
  <2>2. CASE \/ ReviewContext \/ DocsContext \/ ReopenReview
            \/ SkipDocs \/ ReopenAfterFix \/ Verify
            \/ StartReviewer \/ RecoverReviewer \/ ReviewerEnds \/ RejectOutput
    BY <2>1, <2>2 DEF ReviewContext, DocsContext, ReopenReview, SkipDocs, ReopenAfterFix,
                      Verify, StartReviewer, RecoverReviewer, ReviewerEnds, RejectOutput,
                      RecordOnly, ExceptSeen, Still, KeepsHistory
  <2>6. CASE Deliver
    BY <2>1, <2>6, DeliverTears DEF PublishInv
  <2>3. ASSUME NEW i, NEW answer, NEW r, Answer(i, answer, r)
        PROVE  KeepsHistory
    BY <2>3 DEF Answer, history, KeepsHistory
  <2>4. ASSUME NEW i \in DOMAIN findings, \/ RespondClosed(i) \/ RespondFixedInPlace(i)
                                          \/ \E n \in DOMAIN wt : RespondFixedIsolated(i, n)
        PROVE  KeepsHistory
    BY <2>3, <2>4 DEF RespondClosed, RespondFixedInPlace, RespondFixedIsolated
  <2>5. CASE \/ \E batch \in Reported("review") : SubmitReview(batch) \/ SubmitOutput(batch)
            \/ \E batch \in Reported("docs") : SubmitDocs(batch)
    BY <2>1, <2>5, SubmitCarriesOut
  <2> QED BY <1>3, <2>1, <2>2, <2>4, <2>5, <2>6 DEF FindingStep
<1>4. CASE StageStep
  <2>1. note' = note /\ RecordInv
    BY <1>4, StageIsQuiet DEF Quiet, PublishInv
  <2>2. ASSUME NEW s \in ShellStages, NEW passed \in BOOLEAN, EndStage(s, passed)
        PROVE  KeepsHistory \/ CarriesOut
    BY <2>1, <2>2, EndStageCarriesOut
  <2>3. CASE SkipTest \/ \E s \in ShellStages : RecoverStage(s) \/ RepairRestart(s) \/ BeginStage(s)
                                                \/ BaselineFails(s)
    BY <2>1, <2>3 DEF SkipTest, RecoverStage, RepairRestart, BeginStage, BaselineFails, RecordOnly,
                      Still, KeepsHistory
  <2> QED BY <1>4, <2>1, <2>2, <2>3 DEF StageStep
<1>5. CASE MergeStep
  BY <1>2, <1>5, MergeIsQuiet
     DEF Quiet, MergeStep, BeginMergeback, RetryMergeback, ResumeMergeback, SyncSource, PickFixes,
         Attest, RecordMergeback, ResetCheckout, RecordReset, RecordOnly, Still, ExceptCheckouts,
         history, KeepsHistory
<1>6. CASE PublishStep
  BY <1>6 DEF PublishStep, Gate, Push, RecordPush, Finish, Abort, Orphan, RecordOnly, Still, history,
              KeepsHistory
<1> QED BY <1>1, <1>2, <1>3, <1>4, <1>5, <1>6 DEF Next, Program

\* attestation.build and write: what the new note vouches for was carried out.
LEMMA AttestIsValid ==
  ASSUME ValidInv, Attest, note' # note
  PROVE  /\ note'.sha = cmd.at
         /\ \A s \in Stages :
              /\ note'.fps[s].tree = Tree(cmd.at)
              /\ note'.fps[s].flag = "ok" => Validated(s, Tree(cmd.at))
<1>1. /\ Attestable(run, findings, cmd.at) /\ note'.sha = cmd.at
      /\ note'.fps = [s \in Stages |-> run.evidence[s].fp]
  BY DEF Attest
<1>2. run.state \notin Loose
  BY DEF ValidInv, PublishInv, RecordInv, Working, Merging, Attest, Loose, TerminalStates
<1>3. Results(run, Credited) /\ DocsResult(run, Credited)
  BY <1>2 DEF ValidInv, CarriedOut, Carried
<1>4. ASSUME NEW s \in Stages
      PROVE  /\ run.evidence[s].fp.tree = Tree(cmd.at) /\ Backed(s, run.evidence[s].fp, Credited)
             /\ note'.fps[s] = run.evidence[s].fp
  <2>1. run.evidence[s].fp.tree = Tree(cmd.at)
    BY <1>1 DEF Attestable
  <2>2. Backed(s, run.evidence[s].fp, Credited)
    BY <1>3 DEF Results, DocsResult
  <2> QED BY <1>1, <2>1, <2>2
<1> QED BY <1>1, <1>4 DEF Backed, Validated, Credited

\* The attestation keeps its meaning.
LEMMA AttestedKept ==
  ASSUME ValidInv, [Next]_vars
  PROVE  AttestedIsValidated'
<1>1. ran \subseteq ran' /\ torn \subseteq torn' /\ (Attest \/ note' = note)
  BY HistoryGrows DEF ValidInv, CarriesOut, KeepsHistory, Tears
<1>2. CASE note' = note
  BY <1>1, <1>2 DEF ValidInv, AttestedIsValidated, Validated
<1>3. CASE Attest /\ note' # note
  <2>1. /\ note'.sha = cmd.at
        /\ \A s \in Stages :
             /\ note'.fps[s].tree = Tree(cmd.at)
             /\ note'.fps[s].flag = "ok" => Validated(s, Tree(cmd.at))
    BY <1>3, AttestIsValid
  <2> QED BY <1>1, <2>1 DEF AttestedIsValidated, Validated
<1> QED BY <1>1, <1>2, <1>3

\* A run begins with nothing carried out and nothing to back.
LEMMA ValidInit == Init => ValidInv
<1> SUFFICES ASSUME Init PROVE ValidInv
  OBVIOUS
<1>1. /\ cmd = Doing("start", NoCommit) /\ note = NoNote /\ run = NewRun(src)
  BY DEF Init
<1>2. PublishInv
  BY PublishInit
<1>3. \A s \in Stages : /\ run.candidates[s] = NoEvidence /\ run.stages[s] = NoRecord
                        /\ run.evidence[s] = NoEvidence
  BY <1>1 DEF NewRun
<1>4. CarriedOut
  <2>1. \A s \in Stages : /\ Backed(s, run.candidates[s].fp, Credited)
                          /\ Backed(s, run.stages[s].fp, Credited)
                          /\ Backed(s, run.evidence[s].fp, Credited)
    BY <1>3, NothingBacked
  <2>2. run.state = "CREATED"
    BY <1>1 DEF NewRun
  <2> QED BY <2>1, <2>2 DEF CarriedOut, Carried, Results, DocsResult, Stages
<1>5. Reviewing /\ AttestedIsValidated
  BY <1>1 DEF Reviewing, AttestedIsValidated, Doing
<1> QED BY <1>2, <1>4, <1>5 DEF ValidInv

\* The invariant is inductive.
LEMMA ValidNext == ValidInv /\ [Next]_vars => ValidInv'
<1> SUFFICES ASSUME ValidInv, [Next]_vars PROVE ValidInv'
  OBVIOUS
<1>1. PublishInv'
  BY PublishNext DEF ValidInv
<1>2. CarriedGoal
  BY CarriedKept
<1>3. Reviewing'
  BY ReviewingKept DEF ValidInv, PublishInv
<1>4. AttestedIsValidated'
  BY AttestedKept
<1> QED BY <1>1, <1>2, <1>3, <1>4 DEF ValidInv, CarriedGoal, CarriedOut

\* The invariant about what the attestation means holds of every run.
THEOREM ValidInvariant == Spec => []ValidInv
<1>1. ValidInv /\ [Next]_vars => ValidInv'
  BY ValidNext
<1> QED BY <1>1, ValidInit, PTL DEF Spec

\* An attestation vouches only for what was carried out on its tree, was excused,
\* or is the documentation of a tree whose context had read another.
THEOREM AttestationIsValid == Spec => []AttestedIsValidated
<1>1. ValidInv => AttestedIsValidated
  BY DEF ValidInv
<1> QED BY <1>1, ValidInvariant, PTL

-----------------------------------------------------------------------------
(* The promise of a run. *)

\* A step that validates, with neither note changed, is a step of the promise:
\* nothing, one stage carried out, or the end of the run.
LEMMA ValidatingPromises ==
  ASSUME PublishInv, run.state \in Validating, note' = note, remote' = remote,
         KeepsHistory \/ CarriesOut \/ Tears
  PROVE  [Promise!Next]_(Promise!promised)
<1>1. remote.sha = NoCommit /\ run.state \notin TerminalStates /\ remote'.sha = NoCommit
  BY DEF PublishInv, PublishedStands, Validating, Verified
<1>2. CASE CarriesOut
  <2>1. PICK result \in Stages \X SUBSET Patch : ran' = ran \cup {result}
    BY <1>2 DEF CarriesOut
  <2>5. torn' = torn
    BY <1>2 DEF CarriesOut
  <2>2. run'.state \notin TerminalStates
    BY <1>2 DEF CarriesOut, Validating
  <2>3. result \in ran'
    BY <2>1
  <2>4. Promise!Validate
    BY <1>1, <2>1, <2>2, <2>3, <2>5 DEF Promise!Validate
  <2> QED BY <2>4 DEF Promise!Next
<1>3. CASE KeepsHistory /\ run'.state \in TerminalStates
  <2>1. Promise!Close
    BY <1>1, <1>3 DEF Promise!Close, KeepsHistory
  <2> QED BY <2>1 DEF Promise!Next
<1>4. CASE KeepsHistory /\ run'.state \notin TerminalStates
  BY <1>1, <1>4 DEF Promise!promised, KeepsHistory
<1>5. CASE Tears
  <2>1. PICK tree \in SUBSET Patch : torn' = torn \cup {tree}
    BY <1>5 DEF Tears
  <2>2. run'.state \notin TerminalStates /\ ran' = ran
    BY <1>5 DEF Tears, Validating
  <2>3. tree \in torn'
    BY <2>1
  <2>4. Promise!Tear
    BY <1>1, <2>1, <2>2, <2>3 DEF Promise!Tear
  <2> QED BY <2>4 DEF Promise!Next
<1> QED BY <1>2, <1>3, <1>4, <1>5

\* A step that keeps the history, the notes and the record's state promises nothing.
LEMMA SamePromises ==
  ASSUME KeepsHistory, note' = note, remote' = remote,
         run'.state \in TerminalStates <=> run.state \in TerminalStates
  PROVE  [Promise!Next]_(Promise!promised)
BY DEF Promise!promised, KeepsHistory

\* attestation.build and write.
LEMMA AttestPromises ==
  ASSUME ValidInv, Attest
  PROVE  [Promise!Next]_(Promise!promised)
<1>1. /\ run' = run /\ KeepsHistory /\ remote' = remote /\ run.state = "MERGEBACK_PENDING"
      /\ cmd.at \in Commit
  BY RecordFacts DEF Attest, Commits, history, KeepsHistory, ValidInv, PublishInv, RecordInv, Working, Merging
<1>2. remote.sha = NoCommit /\ run.state \notin TerminalStates
  BY <1>1 DEF ValidInv, PublishInv, PublishedStands, TerminalStates
<1>3. CASE note' = note
  BY <1>1, <1>3, SamePromises
<1>4. CASE note' # note
  <2>1. /\ note'.sha = cmd.at
        /\ \A s \in Stages : note'.fps[s].flag = "ok" => Validated(s, Tree(cmd.at))
    BY <1>4, AttestIsValid
  <2>2. Promise!Attest
    BY <1>1, <1>2, <2>1 DEF Promise!Attest, Validated, KeepsHistory
  <2> QED BY <2>2 DEF Promise!Next
<1> QED BY <1>3, <1>4

\* The last transaction of mergeback, and the way out.
LEMMA PublishPromises ==
  ASSUME PublishInv, RecordMergeback \/ PublishStep
  PROVE  [Promise!Next]_(Promise!promised)
<1>0. /\ RecordInv /\ KeepsHistory /\ note' = note
      /\ {"VERIFIED", "AWAITING_PUSH_CONFIRM", "PUSHED", "MERGEBACK_PENDING"}
           \cap TerminalStates = {}
      /\ {"ABORTED", "ORPHANED", "DONE"} = TerminalStates
  BY DEF PublishInv, RecordMergeback, PublishStep, Gate, Push, RecordPush, Finish, Abort, Orphan,
         RecordOnly, Still, history, KeepsHistory, TerminalStates
<1>1. CASE RecordMergeback \/ Gate \/ RecordPush
  <2>3. Gate => run.state \in {"VERIFIED", "AWAITING_PUSH_CONFIRM"}
    BY DEF Gate
  <2>1. run'.state \in {"VERIFIED", "AWAITING_PUSH_CONFIRM", "PUSHED"}
    BY <1>0, <1>1, <2>3, RecordMergebackRecord, GateRecord, RecordPushRecord
  <2>2. /\ remote' = remote
        /\ run.state \in {"MERGEBACK_PENDING", "VERIFIED", "AWAITING_PUSH_CONFIRM"}
    BY <1>0, <1>1 DEF RecordMergeback, Gate, RecordPush, RecordOnly, Still, RecordInv, Working, Merging
  <2> QED BY <1>0, <2>1, <2>2, SamePromises
<1>2. ASSUME NEW confirm, Push(confirm)
      PROVE  [Promise!Next]_(Promise!promised)
  <2>1. /\ run' = run /\ remote' = [sha |-> run.head, note |-> note] /\ note.sha = run.head
        /\ run.state \notin TerminalStates /\ run.head # NoCommit
    BY <1>0, <1>2, RecordFacts DEF Push, Commits
  <2>2. CASE remote.sha = NoCommit
    <3>1. Promise!Publish
      BY <1>0, <2>1, <2>2 DEF Promise!Publish, KeepsHistory
    <3> QED BY <3>1 DEF Promise!Next
  <2>3. CASE remote.sha # NoCommit
    <3>1. remote'.sha = remote.sha
      BY <2>1, <2>3 DEF PublishInv, PublishedStands
    <3> QED BY <1>0, <2>1, <2>3, <3>1 DEF Promise!promised, KeepsHistory
  <2> QED BY <2>2, <2>3
<1>3. CASE Finish \/ Orphan \/ \E force \in BOOLEAN : Abort(force)
  <2>1. run.state \notin TerminalStates /\ run'.state \in TerminalStates /\ remote' = remote
    <3>1. remote' = remote
      BY <1>3 DEF Finish, Orphan, Abort, RecordOnly, Still
    <3>2. CASE Finish
      BY <1>0, <3>1, <3>2, FinishRecord DEF Finish
    <3>3. CASE Orphan \/ \E force \in BOOLEAN : Abort(force)
      BY <1>0, <3>1, <3>3, CloseRecord
    <3> QED BY <1>3, <3>2, <3>3
  <2>2. Promise!Close
    BY <1>0, <2>1 DEF Promise!Close, KeepsHistory
  <2> QED BY <2>2 DEF Promise!Next
<1> QED BY <1>1, <1>2, <1>3 DEF PublishStep

\* Every step of a run is a step of its promise, or none.
LEMMA StepIsPromised ==
  ASSUME ValidInv, [Next]_vars
  PROVE  [Promise!Next]_(Promise!promised)
<1>0. /\ PublishInv /\ RecordInv /\ NothingBlocksPast /\ run \in Run
      /\ KeepsHistory \/ CarriesOut \/ Tears
  BY RecordFacts, HistoryGrows DEF ValidInv, PublishInv
<1>1. CASE UNCHANGED vars \/ World
  <2>1. run' = run /\ KeepsHistory /\ note' = note /\ remote' = remote
    BY <1>1 DEF vars, World, AgentCommits, HumanCommits, AgentResets, HumanResets, Outside,
                ChangesCleanliness, Dies, history, KeepsHistory
  <2> QED BY <2>1, SamePromises
<1>2. CASE StartStep \/ Settle \/ StatusAdvance \/ MergebackReopens
  <2>1. Validates /\ Quiet
    BY <1>0, <1>2, StartIsQuiet, StartValidates, AdvanceValidates
  <2> QED BY <1>0, <2>1, ValidatingPromises DEF Validates, Quiet
<1>3. CASE RefuseStale
  <2>1. /\ run' = [run EXCEPT !.stale = TRUE] /\ KeepsHistory /\ note' = note /\ remote' = remote
    BY <1>3 DEF RefuseStale, RecordOnly, Still, Commits, KeepsHistory
  <2>2. run'.state = run.state
    BY <1>0, <2>1 DEF Run
  <2> QED BY <2>1, <2>2, SamePromises
<1>4. CASE FindingStep
  <2>1. Validates /\ Quiet
    BY <1>0, <1>4, FindingIsQuiet, FindingValidates
  <2> QED BY <1>0, <2>1, ValidatingPromises DEF Validates, Quiet
<1>5. CASE StageStep
  <2>1. Validates /\ Quiet
    BY <1>0, <1>5, StageIsQuiet, ShellValidates, VerifyValidates DEF StageStep
  <2> QED BY <1>0, <2>1, ValidatingPromises DEF Validates, Quiet
<1>6. CASE \/ BeginMergeback \/ RetryMergeback \/ ResumeMergeback
          \/ SyncSource \/ PickFixes \/ ResetCheckout \/ RecordReset
  <2>1. Validates /\ Quiet
    BY <1>0, <1>6, MergeValidates, MergeIsQuiet
  <2> QED BY <1>0, <2>1, ValidatingPromises DEF Validates, Quiet
<1>7. CASE Attest \/ RecordMergeback \/ PublishStep
  BY <1>0, <1>7, AttestPromises, PublishPromises
<1> QED BY <1>1, <1>2, <1>3, <1>4, <1>5, <1>6, <1>7 DEF Next, Program, MergeStep

\* Every run keeps the promise of ValidatedPublish: its beginning is one of the
\* promise, and each of its steps one of the promise or none.
THEOREM PromiseIsKept == Spec => KeepsPromise
<1>1. Init => Promise!Init
  BY DEF Init, Promise!Init, NoNote, NoFp, NewRun, TerminalStates
<1>2. ValidInv /\ [Next]_vars => [Promise!Next]_(Promise!promised)
  BY StepIsPromised
<1>3. Spec => []ValidInv
  BY ValidInvariant
<1> QED BY <1>1, <1>2, <1>3, PTL DEF Spec, KeepsPromise, Promise!Spec

-----------------------------------------------------------------------------
(* The attempts of the shell stages.  Discarding, archiving and importing      *)
(* rewrite the records that count them.                                        *)

\* Two records that count the same attempts, and a step that forgets none.
SameTries(q, r) == \A s \in ShellStages : q.stages[s].attempts = r.stages[s].attempts
Remembers == \A s \in ShellStages : \/ run'.stages[s].attempts >= run.stages[s].attempts
                                    \/ run'.stages[s].status = "skipped"

\* A record with the same attempts forgets none.
LEMMA SameRemembers ==
  ASSUME RecordInv, SameTries(run', run)
  PROVE  Remembers
<1>1. \A s \in ShellStages : run.stages[s].attempts \in Nat
  BY RecordFacts DEF StageRecord, ShellStages, Stages
<1> QED BY <1>1 DEF SameTries, Remembers

\* A move changes no stage record, so the attempts are those before it.
LEMMA MoveTries ==
  ASSUME NEW r, r \in Run, NEW q, NEW a, q = Apply(r, a), NEW o, SameTries(r, o)
  PROVE  SameTries(q, o)
BY ApplyFields DEF SameTries

\* Discarding results keeps their attempts.
LEMMA DiscardTries ==
  ASSUME NEW r, Sound(r), NEW S
  PROVE  SameTries(Discard(r, S), r)
BY DiscardFields DEF SameTries, ShellStages, Stages

\* reopen_if_stale keeps them.
LEMMA ReopenTries ==
  ASSUME NEW r, Sound(r)
  PROVE  SameTries(Reopen(r), r)
<1> DEFINE d == Discard(r, Stages)
           e == [d EXCEPT !.coverage = NoCommit]
<1>1. Sound(d) /\ SameTries(d, r)
  BY DiscardSound, DiscardTries
<1> HIDE DEF d
<1>2. Sound(e) /\ e.stages = d.stages
  BY <1>1, CoverageSound, CoverageFields, NothingTyped
<1>3. Reopen(r) = Apply(e, "INVALIDATE_REVIEW")
  BY DEF Reopen, e, d
<1> HIDE DEF e
<1> QED BY <1>1, <1>2, <1>3, MoveTries DEF SameTries, Sound

\* reopen_changed_inputs keeps them.
LEMMA ReopenChangedTries ==
  ASSUME NEW r, Sound(r), r.state \in GreenStates, NEW f \in Seq(Finding)
  PROVE  SameTries(ReopenChanged(r, f), r)
<1> DEFINE a == Archive(r, f)
           candidates == [s \in Stages |->
                       IF Held(a.evidence[s]) THEN a.evidence[s] ELSE a.candidates[s]]
           c == [a EXCEPT !.candidates = candidates]
           b == Discard(c, Stages)
           d == [b EXCEPT !.coverage = NoCommit]
<1>1. Sound(a) /\ a.stages = r.stages
  BY ArchiveSound, ArchiveFields
<1>2. candidates \in [Stages -> Evidence]
  BY <1>1 DEF Sound, Run
<1> HIDE DEF a, candidates
<1>3. Sound(c) /\ c.stages = a.stages
  BY <1>1, <1>2 DEF Sound, Run
<1> HIDE DEF c
<1>4. Sound(b) /\ SameTries(b, c)
  BY <1>3, DiscardSound, DiscardTries
<1> HIDE DEF b
<1>5. Sound(d) /\ d.stages = b.stages
  BY <1>4, CoverageSound, CoverageFields, NothingTyped
<1>6. ReopenChanged(r, f) = Apply(d, "INVALIDATE_REVIEW")
  BY DEF ReopenChanged, d, b, c, candidates, a
<1> HIDE DEF d
<1>7. SameTries(d, r)
  BY <1>1, <1>3, <1>4, <1>5 DEF SameTries
<1> QED BY <1>5, <1>6, <1>7, MoveTries DEF Sound

\* Only the records of review and documentation are ever imported.
LEMMA InstalledTries ==
  ASSUME NEW r, Sound(r), NEW f, NEW s \in {"review", "docs"}, NEW c \in Commit
  PROVE  SameTries(Installed(r, f, s, c), r)
BY InstalledFields DEF SameTries, ShellStages, Stages

\* evidence.advance keeps them.
LEMMA AdvanceTries ==
  ASSUME NEW r, Sound(r), NEW f \in Seq(Finding), NEW c \in Commit
  PROVE  SameTries(Advance(r, f, c), r)
<1> DEFINE opened == IF InputsChanged(r, c) THEN ReopenChanged(r, f) ELSE r
           reviewed == ImportReview(opened, f, c)
           imported == ImportDocs(reviewed, f, c)
<1>1. Sound(opened) /\ SameTries(opened, r)
  BY ReopenChangedSound, ReopenChangedTries DEF InputsChanged, SameTries
<1> HIDE DEF opened
<1>2. CASE LimitReached(opened)
  BY <1>1, <1>2 DEF Advance, opened
<1>3. CASE ~LimitReached(opened)
  <2>1. Sound(reviewed) /\ SameTries(reviewed, opened)
    <3>1. Sound(reviewed)
      BY <1>1, <1>3, ImportReviewSound
    <3>2. CASE opened.state = "REVIEW_AWAITING_FINDINGS" /\ Reusable(opened, f, "review", c)
      BY <1>1, <3>1, <3>2, ImportReviewFields, InstalledTries DEF SameTries
    <3>3. CASE ~(opened.state = "REVIEW_AWAITING_FINDINGS" /\ Reusable(opened, f, "review", c))
      BY <3>1, <3>3 DEF ImportReview, SameTries
    <3> QED BY <3>2, <3>3
  <2> HIDE DEF reviewed
  <2>2. CASE Uninstallable(reviewed, f, c)
    <3>1. Advance(r, f, c) = reviewed
      BY <1>3, <2>2 DEF Advance, opened, reviewed
    <3> QED BY <1>1, <2>1, <3>1 DEF SameTries
  <2>3. CASE ~Uninstallable(reviewed, f, c)
    <3>1. Advance(r, f, c) = Archive(imported, f)
      BY <1>3, <2>3 DEF Advance, opened, reviewed
    <3>2. Sound(imported) /\ SameTries(imported, reviewed)
      <4>1. CASE DocsReady(reviewed, f, c)
        <5>1. SameTries(Installed(reviewed, f, "docs", c), reviewed)
          BY <2>1, InstalledTries
        <5>2. Sound(imported)
          BY <2>1, <2>3, ImportDocsSound
        <5>3. imported.stages = Installed(reviewed, f, "docs", c).stages
          BY <2>1, <2>3, <4>1, ImportDocsFields
        <5> QED BY <5>1, <5>2, <5>3 DEF SameTries
      <4>2. CASE ~DocsReady(reviewed, f, c)
        BY <2>1, <4>2 DEF ImportDocs, SameTries
      <4> QED BY <4>1, <4>2
    <3> HIDE DEF imported
    <3> QED BY <1>1, <2>1, <3>1, <3>2, ArchiveFields DEF SameTries
  <2> QED BY <2>2, <2>3
<1> QED BY <1>2, <1>3

\* A transaction that persists a record with the same attempts, moved or not.
LEMMA StoredRemembers ==
  ASSUME RecordInv, NEW r, r \in Run, SameTries(r, run), NEW a, NEW next,
         Transits(r, a, next) \/ Commits(Apply(r, a), next) \/ Commits(r, next)
  PROVE  Remembers
<1>1. SameTries(run', run)
  BY MoveTries DEF Transits, Commits
<1> QED BY <1>1, SameRemembers

\* A step that leaves the stage records alone.
LEMMA StagesRemember ==
  ASSUME RecordInv, run'.stages = run.stages
  PROVE  Remembers
BY SameRemembers DEF SameTries

\* start works before any stage was tried, and changes none.
LEMMA StartRemembers ==
  ASSUME RecordInv, StartStep
  PROVE  Remembers
<1>0. run \in Run
  BY RecordFacts
<1>1. CASE CreateCheckout
  <2>1. \/ run' = Apply(Apply(run, "CREATE_WORKTREE"), "BEGIN_SYNC")
        \/ \E x \in BOOLEAN : run' = [Apply(run, "ABORT") EXCEPT !.released = x]
    BY <1>1 DEF CreateCheckout, Commits
  <2>2. run'.stages = run.stages
    BY <1>0, <2>1 DEF Apply, Run
  <2> QED BY <2>2, StagesRemember
<1>2. CASE Synchronize
  <2>1. \/ run' = Apply(run, "SYNC_FAILED")
        \/ run' = [Apply(run, "ABORT") EXCEPT !.released = TRUE]
        \/ \E c, d, x : run' = [run EXCEPT !.head = c, !.sourceHead = d, !.changed = x]
    BY <1>2 DEF Synchronize, Transits, Commits
  <2>2. run'.stages = run.stages
    BY <1>0, <2>1 DEF Apply, Run
  <2> QED BY <2>2, StagesRemember
<1>3. CASE Setup
  <2> DEFINE assessed == Assessed(run, run.changed, <<>>)
  <2>1. \/ run' = Apply(Apply(assessed, "SYNC_PASSED"), "BEGIN_REVIEW")
        \/ run' = Apply([assessed EXCEPT !.setup = "initial"], "SETUP_FAILED")
    BY <1>3 DEF Setup, Transits, Commits
  <2>3. assessed \in Run /\ assessed.stages = run.stages
    <3>1. Sound(run) /\ run.changed \in SUBSET Patch
      BY RecordFacts DEF Run
    <3> QED BY <3>1, AssessedSound DEF Sound
  <2> HIDE DEF assessed
  <2>2. run'.stages = run.stages
    BY <2>1, <2>3 DEF Apply, Run
  <2> QED BY <2>2, StagesRemember
<1> QED BY <1>1, <1>2, <1>3 DEF StartStep

\* evidence.advance forgets none, whoever calls it.
LEMMA SettleRemembers ==
  ASSUME RecordInv, Settle \/ StatusAdvance \/ RefuseStale \/ MergebackReopens
  PROVE  Remembers
<1>0. Sound(run) /\ run \in Run /\ findings \in Seq(Finding) /\ wt \in Commit
  BY RecordFacts
<1>1. CASE \E next : Commits(Advance(run, findings, wt), next)
  BY <1>0, <1>1, AdvanceTries, SameRemembers DEF Commits
<1>2. CASE \E next : Commits(run, next)
  BY <1>2, StagesRemember DEF Commits
<1>3. CASE Commits([run EXCEPT !.stale = TRUE], Idle)
  BY <1>0, <1>3, StagesRemember DEF Commits, Run
<1> QED BY <1>1, <1>2, <1>3 DEF Settle, StatusAdvance, RefuseStale, MergebackReopens

\* A context changes at most the fingerprint of the docs stage.
LEMMA ContextRemembers ==
  ASSUME RecordInv, ReviewContext \/ DocsContext \/ Deliver
  PROVE  Remembers
<1>0. run \in Run /\ run.stages \in [Stages -> StageRecord]
  BY RecordFacts
<1>1. CASE ReviewContext \/ DocsContext
  <2>1. SameTries(run, run)
    BY DEF SameTries
  <2> QED BY <1>0, <1>1, <2>1, StoredRemembers DEF ReviewContext, DocsContext
<1>2. CASE Deliver
  <2> DEFINE record == [run.stages["docs"] EXCEPT !.fp = FpOf(wt)]
             stages == [run.stages EXCEPT !["docs"] = record]
  <2>1. run' = [run EXCEPT !.stages = stages]
    BY <1>2 DEF Deliver, Commits
  <2>2. \A s \in ShellStages : stages[s] = run.stages[s]
    <3> HIDE DEF record
    <3> QED BY <1>0 DEF ShellStages, Stages
  <2> HIDE DEF stages
  <2>3. SameTries(run', run)
    BY <1>0, <2>1, <2>2 DEF SameTries, Run
  <2> QED BY <2>3, SameRemembers
<1> QED BY <1>1, <1>2

\* Reopening the review keeps the failed attempts of lint and test.
LEMMA ReopenRemembers ==
  ASSUME RecordInv, ReopenReview \/ ReopenAfterFix
  PROVE  Remembers
<1>0. Sound(run)
  BY RecordFacts
<1>1. run' = Reopen(run) \/ run' = run
  BY DEF ReopenReview, ReopenAfterFix, Commits
<1> QED BY <1>0, <1>1, ReopenTries, SameRemembers, StagesRemember

\* Skipping documentation and verifying write no shell stage.
LEMMA SkipRemembers ==
  ASSUME RecordInv, SkipDocs \/ Verify
  PROVE  Remembers
<1>0. run \in Run /\ Sound(run) /\ wt \in Commit
  BY RecordFacts
<1>1. CASE Verify
  <2>1. SameTries(run, run)
    BY DEF SameTries
  <2> QED BY <1>0, <1>1, <2>1, StoredRemembers DEF Verify
<1>2. CASE SkipDocs
  <2> DEFINE record == [NoRecord EXCEPT !.status = "skipped", !.head = wt, !.fp = FpOf(wt)]
             q == Put(run, "docs", record)
  <2>1. run' = Apply(q, "SKIP_DOCS") \/ run' = run
    BY <1>2 DEF SkipDocs, Transits, Commits
  <2>2. \A s \in ShellStages : q.stages[s] = run.stages[s]
    <3> HIDE DEF record
    <3> QED BY <1>0, PutFields DEF Stages, ShellStages
  <2>3. Apply(q, "SKIP_DOCS").stages = q.stages
    <3> HIDE DEF record
    <3>1. DOMAIN q = DOMAIN run
      BY DEF Put
    <3> QED BY <1>0, <3>1 DEF Apply, Put, Run
  <2>4. CASE run' = Apply(q, "SKIP_DOCS")
    <3> HIDE DEF q
    <3>1. SameTries(run', run)
      BY <2>2, <2>3, <2>4 DEF SameTries
    <3> QED BY <3>1, SameRemembers
  <2> QED BY <2>1, <2>4, StagesRemember
<1> QED BY <1>1, <1>2

\* A submission writes the record of its own stage.
LEMMA AcceptRemembers ==
  ASSUME RecordInv, NEW stage \in {"review", "docs"}, NEW batch, Accept(stage, batch)
  PROVE  Remembers
<1> DEFINE stored == Submitted(stage, findings \o batch)
<1>1. PICK a : run' = Apply(stored, a) \/ run' = run
  BY DEF Accept, CommitsBoth, Commits, Submitted, SubmittedStage
<1>2. stored \in Run /\ SameTries(stored, run)
  BY SubmittedFields DEF Sound, SameTries, ShellStages, Stages
<1> HIDE DEF stored
<1>3. CASE run' = Apply(stored, a)
  <2>1. SameTries(run', run)
    BY <1>2, <1>3, MoveTries
  <2> QED BY <2>1, SameRemembers
<1> QED BY <1>1, <1>3, StagesRemember

\* An answer changes findings, fixes and heads.
LEMMA RespondRemembers ==
  ASSUME RecordInv, NEW i \in DOMAIN findings,
         \/ RespondClosed(i) \/ RespondFixedInPlace(i)
         \/ \E n \in DOMAIN wt : RespondFixedIsolated(i, n)
  PROVE  Remembers
<1>0. run \in Run
  BY RecordFacts
<1>1. ASSUME NEW answer, NEW r, Answer(i, answer, r), r.stages = run.stages, DOMAIN r = DOMAIN run
      PROVE  Remembers
  <2> DEFINE f == [findings EXCEPT ![i] = answer]
             assessed == Assessed(r, Changed(Tree(wt)), f)
  <2>1. run' = Apply(assessed, "RESPOND") \/ run' = run
    BY <1>1 DEF Answer, CommitsBoth, Commits
  <2>2. assessed.stages = run.stages /\ DOMAIN assessed = DOMAIN run
    BY <1>0, <1>1 DEF Assessed, Run
  <2> HIDE DEF assessed
  <2>3. Apply(assessed, "RESPOND").stages = run.stages
    BY <1>0, <2>2 DEF Apply, Run
  <2> QED BY <2>1, <2>3, StagesRemember
<1>2. CASE RespondClosed(i)
  BY <1>1, <1>2 DEF RespondClosed
<1>3. CASE RespondFixedInPlace(i)
  <2> DEFINE fixes == run.fixes \cup CommitsBetween(run.head, wt)
             r == [run EXCEPT !.fixes = fixes, !.head = wt, !.sourceHead = wt]
  <2>1. Answer(i, [findings[i] EXCEPT !.status = "fixed", !.fix = wt], r)
    BY <1>3 DEF RespondFixedInPlace
  <2> HIDE DEF fixes
  <2>2. r.stages = run.stages /\ DOMAIN r = DOMAIN run
    BY <1>0 DEF Run
  <2> QED BY <1>1, <2>1, <2>2
<1>4. ASSUME NEW n \in DOMAIN wt, RespondFixedIsolated(i, n)
      PROVE  Remembers
  <2> DEFINE c == SubSeq(wt, 1, n)
             fixes == run.fixes \cup {c}
             r == [run EXCEPT !.fixes = fixes]
  <2>1. Answer(i, [findings[i] EXCEPT !.status = "fixed", !.fix = c], r)
    BY <1>4 DEF RespondFixedIsolated
  <2> HIDE DEF fixes, c
  <2>2. r.stages = run.stages /\ DOMAIN r = DOMAIN run
    BY <1>0 DEF Run
  <2> QED BY <1>1, <2>1, <2>2
<1> QED BY <1>2, <1>3, <1>4

\* The configured reviewer counts its own attempts.
LEMMA ReviewerRemembers ==
  ASSUME RecordInv, StartReviewer \/ RecoverReviewer \/ ReviewerEnds \/ RejectOutput
  PROVE  Remembers
<1>0. run \in Run /\ SameTries(run, run)
  BY RecordFacts DEF SameTries
<1>1. \A failed \in BOOLEAN : Reviewed(failed) \in Run /\ SameTries(Reviewed(failed), run)
  BY ReviewedFields DEF SameTries, ShellStages, Stages, Sound
<1>2. CASE StartReviewer
  BY <1>0, <1>2, StoredRemembers DEF StartReviewer
<1>3. CASE RecoverReviewer \/ ReviewerEnds
  BY <1>1, <1>3, StoredRemembers DEF RecoverReviewer, ReviewerEnds
<1>4. CASE RejectOutput
  <2>1. \A r \in Run : \A a, b : Apply(Apply(r, a), b).stages = r.stages
    BY DEF Apply, Run
  <2>2. [run EXCEPT !.stale = TRUE].stages = run.stages
    BY <1>0 DEF Run
  <2>3. \/ run' = [run EXCEPT !.stale = TRUE]
        \/ run' = Apply(Apply(Reviewed(TRUE), "RUN_REVIEW_COMMAND"), "REVIEW_COMMAND_FAILED")
    BY <1>4 DEF RejectOutput, Commits
  <2>4. SameTries(run', run)
    <3>1. CASE run' = [run EXCEPT !.stale = TRUE]
      BY <2>2, <3>1 DEF SameTries
    <3>2. CASE run' = Apply(Apply(Reviewed(TRUE), "RUN_REVIEW_COMMAND"), "REVIEW_COMMAND_FAILED")
      <4>1. Reviewed(TRUE) \in Run /\ SameTries(Reviewed(TRUE), run)
        BY <1>1
      <4>2. run'.stages = Reviewed(TRUE).stages
        BY <2>1, <3>2, <4>1
      <4> QED BY <4>1, <4>2 DEF SameTries
    <3> QED BY <2>3, <3>1, <3>2
  <2> QED BY <2>4, SameRemembers
<1> QED BY <1>2, <1>3, <1>4

\* No step of the findings stages forgets an attempt of lint or test.
LEMMA FindingRemembers ==
  ASSUME RecordInv, FindingStep
  PROVE  Remembers
<1>1. CASE \/ ReviewContext \/ DocsContext \/ Deliver \/ ReopenReview
          \/ SkipDocs \/ ReopenAfterFix \/ Verify
          \/ StartReviewer \/ RecoverReviewer \/ ReviewerEnds \/ RejectOutput
  BY <1>1, ContextRemembers, ReopenRemembers, SkipRemembers, ReviewerRemembers
<1>2. ASSUME NEW stage \in {"review", "docs"}, NEW batch \in Reported(stage),
             SubmitReview(batch) \/ SubmitOutput(batch) \/ SubmitDocs(batch)
      PROVE  Remembers
  BY <1>2, AcceptRemembers DEF SubmitReview, SubmitOutput, SubmitDocs
<1>3. ASSUME NEW i \in DOMAIN findings, \/ RespondClosed(i) \/ RespondFixedInPlace(i)
                                        \/ \E n \in DOMAIN wt : RespondFixedIsolated(i, n)
      PROVE  Remembers
  BY <1>3, RespondRemembers
<1> QED BY <1>1, <1>2, <1>3 DEF FindingStep

\* An outcome of a shell stage counts its attempt, and leaves the other stage alone.
LEMMA OutcomeRemembers ==
  ASSUME RecordInv, NEW s \in ShellStages, NEW record, NEW q, NEW a,
         run' = Apply(q, a), Apply(q, a).stages = [run.stages EXCEPT ![s] = record],
         \/ record.attempts \in {run.stages[s].attempts, run.stages[s].attempts + 1}
         \/ record.status = "skipped"
  PROVE  Remembers
<1>1. run.stages \in [Stages -> StageRecord] /\ \A x \in ShellStages : run.stages[x].attempts \in Nat
  BY RecordFacts DEF StageRecord, ShellStages, Stages
<1>2. run'.stages[s] = record /\ \A x \in ShellStages \ {s} : run'.stages[x] = run.stages[x]
  BY <1>1 DEF ShellStages, Stages
<1> HIDE DEF Remembers
<1>3. ASSUME NEW x \in ShellStages
      PROVE  run'.stages[x].attempts >= run.stages[x].attempts \/ run'.stages[x].status = "skipped"
  BY <1>1, <1>2
<1> QED BY <1>3 DEF Remembers

\* lint and test: every failure counts, and only a skipped test starts over.
LEMMA ShellRemembers ==
  ASSUME RecordInv, StageStep
  PROVE  Remembers
<1>0. /\ run \in Run /\ Sound(run) /\ run.stages \in [Stages -> StageRecord] /\ wt \in Commit
      /\ ShellStages \subseteq Stages
  BY RecordFacts DEF ShellStages, Stages
<1>1. CASE SkipTest
  <2> DEFINE record == [NoRecord EXCEPT !.status = "skipped", !.head = wt, !.fp = FpOf(wt)]
             q == Put(run, "test", record)
  <2>1. run' = Apply(q, "SKIP_TEST") \/ run' = run
    BY <1>1 DEF SkipTest, Transits, Commits
  <2>2. record.status = "skipped"
    BY DEF NoRecord
  <2> HIDE DEF record
  <2>3. Apply(q, "SKIP_TEST").stages = [run.stages EXCEPT !["test"] = record]
    BY <1>0 DEF Apply, Put, Run
  <2> HIDE DEF q
  <2> QED BY <2>1, <2>2, <2>3, OutcomeRemembers, StagesRemember DEF ShellStages
<1>2. ASSUME NEW s \in ShellStages, RecoverStage(s)
      PROVE  Remembers
  <2> DEFINE attempts == run.stages[s].attempts + 1
             record == [run.stages[s] EXCEPT !.status = "red", !.attempts = attempts, !.head = wt]
  <2>1. run' = Apply(Failed(s), StageTable[s].failed)
    BY <1>2 DEF RecoverStage, Transits, Commits
  <2>2. record.attempts = attempts
    <3>1. run.stages[s] \in StageRecord
      BY <1>0
    <3> HIDE DEF attempts
    <3> QED BY <3>1 DEF StageRecord
  <2>3. Failed(s) = [run EXCEPT !.stages = [run.stages EXCEPT ![s] = record]]
    BY <1>0 DEF Failed, Run
  <2> HIDE DEF record
  <2>4. Apply(Failed(s), StageTable[s].failed).stages = [run.stages EXCEPT ![s] = record]
    BY <1>0, <2>3 DEF Apply, Run
  <2> QED BY <2>1, <2>2, <2>4, OutcomeRemembers
<1>3. ASSUME NEW s \in ShellStages, BaselineFails(s)
      PROVE  Remembers
  <2> DEFINE attempts == run.stages[s].attempts + 1
             record == [NoRecord EXCEPT !.status = "red", !.head = wt, !.attempts = attempts]
             q == [run EXCEPT !.stages = [run.stages EXCEPT ![s] = record], !.setup = s]
  <2>1. run' = Apply(q, StageTable[s].failed)
    BY <1>0, <1>3 DEF BaselineFails, Transits, Commits
  <2>2. record.attempts = attempts
    BY DEF NoRecord
  <2> HIDE DEF record
  <2>3. Apply(q, StageTable[s].failed).stages = [run.stages EXCEPT ![s] = record]
    BY <1>0 DEF Apply, Run
  <2> HIDE DEF q
  <2> QED BY <2>1, <2>2, <2>3, OutcomeRemembers
<1>4. ASSUME NEW s \in ShellStages, NEW passed \in BOOLEAN, EndStage(s, passed)
      PROVE  Remembers
  <2>1. PICK fp, a : /\ run' = Apply(Put(run, s, StageResult(s, passed, fp)), a)
    BY <1>4 DEF EndStage, Transits, Commits
  <2> DEFINE record == StageResult(s, passed, fp)
             q == Put(run, s, record)
  <2>2. record.attempts \in {run.stages[s].attempts, run.stages[s].attempts + 1}
    <3> DEFINE attempts == IF passed THEN run.stages[s].attempts ELSE run.stages[s].attempts + 1
               status == IF passed THEN "green" ELSE "red"
    <3>1. run.stages[s] \in StageRecord
      BY <1>0
    <3>2. record = [run.stages[s] EXCEPT !.status = status, !.attempts = attempts, !.head = wt,
                                         !.fp = fp]
      BY DEF StageResult
    <3>3. attempts \in {run.stages[s].attempts, run.stages[s].attempts + 1}
      OBVIOUS
    <3> HIDE DEF attempts, status, record
    <3> QED BY <3>1, <3>2, <3>3 DEF StageRecord
  <2> HIDE DEF record
  <2>3. Apply(q, a).stages = [run.stages EXCEPT ![s] = record]
    BY <1>0 DEF Apply, Put, Run
  <2>4. run' = Apply(q, a)
    BY <2>1 DEF q, record
  <2> HIDE DEF q
  <2> QED BY <2>2, <2>3, <2>4, OutcomeRemembers
<1>5. ASSUME NEW s \in ShellStages, RepairRestart(s)
      PROVE  Remembers
  <2> DEFINE red == run.stages[s].head
             fixes == run.fixes \cup CommitsBetween(red, wt)
             head == IF InPlace THEN wt ELSE run.head
             source == IF InPlace THEN wt ELSE run.sourceHead
             record == [run.stages[s] EXCEPT !.head = NoCommit]
             stages == [run.stages EXCEPT ![s] = record]
             moved == [run EXCEPT !.fixes = fixes, !.head = head, !.sourceHead = source,
                                  !.coverage = NoCommit, !.stages = stages]
             S == (ShellStages \ {s}) \cup {"review"}
  <2>1. run' = Apply(Discard(moved, S), StageTable[s].restart)
    BY <1>5 DEF RepairRestart, Transits, Commits
  <2>2. \A x \in ShellStages : stages[x].attempts = run.stages[x].attempts
    <3>1. run.stages[s] \in StageRecord
      BY <1>0
    <3>2. record.attempts = run.stages[s].attempts
      BY <3>1 DEF StageRecord
    <3> HIDE DEF record
    <3> QED BY <1>0, <3>2
  <2> HIDE DEF fixes, head, source, stages, S
  <2>3. moved.stages = stages /\ moved.evidence = run.evidence /\ DOMAIN moved = DOMAIN run
    BY <1>0 DEF Run
  <2> HIDE DEF moved
  <2>4. Apply(Discard(moved, S), StageTable[s].restart).stages =
          [x \in Stages |-> IF x \in S THEN [NoRecord EXCEPT !.attempts = moved.stages[x].attempts]
                            ELSE moved.stages[x]]
    BY <1>0, <2>3 DEF Apply, Discard, Run
  <2>5. SameTries(run', run)
    <3>1. \A n : [NoRecord EXCEPT !.attempts = n].attempts = n
      BY DEF NoRecord
    <3> QED BY <1>0, <2>1, <2>2, <2>3, <2>4, <3>1 DEF SameTries
  <2> QED BY <2>5, SameRemembers
<1>6. ASSUME NEW s \in ShellStages, BeginStage(s)
      PROVE  Remembers
  <2>1. PICK r, a : /\ r \in {run, Discard(run, {s})}
                    /\ run' = Apply([r EXCEPT !.setup = "none"], a)
    <3> DEFINE outdated == run.stages[s].head \notin {NoCommit, wt}
               r == IF outdated THEN Discard(run, {s}) ELSE run
               a == IF run.state = StageTable[s].red THEN StageTable[s].retry ELSE StageTable[s].begin
    <3>1. run' = Apply([r EXCEPT !.setup = "none"], a)
      BY <1>6 DEF BeginStage, Transits, Commits
    <3>2. r \in {run, Discard(run, {s})}
      OBVIOUS
    <3> HIDE DEF r, a
    <3> QED BY <3>1, <3>2
  <2>2. r \in Run /\ SameTries(r, run)
    BY <1>0, <2>1, DiscardSound, DiscardTries DEF Sound, SameTries
  <2>3. Apply([r EXCEPT !.setup = "none"], a).stages = r.stages
    BY <2>2 DEF Apply, Run
  <2>4. SameTries(run', run)
    BY <2>1, <2>2, <2>3 DEF SameTries
  <2> QED BY <2>4, SameRemembers
<1> QED BY <1>1, <1>2, <1>3, <1>4, <1>5, <1>6 DEF StageStep

\* mergeback archives, and the reset to review discards; neither forgets.
LEMMA MergeRemembers ==
  ASSUME RecordInv, MergeStep
  PROVE  Remembers
<1>0. /\ run \in Run /\ Sound(run) /\ findings \in Seq(Finding)
      /\ Archive(run, findings) \in Run /\ Archive(run, findings).stages = run.stages
  BY RecordFacts, ArchiveSound, ArchiveFields DEF Sound
<1>1. CASE MergebackReopens
  BY <1>1, SettleRemembers
<1>2. CASE BeginMergeback \/ RetryMergeback
  <2>1. \A retrying, a : Apply(Attempted(retrying), a).stages = run.stages
    BY <1>0 DEF Attempted, Apply, Run
  <2> QED BY <1>2, <2>1, StagesRemember DEF BeginMergeback, RetryMergeback, Transits, Commits
<1>3. CASE ResumeMergeback
  <2>1. [run EXCEPT !.stale = TRUE].stages = run.stages
    BY <1>0 DEF Run
  <2> QED BY <1>0, <1>3, <2>1, StagesRemember DEF ResumeMergeback, Commits
<1>4. CASE SyncSource \/ PickFixes \/ Attest \/ ResetCheckout
  <2>1. MergeConflicts => run'.stages = run.stages
    BY <1>0, ApplyFields DEF MergeConflicts, Transits, Commits
  <2> QED BY <1>4, <2>1, StagesRemember DEF SyncSource, PickFixes, Attest, ResetCheckout, Commits
<1>5. CASE RecordMergeback
  <2>1. \A c, a : Apply([run EXCEPT !.head = c, !.sourceHead = c], a).stages = run.stages
    BY <1>0 DEF Apply, Run
  <2> QED BY <1>5, <2>1, StagesRemember DEF RecordMergeback, Transits, Commits
<1>6. CASE RecordReset
  <2> DEFINE taken == [run EXCEPT !.head = cmd.at, !.sourceHead = cmd.at,
                                  !.fixes = {}, !.coverage = NoCommit]
             r == Assessed(taken, Changed(Tree(cmd.at)), findings)
  <2>0. Sound(taken) /\ taken.stages = run.stages /\ cmd.at \in Commit
    BY <1>0, RecordFacts, NothingTyped, FS_EmptySet DEF Sound, Run
  <2>2. run' = Apply(Discard(r, {"review", "lint", "test"}), "INVALIDATE_REVIEW")
    BY <1>6 DEF RecordReset, Transits, Commits
  <2> HIDE DEF taken
  <2>1. Sound(r) /\ r.stages = run.stages
    BY <2>0, ChangedTyped, AssessedSound
  <2> HIDE DEF r
  <2>3. SameTries(run', run)
    BY <2>1, <2>2, DiscardSound, DiscardTries, MoveTries DEF SameTries, Sound
  <2> QED BY <2>3, SameRemembers
<1> QED BY <1>1, <1>2, <1>3, <1>4, <1>5, <1>6 DEF MergeStep

\* Publication and the end of a run change no stage record.
LEMMA PublishRemembers ==
  ASSUME RecordInv, PublishStep
  PROVE  Remembers
<1>0. run \in Run
  BY RecordFacts
<1>1. CASE Gate \/ RecordPush \/ Finish
  <2> DEFINE assessed == Assessed(run, Changed(Tree(run.head)), findings)
  <2>1. \/ run' = Apply([assessed EXCEPT !.token = assessed.token + 1], "GATE")
        \/ run' = [assessed EXCEPT !.token = assessed.token + 1]
        \/ run' = assessed
        \/ run' = Apply([run EXCEPT !.pushed = cmd.at], "PUSH")
        \/ run' = Apply([run EXCEPT !.released = TRUE], "FINISH")
    BY <1>1 DEF Gate, RecordPush, Finish, Transits, Commits
  <2>3. assessed.stages = run.stages /\ DOMAIN assessed = DOMAIN run
    BY <1>0 DEF Assessed, Run
  <2> HIDE DEF assessed
  <2>2. run'.stages = run.stages
    BY <1>0, <2>1, <2>3 DEF Apply, Run
  <2> QED BY <2>2, StagesRemember
<1>2. ASSUME NEW confirm, Push(confirm) PROVE Remembers
  BY <1>2, StagesRemember DEF Push, Commits
<1>3. ASSUME NEW force, Abort(force) PROVE Remembers
  <2>1. run' = Apply([run EXCEPT !.released = TRUE], "ABORT")
    BY <1>3 DEF Abort, Transits, Commits
  <2>2. run'.stages = run.stages
    BY <1>0, <2>1 DEF Apply, Run
  <2> QED BY <2>2, StagesRemember
<1>4. CASE Orphan
  <2>1. PICK released : run' = Apply([run EXCEPT !.orphaned = TRUE, !.released = released], "ORPHAN")
    BY <1>4 DEF Orphan, Transits, Commits
  <2>2. run'.stages = run.stages
    BY <1>0, <2>1 DEF Apply, Run
  <2> QED BY <2>2, StagesRemember
<1> QED BY <1>1, <1>2, <1>3, <1>4 DEF PublishStep

\* No command, death or restart of validation forgets a failed attempt of lint
\* or test, but for the record of a skipped test (invalidate_stage_result).
THEOREM AttemptsAreKept == Spec => AttemptsSurvive
<1>1. ASSUME RecordInv, [Next]_vars
      PROVE  [Remembers]_vars
  <2>1. CASE Program
    BY <1>1, <2>1, StartRemembers, SettleRemembers, FindingRemembers, ShellRemembers,
       MergeRemembers, PublishRemembers DEF Program
  <2>2. CASE World
    <3>1. run' = run
      BY <2>2 DEF World, AgentCommits, HumanCommits, AgentResets, HumanResets, ChangesCleanliness,
                  Dies, Outside
    <3> QED BY <1>1, <3>1, StagesRemember
  <2> QED BY <1>1, <2>1, <2>2 DEF Next
<1>2. RecordInv /\ [Next]_vars => [Remembers]_vars
  BY <1>1
<1>3. Spec => [][Remembers]_vars
  BY <1>2, RecordInvariant, PTL DEF Spec
<1> QED BY <1>3 DEF AttemptsSurvive, Remembers

-----------------------------------------------------------------------------
(* The causes of restarts, in place.  Each commit or reset is worth two        *)
(* returns to review and each switch of the executor one; a run owes those     *)
(* that it has not made yet.                                                   *)

\* A result that holds on another tree than the one checked out.
Behind(e, w) == Done(e) /\ e.fp.flag # "none" /\ e.fp # FpOf(w)

\* A review result of another executor than the one demanded.
Foreign(e, who) == Done(e) /\ e.fp.flag # "none" /\ e.executor # who

\* What sends a run back to review, other than a documentation result and the
\* executor.
Outdated(r, w) ==
  \/ r.coverage \notin {NoCommit, w}
  \/ \E s \in Stages \ {"docs"} : Behind(r.stages[s], w)
  \/ \E s \in ShellStages : r.state = StageTable[s].red /\ r.stages[s].head \notin {NoCommit, w}

\* The restarts that a record may still make on this checkout without a cause.
Owed(r, w, who) == IF Outdated(r, w) THEN 2
                   ELSE IF Behind(r.stages["docs"], w) \/ Foreign(r.stages["review"], who) THEN 1
                   ELSE 0

\* A shell stage is running on inputs that have changed.
Overtaken == cmd.op \in ShellStages /\ Tree(cmd.at) # Tree(wt)

\* Past the review something is covered, and a red stage is not done.
Standing(r) ==
  /\ r.state \notin Unreviewed \cup TerminalStates => r.coverage # NoCommit
  /\ \A s \in ShellStages : r.state = StageTable[s].red => ~Done(r.stages[s])

\* No stage has a result.
Blank(r) == r.coverage = NoCommit /\ \A s \in Stages : ~Done(r.stages[s])

\* The restarts made and owed are paid for by commits, resets and switches.
Paid == run.restarts + (IF Overtaken THEN 2 ELSE Owed(run, wt, Effective(run)))
          <= 2 * moves + switches

\* A switch of the executor is counted.
Counted == switches' = switches + (IF Effective(run') # Effective(run) THEN 1 ELSE 0)

\* Mergeback picks and resets in a validation checkout of its own only.
Isolating == {"pick", "reset", "resetting"}

\* The inductive strengthening of RestartsAreCaused.
CauseInv == /\ RecordInv /\ Standing(run)
            /\ cmd.op \in StartOps => Blank(run)
            /\ InPlace => Paid /\ cmd.op \notin Isolating

\* What one step has to keep besides RecordInv.
CauseGoal == /\ Standing(run') /\ (cmd'.op \in StartOps => Blank(run'))
             /\ InPlace => Paid' /\ cmd'.op \notin Isolating

\* A record that owes no more restarts than another, counting those it made.
Eased(q, r, w, who) == q.restarts + Owed(q, w, who) <= r.restarts + Owed(r, w, who)

\* What is owed is a number up to two.
LEMMA OwedTyped ==
  ASSUME NEW who, NEW r, NEW w
  PROVE  Owed(r, w, who) \in {0, 1, 2}
BY DEF Owed

\* A switch of the executor outdates one result at most.
LEMMA SwitchOwes ==
  ASSUME NEW who, NEW new, NEW r, NEW w
  PROVE  Owed(r, w, new) <= Owed(r, w, who) + (IF new # who THEN 1 ELSE 0)
<1>1. Owed(r, w, who) \in {0, 1, 2} /\ Owed(r, w, new) \in {0, 1, 2}
  BY OwedTyped
<1>2. CASE new = who
  BY <1>1, <1>2
<1>3. CASE new # who
  <2>1. Owed(r, w, new) = 2 => Owed(r, w, who) = 2
    BY DEF Owed
  <2> QED BY <1>1, <1>3, <2>1
<1> QED BY <1>2, <1>3

\* A record that differs from another in none of the fields that owe.
LEMMA SameEases ==
  ASSUME NEW who, NEW r, r \in Run, NEW q, NEW w, q.restarts = r.restarts, q.coverage = r.coverage,
         q.state = r.state, q.stages = r.stages
  PROVE  Eased(q, r, w, who) /\ (Standing(r) => Standing(q)) /\ (Blank(r) => Blank(q))
<1>1. r.restarts \in Nat /\ Owed(q, w, who) = Owed(r, w, who)
  BY DEF Run, Owed, Outdated
<1> QED BY <1>1, OwedTyped DEF Eased, Standing, Blank

\* Results that hold on the checkout owe nothing.
LEMMA ResultEases ==
  ASSUME NEW who, NEW r, r \in Run, NEW q, NEW w, q.restarts = r.restarts, q.state = r.state,
         q.coverage \in {r.coverage, w}, w # NoCommit,
         \A s \in ShellStages : r.state # StageTable[s].red,
         \A s \in Stages : q.stages[s] = r.stages[s] \/ ~Behind(q.stages[s], w),
         q.stages["review"] = r.stages["review"] \/ ~Foreign(q.stages["review"], who)
  PROVE  Eased(q, r, w, who) /\ (Standing(r) => Standing(q))
<1>1. Outdated(q, w) => Outdated(r, w)
  BY DEF Outdated
<1>2. Behind(q.stages["docs"], w) => Behind(r.stages["docs"], w)
  BY DEF Stages
<1>3. r.restarts \in Nat /\ Owed(q, w, who) <= Owed(r, w, who)
  BY <1>1, <1>2 DEF Run, Owed
<1> QED BY <1>3, OwedTyped DEF Eased, Standing

\* The states of a red stage.
LEMMA RedRows ==
  ASSUME NEW s \in ShellStages, NEW t, NEW a, NEW x, Row(x, a, t), t = StageTable[s].red
  PROVE  a = StageTable[s].failed
BY DEF Row, ShellStages, StageTable

\* A move other than a restart and a failure.
LEMMA MoveEases ==
  ASSUME NEW who, NEW r, r \in Run, Standing(r), NEW w, NEW a, Legal(r.state, a), a \notin RestartActions,
         \A s \in ShellStages : a # StageTable[s].failed,
         a \in {"SUBMIT_CLEAN", "SUBMIT_BLOCKING"} => r.coverage # NoCommit
  PROVE  Eased(Apply(r, a), r, w, who) /\ Standing(Apply(r, a))
<1> DEFINE q == Apply(r, a)
           t == NextState(r.state, a)
<1>1. /\ q.state = t /\ q.stages = r.stages /\ q.restarts = r.restarts /\ q.coverage = r.coverage
      /\ r.restarts \in Nat
  BY ApplyState, ApplyKept DEF Run
<1>2. \A s \in ShellStages : t # StageTable[s].red
  <2>1. CASE a \in ClosingActions
    BY <2>1 DEF ClosingActions, NextState, ShellStages, StageTable
  <2>2. CASE a \notin ClosingActions
    BY <2>2, LegalRow, RedRows
  <2> QED BY <2>1, <2>2
<1>3. t \notin Unreviewed \cup TerminalStates => r.coverage # NoCommit
  <2>1. r.state \notin TerminalStates
    BY DEF Legal, Moves, TerminalStates, ClosingActions
  <2>2. CASE a \in ClosingActions
    BY <2>2 DEF ClosingActions, NextState, TerminalStates
  <2>3. CASE a \notin ClosingActions
    BY <2>1, <2>3, LegalRow DEF Row, Standing
  <2> QED BY <2>2, <2>3
<1> HIDE DEF q, t
<1>4. Standing(q)
  BY <1>1, <1>2, <1>3 DEF Standing
<1>5. Outdated(q, w) => Outdated(r, w)
  BY <1>1, <1>2 DEF Outdated
<1>6. Owed(q, w, who) <= Owed(r, w, who)
  BY <1>1, <1>5 DEF Owed
<1>7. Eased(q, r, w, who)
  BY <1>1, <1>6, OwedTyped DEF Eased
<1> QED BY <1>4, <1>7 DEF q

\* A failure recorded on the checkout owes nothing new.
LEMMA FailureEases ==
  ASSUME NEW who, NEW r, r \in Run, Standing(r), NEW w, NEW s \in ShellStages,
         Legal(r.state, StageTable[s].failed), ~Done(r.stages[s]), r.stages[s].head = w
  PROVE  Eased(Apply(r, StageTable[s].failed), r, w, who) /\ Standing(Apply(r, StageTable[s].failed))
<1> DEFINE a == StageTable[s].failed
           q == Apply(r, a)
           t == NextState(r.state, a)
<1>0. a \in Ordinary /\ a \notin ClosingActions /\ a \notin RestartActions
  BY ShellRows DEF Ordinary, ClosingActions, RestartActions
<1>1. /\ q.state = t /\ q.stages = r.stages /\ q.restarts = r.restarts /\ q.coverage = r.coverage
      /\ r.restarts \in Nat
  BY <1>0, ApplyState, ApplyKept DEF Run
<1>2. Row(r.state, a, t) /\ r.state = StageTable[s].running
  <2>1. Row(r.state, a, t)
    BY <1>0, LegalRow
  <2> HIDE DEF t
  <2> QED BY <2>1, ShellRows
<1>3. r.coverage # NoCommit
  BY <1>2, ShellRows DEF Standing, Validating
<1>4. \A x \in ShellStages : t = StageTable[x].red => x = s
  BY <1>2, RedRows DEF ShellStages, StageTable
<1> HIDE DEF q, t
<1>5. Standing(q)
  BY <1>1, <1>3, <1>4 DEF Standing
<1>6. Outdated(q, w) => Outdated(r, w)
  BY <1>1, <1>4 DEF Outdated
<1>7. Owed(q, w, who) <= Owed(r, w, who)
  BY <1>1, <1>6 DEF Owed
<1>8. Eased(q, r, w, who)
  BY <1>1, <1>7, OwedTyped DEF Eased
<1> QED BY <1>5, <1>8 DEF q, a
\* The moves that return to review, fail a stage, or submit findings.
Notable == RestartActions \cup {"LINT_FAILED", "TEST_FAILED", "SUBMIT_CLEAN", "SUBMIT_BLOCKING"}

\* The commands that the invariant speaks of.
Marking == ShellStages \cup StartOps \cup Isolating

\* The facts about counts that every step needs.
LEMMA CauseFacts ==
  ASSUME CauseInv
  PROVE  /\ RecordInv /\ run \in Run /\ Sound(run) /\ Standing(run) /\ wt \in Commit /\ wt # NoCommit
         /\ run.restarts \in Nat /\ moves \in Nat /\ findings \in Seq(Finding)
         /\ switches \in Nat
         /\ InPlace => run.restarts + Owed(run, wt, Effective(run)) <= 2 * moves + switches
<1>1. /\ RecordInv /\ run \in Run /\ Sound(run) /\ Standing(run) /\ wt \in Commit /\ wt # NoCommit
      /\ findings \in Seq(Finding)
  BY RecordFacts DEF CauseInv
<1>2. run.restarts \in Nat /\ moves \in Nat /\ switches \in Nat
  BY <1>1 DEF Run, RecordInv, RunInv, TypeOK
<1>3. InPlace => run.restarts + Owed(run, wt, Effective(run)) <= 2 * moves + switches
  BY <1>2, OwedTyped DEF CauseInv, Paid
<1> QED BY <1>1, <1>2, <1>3

\* A step that leaves the checkout alone and owes no more than before.
LEMMA EasedPaid ==
  ASSUME CauseInv, Counted, wt' = wt, moves' = moves, Eased(run', run, wt, Effective(run)),
         Standing(run'), run'.restarts \in Nat, cmd'.op \notin Marking
  PROVE  CauseGoal
<1> DEFINE who == Effective(run)
           new == Effective(run')
<1>1. /\ run.restarts \in Nat /\ moves \in Nat /\ switches \in Nat
      /\ InPlace => run.restarts + Owed(run, wt, who) <= 2 * moves + switches
  BY CauseFacts
<1>2. /\ Owed(run', wt, who) \in {0, 1, 2} /\ Owed(run, wt, who) \in {0, 1, 2}
      /\ Owed(run', wt, new) \in {0, 1, 2}
  BY OwedTyped
<1>3. Owed(run', wt, new) <= Owed(run', wt, who) + (IF new # who THEN 1 ELSE 0)
  BY SwitchOwes
<1>4. switches' = switches + (IF new # who THEN 1 ELSE 0)
  BY DEF Counted
<1>5. run'.restarts + Owed(run', wt, who) <= run.restarts + Owed(run, wt, who)
  BY DEF Eased
<1>6. Paid' <=> run'.restarts + Owed(run', wt, new) <= 2 * moves + switches'
  <2>1. ~Overtaken'
    BY DEF Overtaken, Marking
  <2> QED BY <2>1 DEF Paid
<1> HIDE DEF who, new
<1>7. InPlace => Paid'
  BY <1>1, <1>2, <1>3, <1>4, <1>5, <1>6
<1> QED BY <1>7 DEF CauseGoal, Marking

\* A transaction whose record owes no more than the run's, moved by a or not.
LEMMA MovePaid ==
  ASSUME CauseInv, Counted, wt' = wt, moves' = moves, NEW r, r \in Run,
         Eased(r, run, wt, Effective(run)), Standing(r), cmd'.op \notin Marking,
         \/ run' = r
         \/ \E a : /\ run' = Apply(r, a) /\ Legal(r.state, a) /\ a \notin RestartActions
                   /\ \A s \in ShellStages : a # StageTable[s].failed
                   /\ a \in {"SUBMIT_CLEAN", "SUBMIT_BLOCKING"} => r.coverage # NoCommit
  PROVE  CauseGoal
<1>0. run.restarts \in Nat /\ r.restarts \in Nat
  BY CauseFacts DEF Run
<1>1. CASE run' = r
  BY <1>0, <1>1, EasedPaid
<1>2. ASSUME NEW a, run' = Apply(r, a), Legal(r.state, a), a \notin RestartActions,
             \A s \in ShellStages : a # StageTable[s].failed,
             a \in {"SUBMIT_CLEAN", "SUBMIT_BLOCKING"} => r.coverage # NoCommit
      PROVE  CauseGoal
  <2>1. Eased(run', r, wt, Effective(run)) /\ Standing(run')
    BY <1>2, MoveEases
  <2>2. run'.restarts \in Nat
    BY <1>0, <1>2, ApplyState
  <2>3. Eased(run', run, wt, Effective(run))
    <3>1. \A q : Owed(q, wt, Effective(run)) \in {0, 1, 2}
      BY OwedTyped
    <3> QED BY <1>0, <2>1, <2>2, <3>1 DEF Eased
  <2> QED BY <2>1, <2>2, <2>3, EasedPaid
<1> QED BY <1>1, <1>2

\* A transaction of a command that moves a record by an unremarkable action.
LEMMA TransitPaid ==
  ASSUME CauseInv, Counted, wt' = wt, moves' = moves, NEW r, r \in Run,
         Eased(r, run, wt, Effective(run)), Standing(r), NEW a, a \notin Notable, NEW next, next.op \notin Marking, Transits(r, a, next)
  PROVE  CauseGoal
<1>1. run' = Apply(r, a) /\ cmd' = next /\ Legal(r.state, a)
  BY DEF Transits, Commits, CanApply
<1>2. \A s \in ShellStages : a # StageTable[s].failed
  BY DEF Notable, ShellStages, StageTable
<1> QED BY <1>1, <1>2, MovePaid DEF Notable

\* The record of the run itself, or one that differs in none of the fields that owe.
LEMMA SelfEases ==
  ASSUME CauseInv, NEW r, r.restarts = run.restarts, r.coverage = run.coverage,
         r.state = run.state, r.stages = run.stages
  PROVE  Eased(r, run, wt, Effective(run)) /\ Standing(r)
BY CauseFacts, SameEases

\* A command that ends, or goes on where the invariant asks nothing of it.
LEMMA Unmarked ==
  /\ Idle.op \notin Marking
  /\ \A c : \A op \in {"settle", "deliver", "reviewer", "submit", "submitted", "reopen", "resolved",
                       "skip_test", "advance", "merge", "attest", "noted", "pushed"} :
       Doing(op, c).op \notin Marking
BY DEF Idle, Doing, Marking, ShellStages, StartOps, Isolating

\* Discarding, installing and archiving are no restarts.
LEMMA NoRestart ==
  ASSUME NEW r, r \in Run
  PROVE  /\ \A s, record : Put(r, s, record).restarts = r.restarts /\ Put(r, s, record).state = r.state
         /\ \A f : Archive(r, f).restarts = r.restarts
BY DEF Put, Archive, Run
\* What a record owes is passed on.
LEMMA EasedTwice ==
  ASSUME NEW who, NEW r, r \in Run, NEW q, q \in Run, NEW p, p \in Run, NEW w,
         Eased(p, q, w, who), Eased(q, r, w, who)
  PROVE  Eased(p, r, w, who)
<1>1. p.restarts \in Nat /\ q.restarts \in Nat /\ r.restarts \in Nat
  BY DEF Run
<1>2. Owed(p, w, who) \in {0, 1, 2} /\ Owed(q, w, who) \in {0, 1, 2} /\ Owed(r, w, who) \in {0, 1, 2}
  BY OwedTyped
<1> QED BY <1>1, <1>2 DEF Eased

\* A record without results that waits for review owes nothing.
LEMMA BlankEases ==
  ASSUME NEW who, NEW r, r \in Run, NEW q, NEW w, Blank(q), q.state = "REVIEW_AWAITING_FINDINGS",
         \/ q.restarts = r.restarts
         \/ q.restarts = r.restarts + 1 /\ Owed(r, w, who) # 0
  PROVE  Eased(q, r, w, who) /\ Standing(q)
<1>1. \A s \in ShellStages : q.state # StageTable[s].red
  BY DEF ShellStages, StageTable
<1>2. q.state \in Unreviewed
  BY DEF Unreviewed
<1>3. Owed(q, w, who) = 0
  <2>1. \A s \in Stages : ~Behind(q.stages[s], w) /\ ~Foreign(q.stages[s], who)
    BY DEF Blank, Behind, Foreign
  <2>2. "docs" \in Stages /\ "review" \in Stages
    BY DEF Stages
  <2> QED BY <1>1, <2>1, <2>2 DEF Owed, Outdated, Blank
<1>4. Owed(r, w, who) \in {0, 1, 2} /\ r.restarts \in Nat
  BY OwedTyped DEF Run
<1> QED BY <1>1, <1>2, <1>3, <1>4 DEF Eased, Standing

\* Discarding every result leaves none.
LEMMA DiscardBlank ==
  ASSUME NEW r, Sound(r), NEW q, q.coverage = NoCommit, q.stages = Discard(r, Stages).stages
  PROVE  Blank(q)
<1>1. \A s \in Stages : q.stages[s].status = "pending"
  BY DiscardFields
<1> QED BY <1>1 DEF Blank, Done

\* reopen_if_stale leaves a record without results.
LEMMA ReopenBlank ==
  ASSUME NEW r, Sound(r)
  PROVE  /\ Blank(Reopen(r)) /\ Reopen(r).state = NextState(r.state, "INVALIDATE_REVIEW")
         /\ Reopen(r).restarts = IF NextState(r.state, "INVALIDATE_REVIEW") # r.state
                                 THEN r.restarts + 1 ELSE r.restarts
<1> DEFINE d == Discard(r, Stages)
           e == [d EXCEPT !.coverage = NoCommit]
<1>1. Sound(d) /\ d.state = r.state /\ d.restarts = r.restarts
  BY DiscardSound
<1> HIDE DEF d
<1>2. /\ Sound(e) /\ e.state = r.state /\ e.restarts = r.restarts /\ e.stages = d.stages
      /\ e.coverage = NoCommit
  BY <1>1, CoverageSound, CoverageFields, NothingTyped
<1>3. Reopen(r) = Apply(e, "INVALIDATE_REVIEW")
  BY DEF Reopen, e, d
<1> HIDE DEF e
<1> DEFINE q == Reopen(r)
<1>4. /\ q.state = NextState(r.state, "INVALIDATE_REVIEW") /\ q.stages = d.stages
      /\ q.coverage = NoCommit
      /\ q.restarts = IF NextState(r.state, "INVALIDATE_REVIEW") # r.state
                      THEN r.restarts + 1 ELSE r.restarts
  BY <1>2, <1>3, ApplyState, ApplyKept, KnownForward DEF Sound
<1> HIDE DEF q
<1>5. Blank(q)
  BY <1>4, DiscardBlank DEF d
<1> QED BY <1>4, <1>5 DEF q

\* Neither discarding nor archiving nor a move changes the risk.
LEMMA SameRisk ==
  ASSUME NEW r, r \in Run
  PROVE  /\ \A f : Archive(r, f).risk = r.risk
         /\ \A S : Discard(r, S).risk = r.risk
         /\ \A a : Apply(r, a).risk = r.risk
         /\ \A x : [r EXCEPT !.coverage = x].risk = r.risk
         /\ \A x : [r EXCEPT !.candidates = x].risk = r.risk
<1>1. \A x : [r EXCEPT !.evidence = x].risk = r.risk
  BY DEF Run
<1>2. \A x, y : [r EXCEPT !.stages = x, !.evidence = y].risk = r.risk
  BY DEF Run
<1>3. \A x, y : [r EXCEPT !.state = x, !.restarts = y].risk = r.risk
  BY DEF Run
<1>4. \A x : [r EXCEPT !.coverage = x].risk = r.risk /\ [r EXCEPT !.candidates = x].risk = r.risk
  BY DEF Run
<1>5. ASSUME NEW f PROVE Archive(r, f).risk = r.risk
  BY <1>1 DEF Archive
<1>6. ASSUME NEW S PROVE Discard(r, S).risk = r.risk
  BY <1>2 DEF Discard
<1>7. ASSUME NEW a PROVE Apply(r, a).risk = r.risk
  BY <1>3 DEF Apply
<1> QED BY <1>4, <1>5, <1>6, <1>7

\* reopen_changed_inputs leaves none either, and counts one restart.
LEMMA ReopenChangedBlank ==
  ASSUME NEW r, Sound(r), r.state \in GreenStates, NEW f \in Seq(Finding)
  PROVE  /\ Blank(ReopenChanged(r, f)) /\ ReopenChanged(r, f).restarts = r.restarts + 1
         /\ ReopenChanged(r, f).risk = r.risk
<1> DEFINE a == Archive(r, f)
           candidates == [s \in Stages |->
                       IF Held(a.evidence[s]) THEN a.evidence[s] ELSE a.candidates[s]]
           c == [a EXCEPT !.candidates = candidates]
           b == Discard(c, Stages)
           d == [b EXCEPT !.coverage = NoCommit]
           q == ReopenChanged(r, f)
<1>1. Sound(a) /\ a.state = r.state /\ a.restarts = r.restarts /\ a.risk = r.risk
  BY ArchiveSound, NoRestart, SameRisk DEF Sound
<1>2. candidates \in [Stages -> Evidence]
  BY <1>1 DEF Sound, Run
<1> HIDE DEF a, candidates
<1>3. Sound(c) /\ c.state = r.state /\ c.restarts = r.restarts /\ c.risk = r.risk
  BY <1>1, <1>2 DEF Sound, Run
<1> HIDE DEF c
<1>4. Sound(b) /\ b.state = r.state /\ b.restarts = r.restarts /\ b.risk = r.risk
  BY <1>3, DiscardSound, SameRisk DEF Sound
<1> HIDE DEF b
<1>5. /\ Sound(d) /\ d.state = r.state /\ d.restarts = r.restarts /\ d.stages = b.stages
      /\ d.coverage = NoCommit /\ d.risk = r.risk
  BY <1>4, CoverageSound, CoverageFields, NothingTyped, SameRisk DEF Sound
<1>6. q = Apply(d, "INVALIDATE_REVIEW")
  BY DEF ReopenChanged, d, b, c, candidates, a
<1> HIDE DEF d, q
<1>7. NextState(r.state, "INVALIDATE_REVIEW") # r.state
  BY KnownMoves DEF GreenStates
<1>8. /\ q.restarts = r.restarts + 1 /\ q.stages = b.stages /\ q.coverage = NoCommit
      /\ q.risk = r.risk
  BY <1>5, <1>6, <1>7, ApplyState, ApplyKept, KnownForward, SameRisk DEF Sound
<1>9. Blank(q)
  BY <1>3, <1>8, DiscardBlank DEF b
<1> QED BY <1>8, <1>9 DEF q

\* Changed inputs are owed for.
LEMMA ChangedOwes ==
  ASSUME NEW r, NEW w, InputsChanged(r, w)
  PROVE  Owed(r, w, Effective(r)) # 0
<1> DEFINE who == Effective(r)
<1>1. PICK s \in Stages : Behind(r.stages[s], w) \/ (s = "review" /\ Foreign(r.stages[s], who))
  BY DEF InputsChanged, SameInputs, Behind, Foreign
<1> HIDE DEF who
<1>2. Owed(r, w, who) # 0
  BY <1>1 DEF Owed, Outdated
<1> QED BY <1>2 DEF who

\* The states in which a result is imported are not those of a red stage.
LEMMA ImportStates ==
  /\ \A s \in ShellStages : StageTable[s].red \notin
       {"REVIEW_AWAITING_FINDINGS", "REVIEW_GREEN", "DOCS_AWAITING_FINDINGS"}
  /\ {"REVIEW_GREEN", "DOCS_AWAITING_FINDINGS"} \cap (Unreviewed \cup TerminalStates) = {}
  /\ {"SUBMIT_CLEAN", "SKIP_DOCS", "BEGIN_DOCS"} \cap RestartActions = {}
  /\ \A s \in ShellStages : StageTable[s].failed \notin {"SUBMIT_CLEAN", "SKIP_DOCS", "BEGIN_DOCS"}
BY DEF ShellStages, StageTable, Unreviewed, TerminalStates, RestartActions

\* What an import installs holds on the checkout.
LEMMA InstalledEases ==
  ASSUME NEW who, NEW r, Sound(r), NEW f, Standing(r), NEW s \in Stages \ {"review"},
         NEW c \in Commit, c # NoCommit,
         r.state \in {"REVIEW_AWAITING_FINDINGS", "REVIEW_GREEN", "DOCS_AWAITING_FINDINGS"}
  PROVE  Eased(Installed(r, f, s, c), r, c, who) /\ Standing(Installed(r, f, s, c))
<1> DEFINE q == Installed(r, f, s, c)
<1>1. /\ Sound(q) /\ q.state = r.state /\ q.restarts = r.restarts /\ q.coverage = r.coverage
      /\ q.stages[s] = Imported(r, s, c) /\ \A x \in Stages \ {s} : q.stages[x] = r.stages[x]
  BY InstalledSound, InstalledFields
<1> HIDE DEF q
<1>2. q.stages[s].fp = FpOf(c)
  BY <1>1 DEF Imported, NoRecord
<1>3. \A x \in Stages : q.stages[x] = r.stages[x] \/ ~Behind(q.stages[x], c)
  BY <1>1, <1>2 DEF Behind
<1>4. q.stages["review"] = r.stages["review"]
  BY <1>1 DEF Stages
<1> QED BY <1>1, <1>3, <1>4, ImportStates, ResultEases DEF q, Sound

\* The import of a review, which is one of the executor demanded.
LEMMA ImportReviewEases ==
  ASSUME NEW who, NEW r, Sound(r), Standing(r), ~LimitReached(r), who = Effective(r),
         NEW f, NEW c \in Commit, c # NoCommit
  PROVE  Eased(ImportReview(r, f, c), r, c, who) /\ Standing(ImportReview(r, f, c))
<1>1. CASE r.state = "REVIEW_AWAITING_FINDINGS" /\ Reusable(r, f, "review", c)
  <2> DEFINE put == Installed(r, f, "review", c)
             q == [put EXCEPT !.coverage = c]
  <2>1. /\ Sound(put) /\ put.state = r.state /\ put.restarts = r.restarts
        /\ put.stages["review"] = Imported(r, "review", c)
        /\ \A x \in Stages \ {"review"} : put.stages[x] = r.stages[x]
    <3>1. "review" \in Stages
      BY DEF Stages
    <3> QED BY <3>1, InstalledSound, InstalledFields
  <2> HIDE DEF put
  <2>2. /\ Sound(q) /\ q.state = r.state /\ q.restarts = r.restarts /\ q.coverage = c
        /\ q.stages = put.stages
    BY <2>1, CoverageSound, CoverageFields
  <2>3. ImportReview(r, f, c) = Apply(q, "SUBMIT_CLEAN")
    BY <1>1 DEF ImportReview, Import, q, put
  <2> HIDE DEF q
  <2>4. put.stages["review"].fp = FpOf(c) /\ put.stages["review"].executor = who
    BY <1>1, <2>1 DEF Imported, NoRecord, Reusable, SameInputs
  <2>5. /\ \A x \in Stages : q.stages[x] = r.stages[x] \/ ~Behind(q.stages[x], c)
        /\ ~Foreign(q.stages["review"], who)
    BY <2>1, <2>2, <2>4 DEF Behind, Foreign
  <2>6. Eased(q, r, c, who) /\ Standing(q)
    BY <1>1, <2>2, <2>5, ImportStates, ResultEases DEF Sound
  <2>7. Eased(Apply(q, "SUBMIT_CLEAN"), q, c, who) /\ Standing(Apply(q, "SUBMIT_CLEAN"))
    BY <1>1, <2>2, <2>6, ImportRows, ImportStates, MoveEases DEF Sound
  <2>8. Apply(q, "SUBMIT_CLEAN") \in Run
    BY <2>3, ImportReviewSound DEF Sound
  <2> QED BY <2>2, <2>3, <2>6, <2>7, <2>8, EasedTwice DEF Sound
<1>2. CASE ~(r.state = "REVIEW_AWAITING_FINDINGS" /\ Reusable(r, f, "review", c))
  BY <1>2, SameEases DEF ImportReview, Sound
<1> QED BY <1>1, <1>2

\* The import of a documentation result.
LEMMA ImportDocsEases ==
  ASSUME NEW who, NEW r, Sound(r), Standing(r), NEW f, NEW c \in Commit, c # NoCommit,
         ~Uninstallable(r, f, c)
  PROVE  Eased(ImportDocs(r, f, c), r, c, who) /\ Standing(ImportDocs(r, f, c))
<1> DEFINE item == r.candidates["docs"]
           put == Installed(r, f, "docs", c)
           opened == IF r.state = "REVIEW_GREEN" THEN Apply(put, "BEGIN_DOCS") ELSE put
<1>1. CASE ~DocsReady(r, f, c)
  BY <1>1, SameEases DEF ImportDocs, Sound
<1>2. CASE DocsReady(r, f, c)
  <2>0. r.state \in {"REVIEW_GREEN", "DOCS_AWAITING_FINDINGS"}
    BY <1>2 DEF DocsReady
  <2>1. /\ Sound(put) /\ put.state = r.state /\ put.coverage = r.coverage
        /\ Eased(put, r, c, who) /\ Standing(put)
    <3>1. "docs" \in Stages \ {"review"}
      BY DEF Stages
    <3> QED BY <2>0, <3>1, InstalledSound, InstalledFields, InstalledEases
  <2>2. put.coverage # NoCommit
    BY <2>0, <2>1, ImportStates DEF Standing
  <2>3. ImportDocs(r, f, c) \in Run
    BY ImportDocsSound DEF Sound
  <2>4. CASE item.status = "skipped"
    <3>1. ImportDocs(r, f, c) = Apply(put, "SKIP_DOCS")
      BY <1>2, <2>4 DEF ImportDocs, Import
    <3>2. r.state = "REVIEW_GREEN"
      BY <1>2, <2>0, <2>4 DEF Uninstallable
    <3> HIDE DEF put
    <3>3. Eased(Apply(put, "SKIP_DOCS"), put, c, who) /\ Standing(Apply(put, "SKIP_DOCS"))
      BY <2>1, <3>2, ImportRows, ImportStates, MoveEases DEF Sound
    <3> QED BY <2>1, <2>3, <3>1, <3>3, EasedTwice DEF Sound
  <2>5. CASE item.status # "skipped"
    <3>1. ImportDocs(r, f, c) = Apply(opened, "SUBMIT_CLEAN")
      BY <1>2, <2>5 DEF ImportDocs, Import
    <3> HIDE DEF put
    <3>2. /\ opened \in Run /\ Eased(opened, r, c, who) /\ Standing(opened)
          /\ opened.coverage # NoCommit /\ opened.state = "DOCS_AWAITING_FINDINGS"
      <4>1. CASE r.state = "REVIEW_GREEN"
        <5>1. /\ Eased(Apply(put, "BEGIN_DOCS"), put, c, who) /\ Standing(Apply(put, "BEGIN_DOCS"))
          BY <2>1, <4>1, ImportRows, ImportStates, MoveEases DEF Sound
        <5>2. /\ Apply(put, "BEGIN_DOCS") \in Run
              /\ Apply(put, "BEGIN_DOCS").state = "DOCS_AWAITING_FINDINGS"
              /\ Apply(put, "BEGIN_DOCS").coverage = put.coverage
          BY <2>1, <4>1, KnownMoves, KnownStates, ApplyTyped, ApplyState, ApplyKept DEF Sound
        <5> QED BY <2>1, <2>2, <4>1, <5>1, <5>2, EasedTwice DEF Sound
      <4>2. CASE r.state # "REVIEW_GREEN"
        BY <2>0, <2>1, <2>2, <4>2 DEF Sound
      <4> QED BY <4>1, <4>2
    <3> HIDE DEF opened
    <3>3. Eased(Apply(opened, "SUBMIT_CLEAN"), opened, c, who) /\ Standing(Apply(opened, "SUBMIT_CLEAN"))
      BY <3>2, ImportRows, ImportStates, MoveEases
    <3> QED BY <2>3, <3>1, <3>2, <3>3, EasedTwice DEF Sound
  <2> QED BY <2>4, <2>5
<1> QED BY <1>1, <1>2

\* evidence.advance restarts only for changed inputs, and imports what holds.
LEMMA AdvanceEases ==
  ASSUME NEW who, NEW r, Sound(r), Standing(r), who = Effective(r),
         NEW f \in Seq(Finding), NEW c \in Commit, c # NoCommit
  PROVE  Eased(Advance(r, f, c), r, c, who) /\ Standing(Advance(r, f, c)) /\ Advance(r, f, c) \in Run
<1> DEFINE opened == IF InputsChanged(r, c) THEN ReopenChanged(r, f) ELSE r
           reviewed == ImportReview(opened, f, c)
           imported == ImportDocs(reviewed, f, c)
<1>0. Advance(r, f, c) \in Run
  BY AdvanceSound DEF Sound
<1>1. Sound(opened) /\ Eased(opened, r, c, who) /\ Standing(opened) /\ who = Effective(opened)
  <2>1. CASE InputsChanged(r, c)
    <3>1. r.state \in GreenStates /\ opened = ReopenChanged(r, f)
      BY <2>1 DEF InputsChanged
    <3> HIDE DEF opened
    <3>2. /\ Sound(opened) /\ opened.state = "REVIEW_AWAITING_FINDINGS" /\ Blank(opened)
          /\ opened.restarts = r.restarts + 1 /\ Owed(r, c, who) # 0 /\ opened.risk = r.risk
      BY <2>1, <3>1, ReopenChangedSound, ReopenChangedBlank, ChangedOwes
    <3>3. who = Effective(opened)
      BY <3>2 DEF Effective
    <3> QED BY <3>2, <3>3, BlankEases DEF Sound
  <2>2. CASE ~InputsChanged(r, c)
    BY <2>2, SameEases DEF Sound
  <2> QED BY <2>1, <2>2
<1> HIDE DEF opened
<1>2. CASE LimitReached(opened)
  BY <1>0, <1>1, <1>2 DEF Advance, opened
<1>3. CASE ~LimitReached(opened)
  <2>1. Sound(reviewed) /\ Eased(reviewed, r, c, who) /\ Standing(reviewed)
    <3>1. Sound(reviewed) /\ Eased(reviewed, opened, c, who) /\ Standing(reviewed)
      BY <1>1, <1>3, ImportReviewSound, ImportReviewEases
    <3> HIDE DEF reviewed
    <3> QED BY <1>1, <3>1, EasedTwice DEF Sound
  <2> HIDE DEF reviewed
  <2>2. CASE Uninstallable(reviewed, f, c)
    <3>1. Advance(r, f, c) = reviewed
      BY <1>3, <2>2 DEF Advance, opened, reviewed
    <3> QED BY <1>0, <2>1, <3>1
  <2>3. CASE ~Uninstallable(reviewed, f, c)
    <3>1. Sound(imported) /\ Eased(imported, reviewed, c, who) /\ Standing(imported)
      BY <2>1, <2>3, ImportDocsSound, ImportDocsEases
    <3>2. Advance(r, f, c) = Archive(imported, f)
      BY <1>3, <2>3 DEF Advance, opened, reviewed, imported
    <3> HIDE DEF imported
    <3>3. Eased(Archive(imported, f), imported, c, who) /\ Standing(Archive(imported, f))
      BY <3>1, ArchiveFields, NoRestart, SameEases DEF Sound
    <3>4. Eased(imported, r, c, who)
      BY <2>1, <3>1, EasedTwice DEF Sound
    <3> QED BY <1>0, <3>1, <3>2, <3>3, <3>4, EasedTwice DEF Sound
  <2> QED BY <2>2, <2>3
<1> QED BY <1>2, <1>3
\* A command that ends, or goes on unmarked, with the record as it was.
LEMMA SamePaid ==
  ASSUME CauseInv, Counted, wt' = wt, moves' = moves, cmd'.op \notin Marking,
         run'.restarts = run.restarts, run'.coverage = run.coverage,
         run'.state = run.state, run'.stages = run.stages
  PROVE  CauseGoal
BY CauseFacts, SelfEases, EasedPaid

\* While start is at work no stage has a result, so a rebase outdates none.
LEMMA BlankPaid ==
  ASSUME CauseInv, Counted, cmd.op \in StartOps, moves' = moves, cmd'.op \notin ShellStages \cup Isolating,
         run'.stages = run.stages, run'.coverage = run.coverage, run'.restarts = run.restarts,
         run'.state \in {"SYNC_RUNNING", "SYNC_CONFLICT", "SETUP_FAILED",
                         "REVIEW_AWAITING_FINDINGS", "ABORTED"}
  PROVE  CauseGoal
<1>1. Blank(run) /\ Blank(run')
  BY DEF CauseInv, Blank
<1>2. \A s \in ShellStages : run'.state # StageTable[s].red
  BY DEF ShellStages, StageTable
<1>3. run'.state \in Unreviewed \cup TerminalStates
  BY DEF Unreviewed, TerminalStates
<1>4. /\ ~Outdated(run, wt)' /\ ~Behind(run.stages["docs"], wt)' /\ ~Overtaken'
      /\ ~Foreign(run'.stages["review"], Effective(run'))
  <2>1. ~Overtaken'
    BY DEF Overtaken
  <2>2. \A s \in Stages : ~Behind(run'.stages[s], wt')
    BY <1>1 DEF Blank, Behind
  <2>3. ~Behind(run.stages["docs"], wt)'
    BY <2>2 DEF Stages, Behind
  <2>4. ~Outdated(run, wt)'
    BY <1>1, <1>2, <2>2 DEF Outdated, Blank, Behind
  <2>5. ~Foreign(run'.stages["review"], Effective(run'))
    BY <1>1 DEF Blank, Foreign, Stages
  <2> QED BY <2>1, <2>3, <2>4, <2>5
<1>5. /\ run.restarts \in Nat /\ moves \in Nat /\ switches \in Nat
      /\ InPlace => run.restarts + Owed(run, wt, Effective(run)) <= 2 * moves + switches
  BY CauseFacts
<1>6. InPlace => run'.restarts <= 2 * moves + switches'
  BY <1>5, OwedTyped DEF Counted
<1>7. Owed(run, wt, Effective(run))' = 0
  BY <1>4 DEF Owed
<1>8. InPlace => Paid'
  BY <1>4, <1>5, <1>6, <1>7 DEF Paid
<1> QED BY <1>1, <1>2, <1>3, <1>8 DEF CauseGoal, Standing

\* The fields that owe, but for the state.
SameDebts(q, r) == q.stages = r.stages /\ q.coverage = r.coverage /\ q.restarts = r.restarts

\* A move that is no restart leaves them alone.
LEMMA MoveOwes ==
  ASSUME NEW r, r \in Run, NEW a, a \notin RestartActions
  PROVE  SameDebts(Apply(r, a), r) /\ Apply(r, a).state = NextState(r.state, a)
BY ApplyState, ApplyKept DEF SameDebts

\* So do two of them in a row.
LEMMA TwiceOwes ==
  ASSUME NEW r, r \in Run, NEW a, NEW b, {a, b} \cap RestartActions = {},
         NextState(r.state, a) \in States
  PROVE  /\ SameDebts(Apply(Apply(r, a), b), r)
         /\ Apply(Apply(r, a), b).state = NextState(NextState(r.state, a), b)
<1>1. Apply(r, a) \in Run
  BY ApplyTyped
<1> QED BY <1>1, MoveOwes DEF SameDebts

\* start: the checkout, the rebase, the setup command.
LEMMA StartPaid ==
  ASSUME CauseInv, Counted, StartStep
  PROVE  CauseGoal
<1>0. /\ run \in Run /\ moves' = moves /\ RecordInv
      /\ cmd.op = "start" => run.state = "CREATED"
      /\ cmd.op \in {"sync", "setup"} => run.state = "SYNC_RUNNING"
  BY CauseFacts DEF StartStep, CreateCheckout, Synchronize, Setup, RecordOnly, Still, ExceptCheckouts,
                    RecordInv, RunInv, StartState
<1>1. \A released \in BOOLEAN :
        /\ SameDebts([Apply(run, "ABORT") EXCEPT !.released = released], run)
        /\ [Apply(run, "ABORT") EXCEPT !.released = released].state = "ABORTED"
  <2> DEFINE q == Apply(run, "ABORT")
  <2>1. SameDebts(q, run) /\ q.state = "ABORTED" /\ q \in Run
    <3>1. NextState(run.state, "ABORT") = "ABORTED" /\ "ABORT" \notin RestartActions
      BY DEF NextState, RestartActions
    <3> QED BY <1>0, <3>1, MoveOwes, ApplyTyped, KnownStates
  <2> HIDE DEF q
  <2>2. ASSUME NEW released
        PROVE  LET p == [q EXCEPT !.released = released] IN SameDebts(p, run) /\ p.state = "ABORTED"
    BY <2>1 DEF SameDebts, Run
  <2> QED BY <2>2 DEF q
<1>2. /\ NextState("CREATED", "CREATE_WORKTREE") = "WORKTREE_READY"
      /\ NextState("WORKTREE_READY", "BEGIN_SYNC") = "SYNC_RUNNING"
      /\ NextState("SYNC_RUNNING", "SYNC_PASSED") = "SYNC_GREEN"
      /\ NextState("SYNC_GREEN", "BEGIN_REVIEW") = "REVIEW_AWAITING_FINDINGS"
      /\ NextState("SYNC_RUNNING", "SYNC_FAILED") = "SYNC_CONFLICT"
      /\ NextState("SYNC_RUNNING", "SETUP_FAILED") = "SETUP_FAILED"
      /\ \A t : NextState(t, "ABORT") = "ABORTED"
      /\ {"CREATE_WORKTREE", "BEGIN_SYNC", "SYNC_PASSED", "BEGIN_REVIEW", "SYNC_FAILED",
          "SETUP_FAILED", "ABORT"} \cap RestartActions = {}
  <2>1. /\ NextState("SYNC_RUNNING", "SYNC_FAILED") = "SYNC_CONFLICT"
        /\ NextState("SYNC_RUNNING", "SETUP_FAILED") = "SETUP_FAILED"
        /\ \A t : NextState(t, "ABORT") = "ABORTED"
    BY DEF NextState, Moves
  <2> QED BY <2>1, KnownMoves DEF RestartActions
<1>3. \A op \in {"sync", "setup", "settle"} : \A c :
        /\ Doing(op, c).op \notin ShellStages \cup Isolating /\ Idle.op \notin ShellStages \cup Isolating
  BY DEF Doing, Idle, ShellStages, Isolating
<1>4. CASE CreateCheckout
  <2>1. /\ cmd.op = "start" /\ cmd'.op \notin ShellStages \cup Isolating
        /\ \/ run' = Apply(Apply(run, "CREATE_WORKTREE"), "BEGIN_SYNC")
           \/ \E x \in BOOLEAN : run' = [Apply(run, "ABORT") EXCEPT !.released = x]
    BY <1>3, <1>4 DEF CreateCheckout, Commits
  <2>2. CASE run' = Apply(Apply(run, "CREATE_WORKTREE"), "BEGIN_SYNC")
    <3>1. SameDebts(run', run) /\ run'.state = "SYNC_RUNNING"
      BY <1>0, <1>2, <2>1, <2>2, TwiceOwes, KnownStates
    <3> QED BY <1>0, <2>1, <3>1, BlankPaid DEF StartOps, SameDebts
  <2>3. CASE run' # Apply(Apply(run, "CREATE_WORKTREE"), "BEGIN_SYNC")
    <3>1. SameDebts(run', run) /\ run'.state = "ABORTED"
      BY <1>1, <2>1, <2>3
    <3> QED BY <1>0, <2>1, <3>1, BlankPaid DEF StartOps, SameDebts
  <2> QED BY <2>2, <2>3
<1>5. CASE Synchronize
  <2>1. /\ cmd.op = "sync" /\ cmd'.op \notin ShellStages \cup Isolating
        /\ \/ run' = Apply(run, "SYNC_FAILED")
           \/ run' = [Apply(run, "ABORT") EXCEPT !.released = TRUE]
           \/ \E c, d, x : run' = [run EXCEPT !.head = c, !.sourceHead = d, !.changed = x]
    BY <1>3, <1>5 DEF Synchronize, Transits, Commits
  <2>2. CASE run' = Apply(run, "SYNC_FAILED")
    <3>1. SameDebts(run', run) /\ run'.state = "SYNC_CONFLICT"
      BY <1>0, <1>2, <2>1, <2>2, MoveOwes
    <3> QED BY <1>0, <2>1, <3>1, BlankPaid DEF StartOps, SameDebts
  <2>3. CASE run' = [Apply(run, "ABORT") EXCEPT !.released = TRUE]
    <3>1. SameDebts(run', run) /\ run'.state = "ABORTED"
      BY <1>1, <2>3
    <3> QED BY <1>0, <2>1, <3>1, BlankPaid DEF StartOps, SameDebts
  <2>4. CASE \E c, d, x : run' = [run EXCEPT !.head = c, !.sourceHead = d, !.changed = x]
    <3>1. SameDebts(run', run) /\ run'.state = "SYNC_RUNNING"
      BY <1>0, <2>1, <2>4 DEF SameDebts, Run
    <3> QED BY <1>0, <2>1, <3>1, BlankPaid DEF StartOps, SameDebts
  <2> QED BY <2>1, <2>2, <2>3, <2>4
<1>6. CASE Setup
  <2> DEFINE assessed == Assessed(run, run.changed, <<>>)
  <2>0. assessed \in Run /\ SameDebts(assessed, run) /\ assessed.state = run.state
    <3>1. run.changed \in SUBSET Patch /\ Sound(run)
      BY CauseFacts DEF Run
    <3> QED BY <3>1, AssessedFits, AssessedSound DEF SameDebts, Sound
  <2>1. /\ cmd.op = "setup" /\ cmd'.op \notin ShellStages \cup Isolating
        /\ \/ run' = Apply(Apply(assessed, "SYNC_PASSED"), "BEGIN_REVIEW")
           \/ run' = Apply([assessed EXCEPT !.setup = "initial"], "SETUP_FAILED")
    BY <1>3, <1>6 DEF Setup, Transits, Commits
  <2> HIDE DEF assessed
  <2>2. CASE run' = Apply(Apply(assessed, "SYNC_PASSED"), "BEGIN_REVIEW")
    <3>1. SameDebts(run', assessed) /\ run'.state = "REVIEW_AWAITING_FINDINGS"
      <4>1. "SYNC_GREEN" \in States
        BY KnownStates
      <4> QED BY <1>0, <1>2, <2>0, <2>1, <2>2, <4>1, TwiceOwes
    <3> QED BY <1>0, <2>0, <2>1, <3>1, BlankPaid DEF StartOps, SameDebts
  <2>3. CASE run' = Apply([assessed EXCEPT !.setup = "initial"], "SETUP_FAILED")
    <3> DEFINE r == [assessed EXCEPT !.setup = "initial"]
    <3>1. r \in Run /\ SameDebts(r, run) /\ r.state = run.state
      BY <2>0 DEF Run, SameDebts
    <3>2. run' = Apply(r, "SETUP_FAILED")
      BY <2>3
    <3> HIDE DEF r
    <3>3. SameDebts(run', run) /\ run'.state = "SETUP_FAILED"
      BY <1>0, <1>2, <2>1, <3>1, <3>2, MoveOwes DEF SameDebts
    <3> QED BY <1>0, <2>1, <3>3, BlankPaid DEF StartOps, SameDebts
  <2> QED BY <2>1, <2>2, <2>3
<1> QED BY <1>4, <1>5, <1>6 DEF StartStep

\* evidence.advance, whoever calls it, and a run marked stale.
LEMMA SettlePaid ==
  ASSUME CauseInv, Counted, Settle \/ StatusAdvance \/ RefuseStale \/ MergebackReopens
  PROVE  CauseGoal
<1>0. /\ Sound(run) /\ run \in Run /\ Standing(run) /\ findings \in Seq(Finding) /\ wt \in Commit
      /\ wt # NoCommit /\ wt' = wt /\ moves' = moves /\ Idle.op \notin Marking
  BY CauseFacts, Unmarked DEF Settle, StatusAdvance, RefuseStale, MergebackReopens, RecordOnly, Still
<1>1. CASE Commits(Advance(run, findings, wt), Idle)
  BY <1>0, <1>1, AdvanceEases, MovePaid DEF Commits
<1>2. CASE Commits(run, Idle)
  BY <1>0, <1>2, SamePaid DEF Commits
<1>3. CASE Commits([run EXCEPT !.stale = TRUE], Idle)
  BY <1>0, <1>3, SamePaid DEF Commits, Run
<1> QED BY <1>1, <1>2, <1>3 DEF Settle, StatusAdvance, RefuseStale, MergebackReopens

\* Commits and resets pay for what they outdate; dirt and death outdate nothing.
LEMMA WorldPaid ==
  ASSUME CauseInv, World
  PROVE  CauseGoal
<1>0. /\ run.restarts \in Nat /\ moves \in Nat /\ switches \in Nat
      /\ InPlace => run.restarts + Owed(run, wt, Effective(run)) <= 2 * moves + switches
  BY CauseFacts
<1>1. run' = run /\ switches' = switches
  BY DEF World, AgentCommits, HumanCommits, AgentResets, HumanResets, ChangesCleanliness, Dies,
         Outside
<1>6. Counted
  BY <1>0, <1>1 DEF Counted
<1>2. CASE moves' = moves + 1 /\ cmd' = cmd
  <2>1. Owed(run, wt, Effective(run))' \in {0, 1, 2}
    BY DEF Owed
  <2>2. InPlace => run'.restarts <= 2 * moves + switches'
    BY <1>0, <1>1, OwedTyped
  <2>3. InPlace => Paid'
    BY <1>0, <1>1, <1>2, <2>1, <2>2 DEF Paid
  <2> QED BY <1>1, <1>2, <2>3 DEF CauseGoal, CauseInv
<1>3. CASE ChangesCleanliness
  BY <1>1, <1>3 DEF ChangesCleanliness, CauseGoal, CauseInv, Paid, Overtaken, Owed, Outdated, Behind,
                    Foreign, Effective
<1>4. CASE Dies
  BY <1>1, <1>4, <1>6, SamePaid, Unmarked DEF Dies, checkouts
<1>5. \/ moves' = moves + 1 /\ cmd' = cmd
      \/ ChangesCleanliness \/ Dies
  BY DEF World, AgentCommits, HumanCommits, AgentResets, HumanResets, Budgeted, Outside
<1> QED BY <1>2, <1>3, <1>4, <1>5

\* context.
LEMMA ContextPaid ==
  ASSUME CauseInv, Counted, ReviewContext \/ DocsContext \/ Deliver
  PROVE  CauseGoal
<1>0. /\ wt' = wt /\ moves' = moves /\ run \in Run /\ Standing(run) /\ wt # NoCommit
      /\ Idle.op \notin Marking /\ Doing("deliver", wt).op \notin Marking
  BY CauseFacts, Unmarked DEF ReviewContext, DocsContext, Deliver, RecordOnly, ExceptSeen, Still,
                              checkouts
<1>1. CASE Commits(run, Idle)
  BY <1>0, <1>1, SamePaid DEF Commits
<1>2. CASE Commits(run, Doing("deliver", wt))
  BY <1>0, <1>2, SamePaid DEF Commits
<1>3. CASE Transits(run, "BEGIN_DOCS", Doing("deliver", wt))
  <2>1. "BEGIN_DOCS" \notin Notable
    BY DEF Notable, RestartActions
  <2>2. Eased(run, run, wt, Effective(run))
    BY SelfEases
  <2> QED BY <1>0, <1>3, <2>1, <2>2, TransitPaid
<1>4. CASE Deliver
  <2> DEFINE stages == [run.stages EXCEPT !["docs"].fp = FpOf(wt)]
             r == [run EXCEPT !.stages = stages]
  <2>1. /\ stages["docs"].fp = FpOf(wt) /\ \A s \in Stages \ {"docs"} : stages[s] = run.stages[s]
        /\ stages["review"] = run.stages["review"]
    <3>1. /\ run.stages \in [Stages -> StageRecord] /\ "docs" \in Stages
          /\ run.stages["docs"] \in StageRecord
      BY <1>0 DEF Stages, Run
    <3>2. [run.stages["docs"] EXCEPT !.fp = FpOf(wt)].fp = FpOf(wt)
      BY <3>1 DEF StageRecord
    <3> QED BY <3>1, <3>2 DEF Stages
  <2>2. run' = r /\ cmd' = Idle
    BY <1>4 DEF Deliver, Commits
  <2> HIDE DEF stages
  <2>3. /\ r.state = run.state /\ r.stages = stages /\ r.coverage = run.coverage
        /\ r.restarts = run.restarts
    BY <1>0 DEF Run
  <2> HIDE DEF r
  <2>4. \A s \in ShellStages : run.state # StageTable[s].red
    BY <1>4, ImportStates DEF Deliver, CauseInv, RecordInv, Working
  <2>5. \A s \in Stages : r.stages[s] = run.stages[s] \/ ~Behind(r.stages[s], wt)
    BY <2>1, <2>3 DEF Behind
  <2>6. Eased(r, run, wt, Effective(run)) /\ Standing(r)
    BY <1>0, <2>1, <2>3, <2>4, <2>5, ResultEases
  <2> QED BY <1>0, <2>2, <2>3, <2>6, CauseFacts, EasedPaid
<1> QED BY <1>1, <1>2, <1>3, <1>4 DEF ReviewContext, DocsContext

\* A review that covers another commit than the one checked out is owed for.
LEMMA ReopenOwes ==
  ASSUME CauseInv, Counted, run.coverage # wt, CanApply(run, "INVALIDATE_REVIEW"), wt' = wt, moves' = moves,
         Commits(Reopen(run), Idle)
  PROVE  CauseGoal
<1>0. /\ run \in Run /\ Sound(run) /\ Standing(run) /\ Idle.op \notin Marking
      /\ Legal(run.state, "INVALIDATE_REVIEW") /\ run.restarts \in Nat
  BY CauseFacts, Unmarked DEF CanApply
<1> DEFINE q == Reopen(run)
           t == NextState(run.state, "INVALIDATE_REVIEW")
<1>1. /\ Blank(q) /\ q.state = t
      /\ q.restarts = IF t # run.state THEN run.restarts + 1 ELSE run.restarts
  BY <1>0, ReopenBlank
<1>2. t = "REVIEW_AWAITING_FINDINGS" /\ "INVALIDATE_REVIEW" \in RestartActions
  BY <1>0, LegalTarget DEF RestartActions
<1>3. q \in Run
  BY <1>0, ReopenSound DEF Sound
<1>4. t # run.state => Owed(run, wt, Effective(run)) # 0
  <2>1. SUFFICES ASSUME t # run.state
                 PROVE  Owed(run, wt, Effective(run)) # 0
    OBVIOUS
  <2>2. run.state \notin Unreviewed
    BY <1>0, <2>1, LegalRow DEF Row, ClosingActions
  <2>3. run.state \notin TerminalStates
    BY <1>0 DEF Legal, Moves, TerminalStates, ClosingActions
  <2>4. Outdated(run, wt)
    BY <1>0, <2>2, <2>3 DEF Standing, Outdated
  <2> QED BY <2>4 DEF Owed
<1>5. run' = q /\ cmd' = Idle
  BY DEF Commits
<1> HIDE DEF q, t
<1>6. Eased(q, run, wt, Effective(run)) /\ Standing(q)
  BY <1>0, <1>1, <1>2, <1>4, BlankEases
<1> QED BY <1>0, <1>3, <1>5, <1>6, EasedPaid DEF Run

\* reopen_if_stale, after a fix too, and verify.
LEMMA ReopenPaid ==
  ASSUME CauseInv, Counted, ReopenReview \/ ReopenAfterFix \/ Verify
  PROVE  CauseGoal
<1>0. /\ wt' = wt /\ moves' = moves /\ run \in Run /\ Standing(run)
      /\ Idle.op \notin Marking /\ Doing("resolved", NoCommit).op \notin Marking
  BY CauseFacts, Unmarked DEF ReopenReview, ReopenAfterFix, Verify, RecordOnly, Still
<1>1. CASE run.coverage # wt /\ CanApply(run, "INVALIDATE_REVIEW") /\ Commits(Reopen(run), Idle)
  BY <1>0, <1>1, ReopenOwes
<1>2. CASE Commits(run, Idle) \/ Commits(run, Doing("resolved", NoCommit))
  BY <1>0, <1>2, SamePaid DEF Commits
<1>3. CASE Transits(run, "RESOLVE_GREEN", Doing("resolved", NoCommit))
  <2>1. "RESOLVE_GREEN" \notin Notable
    BY DEF Notable, RestartActions
  <2>2. Eased(run, run, wt, Effective(run))
    BY SelfEases
  <2> QED BY <1>0, <1>3, <2>1, <2>2, TransitPaid
<1> QED BY <1>1, <1>2, <1>3 DEF ReopenReview, ReopenAfterFix, Verify

\* _skip_docs_if_disabled and _skip_test_if_not_applicable.
LEMMA SkipPaid ==
  ASSUME CauseInv, Counted, SkipDocs \/ SkipTest
  PROVE  CauseGoal
<1> DEFINE record == [NoRecord EXCEPT !.status = "skipped", !.head = wt, !.fp = FpOf(wt)]
<1>0. /\ wt' = wt /\ moves' = moves /\ run \in Run /\ Sound(run) /\ Standing(run) /\ wt # NoCommit
      /\ RecordInv
  BY CauseFacts DEF SkipDocs, SkipTest, RecordOnly, Still
<1>1. PICK s \in {"docs", "test"}, a \in {"SKIP_DOCS", "SKIP_TEST"},
           next \in {Doing("settle", NoCommit), Doing("advance", NoCommit), Idle} :
        \/ /\ run.state \in {"REVIEW_GREEN", "LINT_GREEN"}
           /\ Transits(Put(run, s, record), a, next)
        \/ Commits(run, next)
  <2>1. CASE SkipDocs
    BY <2>1 DEF SkipDocs
  <2>2. CASE SkipTest
    BY <2>2 DEF SkipTest
  <2> QED BY <2>1, <2>2
<1>2. next.op \notin Marking
  BY Unmarked
<1>3. CASE Commits(run, next)
  BY <1>0, <1>2, <1>3, SamePaid DEF Commits
<1>4. CASE /\ run.state \in {"REVIEW_GREEN", "LINT_GREEN"}
           /\ Transits(Put(run, s, record), a, next)
  <2> DEFINE q == Put(run, s, record)
  <2>1. q \in Run /\ q.state = run.state
    BY <1>0, SkippedFits DEF Sound
  <2>2. /\ q.restarts = run.restarts /\ q.coverage = run.coverage
        /\ \A x \in Stages : q.stages[x] = IF x = s THEN record ELSE run.stages[x]
    <3>1. s \in Stages
      BY DEF Stages
    <3> HIDE DEF record
    <3> QED BY <1>0, <3>1, NoRestart, PutFields
  <2>3. record.fp = FpOf(wt)
    BY DEF NoRecord
  <2> HIDE DEF record
  <2>4. Transits(q, a, next)
    BY <1>4
  <2> HIDE DEF q
  <2>5. \A x \in Stages : q.stages[x] = run.stages[x] \/ ~Behind(q.stages[x], wt)
    BY <2>2, <2>3 DEF Behind
  <2>6. /\ \A x \in ShellStages : run.state # StageTable[x].red
        /\ q.stages["review"] = run.stages["review"]
    BY <1>4, <2>2 DEF ShellStages, StageTable, Stages
  <2>7. Eased(q, run, wt, Effective(run)) /\ Standing(q)
    BY <1>0, <2>1, <2>2, <2>5, <2>6, ResultEases
  <2>8. a \notin Notable
    BY DEF Notable, RestartActions
  <2> QED BY <1>0, <1>2, <2>1, <2>4, <2>7, <2>8, TransitPaid
<1> QED BY <1>1, <1>3, <1>4

\* submit-findings: the result it stores holds on the checkout.
LEMMA AcceptPaid ==
  ASSUME CauseInv, Counted, NEW stage \in {"review", "docs"}, NEW batch \in Reported(stage),
         stage = "review" => run.state = "REVIEW_AWAITING_FINDINGS",
         stage = "docs" => run.state = "DOCS_AWAITING_FINDINGS",
         Accept(stage, batch)
  PROVE  CauseGoal
<1> DEFINE all == findings \o batch
           own == StageFindings(all, stage)
           stored == Submitted(stage, all)
           outcome == IF Blocking(own) = {} THEN "SUBMIT_CLEAN" ELSE "SUBMIT_BLOCKING"
           next == IF Resolved(own) THEN Doing("submitted", NoCommit) ELSE Idle
<1>0. /\ RecordInv /\ Standing(run) /\ run \in Run /\ wt # NoCommit /\ wt' = wt /\ moves' = moves
      /\ stage \in Stages
  BY CauseFacts DEF Accept, Still, Stages
<1>1. /\ outcome \in {"SUBMIT_CLEAN", "SUBMIT_BLOCKING"}
      /\ next.op \notin Marking /\ Idle.op \notin Marking
  BY Unmarked
<1>2. CanApply(run, outcome) /\ CommitsBoth(Apply(stored, outcome), all, next)
  BY DEF Accept, Submitted, SubmittedStage
<1>3. /\ Sound(stored) /\ stored.state = run.state /\ stored.restarts = run.restarts
      /\ stored.coverage = IF stage = "review" THEN wt ELSE run.coverage
      /\ \A x \in Stages \ {stage} : stored.stages[x] = run.stages[x]
      /\ stored.stages[stage].fp = FpOf(wt)
      /\ stage = "review" => stored.stages[stage].executor = Effective(run)
  BY <1>0, SubmittedFields
<1> HIDE DEF outcome, next, all, stored
<1>7. Eased(stored, run, wt, Effective(run)) /\ Standing(stored)
  <2>1. \A x \in Stages : stored.stages[x] = run.stages[x] \/ ~Behind(stored.stages[x], wt)
    BY <1>3 DEF Behind
  <2>2. \A x \in ShellStages : run.state # StageTable[x].red
    BY ImportStates
  <2>3. \/ stored.stages["review"] = run.stages["review"]
        \/ ~Foreign(stored.stages["review"], Effective(run))
    BY <1>3 DEF Foreign, Stages
  <2> QED BY <1>0, <1>3, <2>1, <2>2, <2>3, ResultEases
<1>8. stored.coverage # NoCommit
  <2>1. CASE stage = "review"
    BY <1>0, <1>3, <2>1
  <2>2. CASE stage = "docs"
    BY <1>0, <1>3, <2>2, ImportStates DEF Standing
  <2> QED BY <2>1, <2>2
<1>9. CASE Commits(Apply(stored, outcome), next)
  <2>1. /\ run' = Apply(stored, outcome) /\ Legal(stored.state, outcome)
        /\ outcome \notin RestartActions
        /\ \A s \in ShellStages : outcome # StageTable[s].failed
    BY <1>1, <1>2, <1>3, <1>9 DEF CanApply, Commits, RestartActions, ShellStages, StageTable
  <2>2. stored \in Run /\ cmd'.op \notin Marking
    BY <1>1, <1>3, <1>9 DEF Sound, Commits
  <2> QED BY <1>0, <1>7, <1>8, <2>1, <2>2, MovePaid
<1>10. CASE Commits(run, Idle)
  BY <1>0, <1>1, <1>10, SamePaid DEF Commits
<1> QED BY <1>2, <1>9, <1>10 DEF CommitsBoth

\* submit-findings, by the agent or by the configured reviewer.
LEMMA SubmitPaid ==
  ASSUME CauseInv, Counted,
         \/ \E batch \in Reported("review") : SubmitReview(batch) \/ SubmitOutput(batch)
         \/ \E batch \in Reported("docs") : SubmitDocs(batch)
  PROVE  CauseGoal
<1>1. cmd.op = "submit" => run.state = "REVIEW_AWAITING_FINDINGS"
  BY DEF CauseInv, RecordInv, Working
<1> QED BY <1>1, AcceptPaid DEF SubmitReview, SubmitOutput, SubmitDocs

\* respond changes findings, fixes and heads.
LEMMA RespondPaid ==
  ASSUME CauseInv, Counted, NEW i \in DOMAIN findings,
         \/ RespondClosed(i) \/ RespondFixedInPlace(i)
         \/ \E n \in DOMAIN wt : RespondFixedIsolated(i, n)
  PROVE  CauseGoal
<1>0. /\ Sound(run) /\ wt \in Commit /\ run.head \in Commit /\ DOMAIN wt = 1 .. Len(wt)
      /\ run.fixes \subseteq Commit \ {NoCommit} /\ IsFiniteSet(run.fixes)
      /\ Idle.op \notin Marking
  BY CauseFacts, Unmarked, LenProperties DEF Run, Commit, Sound
<1>1. ASSUME NEW answer, NEW p, Answer(i, answer, p), Sound(p), p.restarts = run.restarts,
             p.coverage = run.coverage, p.state = run.state, p.stages = run.stages
      PROVE  CauseGoal
  <2> DEFINE f == [findings EXCEPT ![i] = answer]
             r == Assessed(p, Changed(Tree(wt)), f)
  <2>0. /\ r \in Run /\ r.restarts = run.restarts /\ r.coverage = run.coverage
        /\ r.state = run.state /\ r.stages = run.stages
    BY <1>0, <1>1, ChangedTyped, AssessedSound, AssessedFits DEF Sound
  <2>1. PICK next \in {Doing("reopen", NoCommit), Doing("resolved", NoCommit), Idle} :
          Commits(Apply(r, "RESPOND"), next) \/ Commits(run, Idle)
    BY <1>1 DEF Answer, CommitsBoth
  <2> HIDE DEF r
  <2>2. wt' = wt /\ moves' = moves /\ next.op \notin Marking /\ Legal(r.state, "RESPOND")
    BY <1>1, <2>0, Unmarked DEF Answer, Still, CanApply
  <2>3. CASE Commits(run, Idle)
    BY <1>0, <2>2, <2>3, SamePaid DEF Commits
  <2>4. CASE Commits(Apply(r, "RESPOND"), next)
    <3>1. /\ "RESPOND" \notin RestartActions \cup {"SUBMIT_CLEAN", "SUBMIT_BLOCKING"}
          /\ \A s \in ShellStages : "RESPOND" # StageTable[s].failed
      BY DEF RestartActions, ShellStages, StageTable
    <3>2. Eased(r, run, wt, Effective(run)) /\ Standing(r)
      BY <2>0, SelfEases
    <3> QED BY <2>0, <2>2, <2>4, <3>1, <3>2, MovePaid DEF Commits
  <2> QED BY <2>1, <2>3, <2>4
<1>2. CASE RespondClosed(i)
  BY <1>0, <1>1, <1>2 DEF RespondClosed
<1>3. CASE RespondFixedInPlace(i)
  <2> DEFINE fixes == run.fixes \cup CommitsBetween(run.head, wt)
             r == [run EXCEPT !.fixes = fixes, !.head = wt, !.sourceHead = wt]
  <2>1. fixes \subseteq Commit \ {NoCommit} /\ IsFiniteSet(fixes)
    <3>1. /\ CommitsBetween(run.head, wt) \subseteq Commit \ {NoCommit}
          /\ IsFiniteSet(CommitsBetween(run.head, wt))
      BY <1>0, CommitsBetweenTyped
    <3> QED BY <1>0, <3>1, FS_Union
  <2>2. Answer(i, [findings[i] EXCEPT !.status = "fixed", !.fix = wt], r)
    BY <1>3 DEF RespondFixedInPlace
  <2> HIDE DEF fixes
  <2>3. /\ Sound(r) /\ r.state = run.state /\ r.stages = run.stages
        /\ r.coverage = run.coverage /\ r.restarts = run.restarts
    BY <1>0, <2>1 DEF Sound, Run
  <2> HIDE DEF r
  <2> QED BY <1>1, <2>2, <2>3
<1>4. ASSUME NEW n \in DOMAIN wt, RespondFixedIsolated(i, n)
      PROVE  CauseGoal
  <2> DEFINE c == SubSeq(wt, 1, n)
             fixes == run.fixes \cup {c}
             r == [run EXCEPT !.fixes = fixes]
  <2>1. fixes \subseteq Commit \ {NoCommit} /\ IsFiniteSet(fixes)
    <3>1. c \in Commit \ {NoCommit} /\ IsFiniteSet({c})
      BY <1>0, PrefixTyped, FS_Singleton
    <3> QED BY <1>0, <3>1, FS_Union
  <2>2. Answer(i, [findings[i] EXCEPT !.status = "fixed", !.fix = c], r)
    BY <1>4 DEF RespondFixedIsolated
  <2> HIDE DEF fixes, c
  <2>3. /\ Sound(r) /\ r.state = run.state /\ r.stages = run.stages
        /\ r.coverage = run.coverage /\ r.restarts = run.restarts
    BY <1>0, <2>1 DEF Sound, Run
  <2> HIDE DEF r
  <2> QED BY <1>1, <2>2, <2>3
<1> QED BY <1>2, <1>3, <1>4

\* An attempt of the configured reviewer leaves no result behind.
LEMMA ReviewedEases ==
  ASSUME CauseInv, NEW failed \in BOOLEAN,
         run.state \in {"REVIEW_AWAITING_FINDINGS", "REVIEW_COMMAND_RUNNING"}
  PROVE  /\ Eased(Reviewed(failed), run, wt, Effective(run)) /\ Standing(Reviewed(failed))
         /\ Reviewed(failed) \in Run /\ Reviewed(failed).state = run.state
<1> DEFINE q == Reviewed(failed)
<1>0. run \in Run /\ Standing(run) /\ wt # NoCommit /\ RecordInv
  BY CauseFacts
<1>1. q.restarts = run.restarts
  <2> DEFINE stages == q.stages
  <2>1. PICK x : q = [run EXCEPT !.stages = x]
    BY DEF Reviewed
  <2> HIDE DEF q
  <2> QED BY <1>0, <2>1 DEF Run
<1>2. /\ q \in Run /\ q.state = run.state /\ q.coverage = run.coverage
      /\ q.stages["review"].fp = run.stages["review"].fp
      /\ \A s \in Stages \ {"review"} : q.stages[s] = run.stages[s]
  BY <1>0, ReviewedFields DEF Sound
<1> HIDE DEF q
<1>3. run.stages["review"].fp = NoFp
  BY <1>0, FindingRows DEF RecordInv, Fit, Uncovered
<1>4. /\ \A s \in Stages : q.stages[s] = run.stages[s] \/ ~Behind(q.stages[s], wt)
      /\ ~Foreign(q.stages["review"], Effective(run))
  BY <1>2, <1>3 DEF Behind, Foreign, NoFp
<1>5. \A s \in ShellStages : run.state # StageTable[s].red
  BY DEF ShellStages, StageTable
<1> QED BY <1>0, <1>1, <1>2, <1>4, <1>5, ResultEases DEF q

\* review run: start, recover, end and reject.
LEMMA ReviewerPaid ==
  ASSUME CauseInv, Counted, StartReviewer \/ RecoverReviewer \/ ReviewerEnds \/ RejectOutput
  PROVE  CauseGoal
<1>0. /\ run \in Run /\ Standing(run) /\ wt' = wt /\ moves' = moves
      /\ Idle.op \notin Marking /\ Doing("reviewer", wt).op \notin Marking
      /\ Doing("submit", cmd.at).op \notin Marking
  BY CauseFacts, Unmarked DEF StartReviewer, RecoverReviewer, ReviewerEnds, RejectOutput, RecordOnly,
                     ExceptSeen, Still
<1>1. Notable \cap {"RUN_REVIEW_COMMAND", "RETRY_REVIEW_COMMAND", "REVIEW_COMMAND_PASSED",
                    "REVIEW_COMMAND_FAILED"} = {}
  BY DEF Notable, RestartActions
<1>2. CASE StartReviewer
  <2>1. PICK a \in {"RUN_REVIEW_COMMAND", "RETRY_REVIEW_COMMAND"} :
          Transits(run, a, Doing("reviewer", wt))
    BY <1>2 DEF StartReviewer
  <2>2. Eased(run, run, wt, Effective(run))
    BY SelfEases
  <2> QED BY <1>0, <1>1, <2>1, <2>2, TransitPaid
<1>3. CASE RecoverReviewer \/ ReviewerEnds
  <2>1. PICK failed \in BOOLEAN, a \in {"REVIEW_COMMAND_PASSED", "REVIEW_COMMAND_FAILED"},
             next \in {Idle, Doing("submit", cmd.at)} : Transits(Reviewed(failed), a, next)
    BY <1>3 DEF RecoverReviewer, ReviewerEnds
  <2>2. run.state = "REVIEW_COMMAND_RUNNING"
    BY <1>3 DEF RecoverReviewer, ReviewerEnds, CauseInv, RecordInv, Working
  <2> DEFINE q == Reviewed(failed)
  <2>3. Eased(q, run, wt, Effective(run)) /\ Standing(q) /\ q \in Run
    BY <2>2, ReviewedEases
  <2>4. next.op \notin Marking /\ a \notin Notable /\ Transits(q, a, next)
    BY <1>0, <1>1, <2>1
  <2> HIDE DEF q
  <2> QED BY <1>0, <2>3, <2>4, TransitPaid
<1>4. CASE RejectOutput
  <2>1. CASE Commits([run EXCEPT !.stale = TRUE], Idle)
    BY <1>0, <2>1, SamePaid DEF Commits, Run
  <2>2. CASE /\ CanApply(run, "RUN_REVIEW_COMMAND")
             /\ Commits(Apply(Apply(Reviewed(TRUE), "RUN_REVIEW_COMMAND"),
                              "REVIEW_COMMAND_FAILED"), Idle)
    <3> DEFINE q == Reviewed(TRUE)
               r == Apply(q, "RUN_REVIEW_COMMAND")
    <3>1. run.state = "REVIEW_AWAITING_FINDINGS"
      BY <1>4 DEF CauseInv, RecordInv, Working, RejectOutput
    <3>2. Eased(q, run, wt, Effective(run)) /\ Standing(q) /\ q \in Run /\ q.state = run.state
      BY <3>1, ReviewedEases
    <3> HIDE DEF q
    <3>3. /\ Legal(q.state, "RUN_REVIEW_COMMAND")
          /\ {"RUN_REVIEW_COMMAND", "REVIEW_COMMAND_FAILED"} \cap
               (RestartActions \cup {"SUBMIT_CLEAN", "SUBMIT_BLOCKING"}) = {}
          /\ \A s \in ShellStages :
               StageTable[s].failed \notin {"RUN_REVIEW_COMMAND", "REVIEW_COMMAND_FAILED"}
      BY <2>2, <3>2 DEF CanApply, RestartActions, ShellStages, StageTable
    <3>4. Eased(r, q, wt, Effective(run)) /\ Standing(r)
      BY <3>2, <3>3, MoveEases
    <3>5. r \in Run /\ r.state = "REVIEW_COMMAND_RUNNING"
      <4>1. NextState("REVIEW_AWAITING_FINDINGS", "RUN_REVIEW_COMMAND") = "REVIEW_COMMAND_RUNNING"
            /\ "REVIEW_COMMAND_RUNNING" \in States
        BY DEF NextState, Moves, States
      <4> QED BY <3>1, <3>2, <4>1, ApplyTyped, ApplyState
    <3>6. run' = Apply(r, "REVIEW_COMMAND_FAILED") /\ cmd' = Idle
      BY <2>2 DEF Commits, q
    <3> HIDE DEF r
    <3>7. Eased(r, run, wt, Effective(run))
      BY <1>0, <3>2, <3>4, <3>5, EasedTwice
    <3>8. Legal(r.state, "REVIEW_COMMAND_FAILED")
      BY <3>5 DEF Legal, Moves
    <3> QED BY <1>0, <3>3, <3>4, <3>5, <3>6, <3>7, <3>8, MovePaid
  <2> QED BY <1>4, <2>1, <2>2 DEF RejectOutput
<1> QED BY <1>2, <1>3, <1>4

\* What a shell stage leaves of another shape than a result held elsewhere.
LEMMA ShellStands ==
  ASSUME CauseInv, NEW s \in ShellStages, NEW a \in {StageTable[s].passed, StageTable[s].failed},
         Legal(run.state, a), NEW q, q.state = run.state, q.coverage = run.coverage
  PROVE  Standing(q) /\ run.state = StageTable[s].running
         /\ \A x \in ShellStages : run.state # StageTable[x].red
<1>1. a \in Ordinary /\ a \notin ClosingActions
  BY ShellRows DEF Ordinary, ClosingActions
<1>2. run.state = StageTable[s].running
  <2> DEFINE t == NextState(run.state, a)
  <2>1. Row(run.state, a, t)
    BY <1>1, LegalRow
  <2> HIDE DEF t
  <2> QED BY <2>1, ShellRows
<1>3. \A x \in ShellStages : run.state # StageTable[x].red
  BY <1>2 DEF ShellStages, StageTable
<1> QED BY <1>2, <1>3, CauseFacts DEF Standing

\* A failure of a shell stage, however it came about.
LEMMA FailurePaid ==
  ASSUME CauseInv, Counted, NEW s \in ShellStages, wt' = wt, moves' = moves, NEW q, q \in Run,
         q.state = run.state, q.coverage = run.coverage, q.restarts = run.restarts,
         \A x \in Stages \ {s} : q.stages[x] = run.stages[x],
         ~Done(q.stages[s]), q.stages[s].head = wt, Transits(q, StageTable[s].failed, Idle)
  PROVE  CauseGoal
<1> DEFINE r == Apply(q, StageTable[s].failed)
<1>1. /\ run' = r /\ cmd' = Idle /\ Legal(q.state, StageTable[s].failed)
      /\ run \in Run /\ Standing(run) /\ wt # NoCommit
  BY CauseFacts DEF Transits, Commits, CanApply
<1>2. Standing(q) /\ \A x \in ShellStages : run.state # StageTable[x].red
  BY <1>1, ShellStands
<1>3. \A x \in Stages : q.stages[x] = run.stages[x] \/ ~Behind(q.stages[x], wt)
  BY DEF Behind
<1>4. Eased(q, run, wt, Effective(run))
  <2>1. q.stages["review"] = run.stages["review"]
    BY DEF Stages, ShellStages
  <2> QED BY <1>1, <1>2, <1>3, <2>1, ResultEases
<1>5. Eased(r, q, wt, Effective(run)) /\ Standing(r)
  BY <1>1, <1>2, FailureEases
<1>6. r \in Run
  <2>1. NextState(q.state, StageTable[s].failed) \in States
    BY <1>1, LegalTarget
  <2> QED BY <2>1, ApplyTyped
<1> HIDE DEF r
<1>7. Eased(r, run, wt, Effective(run))
  BY <1>1, <1>4, <1>5, <1>6, EasedTwice
<1> QED BY <1>1, <1>5, <1>6, <1>7, Unmarked, EasedPaid DEF Run

\* _recover_interrupted_stage.
LEMMA RecoverPaid ==
  ASSUME CauseInv, Counted, NEW s \in ShellStages, RecoverStage(s)
  PROVE  CauseGoal
<1> DEFINE old == run.stages[s]
           attempts == old.attempts + 1
           record == [old EXCEPT !.status = "red", !.attempts = attempts, !.head = wt]
           stages == [run.stages EXCEPT ![s] = record]
           q == Failed(s)
<1>1. /\ run \in Run /\ run.stages \in [Stages -> StageRecord] /\ s \in Stages
      /\ old \in StageRecord /\ wt' = wt /\ moves' = moves /\ RecordInv
  BY CauseFacts, RecordFacts DEF Stages, ShellStages, RecoverStage, RecordOnly, Still
<1>2. Failed(s) = [run EXCEPT !.stages = stages]
  BY DEF Failed
<1> HIDE DEF attempts
<1>3. record.status = "red" /\ record.head = wt
  <2> HIDE DEF old
  <2> QED BY <1>1 DEF StageRecord
<1> HIDE DEF record
<1>4. stages[s] = record /\ \A x \in Stages \ {s} : stages[x] = run.stages[x]
  BY <1>1
<1> HIDE DEF stages
<1>5. /\ q.state = run.state /\ q.coverage = run.coverage /\ q.restarts = run.restarts
      /\ q.stages = stages
  BY <1>1, <1>2 DEF Run
<1>6. q \in Run
  BY <1>1, FailedSound DEF RecordInv, Sound
<1>7. Transits(q, StageTable[s].failed, Idle)
  BY DEF RecoverStage
<1> HIDE DEF q
<1> QED BY <1>1, <1>3, <1>4, <1>5, <1>6, <1>7, FailurePaid DEF Done

\* check_baseline failing to prepare the base.
LEMMA BaselinePaid ==
  ASSUME CauseInv, Counted, NEW s \in ShellStages, BaselineFails(s)
  PROVE  CauseGoal
<1> DEFINE record == [NoRecord EXCEPT !.status = "red", !.head = wt,
                                      !.attempts = run.stages[s].attempts + 1]
           stages == [run.stages EXCEPT ![s] = record]
           q == [run EXCEPT !.stages = stages, !.setup = s]
<1>1. /\ run \in Run /\ run.stages \in [Stages -> StageRecord] /\ s \in Stages
      /\ s \in {"lint", "test"} /\ run.stages[s].attempts + 1 \in Nat /\ wt \in Commit
      /\ wt' = wt /\ moves' = moves
  BY CauseFacts, RecordFacts DEF Stages, ShellStages, BaselineFails, RecordOnly, Still, StageRecord
<1>2. record \in StageRecord /\ record.status = "red" /\ record.head = wt
  BY <1>1, NothingTyped DEF StageRecord, Status, NoRecord
<1>3. Transits(q, StageTable[s].failed, Idle)
  BY DEF BaselineFails
<1> HIDE DEF record
<1>4. /\ stages \in [Stages -> StageRecord]
      /\ stages[s] = record /\ \A x \in Stages \ {s} : stages[x] = run.stages[x]
  BY <1>1, <1>2
<1> HIDE DEF stages
<1>5. /\ q \in Run /\ q.state = run.state /\ q.coverage = run.coverage
      /\ q.restarts = run.restarts /\ q.stages = stages
  BY <1>1, <1>4 DEF Run
<1> HIDE DEF q
<1> QED BY <1>1, <1>2, <1>3, <1>4, <1>5, FailurePaid DEF Done

\* A stage that passed on inputs that changed while it ran was paid for already.
LEMMA OvertakenPaid ==
  ASSUME CauseInv, Counted, Overtaken, wt' = wt, moves' = moves, run'.restarts = run.restarts,
         Standing(run'), cmd'.op \notin Marking
  PROVE  CauseGoal
<1>1. /\ run.restarts \in Nat /\ moves \in Nat /\ switches \in Nat
      /\ InPlace => run.restarts + 2 <= 2 * moves + switches
  BY CauseFacts DEF CauseInv, Paid
<1>2. Owed(run, wt, Effective(run))' \in {0, 1, 2} /\ ~Overtaken'
  BY DEF Owed, Overtaken, Marking
<1>3. switches' \in Nat /\ switches' >= switches
  BY <1>1 DEF Counted
<1>4. InPlace => Paid'
  BY <1>1, <1>2, <1>3 DEF Paid
<1> QED BY <1>4 DEF CauseGoal, Marking

\* _persist_stage_result.
LEMMA EndStagePaid ==
  ASSUME CauseInv, Counted, NEW s \in ShellStages, NEW passed \in BOOLEAN, EndStage(s, passed)
  PROVE  CauseGoal
<1> DEFINE same == Tree(cmd.at) = Tree(wt)
           fp == [flag |-> IF same THEN "ok" ELSE "unavailable", tree |-> Tree(wt)]
           old == run.stages[s]
           status == IF passed THEN "green" ELSE "red"
           attempts == IF passed THEN old.attempts ELSE old.attempts + 1
           record == StageResult(s, passed, fp)
           next == IF ~passed THEN Idle
                   ELSE Doing(IF s = "lint" THEN "skip_test" ELSE "advance", NoCommit)
           a == IF passed THEN StageTable[s].passed ELSE StageTable[s].failed
           q == Put(run, s, record)
<1>1. /\ run \in Run /\ Sound(run) /\ Standing(run) /\ s \in Stages /\ wt \in Commit
      /\ wt # NoCommit /\ old \in StageRecord /\ wt' = wt /\ moves' = moves
      /\ Tree(wt) \in SUBSET Patch
  BY CauseFacts, RecordFacts, TreeTyped DEF Stages, ShellStages, EndStage, ExceptRan, Still
<1>2. /\ fp \in Fingerprint /\ status \in Status /\ attempts \in Nat
      /\ same => fp = FpOf(wt)
  BY <1>1 DEF Fingerprint, FpFlag, Status, StageRecord, FpOf
<1>3. record = [old EXCEPT !.status = status, !.attempts = attempts, !.head = wt, !.fp = fp]
  BY DEF StageResult
<1>4. Transits(q, a, next) /\ cmd.op = s
  BY DEF EndStage
<1>5. next.op \notin Marking
  BY Unmarked
<1> HIDE DEF fp, attempts, next, record
<1>6. record \in StageRecord /\ record.status = status /\ record.head = wt /\ record.fp = fp
  <2> HIDE DEF old, status
  <2> QED BY <1>1, <1>2, <1>3 DEF StageRecord
<1>7. /\ q \in Run /\ q.state = run.state /\ q.coverage = run.coverage
      /\ q.restarts = run.restarts
      /\ \A x \in Stages : q.stages[x] = IF x = s THEN record ELSE run.stages[x]
  <2>1. Sound(q) /\ q.state = run.state
    BY <1>1, <1>6, PutSound
  <2> QED BY <1>1, <2>1, PutFields, NoRestart DEF Sound
<1> HIDE DEF q
<1>8. CASE ~passed
  <2>1. Transits(q, StageTable[s].failed, Idle) /\ ~Done(q.stages[s]) /\ q.stages[s].head = wt
    BY <1>1, <1>4, <1>6, <1>7, <1>8 DEF next, Done
  <2> QED BY <1>1, <1>7, <2>1, FailurePaid
<1>9. CASE passed
  <2>1. a = StageTable[s].passed /\ Transits(q, a, next)
    BY <1>4, <1>9
  <2>2. a \notin Notable /\ a \notin ClosingActions
    BY <2>1 DEF Notable, RestartActions, ClosingActions, ShellStages, StageTable
  <2>3. Legal(run.state, a) /\ run' = Apply(q, a) /\ cmd' = next
    BY <1>7, <2>1 DEF Transits, CanApply, Commits
  <2> HIDE DEF a
  <2>4. Standing(q) /\ \A x \in ShellStages : run.state # StageTable[x].red
    BY <1>7, <2>1, <2>3, ShellStands
  <2>5. CASE same
    <3>1. \A x \in Stages : q.stages[x] = run.stages[x] \/ ~Behind(q.stages[x], wt)
      BY <1>2, <1>6, <1>7, <2>5 DEF Behind
    <3>2. q.stages["review"] = run.stages["review"]
      BY <1>7 DEF Stages, ShellStages
    <3>3. Eased(q, run, wt, Effective(run))
      BY <1>1, <1>7, <2>4, <3>1, <3>2, ResultEases
    <3> QED BY <1>1, <1>5, <1>7, <2>1, <2>2, <2>4, <3>3, TransitPaid
  <2>6. CASE ~same
    <3>1. Overtaken
      BY <1>4, <2>6 DEF Overtaken
    <3>2. /\ a \notin RestartActions
          /\ \A x \in ShellStages : a # StageTable[x].failed
          /\ a \notin {"SUBMIT_CLEAN", "SUBMIT_BLOCKING"}
      BY <2>2 DEF Notable, ShellStages, StageTable
    <3>3. Standing(Apply(q, a)) /\ Apply(q, a).restarts = q.restarts
      BY <1>7, <2>3, <2>4, <3>2, MoveEases, ApplyState
    <3> QED BY <1>1, <1>5, <1>7, <2>3, <3>1, <3>3, OvertakenPaid
  <2> QED BY <2>5, <2>6
<1> QED BY <1>8, <1>9

\* _register_stage_fix_commits: the restart was owed for, and only what the docs
\* stage keeps may still be.
LEMMA RepairPaid ==
  ASSUME CauseInv, Counted, NEW s \in ShellStages, RepairRestart(s)
  PROVE  CauseGoal
<1> DEFINE red == run.stages[s].head
           fixes == run.fixes \cup CommitsBetween(red, wt)
           head == IF InPlace THEN wt ELSE run.head
           source == IF InPlace THEN wt ELSE run.sourceHead
           record == [run.stages[s] EXCEPT !.head = NoCommit]
           stages == [run.stages EXCEPT ![s] = record]
           moved == [run EXCEPT !.fixes = fixes, !.head = head, !.sourceHead = source,
                                !.coverage = NoCommit, !.stages = stages]
           discarded == (ShellStages \ {s}) \cup {"review"}
           reset == Discard(moved, discarded)
           a == StageTable[s].restart
           r == Apply(reset, a)
<1>0. /\ Sound(run) /\ Standing(run) /\ run \in Run /\ wt \in Commit /\ s \in Stages
      /\ wt' = wt /\ moves' = moves
      /\ run.state = StageTable[s].red /\ red \notin {NoCommit, wt} /\ red \in Commit
      /\ run.stages \in [Stages -> StageRecord] /\ run.stages[s] \in StageRecord
  BY CauseFacts, RecordFacts DEF Stages, ShellStages, RepairRestart, RecordOnly, Still, IsStrictPrefix,
                    StageRecord
<1>1. Owed(run, wt, Effective(run)) = 2
  BY <1>0 DEF Owed, Outdated
<1>2. record.status = run.stages[s].status /\ record \in StageRecord
  BY <1>0, NothingTyped DEF StageRecord
<1> HIDE DEF record
<1>3. stages \in [Stages -> StageRecord] /\ stages[s] = record
  BY <1>0, <1>2
<1>4. fixes \subseteq Commit \ {NoCommit} /\ IsFiniteSet(fixes)
  <2>1. /\ CommitsBetween(red, wt) \subseteq Commit \ {NoCommit}
        /\ IsFiniteSet(CommitsBetween(red, wt))
    BY <1>0, CommitsBetweenTyped
  <2> QED BY <1>0, <2>1, FS_Union DEF Sound, Run
<1>5. head \in Commit /\ source \in Commit
  BY <1>0 DEF Sound, Run
<1>6. run' = r /\ cmd' = Idle /\ Legal(reset.state, a)
  BY DEF RepairRestart, Transits, Commits, CanApply, stages, record
<1> HIDE DEF stages, fixes, head, source
<1>7. /\ Sound(moved) /\ moved.state = run.state /\ moved.restarts = run.restarts
      /\ moved.coverage = NoCommit /\ moved.stages = stages
  BY <1>0, <1>3, <1>4, <1>5, NothingTyped DEF Sound, Run
<1> HIDE DEF moved
<1>8. /\ Sound(reset) /\ reset.state = run.state /\ reset.restarts = run.restarts
      /\ reset.coverage = NoCommit /\ reset.stages[s] = record
      /\ \A x \in ShellStages \ {s} : reset.stages[x].status = "pending"
      /\ reset.stages["review"].status = "pending"
  <2>1. Sound(reset) /\ reset.state = run.state /\ reset.restarts = run.restarts
    BY <1>7, DiscardSound
  <2>2. /\ reset.coverage = NoCommit
        /\ \A x \in Stages : /\ x \in discarded => reset.stages[x].status = "pending"
                             /\ x \notin discarded => reset.stages[x] = stages[x]
    BY <1>7, DiscardFields
  <2>3. /\ s \notin discarded /\ "review" \in Stages /\ ShellStages \subseteq Stages
        /\ ShellStages \ {s} \subseteq discarded /\ "review" \in discarded
    BY DEF Stages, ShellStages
  <2> HIDE DEF discarded, reset
  <2> QED BY <1>0, <1>3, <2>1, <2>2, <2>3
<1> HIDE DEF reset
<1>9. a \in RestartActions /\ run.state # "REVIEW_AWAITING_FINDINGS"
  BY <1>0, ShellRows DEF ShellStages, StageTable
<1>10. /\ r.state = "REVIEW_AWAITING_FINDINGS" /\ r.restarts = run.restarts + 1
       /\ r.coverage = NoCommit /\ r.stages = reset.stages
  <2>1. NextState(reset.state, a) = "REVIEW_AWAITING_FINDINGS"
    BY <1>6, <1>9, LegalTarget
  <2> QED BY <1>8, <1>9, <2>1, ApplyState, ApplyKept DEF Sound
<1> HIDE DEF r
<1>11. \A x \in Stages \ {"docs"} : ~Done(r.stages[x])
  <2>1. ~Done(record)
    BY <1>0, <1>2 DEF Standing, Done
  <2> QED BY <1>8, <1>10, <2>1 DEF Done, Stages, ShellStages
<1>12. ~Outdated(r, wt) /\ Standing(r)
  <2>1. r.state \in Unreviewed /\ \A x \in ShellStages : r.state # StageTable[x].red
    BY <1>10, ImportStates DEF Unreviewed
  <2> QED BY <1>10, <1>11, <2>1 DEF Outdated, Standing, Behind
<1>13. run.restarts \in Nat
  BY CauseFacts
<1>14. Eased(r, run, wt, Effective(run))
  <2>1. Owed(r, wt, Effective(run)) \in {0, 1}
    BY <1>12 DEF Owed
  <2> QED BY <1>1, <1>10, <1>13, <2>1 DEF Eased
<1> QED BY <1>0, <1>6, <1>10, <1>12, <1>13, <1>14, Unmarked, EasedPaid

\* stage run up to the start of the command, which takes the checkout as it is.
LEMMA BeginPaid ==
  ASSUME CauseInv, Counted, NEW s \in ShellStages, BeginStage(s)
  PROVE  CauseGoal
<1> DEFINE outdated == run.stages[s].head \notin {NoCommit, wt}
           red == run.state = StageTable[s].red
           base == IF outdated THEN Discard(run, {s}) ELSE run
           q == [base EXCEPT !.setup = "none"]
           a == IF red THEN StageTable[s].retry ELSE StageTable[s].begin
           r == Apply(q, a)
<1>0. /\ Sound(run) /\ Standing(run) /\ run \in Run /\ s \in Stages /\ wt # NoCommit
      /\ wt' = wt /\ moves' = moves /\ run.restarts \in Nat /\ moves \in Nat /\ switches \in Nat
      /\ InPlace => run.restarts + Owed(run, wt, Effective(run)) <= 2 * moves + switches
      /\ run.state \in {StageTable[s].ready, StageTable[s].red} /\ (red => ~outdated)
  BY CauseFacts DEF Stages, ShellStages, BeginStage, RecordOnly, Still
<1>1. run' = r /\ cmd' = Doing(s, wt) /\ Legal(q.state, a)
  BY DEF BeginStage, Transits, Commits, CanApply
<1>2. /\ Sound(base) /\ base.state = run.state /\ base.restarts = run.restarts
      /\ base.coverage = run.coverage
      /\ \A x \in Stages \ {s} : base.stages[x] = run.stages[x]
      /\ red => base.stages[s] = run.stages[s]
      /\ ~red => base.stages[s] = run.stages[s] \/ ~Done(base.stages[s])
  <2>1. CASE outdated
    <3>1. /\ Sound(Discard(run, {s})) /\ Discard(run, {s}).state = run.state
          /\ Discard(run, {s}).restarts = run.restarts
      BY <1>0, DiscardSound
    <3>2. /\ Discard(run, {s}).coverage = run.coverage
          /\ \A x \in Stages :
               /\ x \in {s} => Discard(run, {s}).stages[x].status = "pending"
               /\ x \notin {s} => Discard(run, {s}).stages[x] = run.stages[x]
      BY <1>0, DiscardFields
    <3> QED BY <1>0, <2>1, <3>1, <3>2 DEF Done
  <2>2. CASE ~outdated
    BY <1>0, <2>2
  <2> QED BY <2>1, <2>2
<1> HIDE DEF base
<1>3. /\ q \in Run /\ q.state = run.state /\ q.stages = base.stages
      /\ q.coverage = run.coverage /\ q.restarts = run.restarts
  BY <1>2 DEF Sound, Run
<1> HIDE DEF q
<1>4. Eased(q, run, wt, Effective(run)) /\ Standing(q)
  <2>1. CASE red
    <3>1. \A x \in Stages : q.stages[x] = run.stages[x]
      BY <1>2, <1>3, <2>1
    <3>2. \A who : Owed(q, wt, who) = Owed(run, wt, who)
      BY <1>3, <3>1 DEF Owed, Outdated, Stages, ShellStages
    <3>3. Standing(q)
      BY <1>0, <1>3, <3>1 DEF Standing, Stages, ShellStages
    <3> QED BY <1>0, <1>3, <3>2, <3>3, OwedTyped DEF Eased
  <2>2. CASE ~red
    <3>1. \A x \in ShellStages : run.state # StageTable[x].red
      BY <1>0, <2>2 DEF ShellStages, StageTable
    <3>2. /\ \A x \in Stages : q.stages[x] = run.stages[x] \/ ~Behind(q.stages[x], wt)
          /\ q.stages["review"] = run.stages["review"]
      BY <1>2, <1>3, <2>2 DEF Behind, Stages, ShellStages
    <3> QED BY <1>0, <1>3, <3>1, <3>2, ResultEases
  <2> QED BY <2>1, <2>2
<1>5. /\ a \notin RestartActions \cup {"SUBMIT_CLEAN", "SUBMIT_BLOCKING"}
      /\ \A x \in ShellStages : a # StageTable[x].failed
  BY DEF RestartActions, ShellStages, StageTable
<1> HIDE DEF a
<1>6. Eased(r, q, wt, Effective(run)) /\ Standing(r) /\ r.restarts = run.restarts
  BY <1>1, <1>3, <1>4, <1>5, MoveEases, ApplyState
<1> HIDE DEF r
<1>7. run.restarts + Owed(r, wt, Effective(run)) <= run.restarts + Owed(run, wt, Effective(run))
  <2>1. \A p : Owed(p, wt, Effective(run)) \in {0, 1, 2}
    BY OwedTyped
  <2> QED BY <1>0, <1>3, <1>4, <1>6, <2>1 DEF Eased
<1>8. cmd'.op = s /\ cmd'.at = wt
  BY <1>1 DEF Doing
<1>9. Paid' <=> r.restarts + Owed(r, wt, Effective(r)) <= 2 * moves + switches'
  <2>1. ~Overtaken'
    BY <1>0, <1>1, <1>8 DEF Overtaken
  <2> QED BY <1>0, <1>1, <2>1 DEF Paid
<1>10. InPlace => Paid'
  <2> DEFINE who == Effective(run)
             new == Effective(r)
  <2>1. /\ Owed(r, wt, who) \in {0, 1, 2} /\ Owed(run, wt, who) \in {0, 1, 2}
        /\ Owed(r, wt, new) \in {0, 1, 2}
    BY OwedTyped
  <2>2. Owed(r, wt, new) <= Owed(r, wt, who) + (IF new # who THEN 1 ELSE 0)
    BY SwitchOwes
  <2>3. switches' = switches + (IF new # who THEN 1 ELSE 0)
    BY <1>1 DEF Counted
  <2> HIDE DEF who, new
  <2> QED BY <1>0, <1>6, <1>7, <1>9, <2>1, <2>2, <2>3 DEF who, new
<1>11. s \notin StartOps \cup Isolating
  BY DEF ShellStages, StartOps, Isolating
<1> QED BY <1>1, <1>6, <1>8, <1>10, <1>11 DEF CauseGoal

\* Every step of the shell stages is paid for.
LEMMA StagePaid ==
  ASSUME CauseInv, Counted, StageStep
  PROVE  CauseGoal
BY SkipPaid, RecoverPaid, RepairPaid, BeginPaid, BaselinePaid, EndStagePaid DEF StageStep

\* A run with a checkout of its own is not counted, wherever its branches go.
LEMMA IsolatedPaid ==
  ASSUME ~InPlace, Standing(run'), cmd'.op \notin StartOps
  PROVE  CauseGoal
BY DEF CauseGoal

\* A move of a record that differs from the run's in other fields only.
LEMMA MarkPaid ==
  ASSUME CauseInv, Counted, wt' = wt, moves' = moves, NEW r, r \in Run, r.restarts = run.restarts,
         r.coverage = run.coverage, r.state = run.state, r.stages = run.stages,
         NEW a, a \notin Notable, NEW next, next.op \notin Marking,
         Transits(r, a, next) \/ Commits(r, next)
  PROVE  CauseGoal
<1>1. CASE Transits(r, a, next)
  BY <1>1, SelfEases, TransitPaid
<1>2. CASE Commits(r, next)
  BY <1>2, SamePaid DEF Commits
<1> QED BY <1>1, <1>2

\* mergeback, begun, tried again, taken up again, and recorded.
LEMMA MergeMovesPaid ==
  ASSUME CauseInv, Counted, BeginMergeback \/ RetryMergeback \/ ResumeMergeback \/ RecordMergeback
  PROVE  CauseGoal
<1>0. /\ run \in Run /\ wt' = wt /\ moves' = moves /\ Sound(run) /\ RecordInv
      /\ findings \in Seq(Finding)
  BY CauseFacts DEF BeginMergeback, RetryMergeback, ResumeMergeback, RecordMergeback, RecordOnly,
                    Still
<1>1. Notable \cap {"BEGIN_MERGEBACK", "MERGEBACK_RETRY", "MERGEBACK_OK"} = {}
  BY DEF Notable, RestartActions
<1> DEFINE a == Archive(run, findings)
<1>2. /\ a \in Run /\ a.state = run.state /\ a.restarts = run.restarts
      /\ a.coverage = run.coverage /\ a.stages = run.stages
  BY <1>0, ArchiveSound, ArchiveFields, NoRestart DEF Sound
<1>3. ASSUME NEW retrying \in BOOLEAN
      PROVE  LET r == Attempted(retrying)
             IN /\ r \in Run /\ r.state = run.state /\ r.restarts = run.restarts
                /\ r.coverage = run.coverage /\ r.stages = run.stages
  <2> DEFINE attempt == [source |-> src, validation |-> wt, retrying |-> retrying]
             r == [a EXCEPT !.attempt = attempt]
  <2>1. Attempted(retrying) = r
    BY DEF Attempted
  <2> HIDE DEF a, attempt
  <2>2. /\ r.state = run.state /\ r.restarts = run.restarts
        /\ r.coverage = run.coverage /\ r.stages = run.stages
    BY <1>2 DEF Run
  <2> HIDE DEF r
  <2>3. Attempted(retrying) \in Run
    BY <1>0, AttemptedFits DEF Sound
  <2> QED BY <2>1, <2>2, <2>3
<1>4. CASE BeginMergeback \/ RetryMergeback
  <2>1. PICK retrying \in BOOLEAN, m \in {"BEGIN_MERGEBACK", "MERGEBACK_RETRY"} :
          Transits(Attempted(retrying), m, Doing("merge", NoCommit))
    BY <1>4 DEF BeginMergeback, RetryMergeback
  <2> DEFINE r == Attempted(retrying)
  <2>2. /\ r \in Run /\ r.state = run.state /\ r.restarts = run.restarts
        /\ r.coverage = run.coverage /\ r.stages = run.stages
    BY <1>3
  <2>3. Transits(r, m, Doing("merge", NoCommit))
    BY <2>1
  <2> HIDE DEF r
  <2> QED BY <1>0, <1>1, <2>2, <2>3, Unmarked, MarkPaid
<1>5. CASE ResumeMergeback
  <2>1. CASE Commits(a, Doing("merge", NoCommit)) \/ Commits(a, Doing("attest", src))
    <3> HIDE DEF a
    <3> QED BY <1>0, <1>2, <2>1, Unmarked, SamePaid DEF Commits
  <2>2. CASE Commits([run EXCEPT !.stale = TRUE], Idle)
    BY <1>0, <2>2, Unmarked, SamePaid DEF Commits, Run
  <2> QED BY <1>5, <2>1, <2>2 DEF ResumeMergeback
<1>6. CASE RecordMergeback
  <2> DEFINE r == [run EXCEPT !.head = cmd.at, !.sourceHead = cmd.at]
  <2>1. cmd.at \in Commit /\ Transits(r, "MERGEBACK_OK", Idle)
    BY <1>0, <1>6, RecordFacts DEF RecordMergeback
  <2>2. /\ r \in Run /\ r.state = run.state /\ r.restarts = run.restarts
        /\ r.coverage = run.coverage /\ r.stages = run.stages
    BY <1>0, <2>1 DEF Run
  <2> HIDE DEF r
  <2> QED BY <1>0, <1>1, <2>1, <2>2, Unmarked, MarkPaid
<1> QED BY <1>4, <1>5, <1>6

\* The conflict report.
LEMMA ConflictPaid ==
  ASSUME CauseInv, Counted, MergeConflicts, moves' = moves
  PROVE  CauseGoal
<1>1. run \in Run /\ wt' = wt /\ Transits(run, "MERGEBACK_FAILED", Idle)
  BY CauseFacts DEF MergeConflicts
<1>2. "MERGEBACK_FAILED" \notin Notable
  BY DEF Notable, RestartActions
<1> QED BY <1>1, <1>2, Unmarked, MarkPaid

\* The branches are moved in a checkout of the run's own only.
LEMMA BranchPaid ==
  ASSUME CauseInv, Counted, SyncSource \/ PickFixes \/ ResetCheckout \/ Attest
  PROVE  CauseGoal
<1>0. moves' = moves /\ Standing(run) /\ run \in Run
  BY CauseFacts DEF SyncSource, PickFixes, ResetCheckout, Attest, ExceptCheckouts, budget
<1>1. CASE MergeConflicts
  BY <1>0, <1>1, ConflictPaid
<1>2. CASE ~InPlace /\ run' = run /\ cmd'.op \notin StartOps
  BY <1>0, <1>2, IsolatedPaid
<1>3. \A op \in {"pick", "attest", "reset", "resetting"} : \A c : Doing(op, c).op \notin StartOps
  BY DEF Doing, StartOps
<1>4. CASE SyncSource /\ ~MergeConflicts
  <2>1. CASE InPlace
    BY <1>0, <1>4, <2>1, Unmarked, SamePaid DEF SyncSource, Commits
  <2>2. CASE ~InPlace
    BY <1>2, <1>3, <1>4, <2>2 DEF SyncSource, Commits
  <2> QED BY <2>1, <2>2
<1>5. CASE PickFixes /\ ~MergeConflicts
  <2>1. ~InPlace
    BY <1>5 DEF PickFixes, CauseInv, Isolating
  <2>2. run' = run /\ (cmd' = Idle \/ \E c : cmd' = Compared(c))
    BY <1>5 DEF PickFixes, Commits
  <2>3. cmd'.op \notin StartOps
    BY <1>3, <2>2, Unmarked DEF Compared, Marking
  <2> QED BY <1>2, <2>1, <2>2, <2>3
<1>6. CASE ResetCheckout
  <2>1. ~InPlace /\ run' = run /\ cmd' = Doing("resetting", cmd.at)
    BY <1>6 DEF ResetCheckout, CauseInv, Isolating, Commits
  <2> QED BY <1>2, <1>3, <2>1
<1>7. CASE Attest
  <2>1. run' = run /\ wt' = wt /\ cmd' \in {Idle, Doing("noted", cmd.at)}
    BY <1>7 DEF Attest, Commits, checkouts
  <2> QED BY <1>0, <2>1, Unmarked, SamePaid
<1> QED BY <1>1, <1>4, <1>5, <1>6, <1>7

\* _reset_non_equivalent_merge_to_review.
LEMMA ResetPaid ==
  ASSUME CauseInv, Counted, RecordReset
  PROVE  CauseGoal
<1>1. ~InPlace /\ RecordInv /\ cmd.op = "resetting"
  BY DEF RecordReset, CauseInv, Isolating
<1>2. run.state = "MERGEBACK_PENDING" /\ run'.state = NextState(run.state, "INVALIDATE_REVIEW")
  BY <1>1, RecordResetRecord DEF Forward, RecordInv, Working, Merging
<1>3. run'.state = "REVIEW_AWAITING_FINDINGS" /\ cmd' = Idle
  BY <1>2, MergeRows DEF RecordReset, Transits, Commits
<1>4. Standing(run')
  BY <1>3, ImportStates DEF Standing, Unreviewed
<1> QED BY <1>1, <1>3, <1>4, Unmarked, IsolatedPaid DEF Marking

\* Every step of mergeback is paid for.
LEMMA MergePaid ==
  ASSUME CauseInv, Counted, MergeStep
  PROVE  CauseGoal
BY SettlePaid, MergeMovesPaid, BranchPaid, ResetPaid DEF MergeStep

\* Publication and the end of a run restart nothing.
LEMMA PublishPaid ==
  ASSUME CauseInv, Counted, PublishStep
  PROVE  CauseGoal
<1>0. /\ run \in Run /\ Sound(run) /\ run.token \in Nat /\ Idle.op \notin Marking
      /\ cmd.at \in Commit /\ run.head \in Commit
  BY CauseFacts, RecordFacts, Unmarked DEF Run
<1>1. Notable \cap {"GATE", "PUSH", "FINISH", "ABORT", "ORPHAN"} = {}
  BY DEF Notable, RestartActions
<1> DEFINE assessed == Assessed(run, Changed(Tree(run.head)), findings)
           token == run.token + 1
<1>9. /\ assessed \in Run /\ assessed.state = run.state /\ assessed.restarts = run.restarts
      /\ assessed.coverage = run.coverage /\ assessed.stages = run.stages
      /\ assessed.token = run.token
  BY <1>0, ChangedTyped, AssessedFits, AssessedSound DEF Sound, Kept
<1>10. CASE Gate
  <2>1. /\ wt' = wt /\ moves' = moves
        /\ \/ Commits(assessed, Idle)
           \/ Transits([assessed EXCEPT !.token = @ + 1], "GATE", Idle)
           \/ Commits([assessed EXCEPT !.token = @ + 1], Idle)
    BY <1>10 DEF Gate, RecordOnly, Still
  <2> HIDE DEF assessed
  <2>2. [assessed EXCEPT !.token = @ + 1] = [assessed EXCEPT !.token = token]
    BY <1>9 DEF Run
  <2> DEFINE r == [assessed EXCEPT !.token = token]
  <2>3. /\ r \in Run /\ r.state = run.state /\ r.restarts = run.restarts
        /\ r.coverage = run.coverage /\ r.stages = run.stages
    BY <1>0, <1>9 DEF Run
  <2>4. \/ Commits(assessed, Idle)
        \/ Transits(r, "GATE", Idle) \/ Commits(r, Idle)
    BY <2>1, <2>2
  <2> HIDE DEF r
  <2>5. "GATE" \notin Notable
    BY <1>1
  <2> QED BY <1>0, <1>9, <2>1, <2>3, <2>4, <2>5, MarkPaid
<1>2. ASSUME NEW r, r \in {[run EXCEPT !.pushed = cmd.at], [run EXCEPT !.released = TRUE]}
             \/ \E b \in BOOLEAN : r = [run EXCEPT !.orphaned = TRUE, !.released = b],
             NEW a \in {"GATE", "PUSH", "FINISH", "ABORT", "ORPHAN"},
             Transits(r, a, Idle) \/ Commits(r, Idle), wt' = wt, moves' = moves
      PROVE  CauseGoal
  <2>1. /\ r \in Run /\ r.state = run.state /\ r.restarts = run.restarts
        /\ r.coverage = run.coverage /\ r.stages = run.stages
    <3>2. CASE r = [run EXCEPT !.pushed = cmd.at]
      BY <1>0, <3>2 DEF Run
    <3>3. CASE r = [run EXCEPT !.released = TRUE]
      BY <1>0, <3>3 DEF Run
    <3>4. ASSUME NEW b \in BOOLEAN, r = [run EXCEPT !.orphaned = TRUE, !.released = b]
          PROVE  /\ r \in Run /\ r.state = run.state /\ r.restarts = run.restarts
                 /\ r.coverage = run.coverage /\ r.stages = run.stages
      BY <1>0, <3>4 DEF Run
    <3> QED BY <1>2, <3>2, <3>3, <3>4
  <2> QED BY <1>0, <1>1, <1>2, <2>1, MarkPaid
<1>4. CASE RecordPush
  BY <1>2, <1>4 DEF RecordPush, RecordOnly, Still
<1>5. CASE Finish
  BY <1>2, <1>5 DEF Finish, RecordOnly, Still
<1>6. CASE Orphan
  <2>1. PICK b \in BOOLEAN : Transits([run EXCEPT !.orphaned = TRUE, !.released = b], "ORPHAN", Idle)
    BY <1>6 DEF Orphan
  <2> QED BY <1>2, <1>6, <2>1 DEF Orphan, RecordOnly, Still
<1>7. ASSUME NEW force \in BOOLEAN, Abort(force) PROVE CauseGoal
  BY <1>2, <1>7 DEF Abort, RecordOnly, Still
<1>8. ASSUME NEW confirm, Push(confirm) PROVE CauseGoal
  BY <1>8, Unmarked, SamePaid DEF Push, Commits, checkouts, budget
<1> QED BY <1>10, <1>4, <1>5, <1>6, <1>7, <1>8 DEF PublishStep

\* Every step of the findings stages is paid for.
LEMMA FindingPaid ==
  ASSUME CauseInv, Counted, FindingStep
  PROVE  CauseGoal
<1>1. CASE \/ ReviewContext \/ DocsContext \/ Deliver \/ ReopenReview
          \/ SkipDocs \/ ReopenAfterFix \/ Verify
          \/ StartReviewer \/ RecoverReviewer \/ ReviewerEnds \/ RejectOutput
  BY <1>1, ContextPaid, ReopenPaid, SkipPaid, ReviewerPaid
<1>2. ASSUME NEW batch \in Reported("review"), SubmitReview(batch) \/ SubmitOutput(batch)
      PROVE  CauseGoal
  BY <1>2, SubmitPaid
<1>3. ASSUME NEW batch \in Reported("docs"), SubmitDocs(batch)
      PROVE  CauseGoal
  BY <1>3, SubmitPaid
<1>4. ASSUME NEW i \in DOMAIN findings, \/ RespondClosed(i) \/ RespondFixedInPlace(i)
                                        \/ \E n \in DOMAIN wt : RespondFixedIsolated(i, n)
      PROVE  CauseGoal
  BY <1>4, RespondPaid
<1> QED BY <1>1, <1>2, <1>3, <1>4 DEF FindingStep

\* A run that was just created owes nothing.
LEMMA CauseInit == Init => CauseInv
<1> SUFFICES ASSUME Init PROVE CauseInv
  OBVIOUS
<1>1. /\ RecordInv /\ run = NewRun(src) /\ cmd = Doing("start", NoCommit) /\ moves = 0
      /\ switches = 0
  BY RecordInit DEF Init
<1>2. /\ run.state = "CREATED" /\ run.coverage = NoCommit /\ run.restarts = 0
      /\ \A s \in Stages : run.stages[s] = NoRecord
  BY <1>1 DEF NewRun
<1>3. Blank(run)
  BY <1>2 DEF Blank, Done, NoRecord
<1>4. Standing(run) /\ \A s \in ShellStages : run.state # StageTable[s].red
  BY <1>2 DEF Standing, Unreviewed, ShellStages, StageTable
<1>5. cmd.op = "start"
  BY <1>1 DEF Doing
<1>6. Owed(run, wt, Effective(run)) = 0
  BY <1>2, <1>3, <1>4 DEF Owed, Outdated, Behind, Foreign, Blank, Stages
<1>7. ~Overtaken /\ cmd.op \notin Isolating
  BY <1>5 DEF Overtaken, ShellStages, Isolating
<1>8. Paid
  BY <1>1, <1>2, <1>6, <1>7 DEF Paid
<1> QED BY <1>1, <1>3, <1>4, <1>7, <1>8 DEF CauseInv

\* Every transaction of the program counts a switch that it makes.
LEMMA ProgramCounts ==
  ASSUME Program
  PROVE  Counted
<1>0. \A r, next : Commits(r, next) => Counted
  BY DEF Commits, Counted
<1>1. CASE StartStep
  BY <1>0, <1>1 DEF StartStep, CreateCheckout, Synchronize, Setup, Transits
<1>2. CASE Settle \/ StatusAdvance \/ RefuseStale
  BY <1>0, <1>2 DEF Settle, StatusAdvance, RefuseStale
<1>3. CASE FindingStep
  <2>1. CASE ReviewContext \/ DocsContext \/ Deliver \/ ReopenReview \/ SkipDocs
    BY <1>0, <2>1 DEF ReviewContext, DocsContext, Deliver, ReopenReview, SkipDocs, Transits
  <2>2. CASE ReopenAfterFix \/ Verify
    BY <1>0, <2>2 DEF ReopenAfterFix, Verify, Transits
  <2>3. CASE StartReviewer \/ RecoverReviewer \/ ReviewerEnds \/ RejectOutput
    BY <1>0, <2>3 DEF StartReviewer, RecoverReviewer, ReviewerEnds, RejectOutput, Transits
  <2>4. ASSUME NEW stage, NEW batch, Accept(stage, batch) PROVE Counted
    BY <1>0, <2>4 DEF Accept, CommitsBoth
  <2>5. ASSUME NEW i, NEW answer, NEW r, Answer(i, answer, r) PROVE Counted
    BY <1>0, <2>5 DEF Answer, CommitsBoth
  <2>6. ASSUME NEW batch, SubmitReview(batch) \/ SubmitOutput(batch) \/ SubmitDocs(batch)
        PROVE  Counted
    BY <2>4, <2>6 DEF SubmitReview, SubmitOutput, SubmitDocs
  <2>7. ASSUME NEW i, \/ RespondClosed(i) \/ RespondFixedInPlace(i)
                      \/ \E n \in DOMAIN wt : RespondFixedIsolated(i, n)
        PROVE  Counted
    BY <2>5, <2>7 DEF RespondClosed, RespondFixedInPlace, RespondFixedIsolated
  <2> QED BY <1>3, <2>1, <2>2, <2>3, <2>6, <2>7 DEF FindingStep
<1>4. CASE StageStep
  <2>1. CASE SkipTest
    BY <1>0, <2>1 DEF SkipTest, Transits
  <2>2. ASSUME NEW s \in ShellStages, NEW passed,
               \/ RecoverStage(s) \/ RepairRestart(s) \/ BeginStage(s) \/ BaselineFails(s)
               \/ EndStage(s, passed)
        PROVE  Counted
    BY <1>0, <2>2 DEF RecoverStage, RepairRestart, BeginStage, BaselineFails, EndStage, Transits
  <2> QED BY <1>4, <2>1, <2>2 DEF StageStep
<1>5. CASE MergeStep
  <2>1. CASE MergebackReopens \/ BeginMergeback \/ RetryMergeback \/ ResumeMergeback
    BY <1>0, <2>1 DEF MergebackReopens, BeginMergeback, RetryMergeback, ResumeMergeback, Transits
  <2>2. CASE SyncSource \/ PickFixes
    BY <1>0, <2>2 DEF SyncSource, PickFixes, MergeConflicts, Transits
  <2>3. CASE Attest \/ RecordMergeback \/ ResetCheckout \/ RecordReset
    BY <1>0, <2>3 DEF Attest, RecordMergeback, ResetCheckout, RecordReset, Transits
  <2> QED BY <1>5, <2>1, <2>2, <2>3 DEF MergeStep
<1>6. CASE PublishStep
  <2>1. ASSUME NEW force, Abort(force) PROVE Counted
    BY <1>0, <2>1 DEF Abort, Transits
  <2>2. ASSUME NEW confirm, Push(confirm) PROVE Counted
    BY <1>0, <2>2 DEF Push
  <2>3. CASE Gate \/ RecordPush \/ Finish \/ Orphan
    BY <1>0, <2>3 DEF Gate, RecordPush, Finish, Orphan, Transits
  <2> QED BY <1>6, <2>1, <2>2, <2>3 DEF PublishStep
<1> QED BY <1>1, <1>2, <1>3, <1>4, <1>5, <1>6 DEF Program

\* Every step is paid for.
LEMMA CauseKept ==
  ASSUME CauseInv, [Next]_vars
  PROVE  CauseGoal
<1>1. CASE UNCHANGED vars
  BY <1>1 DEF vars, CauseInv, CauseGoal, Paid, Overtaken, Owed, Outdated, Behind, Foreign, Effective
<1>2. CASE StartStep
  BY <1>2, ProgramCounts, StartPaid DEF Program
<1>3. CASE Settle \/ StatusAdvance \/ RefuseStale
  BY <1>3, ProgramCounts, SettlePaid DEF Program
<1>4. CASE FindingStep
  BY <1>4, ProgramCounts, FindingPaid DEF Program
<1>5. CASE StageStep
  BY <1>5, ProgramCounts, StagePaid DEF Program
<1>6. CASE MergeStep
  BY <1>6, ProgramCounts, MergePaid DEF Program
<1>7. CASE PublishStep
  BY <1>7, ProgramCounts, PublishPaid DEF Program
<1>8. CASE World
  BY <1>8, WorldPaid
<1> QED BY <1>1, <1>2, <1>3, <1>4, <1>5, <1>6, <1>7, <1>8 DEF Next, Program

\* The invariant is inductive.
LEMMA CauseNext == CauseInv /\ [Next]_vars => CauseInv'
<1> SUFFICES ASSUME CauseInv, [Next]_vars PROVE CauseInv'
  OBVIOUS
<1>1. RecordInv'
  BY RecordNext DEF CauseInv
<1>2. CauseGoal
  BY CauseKept
<1> QED BY <1>1, <1>2 DEF CauseInv, CauseGoal, Standing, Blank

\* The causes of restarts are counted in every run.
THEOREM CauseInvariant == Spec => []CauseInv
BY CauseInit, CauseNext, PTL DEF Spec

\* A run validated in place returns to review at most twice for one commit or
\* reset of its branch, and once for each time that its risk came to demand the
\* other executor (reopen_if_stale, reopen_changed_inputs,
\* _register_stage_fix_commits), for every limit, every policy and every
\* interleaving.
THEOREM RestartsHaveCauses == Spec => []RestartsAreCaused
<1>1. ASSUME CauseInv PROVE RestartsAreCaused
  <2>1. /\ run.restarts \in Nat /\ moves \in Nat /\ switches \in Nat
        /\ InPlace => run.restarts + Owed(run, wt, Effective(run)) <= 2 * moves + switches
    BY <1>1, CauseFacts
  <2> QED BY <2>1, OwedTyped DEF RestartsAreCaused
<1>2. CauseInv => RestartsAreCaused
  BY <1>1
<1> QED BY <1>2, CauseInvariant, PTL
===============================================================================
