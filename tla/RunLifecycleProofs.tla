-------------------------- MODULE RunLifecycleProofs --------------------------
(***************************************************************************)
(* Type correctness and the restart limit of a run, for every value of the *)
(* constants.  First every update of RunRecord turns a sound record into a *)
(* sound record.  Sound says that the record has its type, that the        *)
(* recorded fixes are finitely many, which the order that mergeback picks  *)
(* them in needs, and that a record at its restart limit waits for review  *)
(* or is closed.  Then each lemma takes one command, or one part of it,    *)
(* and shows that it persists a sound record; NextKeeps puts them together.*)
(***************************************************************************)
EXTENDS RunLifecycle, SequenceTheorems, FiniteSetTheorems, TLAPS

-----------------------------------------------------------------------------
(* The record.                                                             *)

\* The target of one move of the table is a state; a restart leads back to
\* review, and only one move starts a reviewer.
Within(s, a) ==
  /\ Moves[s][a] \in States
  /\ a \in RestartActions => Moves[s][a] = "REVIEW_AWAITING_FINDINGS"
  /\ a = "RUN_REVIEW_COMMAND" => Moves[s][a] = "REVIEW_COMMAND_RUNNING"

\* Every target in STATE_DESCRIPTIONS is a state of the machine (machine.py's own
\* consistency: one step per row).
LEMMA MovesWithinStates ==
  \A s \in DOMAIN Moves : \A a \in DOMAIN Moves[s] : Within(s, a)
<1>1. \A a \in DOMAIN Moves["CREATED"] : Within("CREATED", a)
  BY DEF Within, Moves, States, RestartActions
<1>2. \A a \in DOMAIN Moves["WORKTREE_READY"] : Within("WORKTREE_READY", a)
  BY DEF Within, Moves, States, RestartActions
<1>3. \A a \in DOMAIN Moves["SYNC_RUNNING"] : Within("SYNC_RUNNING", a)
  BY DEF Within, Moves, States, RestartActions
<1>4. \A a \in DOMAIN Moves["SYNC_GREEN"] : Within("SYNC_GREEN", a)
  BY DEF Within, Moves, States, RestartActions
<1>5. \A a \in DOMAIN Moves["REVIEW_AWAITING_FINDINGS"] : Within("REVIEW_AWAITING_FINDINGS", a)
  BY DEF Within, Moves, States, RestartActions
<1>6. \A a \in DOMAIN Moves["REVIEW_COMMAND_RUNNING"] : Within("REVIEW_COMMAND_RUNNING", a)
  BY DEF Within, Moves, States, RestartActions
<1>7. \A a \in DOMAIN Moves["REVIEW_COMMAND_RED"] : Within("REVIEW_COMMAND_RED", a)
  BY DEF Within, Moves, States, RestartActions
<1>8. \A a \in DOMAIN Moves["REVIEW_BLOCKED"] : Within("REVIEW_BLOCKED", a)
  BY DEF Within, Moves, States, RestartActions
<1>9. \A a \in DOMAIN Moves["REVIEW_GREEN"] : Within("REVIEW_GREEN", a)
  BY DEF Within, Moves, States, RestartActions
<1>10. \A a \in DOMAIN Moves["DOCS_AWAITING_FINDINGS"] : Within("DOCS_AWAITING_FINDINGS", a)
  BY DEF Within, Moves, States, RestartActions
<1>11. \A a \in DOMAIN Moves["DOCS_BLOCKED"] : Within("DOCS_BLOCKED", a)
  BY DEF Within, Moves, States, RestartActions
<1>12. \A a \in DOMAIN Moves["DOCS_GREEN"] : Within("DOCS_GREEN", a)
  BY DEF Within, Moves, States, RestartActions
<1>13. \A a \in DOMAIN Moves["LINT_RUNNING"] : Within("LINT_RUNNING", a)
  BY DEF Within, Moves, States, RestartActions
<1>14. \A a \in DOMAIN Moves["LINT_RED"] : Within("LINT_RED", a)
  BY DEF Within, Moves, States, RestartActions
<1>15. \A a \in DOMAIN Moves["LINT_GREEN"] : Within("LINT_GREEN", a)
  BY DEF Within, Moves, States, RestartActions
<1>16. \A a \in DOMAIN Moves["TEST_RUNNING"] : Within("TEST_RUNNING", a)
  BY DEF Within, Moves, States, RestartActions
<1>17. \A a \in DOMAIN Moves["TEST_RED"] : Within("TEST_RED", a)
  BY DEF Within, Moves, States, RestartActions
<1>18. \A a \in DOMAIN Moves["TEST_GREEN"] : Within("TEST_GREEN", a)
  BY DEF Within, Moves, States, RestartActions
<1>19. \A a \in DOMAIN Moves["MERGEBACK_PENDING"] : Within("MERGEBACK_PENDING", a)
  BY DEF Within, Moves, States, RestartActions
<1>20. \A a \in DOMAIN Moves["MERGEBACK_CONFLICT"] : Within("MERGEBACK_CONFLICT", a)
  BY DEF Within, Moves, States, RestartActions
<1>21. \A a \in DOMAIN Moves["VERIFIED"] : Within("VERIFIED", a)
  BY DEF Within, Moves, States, RestartActions
<1>22. \A a \in DOMAIN Moves["AWAITING_PUSH_CONFIRM"] : Within("AWAITING_PUSH_CONFIRM", a)
  BY DEF Within, Moves, States, RestartActions
<1>23. \A a \in DOMAIN Moves["PUSHED"] : Within("PUSHED", a)
  BY DEF Within, Moves, States, RestartActions, TerminalStates
<1> QED
  BY <1>1, <1>2, <1>3, <1>4, <1>5, <1>6, <1>7, <1>8, <1>9, <1>10, <1>11, <1>12, <1>13, <1>14, <1>15, <1>16, <1>17, <1>18, <1>19, <1>20, <1>21, <1>22, <1>23 DEF Moves

\* A legal action leads to a state (next_state after the legality check).
LEMMA LegalTarget ==
  ASSUME NEW s, NEW a, Legal(s, a)
  PROVE  /\ NextState(s, a) \in States
         /\ a \in RestartActions => NextState(s, a) = "REVIEW_AWAITING_FINDINGS"
         /\ a = "RUN_REVIEW_COMMAND" => NextState(s, a) = "REVIEW_COMMAND_RUNNING"
<1>1. CASE a \in ClosingActions
  BY <1>1 DEF ClosingActions, NextState, States, TerminalStates, RestartActions
<1>2. CASE a \notin ClosingActions
  BY <1>2, MovesWithinStates DEF Within, Legal, NextState, ClosingActions
<1> QED BY <1>1, <1>2

\* Where a run stands that may not restart again.
Stopped == {"REVIEW_AWAITING_FINDINGS", "ABORTED", "ORPHANED"}

\* A run record with finitely many recorded fixes that is within its restart
\* limit, and stopped if it has reached it.
Sound(r) ==
  /\ r \in Run /\ IsFiniteSet(r.fixes)
  /\ r.restarts <= MaxRestarts
  /\ r.restarts >= MaxRestarts => r.state \in Stopped

\* A record that is not stopped has restarts left.
LEMMA RestartsLeft ==
  ASSUME NEW r, Sound(r), r.state \notin Stopped
  PROVE  ~LimitReached(r)
BY DEF Sound, LimitReached

\* The tree of a commit is a set of patches, its fingerprint a fingerprint.
LEMMA TreeTyped ==
  ASSUME NEW c \in Commit
  PROVE  Tree(c) \in SUBSET Patch /\ FpOf(c) \in Fingerprint
<1>1. Range(c) \in SUBSET Patch
  BY RangeOfSeq DEF Commit
<1> QED BY <1>1 DEF Tree, FpOf, Fingerprint, FpFlag

\* Risk is assessed as one of its levels, whatever is assessed.
LEMMA AssessTyped ==
  ASSUME NEW changed, NEW f
  PROVE  Assess(changed, f) \in RiskLevel
BY DEF Assess, RiskLevel

\* Every risk demands an executor.
LEMMA EffectiveTyped ==
  ASSUME NEW r
  PROVE  Effective(r) \in Executors
BY RiskAssumption DEF Effective, ExecutorFor, Executors

\* Assessing a diff keeps a record a record and touches nothing else.
LEMMA AssessedSound ==
  ASSUME NEW r, Sound(r), NEW changed \in SUBSET Patch, NEW f
  PROVE  /\ Sound(Assessed(r, changed, f)) /\ Assessed(r, changed, f).state = r.state
         /\ Assessed(r, changed, f).restarts = r.restarts
         /\ Assessed(r, changed, f).fixes = r.fixes
         /\ Assessed(r, changed, f).stages = r.stages
         /\ Assessed(r, changed, f).evidence = r.evidence
         /\ Assessed(r, changed, f).candidates = r.candidates
<1> DEFINE risk == Assess(changed, Range(f))
<1>1. Assessed(r, changed, f) = [r EXCEPT !.changed = changed, !.risk = risk]
  BY DEF Assessed
<1>2. risk \in RiskLevel
  BY AssessTyped
<1> HIDE DEF risk
<1> QED BY <1>1, <1>2 DEF Sound, Run

\* What a commit changes is a set of patches.
LEMMA ChangedTyped ==
  ASSUME NEW c \in Commit
  PROVE  Changed(Tree(c)) \in SUBSET Patch
BY TreeTyped DEF Changed

\* What _apply does to the two fields it touches, and to the others.
LEMMA ApplyState ==
  ASSUME NEW r, r \in Run, NEW a
  PROVE  /\ Apply(r, a).state = NextState(r.state, a)
         /\ Apply(r, a).restarts = IF a \in RestartActions /\ NextState(r.state, a) # r.state
                                   THEN r.restarts + 1 ELSE r.restarts
         /\ Apply(r, a).fixes = r.fixes
         /\ Apply(r, a).stages = r.stages /\ Apply(r, a).evidence = r.evidence
         /\ Apply(r, a).candidates = r.candidates
BY DEF Apply, Run

\* _apply keeps a record typed when the target is a state.
LEMMA ApplyTyped ==
  ASSUME NEW r, r \in Run, NEW a, NextState(r.state, a) \in States
  PROVE  Apply(r, a) \in Run
<1> DEFINE t == NextState(r.state, a)
<1>1. r.restarts + 1 \in Nat
  BY DEF Run
<1>2. \A n \in Nat : [r EXCEPT !.state = t, !.restarts = n] \in Run
  BY DEF Run
<1> QED BY <1>1, <1>2 DEF Apply, Run

\* A move that is no restart keeps a record sound while restarts are left.
LEMMA ForwardSound ==
  ASSUME NEW r, Sound(r), ~LimitReached(r), NEW a, a \notin RestartActions,
         NextState(r.state, a) \in States
  PROVE  Sound(Apply(r, a)) /\ ~LimitReached(Apply(r, a))
<1>1. Apply(r, a) \in Run /\ Apply(r, a).fixes = r.fixes /\ Apply(r, a).restarts = r.restarts
  BY ApplyState, ApplyTyped DEF Sound
<1> QED BY <1>1 DEF Sound, LimitReached

\* A restart keeps a record sound while restarts are left: the one that reaches
\* the limit leaves the run waiting for review.
LEMMA RestartSound ==
  ASSUME NEW r, Sound(r), ~LimitReached(r), NEW a \in RestartActions,
         NextState(r.state, a) = "REVIEW_AWAITING_FINDINGS"
  PROVE  Sound(Apply(r, a))
<1>1. "REVIEW_AWAITING_FINDINGS" \in States /\ "REVIEW_AWAITING_FINDINGS" \in Stopped
  BY DEF States, Moves, Stopped
<1>2. /\ Apply(r, a) \in Run /\ Apply(r, a).fixes = r.fixes
      /\ Apply(r, a).state \in Stopped
      /\ Apply(r, a).restarts \in {r.restarts, r.restarts + 1}
  BY <1>1, ApplyState, ApplyTyped DEF Sound
<1>3. r.restarts \in Nat /\ MaxRestarts \in Nat /\ ~(r.restarts >= MaxRestarts)
  BY LimitAssumption DEF Sound, Run, LimitReached
<1> QED BY <1>2, <1>3 DEF Sound

\* Closing a run keeps its record sound, at the limit too.
LEMMA CloseSound ==
  ASSUME NEW r, Sound(r), NEW a \in ClosingActions
  PROVE  Sound(Apply(r, a))
<1>1. /\ NextState(r.state, a) \in States /\ NextState(r.state, a) \in Stopped
      /\ a \notin RestartActions
  BY DEF ClosingActions, NextState, States, TerminalStates, Stopped, RestartActions
<1>2. /\ Apply(r, a) \in Run /\ Apply(r, a).fixes = r.fixes
      /\ Apply(r, a).state \in Stopped /\ Apply(r, a).restarts = r.restarts
  BY <1>1, ApplyState, ApplyTyped DEF Sound
<1> QED BY <1>2 DEF Sound

\* _apply keeps a record sound when it accepts the action.
LEMMA CanApplySound ==
  ASSUME NEW r, Sound(r), NEW a, CanApply(r, a)
  PROVE  Sound(Apply(r, a))
BY LegalTarget, ForwardSound, RestartSound, CloseSound DEF CanApply

\* The empty values are values of their types.
LEMMA NothingTyped ==
  /\ NoCommit \in Commit /\ NoFp \in Fingerprint
  /\ NoRecord \in StageRecord /\ NoEvidence \in Evidence
<1>1. NoCommit \in Commit
  BY DEF NoCommit, Commit
<1>2. NoFp \in Fingerprint
  BY DEF NoFp, Fingerprint, FpFlag
<1> QED BY <1>1, <1>2 DEF NoRecord, NoEvidence, StageRecord, Evidence, Status

\* invalidate_stage_result keeps a record a record and does not move it.
LEMMA DiscardSound ==
  ASSUME NEW r, Sound(r), NEW S
  PROVE  /\ Sound(Discard(r, S)) /\ Discard(r, S).state = r.state
         /\ Discard(r, S).restarts = r.restarts
<1> DEFINE stages == [s \in Stages |-> IF s \in S
                          THEN [NoRecord EXCEPT !.attempts = r.stages[s].attempts]
                          ELSE r.stages[s]]
           evidence == [s \in Stages |-> IF s \in S THEN NoEvidence ELSE r.evidence[s]]
<1>1. stages \in [Stages -> StageRecord]
  <2>1. ASSUME NEW s \in Stages PROVE r.stages[s] \in StageRecord
    BY DEF Sound, Run
  <2>2. ASSUME NEW s \in Stages
        PROVE  [NoRecord EXCEPT !.attempts = r.stages[s].attempts] \in StageRecord
    BY <2>1, NothingTyped DEF StageRecord
  <2> QED BY <2>1, <2>2
<1>2. evidence \in [Stages -> Evidence]
  BY NothingTyped DEF Sound, Run
<1>3. Discard(r, S) = [r EXCEPT !.stages = stages, !.evidence = evidence]
  BY DEF Discard
<1> HIDE DEF stages, evidence
<1> QED BY <1>1, <1>2, <1>3 DEF Sound, Run

\* Installing a stage result keeps a record a record and does not move it.
LEMMA PutSound ==
  ASSUME NEW r, Sound(r), NEW s \in Stages, NEW record \in StageRecord
  PROVE  Sound(Put(r, s, record)) /\ Put(r, s, record).state = r.state
BY NothingTyped DEF Put, Sound, Run

\* The rows of the table that advance and start follow without asking whether
\* they are legal.
LEMMA KnownMoves ==
  /\ NextState("CREATED", "CREATE_WORKTREE") = "WORKTREE_READY"
  /\ NextState("WORKTREE_READY", "BEGIN_SYNC") = "SYNC_RUNNING"
  /\ NextState("SYNC_RUNNING", "SYNC_PASSED") = "SYNC_GREEN"
  /\ NextState("SYNC_GREEN", "BEGIN_REVIEW") = "REVIEW_AWAITING_FINDINGS"
  /\ \A s \in GreenStates : NextState(s, "INVALIDATE_REVIEW") = "REVIEW_AWAITING_FINDINGS"
  /\ NextState("REVIEW_AWAITING_FINDINGS", "SUBMIT_CLEAN") = "REVIEW_GREEN"
  /\ NextState("REVIEW_GREEN", "SKIP_DOCS") = "DOCS_GREEN"
  /\ NextState("REVIEW_GREEN", "BEGIN_DOCS") = "DOCS_AWAITING_FINDINGS"
  /\ NextState("DOCS_AWAITING_FINDINGS", "SUBMIT_CLEAN") = "DOCS_GREEN"
<1>1. \A s \in GreenStates : NextState(s, "INVALIDATE_REVIEW") = "REVIEW_AWAITING_FINDINGS"
  BY DEF NextState, Moves, GreenStates
<1> QED BY <1>1 DEF NextState, Moves

\* None of those moves but reopening is a restart, and none starts where a run
\* that reached its restart limit stands, but a review's submission.
LEMMA KnownForward ==
  /\ RestartActions \cap {"CREATE_WORKTREE", "BEGIN_SYNC", "SYNC_PASSED", "BEGIN_REVIEW",
                          "SUBMIT_CLEAN", "SKIP_DOCS", "BEGIN_DOCS"} = {}
  /\ "INVALIDATE_REVIEW" \in RestartActions
  /\ Stopped \cap {"CREATED", "WORKTREE_READY", "SYNC_RUNNING", "SYNC_GREEN",
                    "REVIEW_GREEN", "DOCS_AWAITING_FINDINGS"} = {}
  /\ Stopped \cap GreenStates = {}
BY DEF RestartActions, Stopped, GreenStates

\* The targets of those rows are states.
LEMMA KnownStates ==
  {"CREATED", "WORKTREE_READY", "SYNC_RUNNING", "SYNC_GREEN", "REVIEW_AWAITING_FINDINGS",
   "REVIEW_GREEN", "DOCS_AWAITING_FINDINGS", "DOCS_GREEN", "ABORTED", "ORPHANED"} \subseteq States
BY DEF States, Moves, TerminalStates

\* reopen_if_stale yields a run record.
LEMMA ReopenSound ==
  ASSUME NEW r, Sound(r), CanApply(r, "INVALIDATE_REVIEW")
  PROVE  Sound(Reopen(r))
<1> DEFINE d == Discard(r, Stages)
           e == [d EXCEPT !.coverage = NoCommit]
<1>1. Sound(d) /\ d.state = r.state /\ d.restarts = r.restarts
  BY DiscardSound
<1>2. Sound(e) /\ e.state = r.state /\ e.restarts = r.restarts
  <2> HIDE DEF d
  <2> QED BY <1>1, NothingTyped DEF Sound, Run
<1>3. CanApply(e, "INVALIDATE_REVIEW")
  BY <1>2 DEF CanApply, LimitReached
<1> HIDE DEF e
<1>4. Sound(Apply(e, "INVALIDATE_REVIEW"))
  BY <1>2, <1>3, CanApplySound
<1> QED BY <1>4 DEF Reopen, e, d

\* The findings of a stage are findings with their identities.
LEMMA StageFindingsTyped ==
  ASSUME NEW f \in Seq(Finding), NEW s
  PROVE  StageFindings(f, s) \in SUBSET (Nat \X Finding)
<1>1. DOMAIN f = 1 .. Len(f) /\ Len(f) \in Nat /\ \A i \in DOMAIN f : f[i] \in Finding
  BY LenProperties, ElementOfSeq
<1> QED BY <1>1 DEF StageFindings

\* What archive records of a stage is evidence.
LEMMA OriginTyped ==
  ASSUME NEW r, Sound(r), NEW f \in Seq(Finding), NEW s \in Stages
  PROVE  Origin(r, f, s) \in Evidence
<1>1. r.stages[s] \in StageRecord
  BY DEF Sound, Run
<1> QED BY <1>1, StageFindingsTyped DEF Origin, Evidence, StageRecord

\* archive keeps a record a record and does not move it.
LEMMA ArchiveSound ==
  ASSUME NEW r, Sound(r), NEW f \in Seq(Finding)
  PROVE  Sound(Archive(r, f)) /\ Archive(r, f).state = r.state
<1> DEFINE evidence == [s \in Stages |->
     IF ~r.evidence[s].refreshed /\ Done(r.stages[s]) /\ r.stages[s].fp.flag # "none"
     THEN Origin(r, f, s) ELSE r.evidence[s]]
<1>1. evidence \in [Stages -> Evidence]
  BY OriginTyped DEF Sound, Run
<1>2. Archive(r, f) = [r EXCEPT !.evidence = evidence]
  BY DEF Archive
<1> HIDE DEF evidence
<1> QED BY <1>1, <1>2 DEF Sound, Run

\* reopen_changed_inputs yields a run record that waits for review.
LEMMA ReopenChangedSound ==
  ASSUME NEW r, Sound(r), r.state \in GreenStates, NEW f \in Seq(Finding)
  PROVE  /\ Sound(ReopenChanged(r, f))
         /\ ReopenChanged(r, f).state = "REVIEW_AWAITING_FINDINGS"
<1> DEFINE a == Archive(r, f)
           candidates == [s \in Stages |->
                       IF Held(a.evidence[s]) THEN a.evidence[s] ELSE a.candidates[s]]
           c == [a EXCEPT !.candidates = candidates]
           b == Discard(c, Stages)
           d == [b EXCEPT !.coverage = NoCommit]
<1>1. Sound(a) /\ a.state = r.state
  BY ArchiveSound
<1>2. candidates \in [Stages -> Evidence]
  BY <1>1 DEF Sound, Run
<1>3. Sound(c) /\ c.state = r.state
  <2> HIDE DEF candidates, a
  <2> QED BY <1>1, <1>2 DEF Sound, Run
<1>4. Sound(b) /\ b.state = r.state
  <2> HIDE DEF c
  <2> QED BY <1>3, DiscardSound
<1>5. Sound(d) /\ d.state = r.state
  <2> HIDE DEF b
  <2> QED BY <1>4, NothingTyped DEF Sound, Run
<1>6. ReopenChanged(r, f) = Apply(d, "INVALIDATE_REVIEW")
  BY DEF ReopenChanged
<1> HIDE DEF d
<1>7. ~LimitReached(d) /\ NextState(d.state, "INVALIDATE_REVIEW") = "REVIEW_AWAITING_FINDINGS"
  BY <1>5, RestartsLeft, KnownForward, KnownMoves
<1> QED BY <1>5, <1>6, <1>7, KnownForward, RestartSound, ApplyState DEF Sound

\* install_stage keeps a record a record and does not move it.
LEMMA InstalledSound ==
  ASSUME NEW r, Sound(r), NEW f, NEW s \in Stages, NEW c \in Commit
  PROVE  /\ Sound(Installed(r, f, s, c)) /\ Installed(r, f, s, c).state = r.state
         /\ Installed(r, f, s, c).restarts = r.restarts
<1> DEFINE item == r.candidates[s]
           record == [NoRecord EXCEPT !.status = item.status, !.head = c, !.fp = FpOf(c),
                                      !.executor = item.executor]
           again == [item EXCEPT !.refreshed = TRUE]
<1>1. item \in Evidence
  BY DEF Sound, Run
<1>2. record \in StageRecord
  BY <1>1, NothingTyped, TreeTyped DEF StageRecord, Evidence
<1>3. again \in Evidence
  BY <1>1 DEF Evidence
<1> DEFINE stages == [r.stages EXCEPT ![s] = record]
           evidence == [r.evidence EXCEPT ![s] = again]
           risk == Assess(r.changed, Range(f))
<1>4. Installed(r, f, s, c) = [r EXCEPT !.stages = stages, !.evidence = evidence, !.risk = risk]
  BY DEF Installed
<1> HIDE DEF record, again
<1>5. stages \in [Stages -> StageRecord] /\ evidence \in [Stages -> Evidence]
  BY <1>2, <1>3 DEF Sound, Run
<1>6. risk \in RiskLevel
  BY AssessTyped
<1> HIDE DEF stages, evidence, risk
<1> QED BY <1>4, <1>5, <1>6 DEF Sound, Run

\* Recording what the review covers keeps a record a record.
LEMMA CoverageSound ==
  ASSUME NEW r, Sound(r), NEW c \in Commit
  PROVE  /\ Sound([r EXCEPT !.coverage = c])
         /\ [r EXCEPT !.coverage = c].state = r.state
         /\ [r EXCEPT !.coverage = c].restarts = r.restarts
BY DEF Sound, Run

\* Importing a review while restarts are left yields a sound record.
LEMMA ImportReviewSound ==
  ASSUME NEW r, Sound(r), ~LimitReached(r), NEW f, NEW c \in Commit
  PROVE  Sound(ImportReview(r, f, c))
<1>1. CASE r.state = "REVIEW_AWAITING_FINDINGS" /\ Reusable(r, f, "review", c)
  <2> DEFINE covered == [Installed(r, f, "review", c) EXCEPT !.coverage = c]
  <2>1. ImportReview(r, f, c) = Apply(covered, "SUBMIT_CLEAN")
    BY <1>1 DEF ImportReview, Import
  <2>2. Sound(covered) /\ covered.state = r.state /\ covered.restarts = r.restarts
    <3>1. "review" \in Stages
      BY DEF Stages
    <3>2. /\ Sound(Installed(r, f, "review", c))
          /\ Installed(r, f, "review", c).state = r.state
          /\ Installed(r, f, "review", c).restarts = r.restarts
      BY <3>1, InstalledSound
    <3> QED BY <3>2, CoverageSound
  <2>3. ~LimitReached(covered)
    <3> HIDE DEF covered
    <3> QED BY <2>2 DEF LimitReached
  <2> HIDE DEF covered
  <2> QED BY <1>1, <2>1, <2>2, <2>3, ForwardSound, KnownMoves, KnownStates, KnownForward
<1>2. CASE ~(r.state = "REVIEW_AWAITING_FINDINGS" /\ Reusable(r, f, "review", c))
  BY <1>2 DEF ImportReview
<1> QED BY <1>1, <1>2

\* Importing a docs result yields a run record unless the move would be illegal;
\* Advance stops exactly there (Uninstallable).
LEMMA ImportDocsSound ==
  ASSUME NEW r, Sound(r), NEW f, NEW c \in Commit, ~Uninstallable(r, f, c)
  PROVE  Sound(ImportDocs(r, f, c))
<1> DEFINE item == r.candidates["docs"]
           put == Installed(r, f, "docs", c)
           opened == IF r.state = "REVIEW_GREEN" THEN Apply(put, "BEGIN_DOCS") ELSE put
<1>1. Sound(put) /\ put.state = r.state
  BY InstalledSound DEF Stages
<1>2. CASE ~DocsReady(r, f, c)
  BY <1>2 DEF ImportDocs
<1>3. CASE DocsReady(r, f, c) /\ item.status = "skipped"
  <2>1. ImportDocs(r, f, c) = Apply(put, "SKIP_DOCS")
    BY <1>3 DEF ImportDocs, Import
  <2>2. r.state = "REVIEW_GREEN"
    BY <1>3 DEF Uninstallable, DocsReady
  <2> HIDE DEF put
  <2>3. ~LimitReached(put)
    BY <1>1, <2>2, RestartsLeft, KnownForward
  <2> QED BY <1>1, <2>1, <2>2, <2>3, ForwardSound, KnownMoves, KnownStates, KnownForward
<1>4. CASE DocsReady(r, f, c) /\ item.status # "skipped"
  <2>1. ImportDocs(r, f, c) = Apply(opened, "SUBMIT_CLEAN")
    BY <1>4 DEF ImportDocs, Import
  <2>2. Sound(opened) /\ opened.state = "DOCS_AWAITING_FINDINGS"
    <3> HIDE DEF put
    <3>1. CASE r.state = "REVIEW_GREEN"
      <4>1. ~LimitReached(put)
        BY <1>1, <3>1, RestartsLeft, KnownForward
      <4>2. Sound(Apply(put, "BEGIN_DOCS"))
        BY <1>1, <3>1, <4>1, ForwardSound, KnownMoves, KnownStates, KnownForward
      <4> QED BY <1>1, <3>1, <4>2, ApplyState, KnownMoves DEF Sound
    <3>2. CASE r.state # "REVIEW_GREEN"
      BY <1>1, <1>4, <3>2 DEF DocsReady
    <3> QED BY <3>1, <3>2
  <2> HIDE DEF opened
  <2>3. ~LimitReached(opened)
    BY <2>2, RestartsLeft, KnownForward
  <2> QED BY <2>1, <2>2, <2>3, ForwardSound, KnownMoves, KnownStates, KnownForward
<1> QED BY <1>2, <1>3, <1>4

\* evidence.advance yields a run record from any run record.
LEMMA AdvanceSound ==
  ASSUME NEW r, Sound(r), NEW f \in Seq(Finding), NEW c \in Commit
  PROVE  Sound(Advance(r, f, c))
<1> DEFINE opened == IF InputsChanged(r, c) THEN ReopenChanged(r, f) ELSE r
           reviewed == ImportReview(opened, f, c)
<1>1. Sound(opened)
  BY ReopenChangedSound DEF InputsChanged
<1>2. CASE LimitReached(opened)
  BY <1>1, <1>2 DEF Advance
<1>3. CASE ~LimitReached(opened)
  <2>1. Sound(reviewed)
    <3> HIDE DEF opened
    <3> QED BY <1>1, <1>3, ImportReviewSound
  <2>2. ~Uninstallable(reviewed, f, c) => Sound(Archive(ImportDocs(reviewed, f, c), f))
    BY <2>1, ImportDocsSound, ArchiveSound
  <2> QED BY <1>3, <2>1, <2>2 DEF Advance
<1> QED BY <1>2, <1>3

-----------------------------------------------------------------------------
(* The commands.                                                           *)

\* While start is at work the run is in the state that its next step moves it from.
\* A concurrent abort ends start, so no other command comes in between.
StartState ==
  /\ cmd.op = "start" => run.state = "CREATED"
  /\ cmd.op \in {"sync", "setup"} => run.state = "SYNC_RUNNING"

\* The inductive strengthening of TypeOK and StopsAtLimit: the moves of start do
\* not ask whether they are legal or whether restarts are left.
RunInv == TypeOK /\ Sound(run) /\ StartState

\* The record of a run is sound.
LEMMA RunInvSound == RunInv => Sound(run)
BY DEF RunInv, TypeOK, Sound

\* Commands and the empty command are commands.
LEMMA CommandTyped ==
  /\ Idle \in Command /\ Idle.op \notin StartOps
  /\ \A op \in Ops, c \in Commit : Doing(op, c) \in Command /\ Doing(op, c).op = op
  /\ StartOps \subseteq Ops
BY NothingTyped DEF Idle, Doing, Command, Ops, StartOps

\* A transaction counts whether the risk changed the executor.
LEMMA SwitchesTyped ==
  ASSUME RunInv, NEW r, NEW next, Commits(r, next)
  PROVE  switches' \in Nat
BY DEF Commits, RunInv, TypeOK

\* A transaction that persists a record and goes on with a later command.
LEMMA CommitsSound ==
  ASSUME RunInv,
         NEW r, Sound(r), NEW next \in Command, next.op \notin StartOps, Commits(r, next)
  PROVE  /\ run' \in Run /\ Sound(run')
         /\ cmd' \in Command /\ StartState' /\ switches' \in Nat
BY SwitchesTyped DEF Commits, Sound, StartState, StartOps

\* A transaction that changes only the record keeps the invariant.
LEMMA RecordStep ==
  ASSUME RunInv, NEW r, Sound(r), NEW next \in Command, next.op \notin StartOps,
         Commits(r, next), RecordOnly
  PROVE  RunInv'
<1>1. /\ run' \in Run /\ Sound(run')
      /\ cmd' \in Command /\ StartState' /\ switches' \in Nat
  BY CommitsSound
<1> QED BY <1>1 DEF RunInv, TypeOK, RecordOnly, Still

\* A transaction that moves a typed record persists a typed record.
LEMMA TransitsSound ==
  ASSUME NEW r, Sound(r), NEW a, NEW next, Transits(r, a, next)
  PROVE  Sound(Apply(r, a)) /\ Commits(Apply(r, a), next)
BY CanApplySound DEF Transits

\* A transaction that only moves the record keeps the invariant.
LEMMA TransitStep ==
  ASSUME RunInv, NEW r, Sound(r), NEW a, NEW next \in Command, next.op \notin StartOps,
         Transits(r, a, next), RecordOnly
  PROVE  RunInv'
BY TransitsSound, RecordStep

\* A rebased branch is a commit.
LEMMA RebaseTyped ==
  ASSUME NEW c \in Commit
  PROVE  Rebase(c) \in Commit
BY PatchAssumption, ConcatProperties DEF Rebase, Commit

\* evidence.advance, at the tail of a command or from status, and _assert_fresh.
LEMMA SettleStep ==
  ASSUME RunInv, Settle \/ StatusAdvance \/ RefuseStale
  PROVE  RunInv'
<1>1. Sound(run) /\ Sound(Advance(run, findings, wt)) /\ Sound([run EXCEPT !.stale = TRUE])
  <2>1. Sound(run)
    BY RunInvSound
  <2>2. Sound(Advance(run, findings, wt))
    BY <2>1, AdvanceSound DEF RunInv, TypeOK
  <2> QED BY <2>1, <2>2 DEF Sound, Run
<1> USE <1>1, CommandTyped, RecordStep
<1>2. CASE Settle
  BY <1>2 DEF Settle
<1>3. CASE StatusAdvance
  BY <1>3 DEF StatusAdvance
<1>4. CASE RefuseStale
  BY <1>4 DEF RefuseStale
<1> QED BY <1>2, <1>3, <1>4

\* A move of start: it does not ask, but a run that is starting has restarts left.
LEMMA StartMove ==
  ASSUME NEW r, Sound(r), r.state \notin Stopped, NEW a, a \notin RestartActions,
         NextState(r.state, a) \in States
  PROVE  Sound(Apply(r, a)) /\ Apply(r, a).state = NextState(r.state, a)
BY RestartsLeft, ForwardSound, ApplyState DEF Sound

\* start: _provision_validation_checkout.
LEMMA CreateCheckoutStep ==
  ASSUME RunInv, CreateCheckout
  PROVE  RunInv'
<1>0. Sound(run) /\ run.state = "CREATED"
  BY RunInvSound DEF RunInv, StartState, CreateCheckout
<1>1. wt' \in Commit /\ src' \in Commit /\ dirty' \in BOOLEAN
  BY DEF CreateCheckout, RunInv, TypeOK, Run
<1>2. CASE Commits(Apply(Apply(run, "CREATE_WORKTREE"), "BEGIN_SYNC"), Doing("sync", NoCommit))
  <2> DEFINE a == Apply(run, "CREATE_WORKTREE")
             b == Apply(a, "BEGIN_SYNC")
  <2>1. Sound(a) /\ a.state = "WORKTREE_READY"
    BY <1>0, StartMove, KnownMoves, KnownStates, KnownForward
  <2>2. Sound(b) /\ b.state = "SYNC_RUNNING"
    <3> HIDE DEF a
    <3> QED BY <2>1, StartMove, KnownMoves, KnownStates, KnownForward
  <2>3. run' = b /\ cmd' = Doing("sync", NoCommit)
    BY <1>2 DEF Commits
  <2>4. cmd' \in Command /\ cmd'.op = "sync" /\ switches' \in Nat
    BY <1>2, <2>3, CommandTyped, NothingTyped, SwitchesTyped DEF StartOps
  <2> HIDE DEF b
  <2> QED BY <1>1, <2>2, <2>3, <2>4
          DEF RunInv, TypeOK, StartState, Sound, CreateCheckout, ExceptCheckouts, history
<1>3. ASSUME NEW released \in BOOLEAN, Commits([Apply(run, "ABORT") EXCEPT !.released = released], Idle)
      PROVE  RunInv'
  <2> DEFINE a == Apply(run, "ABORT")
             b == [a EXCEPT !.released = released]
  <2>1. Sound(a)
    BY <1>0, CloseSound DEF ClosingActions
  <2>2. Sound(b)
    <3> HIDE DEF a
    <3> QED BY <2>1 DEF Sound, Run
  <2>3. Commits(b, Idle)
    BY <1>3
  <2> HIDE DEF b
  <2>4. /\ run' \in Run /\ Sound(run')
        /\ cmd' \in Command /\ StartState' /\ switches' \in Nat
    BY <2>2, <2>3, CommitsSound, CommandTyped
  <2> QED BY <1>1, <2>4 DEF RunInv, TypeOK, CreateCheckout, ExceptCheckouts, history
<1> QED BY <1>2, <1>3 DEF CreateCheckout

\* start: _synchronize.
LEMMA SynchronizeStep ==
  ASSUME RunInv, Synchronize
  PROVE  RunInv'
<1>0. Sound(run) /\ wt \in Commit /\ src \in Commit /\ run.state = "SYNC_RUNNING"
  BY RunInvSound DEF RunInv, TypeOK, StartState, Synchronize
<1>1. Rebase(wt) \in Commit
  BY <1>0, RebaseTyped
<1>2. wt' \in Commit /\ src' \in Commit
  BY <1>0, <1>1 DEF Synchronize, SetWt
<1>3. CASE Transits(run, "SYNC_FAILED", Idle)
  <2>1. /\ run' \in Run /\ Sound(run')
        /\ cmd' \in Command /\ StartState' /\ switches' \in Nat
    BY <1>0, <1>3, TransitsSound, CommitsSound, CommandTyped
  <2> QED BY <1>2, <2>1 DEF RunInv, TypeOK, Synchronize, ExceptCheckouts, history
<1>4. CASE Commits([Apply(run, "ABORT") EXCEPT !.released = TRUE], Idle)
  <2> DEFINE a == Apply(run, "ABORT")
             b == [a EXCEPT !.released = TRUE]
  <2>1. Sound(a)
    BY <1>0, CloseSound DEF ClosingActions
  <2>2. Sound(b)
    <3> HIDE DEF a
    <3> QED BY <2>1 DEF Sound, Run
  <2>3. Commits(b, Idle)
    BY <1>4
  <2> HIDE DEF b
  <2>4. /\ run' \in Run /\ Sound(run')
        /\ cmd' \in Command /\ StartState' /\ switches' \in Nat
    BY <2>2, <2>3, CommitsSound, CommandTyped
  <2> QED BY <1>2, <2>4 DEF RunInv, TypeOK, Synchronize, ExceptCheckouts, history
<1>5. CASE Commits([run EXCEPT !.head = Rebase(wt),
                              !.sourceHead = IF InPlace THEN Rebase(wt) ELSE @,
                              !.changed = Changed(Tree(Rebase(wt)))],
                   Doing("setup", NoCommit))
  <2> DEFINE moved == IF InPlace THEN Rebase(wt) ELSE run.sourceHead
             changed == Changed(Tree(Rebase(wt)))
             b == [run EXCEPT !.head = Rebase(wt), !.sourceHead = moved, !.changed = changed]
  <2>1. moved \in Commit /\ changed \in SUBSET Patch
    BY <1>0, <1>1, ChangedTyped DEF Sound, Run
  <2>2. Sound(b) /\ b.state = "SYNC_RUNNING"
    <3> HIDE DEF moved, changed
    <3> QED BY <1>0, <1>1, <2>1 DEF Sound, Run
  <2>3. run' = b /\ cmd' = Doing("setup", NoCommit)
    BY <1>5 DEF Commits
  <2>4. cmd' \in Command /\ cmd'.op = "setup" /\ switches' \in Nat
    BY <1>5, <2>3, CommandTyped, NothingTyped, SwitchesTyped DEF StartOps
  <2> HIDE DEF b
  <2> QED BY <1>2, <2>2, <2>3, <2>4
          DEF RunInv, TypeOK, StartState, Sound, Synchronize, ExceptCheckouts, history
<1> QED BY <1>3, <1>4, <1>5 DEF Synchronize

\* start: _run_setup_command and _prime_review.
LEMMA SetupStep ==
  ASSUME RunInv, Setup
  PROVE  RunInv'
<1>0. Sound(run) /\ run.state = "SYNC_RUNNING" /\ RecordOnly
  BY RunInvSound DEF RunInv, StartState, Setup
<1>1. Doing("settle", NoCommit) \in Command /\ Doing("settle", NoCommit).op \notin StartOps
  BY CommandTyped, NothingTyped DEF Ops, StartOps
<1> DEFINE assessed == Assessed(run, run.changed, <<>>)
<1>2. Sound(assessed) /\ assessed.state = "SYNC_RUNNING"
  <2>1. run.changed \in SUBSET Patch
    BY <1>0 DEF Sound, Run
  <2> QED BY <1>0, <2>1, AssessedSound
<1>3. CASE Commits(Apply(Apply(assessed, "SYNC_PASSED"), "BEGIN_REVIEW"),
                   Doing("settle", NoCommit))
  <2> DEFINE a == Apply(assessed, "SYNC_PASSED")
             b == Apply(a, "BEGIN_REVIEW")
  <2>1. Sound(a) /\ a.state = "SYNC_GREEN"
    <3> HIDE DEF assessed
    <3> QED BY <1>2, StartMove, KnownMoves, KnownStates, KnownForward
  <2>2. Sound(b)
    <3> HIDE DEF a
    <3> QED BY <2>1, StartMove, KnownMoves, KnownStates, KnownForward
  <2> QED BY <1>0, <1>1, <1>3, <2>2, RecordStep
<1>4. CASE Transits([assessed EXCEPT !.setup = "initial"], "SETUP_FAILED", Idle)
  <2>1. Sound([assessed EXCEPT !.setup = "initial"])
    <3> HIDE DEF assessed
    <3> QED BY <1>2 DEF Sound, Run
  <2> HIDE DEF assessed
  <2> QED BY <1>0, <1>4, <2>1, TransitStep, CommandTyped
<1> QED BY <1>3, <1>4 DEF Setup

\* Every command of Ops that is not the beginning of a run.
LEMMA LaterCommand ==
  ASSUME NEW op \in Ops \ StartOps, NEW c \in Commit
  PROVE  Doing(op, c) \in Command /\ Doing(op, c).op \notin StartOps
BY CommandTyped

\* The commands after start, as facts about membership.
LEMMA LaterOps ==
  {"settle", "deliver", "reviewer", "submit", "submitted", "reopen", "resolved",
   "lint", "test", "skip_test", "advance", "merge", "pick", "attest", "noted",
   "reset", "resetting", "pushed"} \subseteq Ops \ StartOps
BY DEF Ops, StartOps

\* context, for the review and for the docs stage.
LEMMA ContextStep ==
  ASSUME RunInv, ReviewContext \/ DocsContext \/ Deliver
  PROVE  RunInv'
<1>0. Sound(run) /\ wt \in Commit /\ seen \in [{"review", "docs"} -> Commit]
  BY RunInvSound DEF RunInv, TypeOK
<1>1. Doing("deliver", wt) \in Command /\ Doing("deliver", wt).op \notin StartOps
  BY <1>0, LaterCommand, LaterOps
<1>2. CASE ReviewContext
  <2>1. /\ run' \in Run /\ Sound(run')
        /\ cmd' \in Command /\ StartState' /\ switches' \in Nat
    BY <1>0, <1>2, CommitsSound, CommandTyped DEF ReviewContext
  <2>2. seen' \in [{"review", "docs"} -> Commit]
    BY <1>0, <1>2 DEF ReviewContext
  <2> QED BY <1>2, <2>1, <2>2 DEF ReviewContext, RunInv, TypeOK, ExceptSeen, Still
<1>3. CASE DocsContext
  BY <1>0, <1>1, <1>3, RecordStep, TransitStep DEF DocsContext
<1>4. CASE Deliver
  <2> DEFINE r == [run EXCEPT !.stages["docs"].fp = FpOf(wt)]
  <2>1. Sound(r)
    <3>1. FpOf(wt) \in Fingerprint
      BY <1>0, TreeTyped
    <3>2. [run.stages["docs"] EXCEPT !.fp = FpOf(wt)] \in StageRecord
      BY <1>0, <3>1 DEF Sound, Run, StageRecord, Stages
    <3>3. [run.stages EXCEPT !["docs"].fp = FpOf(wt)] \in [Stages -> StageRecord]
      BY <1>0, <3>2 DEF Sound, Run
    <3> QED BY <1>0, <3>3 DEF Sound, Run
  <2>2. Commits(r, Idle)
    BY <1>4 DEF Deliver
  <2> HIDE DEF r
  <2>3. /\ run' \in Run /\ Sound(run')
        /\ cmd' \in Command /\ StartState' /\ switches' \in Nat
    BY <2>1, <2>2, CommitsSound, CommandTyped
  <2>4. seen' \in [{"review", "docs"} -> Commit]
    <3>1. cmd.at \in Commit
      BY DEF RunInv, TypeOK, Command
    <3>2. \A c \in Commit : [seen EXCEPT !["docs"] = c] \in [{"review", "docs"} -> Commit]
      BY <1>0
    <3> QED BY <1>0, <1>4, <3>1, <3>2 DEF Deliver
  <2>5. torn' \subseteq SUBSET Patch
    BY <1>0, <1>4, TreeTyped DEF Deliver, RunInv, TypeOK
  <2> QED BY <1>4, <2>3, <2>4, <2>5 DEF Deliver, RunInv, TypeOK, checkouts
<1> QED BY <1>2, <1>3, <1>4

\* reopen_if_stale at the head of a command, and after a fix was reported.
LEMMA ReopenStep ==
  ASSUME RunInv, ReopenReview \/ ReopenAfterFix \/ Verify
  PROVE  RunInv'
<1>0. Sound(run) /\ RecordOnly
  BY RunInvSound DEF ReopenReview, ReopenAfterFix, Verify
<1>1. Doing("resolved", NoCommit) \in Command /\ Doing("resolved", NoCommit).op \notin StartOps
  BY LaterCommand, LaterOps, NothingTyped
<1>2. CASE CanApply(run, "INVALIDATE_REVIEW") /\ Commits(Reopen(run), Idle)
  BY <1>0, <1>2, ReopenSound, CommandTyped, RecordStep
<1>3. CASE \/ Commits(run, Doing("resolved", NoCommit)) \/ Commits(run, Idle)
          \/ Transits(run, "RESOLVE_GREEN", Doing("resolved", NoCommit))
  BY <1>0, <1>1, <1>3, CommandTyped, RecordStep, TransitStep
<1> QED BY <1>2, <1>3 DEF ReopenReview, ReopenAfterFix, Verify

\* The record of a skipped stage.
LEMMA SkippedTyped ==
  ASSUME RunInv
  PROVE  [NoRecord EXCEPT !.status = "skipped", !.head = wt, !.fp = FpOf(wt)] \in StageRecord
<1>1. wt \in Commit /\ FpOf(wt) \in Fingerprint
  BY TreeTyped DEF RunInv, TypeOK
<1> QED BY <1>1, NothingTyped DEF StageRecord, Status

\* _skip_docs_if_disabled.
LEMMA SkipStep ==
  ASSUME RunInv, SkipDocs \/ SkipTest
  PROVE  RunInv'
<1> DEFINE record == [NoRecord EXCEPT !.status = "skipped", !.head = wt, !.fp = FpOf(wt)]
<1>0. Sound(run) /\ RecordOnly /\ record \in StageRecord
  BY RunInvSound, SkippedTyped DEF SkipDocs, SkipTest
<1>1. \A op \in {"settle", "advance"} :
        Doing(op, NoCommit) \in Command /\ Doing(op, NoCommit).op \notin StartOps
  BY LaterCommand, LaterOps, NothingTyped
<1>2. CASE SkipDocs
  <2> DEFINE next == IF cmd.op = "submitted" THEN Doing("settle", NoCommit) ELSE Idle
  <2>1. next \in Command /\ next.op \notin StartOps
    BY <1>1, CommandTyped
  <2>2. Sound(Put(run, "docs", record))
    BY <1>0, PutSound DEF Stages
  <2>3. \/ Transits(Put(run, "docs", record), "SKIP_DOCS", next)
        \/ Commits(run, next)
    BY <1>2 DEF SkipDocs
  <2> HIDE DEF next, record
  <2> QED BY <1>0, <2>1, <2>2, <2>3, RecordStep, TransitStep
<1>3. CASE SkipTest
  <2> DEFINE next == Doing("advance", NoCommit)
  <2>1. Sound(Put(run, "test", record))
    BY <1>0, PutSound DEF Stages
  <2>2. \/ Transits(Put(run, "test", record), "SKIP_TEST", next)
        \/ Commits(run, next)
    BY <1>3 DEF SkipTest
  <2>3. next \in Command /\ next.op \notin StartOps
    BY <1>1
  <2> HIDE DEF next, record
  <2> QED BY <1>0, <2>1, <2>2, <2>3, RecordStep, TransitStep
<1> QED BY <1>2, <1>3

\* _record_review_command keeps a record a record and does not move it.
LEMMA ReviewedSound ==
  ASSUME RunInv, NEW failed \in BOOLEAN
  PROVE  Sound(Reviewed(failed))
<1> DEFINE old == run.stages["review"]
           status == IF failed THEN "red" ELSE "green"
           attempts == IF failed THEN old.attempts + 1 ELSE old.attempts
           record == [old EXCEPT !.status = status, !.attempts = attempts, !.head = wt,
                                 !.executor = "command"]
           stages == [run.stages EXCEPT !["review"] = record]
<1>1. Sound(run) /\ wt \in Commit /\ old \in StageRecord
  BY RunInvSound DEF RunInv, TypeOK, Run, Stages
<1>2. status \in Status /\ attempts \in Nat
  BY <1>1 DEF StageRecord, Status
<1>3. Reviewed(failed) = [run EXCEPT !.stages = stages]
  BY DEF Reviewed
<1> HIDE DEF status, attempts
<1>4. record \in StageRecord
  <2> HIDE DEF old
  <2> QED BY <1>1, <1>2 DEF StageRecord, Executors
<1> HIDE DEF record
<1>5. stages \in [Stages -> StageRecord]
  BY <1>1, <1>4 DEF Sound, Run
<1> HIDE DEF stages
<1> QED BY <1>1, <1>3, <1>5 DEF Sound, Run

\* review run: start, recover, end and reject.
LEMMA ReviewerStep ==
  ASSUME RunInv, StartReviewer \/ RecoverReviewer \/ ReviewerEnds \/ RejectOutput
  PROVE  RunInv'
<1>0. /\ Sound(run) /\ Sound(Reviewed(TRUE)) /\ Sound(Reviewed(FALSE))
      /\ wt \in Commit /\ seen \in [{"review", "docs"} -> Commit] /\ cmd \in Command
  BY RunInvSound, ReviewedSound DEF RunInv, TypeOK
<1>1. \A c \in Commit : /\ Doing("reviewer", c) \in Command /\ Doing("reviewer", c).op \notin StartOps
                        /\ Doing("submit", c) \in Command /\ Doing("submit", c).op \notin StartOps
  BY LaterCommand, LaterOps
<1>2. CASE StartReviewer
  <2>1. /\ run' \in Run /\ Sound(run')
        /\ cmd' \in Command /\ StartState' /\ switches' \in Nat
    BY <1>0, <1>1, <1>2, TransitsSound, CommitsSound DEF StartReviewer
  <2>2. seen' \in [{"review", "docs"} -> Commit]
    BY <1>0, <1>2 DEF StartReviewer
  <2> QED BY <1>2, <2>1, <2>2 DEF StartReviewer, RunInv, TypeOK, ExceptSeen, Still
<1>3. CASE RecoverReviewer
  BY <1>0, <1>3, TransitStep, CommandTyped DEF RecoverReviewer
<1>4. CASE ReviewerEnds
  <2>1. cmd.at \in Commit
    BY <1>0 DEF Command
  <2> QED BY <1>0, <1>1, <1>4, <2>1, TransitStep, CommandTyped DEF ReviewerEnds
<1>5. CASE RejectOutput
  <2>1. Sound([run EXCEPT !.stale = TRUE])
    BY <1>0 DEF Sound, Run
  <2>2. CASE Commits([run EXCEPT !.stale = TRUE], Idle)
    BY <1>5, <2>1, <2>2, RecordStep, CommandTyped DEF RejectOutput
  <2>3. CASE /\ CanApply(run, "RUN_REVIEW_COMMAND")
             /\ Commits(Apply(Apply(Reviewed(TRUE), "RUN_REVIEW_COMMAND"),
                              "REVIEW_COMMAND_FAILED"), Idle)
    <3> DEFINE a == Apply(Reviewed(TRUE), "RUN_REVIEW_COMMAND")
    <3>1. Reviewed(TRUE).state = run.state /\ Reviewed(TRUE).restarts = run.restarts
      BY <1>0 DEF Reviewed, Sound, Run
    <3>2. /\ "RUN_REVIEW_COMMAND" \notin ClosingActions \cup RestartActions
          /\ "REVIEW_COMMAND_FAILED" \notin RestartActions
      BY DEF ClosingActions, RestartActions
    <3>3. /\ ~LimitReached(run)
          /\ NextState(run.state, "RUN_REVIEW_COMMAND") = "REVIEW_COMMAND_RUNNING"
      BY <2>3, <3>2, LegalTarget DEF CanApply
    <3>4. /\ "REVIEW_COMMAND_RUNNING" \in States
          /\ NextState("REVIEW_COMMAND_RUNNING", "REVIEW_COMMAND_FAILED") \in States
      BY DEF NextState, States, Moves
    <3>5. ~LimitReached(Reviewed(TRUE))
      BY <3>1, <3>3 DEF LimitReached
    <3>6. Sound(a) /\ ~LimitReached(a) /\ a.state = "REVIEW_COMMAND_RUNNING"
      <4>1. Reviewed(TRUE) \in Run
        BY <1>0 DEF Sound
      <4>2. a.state = NextState(Reviewed(TRUE).state, "RUN_REVIEW_COMMAND")
        BY <4>1, ApplyState
      <4>3. a.state = "REVIEW_COMMAND_RUNNING"
        BY <3>1, <3>3, <4>2
      <4> QED BY <1>0, <3>1, <3>2, <3>3, <3>4, <3>5, <4>3, ForwardSound
    <3>7. Sound(Apply(a, "REVIEW_COMMAND_FAILED"))
      <4> HIDE DEF a
      <4> QED BY <3>2, <3>4, <3>6, ForwardSound
    <3> QED BY <1>5, <2>3, <3>7, RecordStep, CommandTyped DEF RejectOutput
  <2> QED BY <1>5, <2>2, <2>3 DEF RejectOutput
<1> QED BY <1>2, <1>3, <1>4, <1>5

\* A transaction with findings, torn or not.
LEMMA BothSound ==
  ASSUME RunInv, NEW r, Sound(r), NEW f \in Seq(Finding),
         NEW next \in Command, next.op \notin StartOps, CommitsBoth(r, f, next)
  PROVE  /\ run' \in Run /\ Sound(run')
         /\ cmd' \in Command /\ StartState' /\ switches' \in Nat
         /\ findings' \in Seq(Finding) /\ faults' \in Nat
<1>1. findings' \in Seq(Finding) /\ faults' \in Nat
  BY DEF CommitsBoth, RunInv, TypeOK
<1>2. CASE Commits(r, next)
  BY <1>1, <1>2, CommitsSound
<1>3. CASE Commits(run, Idle)
  BY <1>1, <1>3, CommitsSound, CommandTyped, RunInvSound
<1> QED BY <1>2, <1>3 DEF CommitsBoth

\* Appending what a reviewer reports yields findings.
LEMMA ReportedTyped ==
  ASSUME NEW stage \in {"review", "docs"}, NEW batch \in Reported(stage)
  PROVE  batch \in Seq(Finding)
<1>1. CASE batch = <<>>
  BY <1>1
<1>2. ASSUME NEW k \in Kinds,
             batch = <<[stage |-> stage, kind |-> k[1], risk |-> k[2], status |-> "open",
                        fix |-> NoCommit]>>
      PROVE  batch \in Seq(Finding)
  <2>1. [stage |-> stage, kind |-> k[1], risk |-> k[2], status |-> "open",
         fix |-> NoCommit] \in Finding
    BY SetupAssumption, NothingTyped DEF Finding
  <2> QED BY <1>2, <2>1
<1> QED BY <1>1, <1>2 DEF Reported

\* submit-findings once its guards hold.
LEMMA AcceptStep ==
  ASSUME RunInv, NEW stage \in {"review", "docs"}, NEW batch \in Reported(stage),
         Accept(stage, batch)
  PROVE  RunInv'
<1> DEFINE all == findings \o batch
           own == StageFindings(all, stage)
           old == run.stages[stage]
           changed == IF run.changed = {} THEN Changed(Tree(wt)) ELSE run.changed
           executor == IF stage = "review" THEN Effective(run) ELSE "none"
           record == [old EXCEPT !.status = "green", !.head = wt, !.fp = FpOf(wt),
                                 !.executor = executor]
           put == Put(run, stage, record)
           risk == Assess(changed, Range(all))
           stored == [put EXCEPT !.coverage = IF stage = "review" THEN wt ELSE @,
                                 !.risk = risk]
           outcome == IF Blocking(own) = {} THEN "SUBMIT_CLEAN" ELSE "SUBMIT_BLOCKING"
           next == IF Resolved(own) THEN Doing("submitted", NoCommit) ELSE Idle
<1>0. /\ Sound(run) /\ wt \in Commit /\ FpOf(wt) \in Fingerprint
      /\ findings \in Seq(Finding) /\ stage \in Stages
  BY RunInvSound, TreeTyped DEF RunInv, TypeOK, Stages
<1>1. all \in Seq(Finding)
  BY <1>0, ReportedTyped, ConcatProperties
<1>2. old \in StageRecord
  BY <1>0 DEF Sound, Run
<1>3. record \in StageRecord
  <2>1. executor \in Executors \cup {"none"}
    BY EffectiveTyped
  <2> HIDE DEF old, executor
  <2> QED BY <1>0, <1>2, <2>1 DEF StageRecord, Status
<1>4. Sound(put)
  <2> HIDE DEF record
  <2> QED BY <1>0, <1>3, PutSound
<1>5. Sound(stored)
  <2>1. risk \in RiskLevel
    BY AssessTyped
  <2> HIDE DEF put, risk
  <2> QED BY <1>0, <1>4, <2>1 DEF Sound, Run
<1>6. next \in Command /\ next.op \notin StartOps
  BY LaterCommand, LaterOps, NothingTyped, CommandTyped
<1>7. CanApply(stored, outcome)
  <2>1. stored.state = run.state /\ stored.restarts = run.restarts
    BY <1>0 DEF Sound, Run, Put
  <2>2. CanApply(run, outcome)
    BY DEF Accept
  <2> HIDE DEF stored, outcome
  <2> QED BY <2>1, <2>2 DEF CanApply, LimitReached
<1>8. CommitsBoth(Apply(stored, outcome), all, next)
  BY DEF Accept
<1>9. ran' \subseteq Stages \X SUBSET Patch
  <2>1. seen[stage] \in Commit
    BY DEF RunInv, TypeOK
  <2> QED BY <1>0, <2>1, TreeTyped DEF Accept, RunInv, TypeOK
<1>10. Still /\ UNCHANGED seen
  BY DEF Accept
<1> HIDE DEF all, stored, outcome, next
<1>11. Sound(Apply(stored, outcome))
  BY <1>5, <1>7, CanApplySound
<1>12. /\ run' \in Run /\ Sound(run')
       /\ cmd' \in Command /\ StartState' /\ switches' \in Nat
       /\ findings' \in Seq(Finding) /\ faults' \in Nat
  BY <1>1, <1>6, <1>8, <1>11, BothSound
<1> QED BY <1>9, <1>10, <1>12 DEF RunInv, TypeOK, Still

\* submit-findings, by the agent or by the configured reviewer.
LEMMA SubmitStep ==
  ASSUME RunInv,
         \/ \E batch \in Reported("review") : SubmitReview(batch) \/ SubmitOutput(batch)
         \/ \E batch \in Reported("docs") : SubmitDocs(batch)
  PROVE  RunInv'
BY AcceptStep DEF SubmitReview, SubmitOutput, SubmitDocs

\* respond once its guards hold.
LEMMA AnswerStep ==
  ASSUME RunInv, NEW i \in DOMAIN findings, NEW answer \in Finding,
         NEW r, Sound(r), r.state = run.state, r.restarts = run.restarts, Answer(i, answer, r)
  PROVE  RunInv'
<1> DEFINE f == [findings EXCEPT ![i] = answer]
           green == run.state \in {"REVIEW_GREEN", "DOCS_GREEN"}
           next == IF answer.status = "fixed" /\ green THEN Doing("reopen", NoCommit)
                   ELSE IF Resolved(Active(f, run.state)) THEN Doing("resolved", NoCommit)
                   ELSE Idle
<1>1. f \in Seq(Finding)
  <2>1. findings \in Seq(Finding) /\ i \in 1 .. Len(findings)
    BY LenProperties DEF RunInv, TypeOK
  <2> QED BY <2>1, ExceptSeq
<1>2. next \in Command /\ next.op \notin StartOps
  BY LaterCommand, LaterOps, NothingTyped, CommandTyped
<1> DEFINE q == Assessed(r, Changed(Tree(wt)), f)
<1>3. Sound(q) /\ CanApply(q, "RESPOND")
  <2>1. Sound(q) /\ q.state = run.state /\ q.restarts = run.restarts
    BY AssessedSound, ChangedTyped DEF RunInv, TypeOK
  <2> QED BY <2>1 DEF Answer, CanApply, LimitReached
<1>4. CommitsBoth(Apply(q, "RESPOND"), f, next)
  BY DEF Answer
<1>5. Still /\ UNCHANGED history
  BY DEF Answer
<1> HIDE DEF f, next, q
<1>6. /\ run' \in Run /\ Sound(run')
      /\ cmd' \in Command /\ StartState' /\ switches' \in Nat
      /\ findings' \in Seq(Finding) /\ faults' \in Nat
  BY <1>1, <1>2, <1>3, <1>4, CanApplySound, BothSound
<1> QED BY <1>5, <1>6 DEF RunInv, TypeOK, Still, history

\* A prefix of a commit is a commit.
LEMMA PrefixTyped ==
  ASSUME NEW c \in Commit, NEW n \in 1 .. Len(c)
  PROVE  SubSeq(c, 1, n) \in Commit \ {NoCommit}
<1>1. Len(c) \in Nat /\ \A i \in 1 .. n : c[i] \in Patch
  BY LenProperties, ElementOfSeq DEF Commit
<1>2. SubSeq(c, 1, n) \in Seq(Patch) /\ Len(SubSeq(c, 1, n)) = n
  BY <1>1, SubSeqProperties
<1>3. Len(<<>>) = 0
  OBVIOUS
<1> QED BY <1>1, <1>2, <1>3 DEF Commit, NoCommit

\* The commits between two commits are finitely many, none of them empty.
LEMMA CommitsBetweenTyped ==
  ASSUME NEW base \in Commit, NEW c \in Commit
  PROVE  /\ CommitsBetween(base, c) \subseteq Commit \ {NoCommit}
         /\ IsFiniteSet(CommitsBetween(base, c))
<1> DEFINE I == Len(base) + 1 .. Len(c)
           T == CommitsBetween(base, c)
           g == [n \in I |-> SubSeq(c, 1, n)]
<1>1. Len(base) \in Nat /\ Len(c) \in Nat
  BY LenProperties DEF Commit
<1>2. \A n \in I : SubSeq(c, 1, n) \in Commit \ {NoCommit}
  BY <1>1, PrefixTyped
<1>3. IsFiniteSet(I)
  BY <1>1, FS_Interval
<1>4. g \in Surjection(I, T)
  BY DEF Surjection, CommitsBetween
<1>5. IsFiniteSet(T)
  <2> HIDE DEF g, T, I
  <2> QED BY <1>3, <1>4, FS_Surjection
<1> QED BY <1>2, <1>5 DEF CommitsBetween

\* respond: a dismissal, a fix in isolation, a fix in place.
LEMMA RespondStep ==
  ASSUME RunInv, NEW i \in DOMAIN findings,
         \/ RespondClosed(i) \/ RespondFixedInPlace(i)
         \/ \E n \in DOMAIN wt : RespondFixedIsolated(i, n)
  PROVE  RunInv'
<1>0. /\ Sound(run) /\ wt \in Commit /\ findings \in Seq(Finding) /\ findings[i] \in Finding
      /\ DOMAIN wt = 1 .. Len(wt)
  <2>1. findings \in Seq(Finding) /\ i \in 1 .. Len(findings)
    BY LenProperties DEF RunInv, TypeOK
  <2> QED BY <2>1, RunInvSound, ElementOfSeq, LenProperties DEF RunInv, TypeOK, Commit
<1>1. CASE RespondClosed(i)
  <2>1. [findings[i] EXCEPT !.status = "closed"] \in Finding
    BY <1>0 DEF Finding
  <2> QED BY <1>0, <1>1, <2>1, AnswerStep DEF RespondClosed
<1>2. CASE RespondFixedInPlace(i)
  <2> DEFINE new == CommitsBetween(run.head, wt)
             fixes == run.fixes \cup new
             r == [run EXCEPT !.fixes = @ \cup new, !.head = wt, !.sourceHead = wt]
  <2>1. [findings[i] EXCEPT !.status = "fixed", !.fix = wt] \in Finding
    BY <1>0 DEF Finding
  <2>2. fixes \subseteq Commit \ {NoCommit} /\ IsFiniteSet(fixes)
    <3>1. new \subseteq Commit \ {NoCommit} /\ IsFiniteSet(new)
      BY <1>0, CommitsBetweenTyped DEF Sound, Run
    <3> QED BY <1>0, <3>1, FS_Union DEF Sound, Run
  <2>3. r = [run EXCEPT !.fixes = fixes, !.head = wt, !.sourceHead = wt]
    OBVIOUS
  <2>4. Sound(r) /\ r.state = run.state /\ r.restarts = run.restarts
    <3> HIDE DEF fixes, r
    <3> QED BY <1>0, <2>2, <2>3 DEF Sound, Run
  <2>5. Answer(i, [findings[i] EXCEPT !.status = "fixed", !.fix = wt], r)
    BY <1>2 DEF RespondFixedInPlace
  <2> HIDE DEF r
  <2> QED BY <2>1, <2>4, <2>5, AnswerStep
<1>3. ASSUME NEW n \in DOMAIN wt, RespondFixedIsolated(i, n)
      PROVE  RunInv'
  <2> DEFINE c == SubSeq(wt, 1, n)
             fixes == run.fixes \cup {c}
             r == [run EXCEPT !.fixes = @ \cup {c}]
  <2>1. c \in Commit \ {NoCommit}
    BY <1>0, PrefixTyped
  <2>2. [findings[i] EXCEPT !.status = "fixed", !.fix = c] \in Finding
    <3> HIDE DEF c
    <3> QED BY <1>0, <2>1 DEF Finding
  <2>3. fixes \subseteq Commit \ {NoCommit} /\ IsFiniteSet(fixes)
    <3> HIDE DEF c
    <3> QED BY <1>0, <2>1, FS_AddElement DEF Sound, Run
  <2>4. r = [run EXCEPT !.fixes = fixes]
    OBVIOUS
  <2>5. Sound(r) /\ r.state = run.state /\ r.restarts = run.restarts
    <3> HIDE DEF fixes, r
    <3> QED BY <1>0, <2>3, <2>4 DEF Sound, Run
  <2>6. Answer(i, [findings[i] EXCEPT !.status = "fixed", !.fix = c], r)
    BY <1>3 DEF RespondFixedIsolated
  <2> HIDE DEF r, c
  <2> QED BY <2>2, <2>5, <2>6, AnswerStep
<1> QED BY <1>1, <1>2, <1>3

\* Every step of the findings stages and verify keep the invariant.
LEMMA FindingKeeps ==
  ASSUME RunInv, FindingStep
  PROVE  RunInv'
BY ContextStep, ReopenStep, SkipStep, ReviewerStep, SubmitStep, RespondStep DEF FindingStep

\* A failed stage attempt keeps a record a record and does not move it.
LEMMA FailedSound ==
  ASSUME RunInv, NEW s \in Stages
  PROVE  Sound(Failed(s))
<1> DEFINE old == run.stages[s]
           attempts == old.attempts + 1
           record == [old EXCEPT !.status = "red", !.attempts = attempts, !.head = wt]
           stages == [run.stages EXCEPT ![s] = record]
<1>1. Sound(run) /\ wt \in Commit /\ old \in StageRecord
  BY RunInvSound DEF RunInv, TypeOK, Run
<1>2. attempts \in Nat
  BY <1>1 DEF StageRecord
<1>3. Failed(s) = [run EXCEPT !.stages = stages]
  BY DEF Failed
<1> HIDE DEF attempts
<1>4. record \in StageRecord
  <2> HIDE DEF old
  <2> QED BY <1>1, <1>2 DEF StageRecord, Status
<1> HIDE DEF record
<1>5. stages \in [Stages -> StageRecord]
  BY <1>1, <1>4 DEF Sound, Run
<1> HIDE DEF stages
<1> QED BY <1>1, <1>3, <1>5 DEF Sound, Run

\* _register_stage_fix_commits.
LEMMA RepairStep ==
  ASSUME RunInv, NEW s \in ShellStages, RepairRestart(s)
  PROVE  RunInv'
<1> DEFINE red == run.stages[s].head
           fixes == run.fixes \cup CommitsBetween(red, wt)
           head == IF InPlace THEN wt ELSE run.head
           source == IF InPlace THEN wt ELSE run.sourceHead
           record == [run.stages[s] EXCEPT !.head = NoCommit]
           stages == [run.stages EXCEPT ![s] = record]
           moved == [run EXCEPT !.fixes = fixes, !.head = head, !.sourceHead = source,
                                !.coverage = NoCommit, !.stages = stages]
           reset == Discard(moved, (ShellStages \ {s}) \cup {"review"})
<1>0. Sound(run) /\ wt \in Commit /\ s \in Stages
  BY RunInvSound DEF RunInv, TypeOK, Stages, ShellStages
<1>1. fixes \subseteq Commit \ {NoCommit} /\ IsFiniteSet(fixes)
  <2>1. red \in Commit
    BY <1>0 DEF Sound, Run, StageRecord
  <2>2. /\ CommitsBetween(red, wt) \subseteq Commit \ {NoCommit}
        /\ IsFiniteSet(CommitsBetween(red, wt))
    BY <1>0, <2>1, CommitsBetweenTyped
  <2> QED BY <1>0, <2>2, FS_Union DEF Sound, Run
<1>2. head \in Commit /\ source \in Commit
  BY <1>0 DEF Sound, Run
<1>3. record \in StageRecord
  BY <1>0, NothingTyped DEF Sound, Run, StageRecord
<1>4. stages \in [Stages -> StageRecord]
  <2> HIDE DEF record
  <2> QED BY <1>0, <1>3 DEF Sound, Run
<1>5. Sound(moved)
  <2> HIDE DEF fixes, head, source, stages
  <2> QED BY <1>0, <1>1, <1>2, <1>4, NothingTyped DEF Sound, Run
<1>6. Sound(reset)
  <2> HIDE DEF moved
  <2> QED BY <1>5, DiscardSound
<1>7. Transits(reset, StageTable[s].restart, Idle) /\ RecordOnly
  BY DEF RepairRestart
<1> HIDE DEF reset
<1> QED BY <1>6, <1>7, TransitStep, CommandTyped

\* stage run up to the start of the command.
LEMMA BeginStageStep ==
  ASSUME RunInv, NEW s \in ShellStages, BeginStage(s)
  PROVE  RunInv'
<1> DEFINE record == run.stages[s]
           outdated == record.head \notin {NoCommit, wt}
           red == run.state = StageTable[s].red
           base == IF outdated THEN Discard(run, {s}) ELSE run
           r == [base EXCEPT !.setup = "none"]
           a == IF red THEN StageTable[s].retry ELSE StageTable[s].begin
<1>0. Sound(run) /\ wt \in Commit
  BY RunInvSound DEF RunInv, TypeOK
<1>1. Sound(base)
  BY <1>0, DiscardSound
<1>2. Sound(r)
  <2> HIDE DEF base
  <2> QED BY <1>1 DEF Sound, Run
<1>3. Transits(r, a, Doing(s, wt)) /\ RecordOnly
  BY DEF BeginStage
<1>4. Doing(s, wt) \in Command /\ Doing(s, wt).op \notin StartOps
  BY <1>0, LaterCommand, LaterOps DEF ShellStages
<1> HIDE DEF r, a
<1> QED BY <1>2, <1>3, <1>4, TransitStep

\* check_baseline failing to prepare the base.
LEMMA BaselineStep ==
  ASSUME RunInv, NEW s \in ShellStages, BaselineFails(s)
  PROVE  RunInv'
<1> DEFINE record == [NoRecord EXCEPT !.status = "red", !.head = wt,
                                      !.attempts = run.stages[s].attempts + 1]
           stages == [run.stages EXCEPT ![s] = record]
           r == [run EXCEPT !.stages = stages, !.setup = s]
<1>0. Sound(run) /\ wt \in Commit /\ s \in Stages /\ s \in {"lint", "test"}
  BY RunInvSound DEF RunInv, TypeOK, Stages, ShellStages
<1>1. run.stages[s].attempts + 1 \in Nat
  BY <1>0 DEF Sound, Run, StageRecord
<1>2. record \in StageRecord
  BY <1>0, <1>1, NothingTyped DEF StageRecord, Status
<1>3. stages \in [Stages -> StageRecord]
  <2> HIDE DEF record
  <2> QED BY <1>0, <1>2 DEF Sound, Run
<1>4. Sound(r)
  <2> HIDE DEF stages
  <2> QED BY <1>0, <1>3 DEF Sound, Run
<1>5. Transits(r, StageTable[s].failed, Idle) /\ RecordOnly
  BY DEF BaselineFails
<1> HIDE DEF r
<1> QED BY <1>4, <1>5, TransitStep, CommandTyped

\* _persist_stage_result.
LEMMA EndStageStep ==
  ASSUME RunInv, NEW s \in ShellStages, NEW passed \in BOOLEAN, EndStage(s, passed)
  PROVE  RunInv'
<1> DEFINE same == Tree(cmd.at) = Tree(wt)
           fp == [flag |-> IF same THEN "ok" ELSE "unavailable", tree |-> Tree(wt)]
           old == run.stages[s]
           status == IF passed THEN "green" ELSE "red"
           attempts == IF passed THEN old.attempts ELSE old.attempts + 1
           record == StageResult(s, passed, fp)
           next == IF ~passed THEN Idle
                   ELSE Doing(IF s = "lint" THEN "skip_test" ELSE "advance", NoCommit)
           a == IF passed THEN StageTable[s].passed ELSE StageTable[s].failed
<1>0. Sound(run) /\ wt \in Commit /\ s \in Stages /\ Tree(wt) \in SUBSET Patch
  BY RunInvSound, TreeTyped DEF RunInv, TypeOK, Stages, ShellStages
<1>1. fp \in Fingerprint
  BY <1>0 DEF Fingerprint, FpFlag
<1>2. old \in StageRecord
  BY <1>0 DEF Sound, Run
<1>3. status \in Status /\ attempts \in Nat
  BY <1>2 DEF StageRecord, Status
<1>4. record \in StageRecord
  <2>1. record = [old EXCEPT !.status = status, !.attempts = attempts, !.head = wt, !.fp = fp]
    BY DEF StageResult
  <2> HIDE DEF record, old, status, attempts, fp
  <2> QED BY <1>0, <1>1, <1>2, <1>3, <2>1 DEF StageRecord
<1>5. Sound(Put(run, s, record))
  <2> HIDE DEF record
  <2> QED BY <1>0, <1>4, PutSound
<1>6. next \in Command /\ next.op \notin StartOps
  BY LaterCommand, LaterOps, NothingTyped, CommandTyped
<1>7. /\ Transits(Put(run, s, record), a, next)
      /\ ran' = IF passed /\ same THEN ran \cup {<<s, Tree(wt)>>} ELSE ran
      /\ ExceptRan
  BY DEF EndStage
<1>8. ran' \subseteq Stages \X SUBSET Patch
  <2>1. ran \subseteq Stages \X SUBSET Patch
    BY DEF RunInv, TypeOK
  <2> QED BY <1>0, <1>7, <2>1
<1> HIDE DEF record, next, a
<1>9. /\ run' \in Run /\ Sound(run')
      /\ cmd' \in Command /\ StartState' /\ switches' \in Nat
  BY <1>5, <1>6, <1>7, TransitsSound, CommitsSound
<1> QED BY <1>7, <1>8, <1>9 DEF RunInv, TypeOK, ExceptRan, Still

\* Every step of the shell stages keeps the invariant.
LEMMA StageKeeps ==
  ASSUME RunInv, StageStep
  PROVE  RunInv'
<1>1. ASSUME NEW s \in ShellStages, RecoverStage(s) PROVE RunInv'
  <2>1. Sound(Failed(s))
    BY FailedSound DEF Stages, ShellStages
  <2> QED BY <1>1, <2>1, TransitStep, CommandTyped DEF RecoverStage
<1> QED BY <1>1, SkipStep, RepairStep, BeginStageStep, BaselineStep, EndStageStep DEF StageStep

\* _record_attempt keeps a record a record and does not move it.
LEMMA AttemptedSound ==
  ASSUME RunInv, NEW retrying \in BOOLEAN
  PROVE  Sound(Attempted(retrying))
<1> DEFINE a == Archive(run, findings)
           attempt == [source |-> src, validation |-> wt, retrying |-> retrying]
<1>1. Sound(a)
  BY RunInvSound, ArchiveSound DEF RunInv, TypeOK
<1>2. attempt \in Attempt
  BY DEF Attempt, RunInv, TypeOK
<1>3. Attempted(retrying) = [a EXCEPT !.attempt = attempt]
  BY DEF Attempted
<1> HIDE DEF a, attempt
<1> QED BY <1>1, <1>2, <1>3 DEF Sound, Run

\* mergeback up to its first change of a branch.
LEMMA AttemptStep ==
  ASSUME RunInv,
         \/ MergebackReopens \/ BeginMergeback \/ RetryMergeback \/ ResumeMergeback
         \/ RecordMergeback \/ RecordReset
  PROVE  RunInv'
<1>0. /\ Sound(run) /\ wt \in Commit /\ src \in Commit /\ findings \in Seq(Finding)
      /\ cmd.at \in Commit
  BY RunInvSound DEF RunInv, TypeOK, Command
<1>1. /\ Doing("merge", NoCommit) \in Command /\ Doing("merge", NoCommit).op \notin StartOps
      /\ Doing("attest", src) \in Command /\ Doing("attest", src).op \notin StartOps
  BY <1>0, LaterCommand, LaterOps, NothingTyped
<1>2. CASE MergebackReopens
  BY <1>0, <1>2, AdvanceSound, RecordStep, CommandTyped DEF MergebackReopens
<1>3. CASE BeginMergeback \/ RetryMergeback
  BY <1>1, <1>3, AttemptedSound, TransitStep DEF BeginMergeback, RetryMergeback
<1>4. CASE ResumeMergeback
  <2>1. Sound(Archive(run, findings)) /\ Sound([run EXCEPT !.stale = TRUE])
    <3>1. Sound(Archive(run, findings))
      BY <1>0, ArchiveSound
    <3> QED BY <1>0, <3>1 DEF Sound, Run
  <2>2. /\ RecordOnly
        /\ \/ Commits(Archive(run, findings), Doing("merge", NoCommit))
           \/ Commits(Archive(run, findings), Doing("attest", src))
           \/ Commits([run EXCEPT !.stale = TRUE], Idle)
    BY <1>4 DEF ResumeMergeback
  <2> QED BY <1>1, <2>1, <2>2, RecordStep, CommandTyped
<1>5. CASE RecordMergeback
  <2>1. Sound([run EXCEPT !.head = cmd.at, !.sourceHead = cmd.at])
    BY <1>0 DEF Sound, Run
  <2> QED BY <1>5, <2>1, TransitStep, CommandTyped DEF RecordMergeback
<1>6. CASE RecordReset
  <2> DEFINE r == [run EXCEPT !.head = cmd.at, !.sourceHead = cmd.at,
                              !.fixes = {}, !.coverage = NoCommit]
             q == Assessed(r, Changed(Tree(cmd.at)), findings)
             d == Discard(q, {"review", "lint", "test"})
  <2>1. Sound(r)
    BY <1>0, NothingTyped, FS_EmptySet DEF Sound, Run
  <2>2. Sound(d)
    <3> HIDE DEF r
    <3>1. Sound(q)
      BY <1>0, <2>1, AssessedSound, ChangedTyped
    <3> HIDE DEF q
    <3> QED BY <3>1, DiscardSound
  <2>3. Transits(d, "INVALIDATE_REVIEW", Idle) /\ RecordOnly
    BY <1>6 DEF RecordReset
  <2> HIDE DEF d
  <2> QED BY <2>2, <2>3, TransitStep, CommandTyped
<1> QED BY <1>2, <1>3, <1>4, <1>5, <1>6

\* A step of mergeback that moves only a branch.
LEMMA BranchStep ==
  ASSUME RunInv, NEW r, Sound(r), NEW next \in Command, next.op \notin StartOps,
         Commits(r, next), wt' \in Commit, src' \in Commit, dirty' \in BOOLEAN,
         ExceptCheckouts
  PROVE  RunInv'
<1>1. /\ run' \in Run /\ Sound(run')
      /\ cmd' \in Command /\ StartState' /\ switches' \in Nat
  BY CommitsSound
<1> QED BY <1>1 DEF RunInv, TypeOK, ExceptCheckouts, history

\* _perform_merge up to the synchronization.
LEMMA SyncSourceStep ==
  ASSUME RunInv, SyncSource
  PROVE  RunInv'
<1>0. Sound(run) /\ wt \in Commit /\ src \in Commit /\ dirty \in BOOLEAN
  BY RunInvSound DEF RunInv, TypeOK
<1>1. Rebase(src) \in Commit
  BY <1>0, RebaseTyped
<1>2. wt' \in Commit /\ src' \in Commit /\ dirty' \in BOOLEAN /\ ExceptCheckouts
  BY <1>0, <1>1 DEF SyncSource, SetSrc, MergeConflicts
<1>3. \A op \in {"attest", "pick"}, c \in Commit :
        Doing(op, c) \in Command /\ Doing(op, c).op \notin StartOps
  BY LaterCommand, LaterOps
<1>4. \/ Commits(run, Doing("attest", src)) \/ Commits(run, Doing("pick", NoCommit))
      \/ Transits(run, "MERGEBACK_FAILED", Idle)
  BY DEF SyncSource, MergeConflicts
<1> QED BY <1>0, <1>2, <1>3, <1>4, BranchStep, TransitsSound, CommandTyped, NothingTyped

\* Picking the fixes in some order onto a branch yields a commit.
LEMMA PickedTyped ==
  ASSUME RunInv, NEW picked \in SetToSeqs({Last(f) : f \in run.fixes})
  PROVE  picked \in Seq(Patch) /\ src \o picked \in Commit
<1> DEFINE patches == {Last(f) : f \in run.fixes}
           g == [f \in run.fixes |-> Last(f)]
<1>1. Sound(run) /\ src \in Commit
  BY RunInvSound DEF RunInv, TypeOK
<1>2. patches \subseteq Patch
  <2>1. ASSUME NEW f \in run.fixes PROVE Last(f) \in Patch
    <3>1. f \in Seq(Patch) /\ f # <<>>
      BY <1>1 DEF Sound, Run, Commit, NoCommit
    <3>2. Len(f) \in 1 .. Len(f)
      BY <3>1, EmptySeq, LenProperties
    <3> QED BY <3>1, <3>2, ElementOfSeq DEF Last
  <2> QED BY <2>1
<1>3. IsFiniteSet(patches)
  <2>1. g \in Surjection(run.fixes, patches)
    BY DEF Surjection
  <2>2. IsFiniteSet(run.fixes)
    BY <1>1 DEF Sound
  <2> HIDE DEF g, patches
  <2> QED BY <2>1, <2>2, FS_Surjection
<1>4. Cardinality(patches) \in Nat
  BY <1>3, FS_CardinalityType
<1>5. picked \in [1 .. Cardinality(patches) -> patches]
  BY DEF SetToSeqs
<1>6. picked \in Seq(Patch)
  <2> HIDE DEF patches
  <2> QED BY <1>2, <1>4, <1>5
<1> QED BY <1>1, <1>6, ConcatProperties DEF Commit

\* The rest of _perform_merge.
LEMMA PickFixesStep ==
  ASSUME RunInv, PickFixes
  PROVE  RunInv'
<1> DEFINE patches == {Last(f) : f \in run.fixes}
<1>0. Sound(run) /\ wt \in Commit /\ src \in Commit /\ dirty' \in BOOLEAN /\ ExceptCheckouts
  BY RunInvSound DEF RunInv, TypeOK, PickFixes
<1>1. \A c \in Commit : Compared(c) \in Command /\ Compared(c).op \notin StartOps
  BY LaterCommand, LaterOps DEF Compared
<1>2. CASE /\ \/ Commits(run, Idle) \/ Commits(run, Compared(src))
              \/ Transits(run, "MERGEBACK_FAILED", Idle)
           /\ UNCHANGED <<wt, src>>
  BY <1>0, <1>1, <1>2, BranchStep, TransitsSound, CommandTyped
<1>3. ASSUME NEW picked \in SetToSeqs(patches),
             SetSrc(src \o picked) /\ Commits(run, Compared(src \o picked))
      PROVE  RunInv'
  <2>1. src \o picked \in Commit
    BY PickedTyped
  <2>2. wt' \in Commit /\ src' \in Commit
    BY <1>0, <1>3, <2>1 DEF SetSrc
  <2> QED BY <1>0, <1>1, <1>3, <2>1, <2>2, BranchStep
<1> QED BY <1>2, <1>3 DEF PickFixes, MergeConflicts

\* attestation.build and write.
LEMMA AttestStep ==
  ASSUME RunInv, Attest
  PROVE  RunInv'
<1> DEFINE c == cmd.at
           item(s) == run.evidence[s]
           new == [sha |-> c, fps |-> [s \in Stages |-> run.evidence[s].fp],
                   findings |-> UNION {run.evidence[s].findings : s \in Stages}]
<1>0. Sound(run) /\ c \in Commit /\ note \in Note
  BY RunInvSound DEF RunInv, TypeOK, Command
<1>1. \A s \in Stages : /\ run.evidence[s].fp \in Fingerprint
                        /\ run.evidence[s].findings \subseteq Nat \X Finding
  BY <1>0 DEF Sound, Run, Evidence
<1>2. UNION {run.evidence[s].findings : s \in Stages} \subseteq Nat \X Finding
  BY <1>1
<1>3. new \in Note
  BY <1>0, <1>1, <1>2 DEF Note
<1>4. note' \in Note
  BY <1>0, <1>3 DEF Attest
<1>5. /\ Commits(run, Doing("noted", c)) \/ Commits(run, Idle)
      /\ UNCHANGED <<findings, checkouts, remote, history, budget>>
  BY DEF Attest
<1>6. Doing("noted", c) \in Command /\ Doing("noted", c).op \notin StartOps
  BY <1>0, LaterCommand, LaterOps
<1>7. /\ run' \in Run /\ Sound(run')
      /\ cmd' \in Command /\ StartState' /\ switches' \in Nat
  BY <1>0, <1>5, <1>6, CommitsSound, CommandTyped
<1> QED BY <1>4, <1>5, <1>7 DEF RunInv, TypeOK, checkouts, history, budget

\* Every step of mergeback keeps the invariant.
LEMMA MergeKeeps ==
  ASSUME RunInv, MergeStep
  PROVE  RunInv'
<1>1. CASE ResetCheckout
  <2>1. /\ Sound(run) /\ cmd.at \in Commit /\ src \in Commit
        /\ Doing("resetting", cmd.at) \in Command
        /\ Doing("resetting", cmd.at).op \notin StartOps
    BY RunInvSound, LaterCommand, LaterOps DEF RunInv, TypeOK, Command
  <2> QED BY <1>1, <2>1, BranchStep DEF ResetCheckout
<1> QED BY <1>1, AttemptStep, SyncSourceStep, PickFixesStep, AttestStep DEF MergeStep

\* gate, push, finish, abort and orphaning keep the invariant.
LEMMA PublishKeeps ==
  ASSUME RunInv, PublishStep
  PROVE  RunInv'
<1>0. /\ Sound(run) /\ cmd.at \in Commit /\ note \in Note
      /\ Doing("pushed", run.head) \in Command /\ Doing("pushed", run.head).op \notin StartOps
  BY RunInvSound, LaterCommand, LaterOps DEF RunInv, TypeOK, Command, Run
<1>1. CASE Gate
  <2> DEFINE q == Assessed(run, Changed(Tree(run.head)), findings)
             r == [q EXCEPT !.token = @ + 1]
  <2>1. Sound(q)
    <3>1. run.head \in Commit
      BY <1>0 DEF Sound, Run
    <3> QED BY <1>0, <3>1, AssessedSound, ChangedTyped
  <2>2. Sound(r)
    <3> HIDE DEF q
    <3> QED BY <2>1 DEF Sound, Run
  <2>3. /\ RecordOnly
        /\ \/ Commits(q, Idle) \/ Transits(r, "GATE", Idle) \/ Commits(r, Idle)
    BY <1>1 DEF Gate
  <2> HIDE DEF q, r
  <2> QED BY <2>1, <2>2, <2>3, RecordStep, TransitStep, CommandTyped
<1>2. ASSUME NEW confirm \in 1 .. MaxTokens, Push(confirm)
      PROVE  RunInv'
  <2>1. remote' \in Published
    BY <1>0, <1>2 DEF Push, Published, Sound, Run
  <2>2. /\ run' \in Run /\ Sound(run')
        /\ cmd' \in Command /\ StartState' /\ switches' \in Nat
    BY <1>0, <1>2, CommitsSound DEF Push
  <2> QED BY <1>2, <2>1, <2>2 DEF Push, RunInv, TypeOK, checkouts, history, budget
<1>3. CASE RecordPush
  <2>1. Sound([run EXCEPT !.pushed = cmd.at])
    BY <1>0 DEF Sound, Run
  <2> QED BY <1>3, <2>1, TransitStep, CommandTyped DEF RecordPush
<1>4. Sound([run EXCEPT !.released = TRUE])
  BY <1>0 DEF Sound, Run
<1>5. CASE Finish
  BY <1>4, <1>5, TransitStep, CommandTyped DEF Finish
<1>6. ASSUME NEW force \in BOOLEAN, Abort(force)
      PROVE  RunInv'
  BY <1>4, <1>6, TransitStep, CommandTyped DEF Abort
<1>7. CASE Orphan
  <2>1. \A b \in BOOLEAN : Sound([run EXCEPT !.orphaned = TRUE, !.released = b])
    BY <1>0 DEF Sound, Run
  <2> QED BY <1>7, <2>1, TransitStep, CommandTyped DEF Orphan
<1> QED BY <1>1, <1>2, <1>3, <1>5, <1>6, <1>7 DEF PublishStep

\* Commits, resets, dirt and the death of the process keep the invariant.
LEMMA WorldKeeps ==
  ASSUME RunInv, World
  PROVE  RunInv'
<1>0. wt \in Commit /\ src \in Commit
  BY DEF RunInv, TypeOK
<1>1. \A c \in Commit : \A p \in Patch : Append(c, p) \in Commit
  BY AppendProperties DEF Commit
<1>2. ASSUME NEW c \in Commit, Len(c) > 1
      PROVE  Front(c) \in Commit
  <2>1. Len(c) \in Nat /\ Len(c) - 1 \in 1 .. Len(c)
    BY <1>2, LenProperties DEF Commit
  <2> QED BY <2>1, PrefixTyped DEF Front
<1>3. ASSUME NEW p \in Patch, AgentCommits(p) \/ HumanCommits(p)
      PROVE  RunInv'
  <2>1. wt' \in Commit /\ src' \in Commit
    BY <1>0, <1>1, <1>3 DEF AgentCommits, HumanCommits, SetWt, SetSrc
  <2> QED BY <1>3, <2>1 DEF AgentCommits, HumanCommits, Budgeted, Outside, history, RunInv, TypeOK, StartState
<1>4. CASE AgentResets \/ HumanResets
  <2>1. wt' \in Commit /\ src' \in Commit
    BY <1>0, <1>2, <1>4 DEF AgentResets, HumanResets, SetWt, SetSrc
  <2> QED BY <1>4, <2>1 DEF AgentResets, HumanResets, Budgeted, Outside, history, RunInv, TypeOK, StartState
<1>5. CASE ChangesCleanliness
  BY <1>5 DEF ChangesCleanliness, Faulty, history, RunInv, TypeOK, StartState
<1>6. CASE Dies
  <2>1. Idle \in Command /\ Idle.op \notin StartOps
    BY CommandTyped
  <2> QED BY <1>6, <2>1 DEF Dies, Faulty, checkouts, history, RunInv, TypeOK, StartState, StartOps
<1> QED BY <1>3, <1>4, <1>5, <1>6 DEF World

\* A run that was just created satisfies the invariant.
LEMMA InitHolds == Init => RunInv
<1> SUFFICES ASSUME Init PROVE RunInv
  OBVIOUS
<1> USE NothingTyped
<1>1. src \in Commit /\ wt \in Commit
  BY SetupAssumption DEF Init, Commit
<1>2. NewRun(src) \in Run /\ NewRun(src).state = "CREATED" /\ NewRun(src).fixes = {}
  <2>1. [s \in Stages |-> NoRecord] \in [Stages -> StageRecord]
    OBVIOUS
  <2>2. [s \in Stages |-> NoEvidence] \in [Stages -> Evidence]
    OBVIOUS
  <2>3. NoAttempt \in Attempt
    BY DEF NoAttempt, Attempt
  <2> QED BY <1>1, <2>1, <2>2, <2>3, KnownStates DEF NewRun, Run
<1>3. cmd \in Command /\ cmd.op = "start"
  BY CommandTyped DEF Init, StartOps
<1>4. NoNote \in Note
  BY DEF NoNote, Note
<1>5. remote \in Published
  BY <1>4 DEF Init, Published
<1>6. IsFiniteSet({})
  BY FS_EmptySet
<1>7. run \in Run /\ run.state = "CREATED" /\ IsFiniteSet(run.fixes)
  <2>1. run = NewRun(src)
    BY DEF Init
  <2> QED BY <1>2, <1>6, <2>1
<1>8. /\ findings \in Seq(Finding) /\ dirty \in BOOLEAN
      /\ seen \in [{"review", "docs"} -> Commit] /\ ran \subseteq Stages \X SUBSET Patch
      /\ moves \in Nat /\ faults \in Nat /\ note \in Note
  <2>1. findings = <<>> /\ dirty = FALSE /\ ran = {} /\ moves = 0 /\ faults = 0 /\ note = NoNote
    BY DEF Init
  <2>2. seen = [s \in {"review", "docs"} |-> NoCommit]
    BY DEF Init
  <2>3. seen \in [{"review", "docs"} -> Commit]
    BY <2>2
  <2>4. <<>> \in Seq(Finding)
    OBVIOUS
  <2>5. findings \in Seq(Finding)
    BY <2>1, <2>4
  <2>6. ran \subseteq Stages \X SUBSET Patch
    BY <2>1
  <2>7. note \in Note
    BY <1>4, <2>1
  <2>8. moves \in Nat /\ faults \in Nat /\ dirty \in BOOLEAN
    BY <2>1
  <2> QED BY <2>3, <2>5, <2>6, <2>7, <2>8
<1>9. StartState
  BY <1>3, <1>7 DEF StartState
<1>10. Sound(run)
  <2>1. run.restarts = 0
    BY DEF Init, NewRun
  <2> QED BY <1>7, <2>1, LimitAssumption DEF Sound
<1>11. torn \subseteq SUBSET Patch /\ switches \in Nat
  BY DEF Init
<1>12. TypeOK
  BY <1>1, <1>3, <1>5, <1>7, <1>8, <1>11 DEF TypeOK
<1> QED BY <1>9, <1>10, <1>12 DEF RunInv

\* Every step keeps the invariant: one case per part of the program.
LEMMA NextKeeps == RunInv /\ [Next]_vars => RunInv'
<1>1. CASE StartStep /\ RunInv
  BY <1>1, CreateCheckoutStep, SynchronizeStep, SetupStep DEF StartStep
<1>2. CASE Program /\ ~StartStep /\ RunInv
  BY <1>2, SettleStep, FindingKeeps, StageKeeps, MergeKeeps, PublishKeeps DEF Program
<1>3. CASE World /\ RunInv
  BY <1>3, WorldKeeps
<1>4. CASE UNCHANGED vars /\ RunInv
  BY <1>4 DEF vars, RunInv, TypeOK, StartState
<1> QED BY <1>1, <1>2, <1>3, <1>4 DEF Next, Program

\* The inductive invariant holds of every run.
THEOREM RunInvariant == Spec => []RunInv
BY InitHolds, NextKeeps, PTL DEF Spec

\* Every record that any command persists is a run record the store can load, and
\* every variable keeps its type, for all patches, branches and limits.
THEOREM TypeCorrect == Spec => []TypeOK
<1>1. RunInv => TypeOK
  BY DEF RunInv
<1> QED BY <1>1, RunInvariant, PTL

\* A run never restarts more often than max_restarts, and once it did so as often
\* it waits for review until a person closes it, whatever the limit.
THEOREM LimitHolds == Spec => []StopsAtLimit
<1>1. RunInv => StopsAtLimit
  BY DEF RunInv, Sound, StopsAtLimit, LimitReached, Stopped
<1> QED BY <1>1, RunInvariant, PTL
==============================================================================
