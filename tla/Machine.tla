------------------------------- MODULE Machine -------------------------------
(***************************************************************************)
(* The run lifecycle as data: machine.py.  Every command of the program    *)
(* moves a run through this table and through nothing else, so the other   *)
(* modules take their state changes from here.                             *)
(***************************************************************************)

TerminalStates == {"DONE", "ABORTED", "ORPHANED"}

\* Actions that send the run back to review, and the two that close it.
RestartActions == {"LINT_FIX_RESTART", "TEST_FIX_RESTART", "INVALIDATE_REVIEW"}
ClosingActions == {"ABORT", "ORPHAN"}

\* STATE_DESCRIPTIONS: for each state, the actions it allows and their targets.
Moves ==
  [ CREATED |-> [CREATE_WORKTREE |-> "WORKTREE_READY"],
    WORKTREE_READY |-> [BEGIN_SYNC |-> "SYNC_RUNNING"],
    SYNC_RUNNING |-> [SYNC_PASSED |-> "SYNC_GREEN",
                      SYNC_FAILED |-> "SYNC_CONFLICT",
                      SETUP_FAILED |-> "SETUP_FAILED"],
    SYNC_GREEN |-> [BEGIN_REVIEW |-> "REVIEW_AWAITING_FINDINGS"],
    REVIEW_AWAITING_FINDINGS |->
      [SUBMIT_CLEAN |-> "REVIEW_GREEN",
       SUBMIT_BLOCKING |-> "REVIEW_BLOCKED",
       RUN_REVIEW_COMMAND |-> "REVIEW_COMMAND_RUNNING",
       INVALIDATE_REVIEW |-> "REVIEW_AWAITING_FINDINGS"],
    REVIEW_COMMAND_RUNNING |->
      [REVIEW_COMMAND_PASSED |-> "REVIEW_AWAITING_FINDINGS",
       REVIEW_COMMAND_FAILED |-> "REVIEW_COMMAND_RED"],
    REVIEW_COMMAND_RED |-> [RETRY_REVIEW_COMMAND |-> "REVIEW_COMMAND_RUNNING"],
    REVIEW_BLOCKED |-> [RESPOND |-> "REVIEW_BLOCKED",
                        RESOLVE_GREEN |-> "REVIEW_GREEN",
                        INVALIDATE_REVIEW |-> "REVIEW_AWAITING_FINDINGS"],
    REVIEW_GREEN |-> [RESPOND |-> "REVIEW_GREEN",
                      BEGIN_DOCS |-> "DOCS_AWAITING_FINDINGS",
                      SKIP_DOCS |-> "DOCS_GREEN",
                      INVALIDATE_REVIEW |-> "REVIEW_AWAITING_FINDINGS"],
    DOCS_AWAITING_FINDINGS |->
      [SUBMIT_CLEAN |-> "DOCS_GREEN",
       SUBMIT_BLOCKING |-> "DOCS_BLOCKED",
       INVALIDATE_REVIEW |-> "REVIEW_AWAITING_FINDINGS"],
    DOCS_BLOCKED |-> [RESPOND |-> "DOCS_BLOCKED",
                      RESOLVE_GREEN |-> "DOCS_GREEN",
                      INVALIDATE_REVIEW |-> "REVIEW_AWAITING_FINDINGS"],
    DOCS_GREEN |-> [RESPOND |-> "DOCS_GREEN",
                    RUN_LINT |-> "LINT_RUNNING",
                    INVALIDATE_REVIEW |-> "REVIEW_AWAITING_FINDINGS"],
    LINT_RUNNING |-> [LINT_PASSED |-> "LINT_GREEN", LINT_FAILED |-> "LINT_RED"],
    LINT_RED |-> [RETRY_LINT |-> "LINT_RUNNING",
                  LINT_FIX_RESTART |-> "REVIEW_AWAITING_FINDINGS"],
    LINT_GREEN |-> [RUN_TEST |-> "TEST_RUNNING",
                    SKIP_TEST |-> "TEST_GREEN",
                    INVALIDATE_REVIEW |-> "REVIEW_AWAITING_FINDINGS"],
    TEST_RUNNING |-> [TEST_PASSED |-> "TEST_GREEN", TEST_FAILED |-> "TEST_RED"],
    TEST_RED |-> [RETRY_TEST |-> "TEST_RUNNING",
                  TEST_FIX_RESTART |-> "REVIEW_AWAITING_FINDINGS"],
    TEST_GREEN |-> [BEGIN_MERGEBACK |-> "MERGEBACK_PENDING",
                    INVALIDATE_REVIEW |-> "REVIEW_AWAITING_FINDINGS"],
    MERGEBACK_PENDING |-> [MERGEBACK_OK |-> "VERIFIED",
                           MERGEBACK_FAILED |-> "MERGEBACK_CONFLICT",
                           INVALIDATE_REVIEW |-> "REVIEW_AWAITING_FINDINGS"],
    MERGEBACK_CONFLICT |-> [MERGEBACK_RETRY |-> "MERGEBACK_PENDING",
                            INVALIDATE_REVIEW |-> "REVIEW_AWAITING_FINDINGS"],
    VERIFIED |-> [GATE |-> "AWAITING_PUSH_CONFIRM"],
    AWAITING_PUSH_CONFIRM |-> [PUSH |-> "PUSHED"],
    PUSHED |-> [FINISH |-> "DONE"] ]

\* The states with no outbound move of their own: a failed start, and the end.
States == (DOMAIN Moves) \cup {"SYNC_CONFLICT", "SETUP_FAILED"} \cup TerminalStates

Actions == UNION {DOMAIN Moves[s] : s \in DOMAIN Moves} \cup ClosingActions

\* next_state and legal_actions: closing is legal from every nonterminal state.
Legal(s, a) ==
  \/ a \in ClosingActions /\ s \notin TerminalStates
  \/ s \in DOMAIN Moves /\ a \in DOMAIN Moves[s]

NextState(s, a) == CASE a = "ABORT" -> "ABORTED"
                     [] a = "ORPHAN" -> "ORPHANED"
                     [] OTHER -> Moves[s][a]

\* stage_for_state: which findings stage a state belongs to.
ReviewStates == {"REVIEW_AWAITING_FINDINGS", "REVIEW_COMMAND_RUNNING",
                 "REVIEW_COMMAND_RED", "REVIEW_BLOCKED", "REVIEW_GREEN"}
DocsStates == {"DOCS_AWAITING_FINDINGS", "DOCS_BLOCKED", "DOCS_GREEN"}
FindingStage(s) == IF s \in DocsStates THEN "docs" ELSE "review"
=============================================================================
