------------------------------ MODULE StartRun ------------------------------
(***************************************************************************)
(* runs/start.py from the created record to the first review: the          *)
(* validation checkout, the synchronization with the fresh base (sync.py)  *)
(* and the setup command.  `start` does not hold the run's operation lock. *)
(***************************************************************************)
EXTENDS Session

\* _provision_validation_checkout: an isolated checkout starts at the recorded
\* head; a checkout or an alias that another run holds aborts this one.
CreateCheckout ==
  /\ cmd.op = "start"
  /\ \/ /\ Commits(Apply(Apply(run, "CREATE_WORKTREE"), "BEGIN_SYNC"),
                   Doing("sync", NoCommit))
        /\ IF InPlace THEN UNCHANGED <<wt, dirty>> ELSE wt' = run.head /\ dirty' = FALSE
     \/ /\ \E released \in BOOLEAN :
             Commits([Apply(run, "ABORT") EXCEPT !.released = released], Idle)
        /\ UNCHANGED <<wt, dirty>>
  /\ UNCHANGED src
  /\ ExceptCheckouts

\* _synchronize: rebase onto the base just fetched.  A refusal or a conflict
\* leaves the branch as it was; a change already upstream ends the run.
Synchronize ==
  /\ cmd.op = "sync"
  /\ \/ Transits(run, "SYNC_FAILED", Idle) /\ UNCHANGED <<wt, src>>
     \/ /\ OnBase(wt) \/ ~dirty
        /\ SetWt(Rebase(wt))
        /\ LET arrived == [run EXCEPT !.head = Rebase(wt),
                                      !.sourceHead = IF InPlace THEN Rebase(wt) ELSE @,
                                      !.changed = Changed(Tree(Rebase(wt)))]
           IN IF Tree(Rebase(wt)) \subseteq Range(Upstream)
              THEN Commits([Apply(run, "ABORT") EXCEPT !.released = TRUE], Idle)
              ELSE Commits(arrived, Doing("setup", NoCommit))
  /\ UNCHANGED dirty
  /\ ExceptCheckouts

\* _run_setup_command and _prime_review; either way the risk is assessed.
Setup ==
  LET assessed == Assessed(run, run.changed, <<>>)
  IN /\ cmd.op = "setup"
     /\ \/ Commits(Apply(Apply(assessed, "SYNC_PASSED"), "BEGIN_REVIEW"),
                   Doing("settle", NoCommit))
        \/ Transits([assessed EXCEPT !.setup = "initial"], "SETUP_FAILED", Idle)
     /\ RecordOnly

StartStep == CreateCheckout \/ Synchronize \/ Setup
=============================================================================
