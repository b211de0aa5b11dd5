------------------------------ MODULE MergeBack ------------------------------
(***************************************************************************)
(* `mergeback`: runs/mergeback.py with mergeback.py and sync.py.  An       *)
(* isolated run rebases the source branch, cherry-picks its fix commits    *)
(* onto it and compares trees; an in-place run attests where it stands.    *)
(* Then the attestation is written, and only then the record moves.        *)
(***************************************************************************)
EXTENDS Session

\* The first thing mergeback does on green tests: evidence.advance.
MergebackReopens ==
  /\ Enter /\ Fresh /\ ~dirty /\ run.state = "TEST_GREEN"
  /\ InputsChanged(run, wt)
  /\ Commits(Advance(run, findings, wt), Idle)
  /\ RecordOnly

\* (mutant) the evidence is archived and the snapshots are not recorded.
Unattempted(retrying) == Archive(run, findings)

\* _record_attempt: both snapshots, before anything is changed.
Attempted(retrying) ==
  [Archive(run, findings) EXCEPT
     !.attempt = [source |-> src, validation |-> wt, retrying |-> retrying]]

BeginMergeback ==
  /\ Enter /\ Fresh /\ run.state = "TEST_GREEN"
  /\ dirty \/ ~InputsChanged(run, wt)
  /\ run.coverage = wt
  /\ InPlace => ~dirty
  /\ Transits(Attempted(FALSE), "BEGIN_MERGEBACK", Doing("merge", NoCommit))
  /\ RecordOnly

\* After a conflict the source branch may have moved: a person resolved it.
RetryMergeback ==
  /\ Enter /\ run.state = "MERGEBACK_CONFLICT"
  /\ InPlace => ~dirty
  /\ Transits(Attempted(TRUE), "MERGEBACK_RETRY", Doing("merge", NoCommit))
  /\ RecordOnly

\* _reconcile_attempt: an interrupted mergeback goes on from its recorded
\* snapshots, or is refused.
ResumeMergeback ==
  LET snapshot == run.attempt.validation
      intact == ~run.stale /\ wt = snapshot /\ ~dirty
      landed == Tree(src) = Tree(snapshot) /\ OnBase(src)
  IN /\ Enter /\ run.state = "MERGEBACK_PENDING"
     /\ \/ /\ intact /\ src = run.attempt.source
           /\ Commits(Archive(run, findings), Doing("merge", NoCommit))
        \/ /\ intact /\ src # run.attempt.source /\ landed
           /\ Commits(Archive(run, findings), Doing("attest", src))
        \/ /\ ~intact \/ (src # run.attempt.source /\ ~landed)
           /\ Commits([run EXCEPT !.stale = TRUE], Idle)
     /\ RecordOnly

\* The conflict report: the source branch is as the command found it.
MergeConflicts == Transits(run, "MERGEBACK_FAILED", Idle) /\ UNCHANGED <<wt, src>>

\* _perform_merge up to the synchronization of the source branch.
SyncSource ==
  /\ cmd.op = "merge"
  /\ \/ InPlace /\ Commits(run, Doing("attest", src)) /\ UNCHANGED <<wt, src>>
     \/ ~InPlace /\ SetSrc(Rebase(src)) /\ Commits(run, Doing("pick", NoCommit))
     \/ ~InPlace /\ ~OnBase(src) /\ MergeConflicts
  /\ UNCHANGED dirty
  /\ ExceptCheckouts

\* What the result is compared with decides between attesting and reviewing.
Compared(c) == Doing(IF Tree(c) = Tree(wt) THEN "attest" ELSE "reset", c)

\* The rest of _perform_merge.  A retry with nothing left to pick, or with a
\* moved branch, takes the branch as a person's resolution.
PickFixes ==
  LET moved == src # run.sourceHead
      equal == Tree(src) = Tree(wt)
      retrying == run.attempt.retrying
      neverLanded == retrying /\ equal /\ run.fixes # {} /\ ~moved
      byHand == retrying /\ (moved \/ (equal /\ run.fixes = {}))
      patches == {Last(f) : f \in run.fixes}
  IN /\ cmd.op = "pick"
     /\ \/ neverLanded /\ Commits(run, Idle) /\ UNCHANGED <<wt, src>>
        \/ byHand /\ Commits(run, Compared(src)) /\ UNCHANGED <<wt, src>>
        \/ /\ ~neverLanded /\ ~byHand
           /\ Cardinality(patches) = Cardinality(run.fixes)
           /\ patches \cap (Range(src) \cup EmptyPatch) = {}
           /\ \E picked \in SetToSeqs(patches) :
                SetSrc(src \o picked) /\ Commits(run, Compared(src \o picked))
        \/ ~neverLanded /\ ~byHand /\ run.fixes # {} /\ MergeConflicts
     /\ UNCHANGED dirty
     /\ ExceptCheckouts

\* attestation.build and write: the note appears before the record moves.
Attest ==
  LET c == cmd.at
  IN /\ cmd.op = "attest"
     /\ \/ /\ Attestable(run, findings, c)
           /\ note' = [sha |-> c, fps |-> [s \in Stages |-> run.evidence[s].fp],
                       findings |-> UNION {run.evidence[s].findings : s \in Stages}]
           /\ Commits(run, Doing("noted", c))
        \/ /\ ~Attestable(run, findings, c)
           /\ Commits(run, Idle) /\ UNCHANGED note
     /\ UNCHANGED <<findings, checkouts, remote, history, budget>>

\* (mutant) the branch is read again after the note was written for it.
RecordMergebackReread ==
  /\ cmd.op = "noted"
  /\ Transits([run EXCEPT !.head = src, !.sourceHead = src], "MERGEBACK_OK", Idle)
  /\ RecordOnly

RecordMergeback ==
  /\ cmd.op = "noted"
  /\ Transits([run EXCEPT !.head = cmd.at, !.sourceHead = cmd.at], "MERGEBACK_OK", Idle)
  /\ RecordOnly

\* _reset_non_equivalent_merge_to_review: the checkout takes the resolution,
\* then the record goes back to review with it.
ResetCheckout ==
  /\ cmd.op = "reset"
  /\ wt' = cmd.at /\ dirty' = FALSE /\ UNCHANGED src
  /\ Commits(run, Doing("resetting", cmd.at))
  /\ ExceptCheckouts

RecordReset ==
  LET taken == [run EXCEPT !.head = cmd.at, !.sourceHead = cmd.at,
                           !.fixes = {}, !.coverage = NoCommit]
  IN /\ cmd.op = "resetting"
     /\ Transits(Discard(Assessed(taken, Changed(Tree(cmd.at)), findings),
                         {"review", "lint", "test"}), "INVALIDATE_REVIEW", Idle)
     /\ RecordOnly

MergeStep ==
  \/ MergebackReopens \/ BeginMergeback \/ RetryMergeback \/ ResumeMergeback
  \/ SyncSource \/ PickFixes \/ Attest \/ RecordMergeback
  \/ ResetCheckout \/ RecordReset
=============================================================================
