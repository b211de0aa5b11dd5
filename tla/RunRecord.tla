------------------------------ MODULE RunRecord ------------------------------
(***************************************************************************)
(* The run record (models.RunDoc) and the pure updates the commands        *)
(* compose inside store transactions: state moves, discarding stage        *)
(* results, reopening review, archiving evidence and importing it again.   *)
(*                                                                         *)
(* A commit is the sequence of patches that leads to it and its tree the   *)
(* set of the patches that change content, so rebasing, cherry-picking and *)
(* resetting are sequence operations and two commits can share a tree.     *)
(***************************************************************************)
EXTENDS Machine, Naturals, SequencesExt

CONSTANTS
  Patch,         \* the patches anyone may commit
  EmptyPatch,    \* those that leave the tree as it was
  DocPatch,      \* those that touch documentation and CI files only
  Upstream,      \* what the fresh base has over the source branch's base
  MaxAttempts,   \* [stage] max_attempts
  MaxRestarts,   \* [stage] max_restarts
  DocsEnabled,   \* [docs] enabled
  Executor,      \* [review] executor
  CommandFor,    \* [review] require_command_for: levels that need the command
  PathRisk       \* the risk level that [policy] gives the paths of a patch

ASSUME PatchAssumption == /\ EmptyPatch \subseteq Patch
                          /\ DocPatch \subseteq Patch
                          /\ Upstream \in Seq(Patch)
ASSUME LimitAssumption == /\ MaxAttempts \in Nat \ {0}
                          /\ MaxRestarts \in Nat \ {0}
                          /\ DocsEnabled \in BOOLEAN

RiskLevel == {"low", "medium", "high"}
Executors == {"in_harness", "command"}
ASSUME RiskAssumption == /\ Executor \in Executors /\ CommandFor \subseteq RiskLevel
                         /\ PathRisk \in [Patch -> RiskLevel]

Stages == {"review", "docs", "lint", "test"}
ShellStages == {"lint", "test"}

-----------------------------------------------------------------------------
(* Commits, trees and findings. *)

Commit == Seq(Patch)
NoCommit == <<>>
Tree(c) == Range(c) \ EmptyPatch

\* What the diff under review changes; documentation-only diffs need no tests.
Changed(tree) == tree \ Range(Upstream)
DocsOnly(tree) == Changed(tree) \subseteq DocPatch

OnBase(c) == Range(Upstream) \subseteq Range(c)
Rebase(c) == IF OnBase(c) THEN c ELSE Upstream \o c

\* The commits that lead from base to c.
PatchesBetween(base, c) == {c[n] : n \in Len(base) + 1 .. Len(c)}   \* (mutant)
CommitsBetween(base, c) == {SubSeq(c, 1, n) : n \in Len(base) + 1 .. Len(c)}

\* "blocking": high severity, ask_user or code-owned.  "auto_fix": mechanical
\* and below the blocking severities.  "note": neither.  Its severity also
\* gives it a risk level.
FindingKinds == {"blocking", "auto_fix", "note"}
Finding == [stage : {"review", "docs"}, kind : FindingKinds, risk : RiskLevel,
            status : {"open", "fixed", "closed"}, fix : Commit]

\* The findings of one stage, each with its identity.
StageFindings(f, s) == {<<i, f[i]>> : i \in {j \in DOMAIN f : f[j].stage = s}}
Blocking(fs) == {x \in fs : x[2].status = "open" /\ x[2].kind = "blocking"}
Actionable(fs) == {x \in fs : x[2].status = "open" /\ x[2].kind = "auto_fix"}
Resolved(fs) == Blocking(fs) = {} /\ Actionable(fs) = {}

\* risk.assess: the highest level of a changed path or of a finding, answered
\* or not.
Assess(changed, fs) ==
  LET levels == {PathRisk[p] : p \in changed} \cup {x.risk : x \in fs}
  IN IF "high" \in levels THEN "high" ELSE IF "medium" \in levels THEN "medium" ELSE "low"

\* The executor that the policy demands at a risk level.
ExecutorFor(risk) == IF risk \in CommandFor THEN "command" ELSE Executor

-----------------------------------------------------------------------------
(* Stage records, fingerprints and evidence. *)

\* A fingerprint names the tree a result depends on; "unavailable" when the
\* inputs changed while the stage ran.
FpFlag == {"none", "ok", "unavailable"}
Fingerprint == [flag : FpFlag, tree : SUBSET Patch]
NoFp == [flag |-> "none", tree |-> {}]
FpOf(c) == [flag |-> "ok", tree |-> Tree(c)]

Status == {"pending", "green", "red", "skipped"}
StageRecord == [status : Status, head : Commit, fp : Fingerprint, attempts : Nat,
                executor : Executors \cup {"none"}]   \* of a review
NoRecord == [status |-> "pending", head |-> NoCommit, fp |-> NoFp, attempts |-> 0,
             executor |-> "none"]
Done(e) == e.status \in {"green", "skipped"}

\* StageEvidence with its OriginalExecution: the fingerprint, the head it was
\* recorded at, the result, the findings at that moment, and whether it was
\* carried over from an earlier execution.
Evidence == [fp : Fingerprint, head : Commit, status : Status,
             executor : Executors \cup {"none"}, refreshed : BOOLEAN, findings : SUBSET (Nat \X Finding)]
NoEvidence == [fp |-> NoFp, head |-> NoCommit, status |-> "pending",
               executor |-> "none", refreshed |-> FALSE, findings |-> {}]
Held(item) == item.fp.flag # "none"

Attempt == [source : Commit, validation : Commit, retrying : BOOLEAN]
NoAttempt == [source |-> NoCommit, validation |-> NoCommit, retrying |-> FALSE]

Run == [state : States,
        head : Commit, sourceHead : Commit, fixes : SUBSET (Commit \ {NoCommit}),
        changed : SUBSET Patch, risk : RiskLevel \cup {"none"},
        coverage : Commit,              \* the head the review covers, if any
        stages : [Stages -> StageRecord],
        evidence : [Stages -> Evidence],
        candidates : [Stages -> Evidence],
        attempt : Attempt,
        restarts : Nat, stale : BOOLEAN,
        setup : {"none", "initial", "lint", "test"},  \* setup_failure's scope
        token : Nat, pushed : Commit, released : BOOLEAN, orphaned : BOOLEAN]

NewRun(c) ==
  [state |-> "CREATED", head |-> c, sourceHead |-> c, fixes |-> {},
   changed |-> {}, risk |-> "none", coverage |-> NoCommit,
   stages |-> [s \in Stages |-> NoRecord],
   evidence |-> [s \in Stages |-> NoEvidence],
   candidates |-> [s \in Stages |-> NoEvidence],
   attempt |-> NoAttempt,
   restarts |-> 0, stale |-> FALSE, setup |-> "none",
   token |-> 0, pushed |-> NoCommit, released |-> FALSE, orphaned |-> FALSE]

-----------------------------------------------------------------------------
(* Moving the record: _session._apply. *)

LimitReached(r) == r.restarts >= MaxRestarts

CanApply(r, a) == /\ a \in ClosingActions \/ ~LimitReached(r)
                  /\ Legal(r.state, a)

Apply(r, a) ==
  LET target == NextState(r.state, a)
      counted == a \in RestartActions /\ target # r.state
  IN [r EXCEPT !.state = target, !.restarts = IF counted THEN @ + 1 ELSE @]

\* (mutant) the failed attempts are forgotten with the result.
DiscardAll(r, S) ==
  [r EXCEPT !.stages = [s \in Stages |-> IF s \in S THEN NoRecord ELSE r.stages[s]],
            !.evidence = [s \in Stages |-> IF s \in S THEN NoEvidence
                                           ELSE r.evidence[s]]]

\* invalidate_stage_result for every stage of S: the attempts survive.
Discard(r, S) ==
  [r EXCEPT !.stages = [s \in Stages |-> IF s \in S
                          THEN [NoRecord EXCEPT !.attempts = r.stages[s].attempts]
                          ELSE r.stages[s]],
            !.evidence = [s \in Stages |-> IF s \in S THEN NoEvidence
                                           ELSE r.evidence[s]]]

\* review_protocol.effective_executor, and what a command leaves that assesses
\* the risk of a diff with the findings f.
Effective(r) == ExecutorFor(r.risk)
Assessed(r, changed, f) ==
  [r EXCEPT !.changed = changed, !.risk = Assess(changed, Range(f))]

\* Install one stage's result; the evidence of its previous one goes with it.
Put(r, s, record) == [r EXCEPT !.stages = [@ EXCEPT ![s] = record],
                               !.evidence = [@ EXCEPT ![s] = NoEvidence]]

\* reopen_if_stale: the reviewed snapshot is no longer the checked-out one.
Reopen(r) == Apply([Discard(r, Stages) EXCEPT !.coverage = NoCommit],
                   "INVALIDATE_REVIEW")

-----------------------------------------------------------------------------
(* Evidence: archiving results, noticing changed inputs, importing again. *)

Origin(r, f, s) ==
  [fp |-> r.stages[s].fp, head |-> r.stages[s].head,
   status |-> r.stages[s].status, executor |-> r.stages[s].executor, refreshed |-> FALSE,
   findings |-> StageFindings(f, s)]

Archive(r, f) ==
  [r EXCEPT !.evidence = [s \in Stages |->
     IF ~r.evidence[s].refreshed /\ Done(r.stages[s]) /\ r.stages[s].fp.flag # "none"
     THEN Origin(r, f, s) ELSE r.evidence[s]]]

GreenStates == {"REVIEW_GREEN", "DOCS_GREEN", "LINT_GREEN", "TEST_GREEN"}

\* A fingerprint taken now equals the one of e, a record or an evidence of stage
\* s: its tree, and of a review also the executor, which follows the run's risk.
SameInputs(r, s, e, c) == e.fp = FpOf(c) /\ (s = "review" => e.executor = Effective(r))

InputsChanged(r, c) ==
  /\ r.state \in GreenStates
  /\ \E s \in Stages : /\ Done(r.stages[s])
                       /\ r.stages[s].fp.flag # "none"
                       /\ ~SameInputs(r, s, r.stages[s], c)

\* (mutant) the return to review keeps the documentation result.
ReopenChangedKeepsDocs(r, f) ==
  LET a == Archive(r, f)
      b == Discard([a EXCEPT !.candidates = [s \in Stages |->
                       IF Held(a.evidence[s]) THEN a.evidence[s] ELSE a.candidates[s]]],
                   Stages \ {"docs"})
  IN Apply([b EXCEPT !.coverage = NoCommit], "INVALIDATE_REVIEW")

\* reopen_changed_inputs: results that hold on other inputs become candidates.
ReopenChanged(r, f) ==
  LET a == Archive(r, f)
      b == Discard([a EXCEPT !.candidates = [s \in Stages |->
                       IF Held(a.evidence[s]) THEN a.evidence[s] ELSE a.candidates[s]]],
                   Stages)
  IN Apply([b EXCEPT !.coverage = NoCommit], "INVALIDATE_REVIEW")

\* classify, the findings check, verify_stage and the comparison with the
\* stage's stored findings: a candidate that may stand for a run at c.
Reusable(r, f, s, c) ==
  LET item == r.candidates[s]
      stored == StageFindings(f, s)
  IN /\ SameInputs(r, s, item, c)
     /\ Tree(item.head) = item.fp.tree
     /\ Resolved(item.findings)
     /\ stored = {} \/ stored = item.findings

\* install_stage: the evidence, and a record whose attempts start again; the
\* risk is assessed anew from the files of the record and the findings f.
Installed(r, f, s, c) ==
  LET item == r.candidates[s]
      record == [NoRecord EXCEPT !.status = item.status, !.head = c, !.fp = FpOf(c),
                                 !.executor = item.executor]
  IN [r EXCEPT !.stages = [@ EXCEPT ![s] = record],
               !.evidence = [@ EXCEPT ![s] = [item EXCEPT !.refreshed = TRUE]],
               !.risk = Assess(r.changed, Range(f))]

\* One import of advance's loop: the result, the coverage of a review, and the
\* moves that carrying out the stage would have made.
Import(r, f, s, c) ==
  LET put == Installed(r, f, s, c)
      opened == IF r.state = "REVIEW_GREEN" THEN Apply(put, "BEGIN_DOCS") ELSE put
  IN CASE s = "review" -> Apply([put EXCEPT !.coverage = c], "SUBMIT_CLEAN")
       [] s = "docs" /\ r.candidates["docs"].status = "skipped" -> Apply(put, "SKIP_DOCS")
       [] OTHER -> Apply(opened, "SUBMIT_CLEAN")

ImportReview(r, f, c) ==
  IF r.state = "REVIEW_AWAITING_FINDINGS" /\ Reusable(r, f, "review", c)
  THEN Import(r, f, "review", c) ELSE r

DocsReady(r, f, c) ==
  r.state \in {"REVIEW_GREEN", "DOCS_AWAITING_FINDINGS"} /\ Reusable(r, f, "docs", c)

\* A skipped docs result cannot be installed once the docs stage is open: the
\* move is illegal, and advance ends there with what it imported before.
Uninstallable(r, f, c) ==
  /\ DocsReady(r, f, c)
  /\ r.state = "DOCS_AWAITING_FINDINGS" /\ r.candidates["docs"].status = "skipped"

ImportDocs(r, f, c) == IF DocsReady(r, f, c) THEN Import(r, f, "docs", c) ELSE r

\* (mutant) the import goes on when the reopening reached the restart limit.
AdvancePastLimit(r, f, c) ==
  LET opened == IF InputsChanged(r, c) THEN ReopenChanged(r, f) ELSE r
      reviewed == ImportReview(opened, f, c)
  IN IF Uninstallable(reviewed, f, c) THEN reviewed
     ELSE Archive(ImportDocs(reviewed, f, c), f)

\* evidence.advance on a clean checkout at c.  Shell stages are never imported.
\* Reaching the restart limit while reopening raises before the import.
Advance(r, f, c) ==
  LET opened == IF InputsChanged(r, c) THEN ReopenChanged(r, f) ELSE r
      reviewed == ImportReview(opened, f, c)
  IN IF LimitReached(opened) THEN opened
     ELSE IF Uninstallable(reviewed, f, c) THEN reviewed
     ELSE Archive(ImportDocs(reviewed, f, c), f)

-----------------------------------------------------------------------------
(* What a transaction may persist, and what an attestation requires. *)

\* store.violations: no rule of the run record is broken.
Consistent(r) ==
  LET ended == r.state \in TerminalStates
  IN /\ r.setup = "initial" => r.state = "SETUP_FAILED" \/ ended
     /\ r.state = "SETUP_FAILED" => r.setup = "initial"
     /\ r.state = "MERGEBACK_PENDING" => r.attempt # NoAttempt
     /\ r.state = "AWAITING_PUSH_CONFIRM" => r.token # 0
     /\ (r.state \in {"PUSHED", "DONE"}) => r.pushed # NoCommit
     /\ r.pushed # NoCommit => r.state = "PUSHED" \/ ended
     /\ r.orphaned => ended
     /\ r.state = "ORPHANED" => r.orphaned
     /\ r.released => ended

\* (mutant) the trees of the results are not compared with the commit's.
AttestableAnyTree(r, f, c) ==
  /\ r.coverage # NoCommit
  /\ \A s \in Stages : Held(r.evidence[s]) /\ Resolved(r.evidence[s].findings)

\* (mutant) open findings of the evidence are not looked for.
AttestableUnresolved(r, f, c) ==
  /\ r.coverage # NoCommit
  /\ \A s \in Stages : /\ Held(r.evidence[s])
                       /\ r.evidence[s].fp.tree = Tree(c)
  /\ \A s \in {"review", "docs"} : r.evidence[s].findings = StageFindings(f, s)

\* _verify_executor_policy: what the policy demands for the attested change.
ExecutorSuffices(r, c) ==
  LET fs == UNION {{x[2] : x \in r.evidence[s].findings} : s \in Stages}
  IN ExecutorFor(Assess(Changed(Tree(c)), fs)) = "command" =>
       r.stages["review"].executor = "command"

\* attestation.build with verify_evidence, for the source commit c.
Attestable(r, f, c) ==
  /\ r.coverage # NoCommit
  /\ r.stages["review"].status = "green"
  /\ r.stages["lint"].status = "green"
  /\ Done(r.stages["test"])
  /\ (r.evidence["docs"].status = "green") <=> DocsEnabled
  /\ (r.stages["test"].status = "skipped") => DocsOnly(Tree(c))
  /\ \A s \in Stages :
       LET item == r.evidence[s]
       IN /\ Held(item)
          /\ item.fp.tree = Tree(c)
          /\ item.fp.tree = Tree(item.head)
          /\ s # "docs" => item.status = r.stages[s].status
          /\ item.executor = r.stages[s].executor
          /\ Resolved(item.findings)
  /\ ExecutorSuffices(r, c)
  \* the summary of the findings as stored equals the one of the evidence
  /\ \A s \in {"review", "docs"} : r.evidence[s].findings = StageFindings(f, s)
=============================================================================
