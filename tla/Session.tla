------------------------------- MODULE Session -------------------------------
(***************************************************************************)
(* What every command of runs/ works on: the persisted run record with its *)
(* findings, the validation checkout and the source branch, the local and  *)
(* the published notes; and the world around them (commits, resets, dirt,  *)
(* death of the process).                                                  *)
(*                                                                         *)
(* A command takes one action per store transaction or external effect;    *)
(* `cmd` is the command in flight and what it holds in memory, so either   *)
(* branch may move in between, and the process may die there.              *)
(***************************************************************************)
EXTENDS RunRecord

CONSTANTS
  InPlace,        \* worktree.mode = "in_place": one checkout plays both roles
  Work,           \* the source branches a run may start from
  AgentPatch,     \* what the agent may commit in the validation checkout
  HumanPatch,     \* what a person may commit on the source branch
  Kinds,          \* the findings reviewers report: pairs of kind and risk level
  MaxFindings,    \* [review] max_findings
  MaxTokens,      \* bound: confirmation tokens minted
  MaxMoves,       \* bound: commits and resets made outside the program
  MaxFaults       \* bound: deaths of the process and changes of cleanliness

ASSUME SetupAssumption ==
  /\ InPlace \in BOOLEAN
  /\ Work \subseteq Seq(Patch) \ {<<>>}
  /\ AgentPatch \subseteq Patch /\ HumanPatch \subseteq Patch
  /\ Kinds \subseteq FindingKinds \X RiskLevel
  /\ MaxFindings \in Nat /\ MaxTokens \in Nat
  /\ MaxMoves \in Nat /\ MaxFaults \in Nat

VARIABLES
  run,        \* run.json
  findings,   \* findings.json: a sequence, the index is the identity
  wt,         \* HEAD of the validation checkout
  src,        \* HEAD of the source branch
  dirty,      \* the validation checkout has uncommitted changes
  cmd,        \* the command holding the operation lock, and what it holds
  note,       \* the attestation in the local notes
  remote,     \* what the last push published: a commit and its attestation
  seen,       \* per findings stage, the commit its context last delivered
  ran,        \* history: the stages really carried out, and on which tree
  torn,       \* history: the trees that a docs context was recorded for
              \* although it had been read from another one
  switches,   \* history: how often the risk gave the review another executor
  moves,      \* commits and resets so far
  faults      \* faults so far

vars == <<run, findings, wt, src, dirty, cmd, note, remote, seen, ran, torn, switches,
          moves, faults>>
checkouts == <<wt, src, dirty>>
history == <<seen, ran, torn>>
budget == <<moves, faults>>

StartOps == {"start", "sync", "setup"}
Ops == StartOps \cup
       {"idle", "settle", "deliver", "reviewer", "submit", "submitted", "reopen",
        "resolved", "lint", "test", "skip_test", "advance", "merge", "pick",
        "attest", "noted", "reset", "resetting", "pushed"}
Command == [op : Ops, at : Commit]
Idle == [op |-> "idle", at |-> NoCommit]
Doing(op, c) == [op |-> op, at |-> c]

Note == [sha : Commit, fps : [Stages -> Fingerprint], findings : SUBSET (Nat \X Finding)]
NoNote == [sha |-> NoCommit, fps |-> [s \in Stages |-> NoFp], findings |-> {}]
Published == [sha : Commit, note : Note]

Init ==
  /\ src \in Work /\ wt = src /\ dirty = FALSE
  /\ run = NewRun(src) /\ findings = <<>>
  /\ cmd = Doing("start", NoCommit)
  /\ note = NoNote /\ remote = [sha |-> NoCommit, note |-> NoNote]
  /\ seen = [s \in {"review", "docs"} |-> NoCommit]
  /\ ran = {} /\ torn = {} /\ switches = 0
  /\ moves = 0 /\ faults = 0

-----------------------------------------------------------------------------
(* Shared guards and effects. *)

Live == run.state \notin TerminalStates
Fresh == src = run.sourceHead                       \* _assert_fresh

\* A command starts under the operation lock, which no other command holds.
Enter == cmd = Idle /\ Live

\* One store transaction: the record r is persisted and the command goes on.
Commits(r, next) ==
  /\ run' = r /\ cmd' = next
  /\ switches' = switches + (IF Effective(r) # Effective(run) THEN 1 ELSE 0)

\* One store transaction that moves r by action a (_session._apply).
Transits(r, a, next) == CanApply(r, a) /\ Commits(Apply(r, a), next)

\* A transaction with findings replaces their file before the record's; death
\* between the two leaves the new findings beside the old record.
CommitsBoth(r, f, next) ==
  /\ findings' = f
  /\ \/ Commits(r, next) /\ UNCHANGED faults
     \/ Commits(run, Idle) /\ faults < MaxFaults /\ faults' = faults + 1

\* Both branches move together when they are one checkout.
SetWt(c) == wt' = c /\ src' = IF InPlace THEN c ELSE src
SetSrc(c) == src' = c /\ wt' = IF InPlace THEN c ELSE wt

\* All that a command changing only the record leaves alone.
Still == UNCHANGED <<wt, src, dirty, note, remote, torn, moves>>
RecordOnly == Still /\ UNCHANGED <<findings, seen, ran, faults>>

\* The repository's own effects: each names what it changes besides the record.
ExceptRan == Still /\ UNCHANGED <<findings, seen, faults>>
ExceptSeen == Still /\ UNCHANGED <<findings, ran, faults>>
ExceptCheckouts == UNCHANGED <<findings, note, remote, history, moves, faults>>

-----------------------------------------------------------------------------
(* evidence.advance, called by commands at their end and by `status`. *)

\* The tail of start, submit-findings and stage run.  A stage run knows that
\* the checkout is clean; the others look, and leave a dirty one alone.
Settle ==
  /\ \/ cmd.op = "advance" /\ Commits(Advance(run, findings, wt), Idle)
     \/ cmd.op = "settle" /\ ~dirty /\ Commits(Advance(run, findings, wt), Idle)
     \/ cmd.op = "settle" /\ dirty /\ Commits(run, Idle)
  /\ RecordOnly

\* _try_advance_evidence.
StatusAdvance ==
  /\ Enter /\ Fresh /\ ~LimitReached(run) /\ ~dirty
  /\ run.state \in {"REVIEW_AWAITING_FINDINGS", "REVIEW_GREEN",
                    "DOCS_AWAITING_FINDINGS", "DOCS_GREEN", "LINT_GREEN"}
  /\ Commits(Advance(run, findings, wt), Idle)
  /\ RecordOnly

\* _assert_fresh, which most commands call first: the source branch moved.
RefuseStale ==
  /\ Enter /\ ~Fresh /\ ~run.stale
  /\ Commits([run EXCEPT !.stale = TRUE], Idle)
  /\ RecordOnly

-----------------------------------------------------------------------------
(* The world outside the program. *)

Budgeted == moves < MaxMoves /\ moves' = moves + 1
Outside == UNCHANGED <<run, findings, dirty, cmd, note, remote, history, switches, faults>>

AgentCommits(p) ==
  /\ Budgeted /\ Live /\ run.state # "CREATED"
  /\ p \in AgentPatch \ Range(wt)
  /\ SetWt(Append(wt, p))
  /\ Outside

AgentResets ==
  /\ Budgeted /\ Live /\ run.state # "CREATED"
  /\ Len(wt) > 1
  /\ SetWt(Front(wt))
  /\ Outside

HumanCommits(p) ==
  /\ Budgeted /\ Live /\ ~InPlace
  /\ p \in HumanPatch \ Range(src)
  /\ SetSrc(Append(src, p))
  /\ Outside

HumanResets ==
  /\ Budgeted /\ Live /\ ~InPlace /\ HumanPatch # {}
  /\ Len(src) > 1
  /\ SetSrc(Front(src))
  /\ Outside

Faulty == faults < MaxFaults /\ faults' = faults + 1

ChangesCleanliness ==
  /\ Faulty /\ Live /\ dirty' = ~dirty
  /\ UNCHANGED <<run, findings, wt, src, cmd, note, remote, history, switches, moves>>

\* The process dies between two transactions; locks die with it.
Dies ==
  /\ Faulty /\ cmd # Idle /\ cmd' = Idle
  /\ UNCHANGED <<run, findings, checkouts, note, remote, history, switches, moves>>
=============================================================================
