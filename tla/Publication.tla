----------------------------- MODULE Publication -----------------------------
(***************************************************************************)
(* The way out of a run: gate, push and finish of runs/publish.py, abort   *)
(* of runs/lifecycle.py, and the orphaning of a run that another `start`   *)
(* or `gc` replaces (runs/start.py).                                       *)
(***************************************************************************)
EXTENDS Session

\* The gate assesses the diff to be published, and ends there when the gate is
\* manual; otherwise it mints a token, which replaces the one before.
Gate ==
  LET assessed == Assessed(run, Changed(Tree(run.head)), findings)
      minted == [assessed EXCEPT !.token = @ + 1]
  IN /\ Enter /\ Fresh
     /\ run.state \in {"VERIFIED", "AWAITING_PUSH_CONFIRM"}
     /\ \/ Commits(assessed, Idle)
        \/ /\ run.state = "VERIFIED" /\ run.token < MaxTokens
           /\ Transits(minted, "GATE", Idle)
        \/ /\ run.state = "AWAITING_PUSH_CONFIRM" /\ run.token < MaxTokens
           /\ Commits(minted, Idle)
     /\ RecordOnly

\* (mutant) what is checked out is pushed, not what was verified.
PushCheckout(confirm) ==
  /\ Enter /\ Fresh /\ run.state = "AWAITING_PUSH_CONFIRM"
  /\ confirm = run.token
  /\ note.sha = run.head
  /\ remote' = [sha |-> wt, note |-> note]
  /\ Commits(run, Doing("pushed", run.head))
  /\ UNCHANGED <<findings, checkouts, note, history, budget>>

\* The branch and its note are published together; the record moves after.
Push(confirm) ==
  /\ Enter /\ Fresh /\ run.state = "AWAITING_PUSH_CONFIRM"
  /\ confirm = run.token
  /\ note.sha = run.head
  /\ remote' = [sha |-> run.head, note |-> note]
  /\ Commits(run, Doing("pushed", run.head))
  /\ UNCHANGED <<findings, checkouts, note, history, budget>>

RecordPush ==
  /\ cmd.op = "pushed"
  /\ Transits([run EXCEPT !.pushed = cmd.at], "PUSH", Idle)
  /\ RecordOnly

Finish ==
  /\ Enter /\ run.state = "PUSHED"
  /\ Transits([run EXCEPT !.released = TRUE], "FINISH", Idle)
  /\ RecordOnly

\* Unmerged fixes of an isolated run survive an abort that is not forced.
\* `start` holds no operation lock, so an abort may overtake it.
Abort(force) ==
  /\ cmd = Idle \/ cmd.op \in StartOps
  /\ InPlace \/ run.fixes = {} \/ force
  /\ Transits([run EXCEPT !.released = TRUE], "ABORT", Idle)
  /\ RecordOnly

\* _orphan, and _release_idle_runner for a checkout that provably holds no work.
Orphan ==
  LET idle == run.fixes = {} /\ ~dirty /\ wt = run.head /\ ~InPlace
  IN /\ Enter
     /\ \E released \in BOOLEAN :
          /\ released => idle
          /\ Transits([run EXCEPT !.orphaned = TRUE, !.released = released], "ORPHAN", Idle)
     /\ RecordOnly

PublishStep ==
  \/ Gate \/ RecordPush \/ Finish \/ Orphan
  \/ \E confirm \in 1..MaxTokens : Push(confirm)
  \/ \E force \in BOOLEAN : Abort(force)
=============================================================================
