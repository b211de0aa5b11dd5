----------------------------- MODULE CloneStart -----------------------------
(***************************************************************************)
(* runs/start.py: resolving the run a worktree points to, and creating a   *)
(* run that leases the runner.  A start holds its worktree's start lock    *)
(* throughout, and the operation lock only to orphan a run and to create   *)
(* its own.                                                                *)
(***************************************************************************)
EXTENDS CloneStore, FiniteSets, Naturals

\* Bound: the run ids of the instance are enough for the starts under way.
IdsLeft == Cardinality({r \in Run : rec[r] = NoRecord}) >
           Cardinality({q \in Proc : proc[q].cmd = "start"})

\* cli_runs.start: one start at a time in a source worktree.
Start(p, t) ==
  /\ At(p, "idle") /\ t \in here /\ IdsLeft
  /\ \A q \in Proc : proc[q].cmd = "start" => proc[q].tree # t
  /\ Does(p, [Idle EXCEPT !.at = "resolve", !.cmd = "start", !.tree = t])
  /\ UNCHANGED <<record, checkout, world>>

\* _resolve_existing_run: resume a matching run, orphan one that is stale or
\* that --replace gives up, refuse otherwise.
Resolve(p) ==
  LET r == alias[proc[p].tree] IN
  /\ At(p, "resolve")
  /\ IF r = None THEN GoesTo(p, "create") /\ UNCHANGED alias
     ELSE IF Ended(r) THEN GoesTo(p, "create") /\ Clears(r)
     ELSE /\ \/ Does(p, [proc[p] EXCEPT !.at = "orphan", !.run = r, !.seen = rec[r]])
             \/ r \notin moved /\ Stops(p)
          /\ UNCHANGED alias
  /\ UNCHANGED <<rec, checkout, world>>

\* _orphan, unless a command of that run is executing.
Orphan(p) ==
  LET r == proc[p].run IN
  /\ At(p, "orphan")
  /\ IF Locked(r) THEN Stops(p) /\ UNCHANGED rec
     ELSE /\ Commits(r, IF Live(r) THEN [rec[r] EXCEPT !.state = "ORPHANED"] ELSE rec[r])
          /\ Does(p, [proc[p] EXCEPT !.at = "orphan_clear", !.lock = r])
  /\ UNCHANGED <<alias, checkout, world>>

\* _release_idle_runner: only when the runner provably holds no work.
HoldsNoWork(r, seen) ==
  /\ seen.path /\ ~seen.fixes /\ ~seen.released
  /\ runner.there /\ runner.base = r /\ ~runner.ahead

OrphanClear(p) ==
  LET r == proc[p].run IN
  /\ At(p, "orphan_clear")
  /\ Clears(r)
  /\ IF HoldsNoWork(r, proc[p].seen) THEN GoesTo(p, "idle_release") ELSE Unlocks(p, "create")
  /\ UNCHANGED <<rec, checkout, world>>

IdleRelease(p) ==
  /\ At(p, "idle_release")
  /\ ReleasesSeen(proc[p].run, proc[p].seen)
  /\ GoesTo(p, "idle_mark")
  /\ UNCHANGED <<record, world>>

IdleMark(p) ==
  LET r == proc[p].run IN
  /\ At(p, "idle_mark")
  /\ Commits(r, [rec[r] EXCEPT !.released = TRUE])
  /\ Unlocks(p, "create")
  /\ UNCHANGED <<alias, checkout, world>>

-----------------------------------------------------------------------------
(* _create_run_record: the record first, then the worktree's pointer. *)

Create(p) ==
  /\ At(p, "create")
  /\ \E r \in Run :
       /\ rec[r] = NoRecord
       /\ Commits(r, [NoRecord EXCEPT !.state = "CREATED", !.tree = proc[p].tree])
       /\ Does(p, [proc[p] EXCEPT !.at = "claim", !.run = r, !.lock = r])
  /\ UNCHANGED <<alias, checkout, world>>

Claim(p) ==
  LET r == proc[p].run  t == proc[p].tree IN
  /\ At(p, "claim")
  /\ IF alias[t] = None
     THEN /\ alias' = [alias EXCEPT ![t] = r]
          /\ Unlocks(p, "check")
          /\ UNCHANGED rec
     ELSE /\ Commits(r, [rec[r] EXCEPT !.state = "ABORTED", !.released = TRUE])
          /\ Stops(p)
          /\ UNCHANGED alias
  /\ UNCHANGED <<checkout, world>>

-----------------------------------------------------------------------------
(* _provision_validation_checkout and what follows, under no operation     *)
(* lock.  A record another process has ended refuses every later move.     *)

\* (mutant) without the refusal of a runner that is on a branch.
CheckThere(p) ==
  /\ At(p, "check")
  /\ GoesTo(p, IF runner.there THEN "lease" ELSE "add")
  /\ UNCHANGED <<record, checkout, world>>

\* acquire_reusable looks at the runner ...
Check(p) ==
  /\ At(p, "check")
  /\ GoesTo(p, IF ~runner.there THEN "add" ELSE IF runner.on # None THEN "refuse" ELSE "lease")
  /\ UNCHANGED <<record, checkout, world>>

\* ... and then takes it.
Lease(p) ==
  /\ \/ At(p, "lease") /\ runner.there
     \/ At(p, "add") /\ ~runner.there
  /\ Leases(proc[p].run)
  /\ GoesTo(p, "path")
  /\ UNCHANGED <<record, world>>

\* git worktree add finds the path taken; git finds the runner gone.
LeaseFails(p) ==
  /\ \/ At(p, "add") /\ runner.there /\ GoesTo(p, "refuse")
     \/ At(p, "lease") /\ ~runner.there /\ Stops(p)
  /\ UNCHANGED <<record, checkout, world>>

\* End the run that is being created, or stop at an illegal transition.
Gives(p, up, next) ==
  LET r == proc[p].run IN
  IF Live(r) THEN Commits(r, [rec[r] EXCEPT !.state = "ABORTED", !.released = up]) /\ GoesTo(p, next)
  ELSE Stops(p) /\ UNCHANGED rec

Refuse(p) == At(p, "refuse") /\ Gives(p, TRUE, "clear") /\ UNCHANGED <<alias, checkout, world>>

Path(p) ==
  LET r == proc[p].run IN
  /\ At(p, "path")
  /\ Commits(r, [rec[r] EXCEPT !.path = TRUE])
  /\ GoesTo(p, "own")
  /\ UNCHANGED <<alias, checkout, world>>

\* (mutant) the runner's pointer names the worktree instead of the run.
OwnByTree(p) ==
  /\ At(p, "own")
  /\ alias' = [alias EXCEPT ![Runner] = proc[p].tree]
  /\ GoesTo(p, "begin")
  /\ UNCHANGED <<rec, checkout, world>>

\* (mutant) the last run to lease the runner takes its pointer.
OwnAnyway(p) ==
  /\ At(p, "own")
  /\ alias' = [alias EXCEPT ![Runner] = proc[p].run]
  /\ GoesTo(p, "begin")
  /\ UNCHANGED <<rec, checkout, world>>

\* _claim_alias: a pointer may be taken over from a run that has ended.
MayOwn(o, r) == alias[o] \in {None, r} \/ Ended(alias[o])

\* The runner's own pointer, unless another live run has it.
Own(p) ==
  LET r == proc[p].run IN
  /\ At(p, "own")
  /\ IF MayOwn(Runner, r)
     THEN /\ alias' = [alias EXCEPT ![Runner] = r]
          /\ GoesTo(p, "begin")
          /\ UNCHANGED rec
     ELSE Gives(p, FALSE, "clear") /\ UNCHANGED alias
  /\ UNCHANGED <<checkout, world>>

\* CREATE_WORKTREE and BEGIN_SYNC.
Begin(p) ==
  LET r == proc[p].run IN
  /\ At(p, "begin")
  /\ IF rec[r].state = "CREATED"
     THEN Commits(r, [rec[r] EXCEPT !.state = "SYNC_RUNNING"]) /\ GoesTo(p, "sync")
     ELSE Stops(p) /\ UNCHANGED rec
  /\ UNCHANGED <<alias, checkout, world>>

\* _synchronize: the change may turn out to be upstream already.
Synchronize(p) ==
  /\ At(p, "sync")
  /\ \/ GoesTo(p, "prime") /\ UNCHANGED checkout
     \/ GoesTo(p, "empty_mark") /\ Releases(proc[p].run)
  /\ UNCHANGED <<record, world>>

EmptyMark(p) == At(p, "empty_mark") /\ Gives(p, TRUE, "clear") /\ UNCHANGED <<alias, checkout, world>>

\* A failed synchronization or setup, or the first review.
Prime(p) ==
  LET r == proc[p].run IN
  /\ At(p, "prime")
  /\ IF rec[r].state = "SYNC_RUNNING" THEN Commits(r, [rec[r] EXCEPT !.state = "OPEN"])
     ELSE UNCHANGED rec
  /\ Stops(p)
  /\ UNCHANGED <<alias, checkout, world>>

\* The last step of every command that ends its run.
Clear(p) ==
  /\ At(p, "clear")
  /\ Clears(proc[p].run)
  /\ Stops(p)
  /\ UNCHANGED <<rec, checkout, world>>

StartStep(p) ==
  \/ Resolve(p) \/ Orphan(p) \/ OrphanClear(p) \/ IdleRelease(p) \/ IdleMark(p)
  \/ Create(p) \/ Claim(p) \/ Check(p) \/ Lease(p) \/ LeaseFails(p) \/ Refuse(p)
  \/ Path(p) \/ Own(p) \/ Begin(p) \/ Synchronize(p) \/ EmptyMark(p) \/ Prime(p)
  \/ Clear(p)
=============================================================================
