------------------------------ MODULE CloneGc ------------------------------
(***************************************************************************)
(* runs/lifecycle.py gc: reconcile the run records, the pointers and the   *)
(* runner.  Its inventory is taken once; it takes a run's operation lock   *)
(* only to orphan it.                                                      *)
(***************************************************************************)
EXTENDS CloneStore

\* _inventory.
Inventory(p, force) ==
  LET known == {r \in Run : rec[r] # NoRecord} IN
  /\ At(p, "idle") /\ here # {}
  /\ Does(p, [Idle EXCEPT !.at = "collect", !.cmd = "gc", !.force = force, !.runs = known,
                          !.todo = known, !.pointers = [t \in Tree |-> alias[t]]])
  /\ UNCHANGED <<record, checkout, world>>

\* _classify_abandoned, by the pointers of the inventory.
Abandoned(r, pointers) ==
  \/ rec[r].tree \notin here
  \/ pointers[rec[r].tree] # r
  \/ rec[r].state \notin {"CREATED", "SYNC_RUNNING"} /\ r \in moved

\* Done with a run, keeping it or not.
Collected(p, r, kept) ==
  Does(p, [proc[p] EXCEPT !.at = "collect", !.run = None, !.lock = None, !.seen = NoRecord,
                          !.todo = @ \ {r}, !.kept = IF kept THEN @ \cup {r} ELSE @])

\* _collect_run: a live run is orphaned when it looks abandoned and no command
\* of it is executing, and otherwise left alone.
Collect(p, r) ==
  LET orphan == [rec[r] EXCEPT !.state = "ORPHANED"] IN
  /\ At(p, "collect") /\ r \in proc[p].todo
  /\ IF Ended(r)
     THEN /\ Does(p, [proc[p] EXCEPT !.at = "retain", !.run = r, !.seen = rec[r]])
          /\ UNCHANGED rec
     ELSE IF Abandoned(r, proc[p].pointers) /\ ~Locked(r)
     THEN /\ Commits(r, orphan)
          /\ Does(p, [proc[p] EXCEPT !.at = "retain", !.run = r, !.lock = r, !.seen = orphan])
     ELSE /\ Collected(p, r, rec[r].fixes \/ Abandoned(r, proc[p].pointers))
          /\ UNCHANGED rec
  /\ UNCHANGED <<alias, checkout, world>>

\* An ended run: its pointers go; a fix that has not landed keeps the runner.
Retain(p) ==
  LET r == proc[p].run  seen == proc[p].seen  force == proc[p].force IN
  /\ At(p, "retain")
  /\ Clears(r)
  /\ IF seen.fixes /\ seen.state # "DONE" /\ ~force
     THEN Collected(p, r, TRUE) /\ UNCHANGED given
     ELSE IF seen.path /\ ~seen.released /\ runner.there
     THEN /\ Unlocks(p, "reclaim")
          /\ given' = IF force THEN given \cup {r} ELSE given
     ELSE Collected(p, r, FALSE) /\ UNCHANGED given
  /\ UNCHANGED <<rec, checkout, here, moved, deaths>>

Reclaim(p) ==
  /\ At(p, "reclaim")
  /\ ReleasesSeen(proc[p].run, proc[p].seen)
  /\ GoesTo(p, "mark")
  /\ UNCHANGED <<record, world>>

Mark(p) ==
  LET r == proc[p].run IN
  /\ At(p, "mark")
  /\ Commits(r, [rec[r] EXCEPT !.released = TRUE])
  /\ Collected(p, r, FALSE)
  /\ UNCHANGED <<alias, checkout, world>>

\* _reclaim_released_runners: a detached runner that no known record with a
\* source worktree names, and none that is kept.
Look(p) ==
  /\ At(p, "collect") /\ proc[p].todo = {}
  /\ IF runner.there /\ runner.on = None THEN GoesTo(p, "remove") ELSE Stops(p)
  /\ UNCHANGED <<record, checkout, world>>

InUse(known, kept) == \E r \in known : rec[r].path /\ (r \in kept \/ rec[r].tree \in here)

Remove(p) ==
  /\ At(p, "remove")
  /\ IF InUse(proc[p].runs, proc[p].kept) THEN UNCHANGED checkout
     ELSE runner' = [Free EXCEPT !.there = FALSE] /\ UNCHANGED held
  /\ Stops(p)
  /\ UNCHANGED <<record, world>>

GcStep(p) ==
  \/ \E r \in Run : Collect(p, r)
  \/ Retain(p) \/ Reclaim(p) \/ Mark(p) \/ Look(p) \/ Remove(p)
=============================================================================
