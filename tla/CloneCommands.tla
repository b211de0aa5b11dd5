--------------------------- MODULE CloneCommands ---------------------------
(***************************************************************************)
(* The commands cli_support.finish_locked runs under an operation lock:    *)
(* abort, finish, and of the others the two that matter to the runner,     *)
(* recording a fix commit (runs/resolve.py) and the push (runs/publish.py).*)
(***************************************************************************)
EXTENDS CloneStore

LockedCommands == {"abort", "finish", "respond", "push"}

\* finish_locked opens its session and reads which run it is for; only abort
\* has a --force.
Open(p, t, cmd, force) ==
  /\ At(p, "idle") /\ t \in here /\ alias[t] # None
  /\ force => cmd = "abort"
  /\ Does(p, [Idle EXCEPT !.at = "lock", !.cmd = cmd, !.tree = t, !.run = alias[t],
                          !.force = force])
  /\ UNCHANGED <<record, checkout, world>>

\* It waits for that run's operation lock.
TakeLock(p) ==
  /\ At(p, "lock") /\ ~Locked(proc[p].run)
  /\ Does(p, [proc[p] EXCEPT !.at = "load", !.lock = proc[p].run])
  /\ UNCHANGED <<record, checkout, world>>

\* (mutant) abort does not ask about unmerged fixes.
AdmitsUnmerged(cmd, r, force) ==
  \/ cmd = "abort"
  \/ cmd = "finish" /\ rec[r].state = "PUSHED"
  \/ /\ cmd = "respond" /\ rec[r].state = "OPEN" /\ rec[r].path /\ r \notin moved
     /\ runner.there /\ runner.base = r /\ runner.ahead
  \/ cmd = "push" /\ rec[r].state = "OPEN" /\ r \notin moved

\* _require_state, and what each command refuses.  A fix must be a commit on
\* top of the run's head in the runner's history.
Admits(cmd, r, force) ==
  \/ cmd = "abort" /\ (rec[r].fixes => force)
  \/ cmd = "finish" /\ rec[r].state = "PUSHED"
  \/ /\ cmd = "respond" /\ rec[r].state = "OPEN" /\ rec[r].path /\ r \notin moved
     /\ runner.there /\ runner.base = r /\ runner.ahead
  \/ cmd = "push" /\ rec[r].state = "OPEN" /\ r \notin moved

FirstStep(cmd) == IF cmd \in {"abort", "finish"} THEN "release" ELSE cmd

\* The command itself looks the run up again (_load_current).
Load(p) ==
  LET r == alias[proc[p].tree]  cmd == proc[p].cmd IN
  /\ At(p, "load")
  /\ IF r # None /\ Admits(cmd, r, proc[p].force)
     THEN /\ Does(p, [proc[p] EXCEPT !.at = FirstStep(cmd), !.run = r, !.seen = rec[r]])
          /\ given' = IF proc[p].force THEN given \cup {r} ELSE given
     ELSE Stops(p) /\ UNCHANGED given
  /\ UNCHANGED <<record, checkout, here, moved, deaths>>

\* (mutant) the checkout stays, its release is still recorded.
ReleaseNothing(p) ==
  /\ At(p, "release")
  /\ GoesTo(p, "commit")
  /\ UNCHANGED <<record, checkout, world>>

\* abort and finish: the checkout first ...
Release(p) ==
  /\ At(p, "release")
  /\ ReleasesSeen(proc[p].run, proc[p].seen)
  /\ GoesTo(p, "commit")
  /\ UNCHANGED <<record, world>>

\* ... then the record, which may have changed since it was read.
Commit(p) ==
  LET r == proc[p].run
      ends == IF proc[p].cmd = "abort" THEN "ABORTED" ELSE "DONE" IN
  /\ At(p, "commit")
  /\ IF IF proc[p].cmd = "abort" THEN Live(r) ELSE rec[r].state = "PUSHED"
     THEN Commits(r, [rec[r] EXCEPT !.state = ends, !.released = TRUE]) /\ GoesTo(p, "clear")
     ELSE Stops(p) /\ UNCHANGED rec
  /\ UNCHANGED <<alias, checkout, world>>

\* respond --action fixed: the record names the commit, the branch the runner
\* is on holds it.
Respond(p) ==
  LET r == proc[p].run IN
  /\ At(p, "respond")
  /\ IF rec[r].state = "OPEN"
     THEN /\ Commits(r, [rec[r] EXCEPT !.fixes = TRUE])
          /\ held' = [held EXCEPT ![r] = IF runner.base = r THEN runner.on ELSE None]
     ELSE UNCHANGED <<rec, held>>
  /\ Stops(p)
  /\ UNCHANGED <<alias, runner, world>>

\* Mergeback has carried the fixes to the source branch by the time of the push.
Push(p) ==
  LET r == proc[p].run IN
  /\ At(p, "push")
  /\ IF rec[r].state = "OPEN"
     THEN Commits(r, [rec[r] EXCEPT !.state = "PUSHED"]) /\ given' = given \cup {r}
     ELSE UNCHANGED <<rec, given>>
  /\ Stops(p)
  /\ UNCHANGED <<alias, checkout, here, moved, deaths>>

LockedStep(p) == TakeLock(p) \/ Load(p) \/ Release(p) \/ Commit(p) \/ Respond(p) \/ Push(p)
=============================================================================
