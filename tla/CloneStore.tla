----------------------------- MODULE CloneStore -----------------------------
(***************************************************************************)
(* What the runs of one clone share in reusable mode: the run records and  *)
(* the active-run pointers (store.py), the one validation runner           *)
(* (worktree.py), the source worktrees, and the processes that work on     *)
(* them.  One step of a process is one store transaction, one pointer      *)
(* update or one sequence of git commands; anything may happen in between. *)
(***************************************************************************)
CONSTANTS
  Run,     \* run ids
  Tree,    \* source worktrees
  Proc,    \* processes, each running one command at a time
  Runner,  \* the owner id of the runner
  None

ASSUME OwnerAssumption == None \notin Run \cup Tree /\ Runner \notin Tree

VARIABLES
  rec,     \* the run records
  alias,   \* active/<owner>.run: the run each worktree points to
  runner,  \* the reusable runner
  held,    \* the branch that holds the fix commits each record names
  here,    \* the source worktrees that exist
  moved,   \* runs whose source worktree has left the commit they started from
  given,   \* runs whose fixes landed or were given up with --force
  proc,    \* what each process is doing
  deaths   \* how many processes were killed

record == <<rec, alias>>
checkout == <<runner, held>>
world == <<here, moved, given, deaths>>
vars == <<rec, alias, runner, held, here, moved, given, proc, deaths>>

Owner == Tree \cup {Runner}
Maybe(S) == S \cup {None}

\* "OPEN" stands for every state between synchronization and the push, the
\* failed synchronization and setup included; "NONE" for no record.
Terminal == {"ABORTED", "DONE", "ORPHANED"}
Started == {"SYNC_RUNNING", "OPEN", "PUSHED"}
LiveStates == {"CREATED"} \cup Started
Record == [state : {"NONE"} \cup LiveStates \cup Terminal, tree : Maybe(Tree),
           path : BOOLEAN, fixes : BOOLEAN, released : BOOLEAN]
NoRecord == [state |-> "NONE", tree |-> None, path |-> FALSE, fixes |-> FALSE,
             released |-> FALSE]

Live(r) == rec[r].state \in LiveStates
Ended(r) == rec[r].state \in Terminal

-----------------------------------------------------------------------------
(* Processes.  run is the run a process works on, lock the run whose       *)
(* operation lock it holds, seen the record it read; runs and pointers are *)
(* gc's inventory, todo and kept what it has yet to collect and retains.   *)

Steps == {"idle", "resolve", "orphan", "orphan_clear", "idle_release", "idle_mark",
          "create", "claim", "check", "add", "lease", "refuse", "path", "own", "begin",
          "sync", "empty_mark", "prime", "clear", "lock", "load", "release",
          "commit", "respond", "push", "collect", "retain", "reclaim", "mark", "look",
          "remove"}
Idle == [at |-> "idle", cmd |-> "none", tree |-> None, run |-> None, lock |-> None,
         seen |-> NoRecord, force |-> FALSE, runs |-> {}, pointers |-> [t \in Tree |-> None],
         todo |-> {}, kept |-> {}]

At(p, step) == proc[p].at = step
Does(p, next) == proc' = [proc EXCEPT ![p] = next]
GoesTo(p, step) == Does(p, [proc[p] EXCEPT !.at = step])
Unlocks(p, step) == Does(p, [proc[p] EXCEPT !.at = step, !.lock = None])
Stops(p) == Does(p, Idle)
Locked(r) == \E p \in Proc : proc[p].lock = r

\* A process is at work on a run.
AtWork(r) == \E p \in Proc : proc[p].run = r

-----------------------------------------------------------------------------
(* The store. *)

\* A transaction on one record: f is the record it leaves.
Commits(r, f) == rec' = [rec EXCEPT ![r] = f]

\* (mutant) clearing by owner, without comparing the value of the pointer.
ClearsOwned(r) ==
  alias' = [o \in Owner |-> IF o = rec[r].tree \/ alias[o] = r THEN None ELSE alias[o]]

\* clear_run: release every pointer that still names the run.
Clears(r) == alias' = [o \in Owner |-> IF alias[o] = r THEN None ELSE alias[o]]

-----------------------------------------------------------------------------
(* The runner.  base is the run whose head its HEAD descends from, ahead    *)
(* whether the agent has committed on top, on the branch it is on.         *)

Free == [there |-> TRUE, on |-> None, base |-> None, ahead |-> FALSE]
LeasedTo(r) == [there |-> TRUE, on |-> r, base |-> r, ahead |-> FALSE]

\* The commits a branch held go with it when it is reset or deleted.
Loses(branch) ==
  held' = [r \in Run |-> IF branch # None /\ held[r] = branch THEN None ELSE held[r]]

\* acquire_reusable, past its checks: reset --hard moves whatever branch is
\* checked out, then the run's own branch is created.
Leases(r) == runner' = LeasedTo(r) /\ Loses(runner.on)

\* release_reusable: reset and clean, detach, delete the run's branch.  The
\* branch the runner is on is not looked at.
Releases(r) ==
  IF runner.there THEN runner' = [runner EXCEPT !.on = None] /\ Loses(r)
  ELSE UNCHANGED checkout

\* _release_run_worktree, by the record the caller has read.
ReleasesSeen(r, seen) ==
  IF seen.path /\ ~seen.released THEN Releases(r) ELSE UNCHANGED checkout
=============================================================================
