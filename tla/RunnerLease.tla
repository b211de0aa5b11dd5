---------------------------- MODULE RunnerLease ----------------------------
(***************************************************************************)
(* Several source worktrees of one clone, validated in reusable mode: the  *)
(* commands of CloneStart, CloneCommands and CloneGc interleave, their     *)
(* processes may be killed, and people commit in and remove worktrees.     *)
(***************************************************************************)
EXTENDS CloneStart, CloneCommands, CloneGc

CONSTANTS
  Commands,   \* the commands anyone runs
  MaxDeaths   \* how many processes are killed

ASSUME BoundAssumption == MaxDeaths \in Nat

Init ==
  /\ rec = [r \in Run |-> NoRecord]
  /\ alias = [o \in Owner |-> None]
  /\ runner = [Free EXCEPT !.there = FALSE]
  /\ held = [r \in Run |-> None]
  /\ here = Tree
  /\ moved = {} /\ given = {}
  /\ proc = [p \in Proc |-> Idle]
  /\ deaths = 0

-----------------------------------------------------------------------------
(* What the tool does not decide. *)

\* The agent commits a repair in the runner it was given.
AgentCommits ==
  /\ runner.there /\ runner.base # None /\ rec[runner.base].state = "OPEN" /\ ~runner.ahead
  /\ runner' = [runner EXCEPT !.ahead = TRUE]
  /\ UNCHANGED <<record, held, world, proc>>

\* Someone commits on a source branch, or removes a worktree but the last.
SourceMoves(t) ==
  LET left == {r \in Run : Live(r) /\ rec[r].tree = t} IN
  /\ t \in here /\ ~(left \subseteq moved)
  /\ moved' = moved \cup left
  /\ UNCHANGED <<record, checkout, here, given, deaths, proc>>

SourceGoes(t) ==
  /\ t \in here /\ here # {t}
  /\ here' = here \ {t}
  /\ UNCHANGED <<record, checkout, moved, given, deaths, proc>>

\* A process is killed; the system drops its locks.
Dies(p) ==
  /\ ~At(p, "idle") /\ deaths < MaxDeaths
  /\ deaths' = deaths + 1
  /\ Stops(p)
  /\ UNCHANGED <<record, checkout, here, moved, given>>

\* status: the pointer to a run that has ended goes.
Status(t) ==
  /\ t \in here /\ alias[t] # None /\ Ended(alias[t])
  /\ Clears(alias[t])
  /\ UNCHANGED <<rec, checkout, world, proc>>

Begins(p) ==
  \/ "start" \in Commands /\ \E t \in Tree : Start(p, t)
  \/ \E t \in Tree, cmd \in Commands \cap LockedCommands, force \in BOOLEAN :
       Open(p, t, cmd, force)
  \/ "gc" \in Commands /\ \E force \in BOOLEAN : Inventory(p, force)

Next ==
  \/ \E p \in Proc : Begins(p) \/ StartStep(p) \/ LockedStep(p) \/ GcStep(p) \/ Dies(p)
  \/ AgentCommits
  \/ \E t \in Tree : SourceMoves(t) \/ SourceGoes(t) \/ Status(t)

Spec == Init /\ [][Next]_vars

-----------------------------------------------------------------------------
(* Properties. *)

\* Types: records, pointers, the runner and what each process remembers.
LeaseTypeOK ==
  /\ rec \in [Run -> Record]
  /\ alias \in [Owner -> Maybe(Run)]
  /\ runner \in [there : BOOLEAN, on : Maybe(Run), base : Maybe(Run), ahead : BOOLEAN]
  /\ held \in [Run -> Maybe(Run)]
  /\ here \subseteq Tree /\ moved \subseteq Run /\ given \subseteq Run
  /\ \A p \in Proc : /\ proc[p].at \in Steps
                     /\ proc[p].run \in Maybe(Run) /\ proc[p].lock \in Maybe(Run)
  /\ deaths \in 0 .. MaxDeaths

\* "The lease is serial across runs": while a run is live, the runner leaves
\* its branch only by a command that is at work on that run.
LeaseIsSerial ==
  [][\A r \in Run : (Live(r) /\ runner.on = r /\ runner'.on # r) =>
       \E p \in Proc : proc[p].run = r /\ proc'[p] # proc[p]]_vars

\* A fix commit that a record names is on some branch until it has landed or
\* someone gave it up with --force, whatever became of the run.
FixKept == \A r \in Run : rec[r].fixes /\ r \notin given => held[r] # None

\* A run that got past its creation is the one its source worktree points to
\* for as long as it lives: no cleanup of another run takes its pointer.
LiveOwnsTree == \A r \in Run : rec[r].state \in Started => alias[rec[r].tree] = r

\* The runner has one run past its creation, however starts, deaths and
\* cleanups interleave: when two starts lease the runner at once, its pointer
\* still stops one of them.
RunnerHasOneRun == \A r, s \in Run : {rec[r].state, rec[s].state} \subseteq Started => r = s

\* When gc is done, a runner still leased is leased to a live run or to one it
\* retained: the records tell it of every checkout it could reclaim.
GcAccountsForRunner ==
  [][\A p \in Proc, r \in Run :
       (At(p, "collect") /\ At(p, "idle")' /\ deaths' = deaths /\ runner.on = r) =>
         AtWork(r) \/ Live(r) \/ r \in proc[p].kept]_vars
=============================================================================
