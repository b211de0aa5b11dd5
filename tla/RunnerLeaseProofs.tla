------------------------- MODULE RunnerLeaseProofs -------------------------
(***************************************************************************)
(* The pointers of a clone, for any number of runs, worktrees, processes   *)
(* and deaths.  A pointer is only ever taken from a run that has ended, so *)
(* the invariant follows a run through its creation: from the claim on its *)
(* worktree points to it, from "own" on the runner does too, as long as it *)
(* is live; and a process that clears pointers works on a run that ended.  *)
(***************************************************************************)
EXTENDS RunnerLease, TLAPS

Cmds == {"none", "start", "gc"} \cup LockedCommands

Process ==
  [at : Steps, cmd : Cmds, tree : Maybe(Tree), run : Maybe(Run), lock : Maybe(Run),
   seen : Record, force : BOOLEAN, runs : SUBSET Run, pointers : [Tree -> Maybe(Run)],
   todo : SUBSET Run, kept : SUBSET Run]

Runners == [there : BOOLEAN, on : Maybe(Run), base : Maybe(Run), ahead : BOOLEAN]

Typed ==
  /\ rec \in [Run -> Record] /\ alias \in [Owner -> Maybe(Run)]
  /\ runner \in Runners /\ held \in [Run -> Maybe(Run)]
  /\ here \subseteq Tree /\ moved \subseteq Run /\ given \subseteq Run
  /\ proc \in [Proc -> Process] /\ deaths \in 0 .. MaxDeaths

\* The steps at which a process has a run, those at which that run has ended,
\* and those at which it is being created under a claimed pointer.
Claiming == {"check", "add", "lease", "refuse", "path", "own", "begin"}
Ending == {"orphan_clear", "idle_release", "idle_mark", "clear", "retain", "reclaim", "mark"}
OnRun == {"orphan", "claim", "sync", "empty_mark", "prime", "lock", "release", "commit",
          "respond", "push"} \cup Claiming \cup Ending
OnTree == {"resolve", "orphan", "orphan_clear", "idle_release", "idle_mark", "create",
           "claim", "lock", "load"} \cup Claiming

\* What the state f of a process may take for granted of the records r and of
\* the pointers a.
Sure(f, r, a) ==
  /\ f.at \in OnRun => f.run # None
  /\ f.at \in OnTree => f.tree # None
  /\ f.run # None => r[f.run].state # "NONE"
  /\ f.at \in Ending => r[f.run].state \in Terminal
  /\ f.at \in Claiming \cup {"claim"} => r[f.run].tree = f.tree
  /\ f.at \in Claiming /\ r[f.run].state \in LiveStates => a[f.tree] = f.run
  /\ f.at = "begin" /\ r[f.run].state \in LiveStates => a[Runner] = f.run

Pointed == \A o \in Owner : alias[o] # None => rec[alias[o]].state # "NONE"

Owns == \A r \in Run : rec[r].state \in Started => alias[rec[r].tree] = r /\ alias[Runner] = r

Known == \A r \in Run : rec[r].state \in LiveStates => rec[r].tree # None

Inv == Typed /\ (\A p \in Proc : Sure(proc[p], rec, alias)) /\ Pointed /\ Known /\ Owns

-----------------------------------------------------------------------------
(* What every step does to the records and the pointers.                   *)

Records ==
  \A r \in Run :
    /\ rec[r].state # "NONE" => rec'[r].state # "NONE" /\ rec'[r].tree = rec[r].tree
    /\ Ended(r) => Ended(r)'
    /\ rec'[r].state \in LiveStates => rec'[r].tree # None

Advances == \A r \in Run : rec'[r].state \in Started => rec[r].state \in Started

Pointers ==
  /\ alias' \in [Owner -> Maybe(Run)]
  /\ \A o \in Owner : alias'[o] # None => rec'[alias'[o]].state # "NONE"
  /\ \A o \in Owner : alias[o] # None /\ rec'[alias[o]].state \in LiveStates => alias'[o] = alias[o]

Onward == rec' \in [Run -> Record] /\ Records /\ Pointers /\ Owns'

Beside == runner' \in Runners /\ held' \in [Run -> Maybe(Run)] /\ here' \subseteq Tree
          /\ moved' \subseteq Run /\ given' \subseteq Run /\ deaths' \in 0 .. MaxDeaths

\* The kinds of state a record can have.
LEMMA Kinds ==
  ASSUME NEW f \in Record
  PROVE  /\ f.state \in LiveStates <=> f.state \notin {"NONE"} \cup Terminal
         /\ f.state \in Started => f.state \in LiveStates
         /\ "NONE" \notin LiveStates /\ "NONE" \notin Terminal /\ "NONE" \notin Started
         /\ "CREATED" \in LiveStates /\ "CREATED" \notin Terminal /\ "CREATED" \notin Started
BY DEF Record, LiveStates, Started, Terminal

\* A live run that has begun keeps its pointers.
LEMMA OwnsStays ==
  ASSUME Inv, rec' \in [Run -> Record], Records, Advances, Pointers
  PROVE  Onward
<1>1. ASSUME NEW r \in Run, rec'[r].state \in Started
      PROVE  alias'[rec'[r].tree] = r /\ alias'[Runner] = r
  <2>1. rec[r].state \in Started /\ rec'[r].state \in LiveStates
    BY <1>1 DEF Advances, LiveStates
  <2>2. alias[rec[r].tree] = r /\ alias[Runner] = r
    BY <2>1 DEF Owns, Inv
  <2>3. rec[r].state # "NONE" /\ rec[r].state \in LiveStates
    BY <2>1 DEF Started, LiveStates
  <2>4. rec'[r].tree = rec[r].tree /\ rec[r].tree \in Owner /\ Runner \in Owner
    <3>1. rec[r].tree \in Maybe(Tree) /\ rec[r].tree # None
      BY <2>3 DEF Inv, Typed, Record, Known
    <3> QED BY <3>1, <2>3 DEF Records, Maybe, Owner
  <2>5. r # None
    BY OwnerAssumption
  <2>6. alias'[rec[r].tree] = r /\ alias'[Runner] = r
    BY <2>1, <2>2, <2>4, <2>5 DEF Pointers
  <2> QED BY <2>4, <2>6
<1> QED BY <1>1 DEF Owns, Onward

\* Steps that touch neither records nor pointers.
LEMMA Untouched == Inv /\ UNCHANGED record => Onward
<1> SUFFICES ASSUME Inv, UNCHANGED record PROVE Onward
  OBVIOUS
<1> USE DEF Inv, Typed, record
<1>1. Records /\ Advances
  BY DEF Records, Advances, Known, Ended
<1>2. Pointers
  BY DEF Pointers, Pointed
<1> QED BY <1>1, <1>2, OwnsStays

\* clear_run takes only the pointers to the run, and that run has ended.
LEMMA ClearedOnward ==
  ASSUME Inv, NEW r \in Run, Ended(r), Clears(r), UNCHANGED rec
  PROVE  Onward
<1> USE DEF Inv, Typed
<1>1. Records /\ Advances
  BY DEF Records, Advances, Known, Ended
<1>2. ~Live(r)'
  BY Kinds DEF Live, Ended
<1>3. \A o \in Owner : alias'[o] = IF alias[o] = r THEN None ELSE alias[o]
  BY DEF Clears
<1>4. alias' \in [Owner -> Maybe(Run)]
  BY DEF Clears, Maybe
<1>5. \A o \in Owner : alias'[o] # None => rec'[alias'[o]].state # "NONE"
  BY <1>3 DEF Pointed
<1>6. \A o \in Owner : alias[o] # None /\ rec'[alias[o]].state \in LiveStates => alias'[o] = alias[o]
  BY <1>2, <1>3 DEF Live
<1>7. Pointers
  BY <1>4, <1>5, <1>6 DEF Pointers
<1> QED BY <1>1, <1>7, OwnsStays

\* A transaction that keeps the worktree of a record, does not reopen it and
\* does not begin it.
LEMMA CommittedOnward ==
  ASSUME Inv, NEW r \in Run, NEW f \in Record, Commits(r, f), UNCHANGED alias,
         f.state # "NONE", f.tree = rec[r].tree, f.state \in LiveStates => rec[r].state \in LiveStates,
         Ended(r) => f.state \in Terminal, f.state \in Started => rec[r].state \in Started
  PROVE  Onward
<1> USE DEF Inv, Typed, Commits
<1>1. rec' \in [Run -> Record] /\ rec'[r] = f /\ \A s \in Run \ {r} : rec'[s] = rec[s]
  OBVIOUS
<1>2. Records
  BY <1>1 DEF Records, Known, Ended
<1>3. Advances
  BY <1>1 DEF Advances
<1>4. Pointers
  BY <1>1 DEF Pointers, Pointed, Maybe
<1> QED BY <1>1, <1>2, <1>3, <1>4, OwnsStays

\* A live run was live, or did not exist.
LEMMA WasLive ==
  ASSUME Inv, Onward, NEW r \in Run, rec[r].state # "NONE", rec'[r].state \in LiveStates
  PROVE  rec[r].state \in LiveStates
<1>1. rec[r] \in Record /\ rec'[r] \in Record
  BY DEF Inv, Typed, Onward
<1>2. rec[r].state \in Terminal => rec'[r].state \in Terminal
  BY DEF Onward, Records, Ended
<1> QED BY <1>1, <1>2, Kinds

\* What a process takes for granted stays true under steps of the others.
LEMMA SureStays ==
  ASSUME Inv, Onward, NEW f, f \in Process, Sure(f, rec, alias)
  PROVE  Sure(f, rec', alias')
<1>1. CASE f.run = None
  BY <1>1 DEF Sure, Claiming, Ending, OnRun
<1>2. CASE f.run # None
  <2>1. f.run \in Run /\ rec[f.run].state # "NONE"
    BY <1>2 DEF Process, Maybe, Sure
  <2>2. rec'[f.run].state # "NONE" /\ rec'[f.run].tree = rec[f.run].tree
    BY <2>1 DEF Onward, Records
  <2>3. rec'[f.run].state \in LiveStates => rec[f.run].state \in LiveStates
    BY <2>1, WasLive
  <2>4. f.at \in Ending => rec'[f.run].state \in Terminal
    BY <2>1 DEF Sure, Onward, Records, Ended
  <2>5. f.at \in Claiming /\ rec'[f.run].state \in LiveStates => alias'[f.tree] = f.run
    <3> SUFFICES ASSUME f.at \in Claiming, rec'[f.run].state \in LiveStates
                 PROVE  alias'[f.tree] = f.run
      OBVIOUS
    <3>1. alias[f.tree] = f.run /\ f.tree # None
      BY <2>3 DEF Sure, OnTree
    <3>2. f.tree \in Owner
      BY <3>1 DEF Process, Maybe, Owner
    <3> QED BY <1>2, <3>1, <3>2 DEF Onward, Pointers
  <2>6. f.at = "begin" /\ rec'[f.run].state \in LiveStates => alias'[Runner] = f.run
    <3>1. Runner \in Owner
      BY DEF Owner
    <3> QED BY <3>1, <1>2, <2>3 DEF Sure, Onward, Pointers
  <2> QED BY <1>2, <2>1, <2>2, <2>4, <2>5, <2>6 DEF Sure
<1> QED BY <1>1, <1>2

\* A step of one process.
LEMMA StepKeeps ==
  ASSUME Inv, Onward, Beside, NEW p \in Proc, NEW f, f \in Process, Does(p, f),
         Sure(f, rec', alias')
  PROVE  Inv'
<1>1. Typed'
  BY DEF Inv, Typed, Onward, Pointers, Beside, Does
<1>2. ASSUME NEW q \in Proc PROVE Sure(proc'[q], rec', alias')
  <2>1. CASE q = p
    BY <2>1 DEF Does, Inv, Typed
  <2>2. CASE q # p
    <3>1. proc'[q] = proc[q] /\ proc[q] \in Process /\ Sure(proc[q], rec, alias)
      BY <2>2 DEF Does, Inv, Typed
    <3> QED BY <3>1, SureStays
  <2> QED BY <2>1, <2>2
<1>3. Pointed' /\ Known'
  BY DEF Onward, Pointed, Known, Pointers, Records
<1> QED BY <1>1, <1>2, <1>3 DEF Inv, Onward

-----------------------------------------------------------------------------
(* The steps, one by one.                                                  *)

\* Where a process has a run or a worktree, it is one.
LEMMA HasRun ==
  ASSUME Inv, NEW p \in Proc
  PROVE  /\ proc[p] \in Process /\ Sure(proc[p], rec, alias)
         /\ proc[p].at \in OnRun => proc[p].run \in Run /\ rec[proc[p].run] \in Record
                                    /\ rec[proc[p].run].state # "NONE"
         /\ proc[p].at \in OnTree => proc[p].tree \in Tree /\ proc[p].tree \in Owner
                                     /\ alias[proc[p].tree] \in Maybe(Run)
BY DEF Inv, Typed, Sure, Process, Maybe, Owner

\* A pointer points to a run with a record.
LEMMA PointsToRun ==
  ASSUME Inv, NEW o \in Owner, alias[o] # None
  PROVE  alias[o] \in Run /\ rec[alias[o]] \in Record /\ rec[alias[o]].state # "NONE"
BY DEF Inv, Typed, Pointed, Maybe

\* A process without a run.
LEMMA IdleSure ==
  /\ Idle \in Process /\ \A r, a : Sure(Idle, r, a)
  /\ NoRecord \in Record
<1>1. NoRecord \in Record
  BY DEF NoRecord, Record, Maybe
<1> QED BY <1>1 DEF Idle, Process, Sure, Steps, Cmds, Maybe, Claiming, Ending, OnRun, OnTree

\* Releasing or leasing the runner keeps its type and that of the branches.
LEMMA CheckoutTyped ==
  ASSUME Inv, NEW r \in Run, NEW seen,
         Releases(r) \/ ReleasesSeen(r, seen) \/ Leases(r) \/ UNCHANGED checkout
  PROVE  runner' \in Runners /\ held' \in [Run -> Maybe(Run)]
<1> USE DEF Inv, Typed, checkout
<1>1. CASE UNCHANGED checkout
  BY <1>1
<1>2. CASE Releases(r)
  BY <1>2 DEF Releases, Runners, Loses, Maybe
<1>3. CASE Leases(r)
  BY <1>3 DEF Leases, LeasedTo, Runners, Loses, Maybe
<1>4. CASE ReleasesSeen(r, seen)
  BY <1>1, <1>2, <1>4 DEF ReleasesSeen
<1> QED BY <1>1, <1>2, <1>3, <1>4

\* A step after which the process has nothing left to do.
LEMMA StopKeeps ==
  ASSUME Inv, Onward, Beside, NEW p \in Proc, Stops(p)
  PROVE  Inv'
BY IdleSure, StepKeeps DEF Stops

\* A step after which the process goes on, with or without its lock: what it
\* must be sure of at its next step it was sure of, or the step has shown it.
LEMMA MovesOn ==
  ASSUME Inv, Onward, Beside, NEW p \in Proc, NEW s \in Steps, GoesTo(p, s) \/ Unlocks(p, s),
         s \in OnRun => proc[p].at \in OnRun, s \in OnTree => proc[p].at \in OnTree,
         s \in Ending => proc[p].at \in Ending \/ rec'[proc[p].run].state \in Terminal,
         s \in Claiming => proc[p].at \in Claiming, s # "claim",
         s = "begin" /\ rec'[proc[p].run].state \in LiveStates => alias'[Runner] = proc[p].run
  PROVE  Inv'
<1> DEFINE g == proc[p]
           f == [g EXCEPT !.at = s]
           h == [g EXCEPT !.at = s, !.lock = None]
<1>1. g \in Process /\ Sure(g, rec', alias')
  BY HasRun, SureStays
<1>2. f \in Process /\ h \in Process /\ f.at = s /\ h.at = s
      /\ f.run = g.run /\ h.run = g.run /\ f.tree = g.tree /\ h.tree = g.tree
  BY <1>1 DEF Process, Maybe
<1>3. Does(p, f) \/ Does(p, h)
  BY DEF GoesTo, Unlocks
<1> HIDE DEF f, h
<1>4. Sure(f, rec', alias') /\ Sure(h, rec', alias')
  BY <1>1, <1>2 DEF Sure, Claiming
<1> QED BY <1>2, <1>3, <1>4, StepKeeps

\* The steps of a start that touch neither records nor pointers.
LEMMA StartQuiet ==
  ASSUME Inv, NEW p \in Proc,
         \/ \E t \in Tree : Start(p, t)
         \/ IdleRelease(p) \/ Check(p) \/ Lease(p) \/ LeaseFails(p) \/ Synchronize(p)
  PROVE  Inv'
<1> USE HasRun
<1>0. Onward
  BY Untouched DEF Start, IdleRelease, Check, Lease, LeaseFails, Synchronize, record
<1>1. Beside
  <2>1. runner' \in Runners /\ held' \in [Run -> Maybe(Run)]
    BY CheckoutTyped DEF Start, IdleRelease, Check, Lease, LeaseFails, Synchronize, At, OnRun, Claiming, Ending, checkout, Inv, Typed
  <2> QED BY <2>1 DEF Start, IdleRelease, Check, Lease, LeaseFails, Synchronize, Beside, Inv, Typed, world
<1>2. ASSUME NEW t \in Tree, Start(p, t) PROVE Inv'
  <2> DEFINE f == [Idle EXCEPT !.at = "resolve", !.cmd = "start", !.tree = t]
  <2>1. f \in Process /\ f.run = None /\ f.tree = t /\ f.at = "resolve"
    BY IdleSure DEF Idle, Process, Steps, Cmds, Maybe
  <2>2. Does(p, f)
    BY <1>2 DEF Start
  <2> HIDE DEF f
  <2>3. Sure(f, rec', alias')
    BY <2>1, OwnerAssumption DEF Sure, Claiming, Ending, OnRun
  <2> QED BY <1>0, <1>1, <2>1, <2>2, <2>3, StepKeeps
<1>3. ASSUME IdleRelease(p) PROVE Inv'
  BY <1>0, <1>1, <1>3, MovesOn DEF IdleRelease, At, Steps, Claiming, Ending, OnRun, OnTree
<1>4. ASSUME Check(p) PROVE Inv'
  BY <1>0, <1>1, <1>4, MovesOn DEF Check, At, Steps, Claiming, Ending, OnRun, OnTree
<1>5. ASSUME Lease(p) PROVE Inv'
  BY <1>0, <1>1, <1>5, MovesOn DEF Lease, At, Steps, Claiming, Ending, OnRun, OnTree
<1>6. ASSUME LeaseFails(p) PROVE Inv'
  BY <1>0, <1>1, <1>6, MovesOn, StopKeeps DEF LeaseFails, At, Steps, Claiming, Ending, OnRun, OnTree
<1>7. ASSUME Synchronize(p) PROVE Inv'
  BY <1>0, <1>1, <1>7, MovesOn DEF Synchronize, At, Steps, Claiming, Ending, OnRun, OnTree
<1> QED BY <1>2, <1>3, <1>4, <1>5, <1>6, <1>7


\* Nothing but records, pointers and processes changes.
LEMMA Elsewhere == Inv /\ UNCHANGED <<checkout, world>> => Beside
BY DEF Inv, Typed, Beside, checkout, world

\* Resolving the run a worktree points to.
LEMMA ResolveKeeps ==
  ASSUME Inv, NEW p \in Proc, Resolve(p)
  PROVE  Inv'
<1> DEFINE r == alias[proc[p].tree]
<1> USE HasRun
<1>1. Beside /\ At(p, "resolve") /\ UNCHANGED rec
  BY Elsewhere DEF Resolve
<1>2. proc[p].tree \in Owner
  BY <1>1 DEF At, OnTree
<1>3. CASE r = None
  <2>1. Onward
    BY <1>3, Untouched DEF Resolve, record
  <2> QED BY <1>1, <1>3, <2>1, MovesOn DEF Resolve, At, Steps, Claiming, Ending, OnRun, OnTree
<1>4. CASE r # None /\ Ended(r)
  <2>1. Clears(r) /\ GoesTo(p, "create")
    BY <1>4 DEF Resolve
  <2>2. Onward
    BY <1>1, <1>2, <1>4, <2>1, PointsToRun, ClearedOnward
  <2> QED BY <1>1, <2>1, <2>2, MovesOn DEF At, Steps, Claiming, Ending, OnRun, OnTree
<1>5. CASE r # None /\ ~Ended(r)
  <2>1. Onward
    BY <1>5, Untouched DEF Resolve, record
  <2> DEFINE f == [proc[p] EXCEPT !.at = "orphan", !.run = r, !.seen = rec[r]]
  <2>2. Does(p, f) \/ Stops(p)
    BY <1>5 DEF Resolve
  <2>3. r \in Run /\ rec[r] \in Record /\ rec[r].state # "NONE"
    BY <1>2, <1>5, PointsToRun
  <2>4. f \in Process /\ f.at = "orphan" /\ f.run = r /\ f.tree = proc[p].tree
    <3>1. proc[p] \in Process
      OBVIOUS
    <3> QED BY <2>3, <3>1 DEF Process, Steps, Maybe
  <2>5. proc[p].tree # None
    BY <1>1, OwnerAssumption DEF At, OnTree
  <2> HIDE DEF f, r
  <2>6. Sure(f, rec', alias')
    BY <1>1, <1>5, <2>3, <2>4, <2>5 DEF Sure, Claiming, Ending
  <2> QED BY <1>1, <2>1, <2>2, <2>4, <2>6, StepKeeps, StopKeeps
<1> QED BY <1>3, <1>4, <1>5

\* _orphan: the run has ended when the process goes on.
LEMMA OrphanKeeps ==
  ASSUME Inv, NEW p \in Proc, Orphan(p)
  PROVE  Inv'
<1> DEFINE r == proc[p].run
<1>1. Beside /\ At(p, "orphan") /\ UNCHANGED alias
  BY Elsewhere DEF Orphan
<1>2. proc[p] \in Process /\ r \in Run /\ rec[r] \in Record /\ rec[r].state # "NONE"
      /\ proc[p].tree # None /\ r # None
  BY <1>1, HasRun, OwnerAssumption DEF At, OnRun, OnTree
<1>3. CASE Locked(r)
  BY <1>1, <1>3, Untouched, StopKeeps DEF Orphan, record
<1>4. CASE ~Locked(r)
  <2> DEFINE g == IF Live(r) THEN [rec[r] EXCEPT !.state = "ORPHANED"] ELSE rec[r]
             f == [proc[p] EXCEPT !.at = "orphan_clear", !.lock = r]
  <2>1. Commits(r, g) /\ Does(p, f)
    BY <1>4 DEF Orphan
  <2>2. g \in Record /\ g.tree = rec[r].tree /\ g.state \in Terminal
    BY <1>2, Kinds DEF Record, Terminal, Live
  <2>3. f \in Process /\ f.at = "orphan_clear" /\ f.run = r /\ f.tree = proc[p].tree
    BY <1>2 DEF Process, Steps, Maybe
  <2>4. rec'[r] = g
    BY <1>2, <2>1 DEF Commits, Inv, Typed
  <2> HIDE DEF f, g
  <2>5. Onward
    BY <1>1, <1>2, <2>1, <2>2, CommittedOnward DEF Terminal, Started, LiveStates
  <2>6. Sure(f, rec', alias')
    BY <1>2, <2>2, <2>3, <2>4 DEF Sure, Claiming, Ending, Terminal
  <2> QED BY <1>1, <2>1, <2>3, <2>5, <2>6, StepKeeps
<1> QED BY <1>3, <1>4

\* The pointers go, and the runner when it holds no work.
LEMMA OrphanClearKeeps ==
  ASSUME Inv, NEW p \in Proc, OrphanClear(p)
  PROVE  Inv'
<1> DEFINE r == proc[p].run
<1>1. Beside /\ At(p, "orphan_clear") /\ UNCHANGED rec /\ Clears(r)
  BY Elsewhere DEF OrphanClear
<1>2. r \in Run /\ Ended(r)
  BY <1>1, HasRun DEF At, OnRun, Ending, Sure, Ended
<1>3. Onward
  BY <1>1, <1>2, ClearedOnward
<1> QED BY <1>1, <1>3, MovesOn DEF OrphanClear, At, Steps, Claiming, Ending, OnRun, OnTree

\* A run that has ended is marked released.
LEMMA MarkOnward ==
  ASSUME Inv, NEW r \in Run, Ended(r), Commits(r, [rec[r] EXCEPT !.released = TRUE]), UNCHANGED alias
  PROVE  Onward /\ rec'[r].state = rec[r].state
<1> DEFINE g == [rec[r] EXCEPT !.released = TRUE]
<1>1. g \in Record /\ g.tree = rec[r].tree /\ g.state = rec[r].state
  BY DEF Inv, Typed, Record
<1>2. rec'[r] = g
  BY DEF Inv, Typed, Commits
<1>3. g.state # "NONE" /\ g.state \notin Started
  BY <1>1 DEF Ended, Terminal, Started
<1> HIDE DEF g
<1>4. Commits(r, g)
  BY DEF g
<1> QED BY <1>1, <1>2, <1>3, <1>4, CommittedOnward DEF Ended, LiveStates, Terminal, Started

\* The idle runner's release is recorded.
LEMMA IdleMarkKeeps ==
  ASSUME Inv, NEW p \in Proc, IdleMark(p)
  PROVE  Inv'
<1>1. Beside /\ At(p, "idle_mark")
  BY Elsewhere DEF IdleMark
<1>2. proc[p].run \in Run /\ Ended(proc[p].run)
  BY <1>1, HasRun DEF At, OnRun, Ending, Sure, Ended
<1>3. Onward
  BY <1>2, MarkOnward DEF IdleMark
<1> QED BY <1>1, <1>3, MovesOn DEF IdleMark, At, Steps, Claiming, Ending, OnRun, OnTree


\* A record is created: nothing points to it yet, nobody else works on it.
LEMMA CreateKeeps ==
  ASSUME Inv, NEW p \in Proc, Create(p)
  PROVE  Inv'
<1> PICK r \in Run : /\ rec[r] = NoRecord
                     /\ Commits(r, [NoRecord EXCEPT !.state = "CREATED", !.tree = proc[p].tree])
                     /\ Does(p, [proc[p] EXCEPT !.at = "claim", !.run = r, !.lock = r])
  BY DEF Create
<1> DEFINE g == [NoRecord EXCEPT !.state = "CREATED", !.tree = proc[p].tree]
           f == [proc[p] EXCEPT !.at = "claim", !.run = r, !.lock = r]
<1>1. Beside /\ At(p, "create") /\ UNCHANGED alias
  BY Elsewhere DEF Create
<1>2. proc[p] \in Process /\ proc[p].tree \in Tree /\ proc[p].tree # None /\ r # None
  BY <1>1, HasRun, OwnerAssumption DEF At, OnTree
<1>3. f \in Process /\ f.at = "claim" /\ f.run = r /\ f.tree = proc[p].tree
  BY <1>2 DEF Process, Steps, Maybe
<1>4. g \in Record /\ g.state = "CREATED" /\ g.tree = proc[p].tree
  BY <1>2 DEF Record, NoRecord, LiveStates, Maybe
<1>5. Does(p, f) /\ Commits(r, g)
  OBVIOUS
<1> HIDE DEF f, g
<1>6. rec' \in [Run -> Record] /\ rec'[r] = g /\ \A s \in Run \ {r} : rec'[s] = rec[s]
  BY <1>4, <1>5 DEF Commits, Inv, Typed
<1>7. rec[r].state = "NONE"
  BY DEF NoRecord
<1>8. Records /\ Advances
  BY <1>2, <1>4, <1>6, <1>7 DEF Records, Advances, Inv, Known, Ended, Terminal, Started
<1>9. Pointers
  BY <1>1, <1>4, <1>6 DEF Pointers, Inv, Typed, Pointed, Maybe
<1>10. Onward
  BY <1>6, <1>8, <1>9, OwnsStays
<1>11. Sure(f, rec', alias')
  BY <1>2, <1>3, <1>4, <1>6 DEF Sure, Claiming, Ending
<1> QED BY <1>1, <1>3, <1>5, <1>10, <1>11, StepKeeps

\* The worktree's pointer is claimed, or the run ends.
LEMMA ClaimKeeps ==
  ASSUME Inv, NEW p \in Proc, Claim(p)
  PROVE  Inv'
<1> DEFINE r == proc[p].run
           t == proc[p].tree
<1>1. Beside /\ At(p, "claim")
  BY Elsewhere DEF Claim
<1>2. proc[p] \in Process /\ r \in Run /\ rec[r] \in Record /\ rec[r].state # "NONE"
      /\ t \in Owner /\ t # None /\ r # None /\ rec[r].tree = t
  BY <1>1, HasRun, OwnerAssumption DEF At, OnRun, OnTree, Claiming, Sure
<1>3. CASE alias[t] = None
  <2> DEFINE f == [proc[p] EXCEPT !.at = "check", !.lock = None]
  <2>1. Does(p, f) /\ UNCHANGED rec /\ alias' = [alias EXCEPT ![t] = r]
    BY <1>3 DEF Claim, Unlocks
  <2>2. f \in Process /\ f.at = "check" /\ f.run = r /\ f.tree = t
    BY <1>2 DEF Process, Steps, Maybe
  <2> HIDE DEF f
  <2>3. alias' \in [Owner -> Maybe(Run)] /\ alias'[t] = r
        /\ \A o \in Owner \ {t} : alias'[o] = alias[o]
    BY <1>2, <2>1 DEF Inv, Typed, Maybe
  <2>4. Pointers
    BY <1>2, <1>3, <2>1, <2>3 DEF Pointers, Inv, Pointed
  <2>5. rec' \in [Run -> Record] /\ Records /\ Advances
    BY <2>1 DEF Records, Advances, Inv, Typed, Known, Ended
  <2>6. Onward
    BY <2>4, <2>5, OwnsStays
  <2>7. Sure(f, rec', alias')
    BY <1>2, <2>1, <2>2, <2>3 DEF Sure, Ending
  <2> QED BY <1>1, <2>1, <2>2, <2>6, <2>7, StepKeeps
<1>4. CASE alias[t] # None
  <2> DEFINE g == [rec[r] EXCEPT !.state = "ABORTED", !.released = TRUE]
  <2>1. Commits(r, g) /\ Stops(p) /\ UNCHANGED alias
    BY <1>4 DEF Claim
  <2>2. g \in Record /\ g.state = "ABORTED" /\ g.tree = rec[r].tree
    BY <1>2 DEF Record, Terminal
  <2> HIDE DEF g
  <2>3. Onward
    BY <1>2, <2>1, <2>2, CommittedOnward DEF Terminal, Started, LiveStates
  <2> QED BY <1>1, <2>1, <2>3, StopKeeps
<1> QED BY <1>3, <1>4

\* A start that gives up ends its run before it clears the pointers.
LEMMA GivesKeeps ==
  ASSUME Inv, NEW p \in Proc, NEW up \in BOOLEAN, Gives(p, up, "clear"), proc[p].at \in OnRun,
         Beside, UNCHANGED alias
  PROVE  Inv'
<1> DEFINE r == proc[p].run
           g == [rec[r] EXCEPT !.state = "ABORTED", !.released = up]
<1>1. r \in Run /\ rec[r] \in Record /\ rec[r].state # "NONE"
  BY HasRun
<1>2. CASE Live(r)
  <2>1. Commits(r, g) /\ GoesTo(p, "clear")
    BY <1>2 DEF Gives
  <2>2. g \in Record /\ g.state = "ABORTED" /\ g.tree = rec[r].tree
    BY <1>1 DEF Record, Terminal
  <2> HIDE DEF g
  <2>3. Onward
    BY <1>1, <2>1, <2>2, CommittedOnward DEF Terminal, Started, LiveStates
  <2>4. rec'[r].state \in Terminal
    BY <1>1, <2>1, <2>2 DEF Commits, Inv, Typed, Terminal
  <2> QED BY <2>1, <2>3, <2>4, MovesOn DEF Steps, Claiming, OnTree
<1>3. CASE ~Live(r)
  BY <1>3, Untouched, StopKeeps DEF Gives, record
<1> QED BY <1>2, <1>3

\* A runner that is on a branch, and a change that turns out to be empty.
LEMMA RefuseKeeps ==
  ASSUME Inv, NEW p \in Proc, Refuse(p) \/ EmptyMark(p)
  PROVE  Inv'
<1>1. Beside /\ proc[p].at \in OnRun /\ Gives(p, TRUE, "clear") /\ UNCHANGED alias
  BY Elsewhere DEF Refuse, EmptyMark, At, OnRun, Claiming
<1> QED BY <1>1, GivesKeeps

\* The record names the checkout.
LEMMA PathKeeps ==
  ASSUME Inv, NEW p \in Proc, Path(p)
  PROVE  Inv'
<1> DEFINE r == proc[p].run
           g == [rec[r] EXCEPT !.path = TRUE]
<1>1. Beside /\ At(p, "path") /\ Commits(r, g) /\ GoesTo(p, "own") /\ UNCHANGED alias
  BY Elsewhere DEF Path
<1>2. r \in Run /\ rec[r] \in Record /\ rec[r].state # "NONE"
  BY <1>1, HasRun DEF At, OnRun, Claiming
<1>3. g \in Record /\ g.state = rec[r].state /\ g.tree = rec[r].tree
  BY <1>2 DEF Record
<1> HIDE DEF g
<1>4. Onward
  BY <1>1, <1>2, <1>3, CommittedOnward DEF Ended, LiveStates, Terminal, Started
<1> QED BY <1>1, <1>4, MovesOn DEF At, Steps, Claiming, Ending, OnRun, OnTree

\* The runner's pointer: a live run that has it stops this one.
LEMMA OwnKeeps ==
  ASSUME Inv, NEW p \in Proc, Own(p)
  PROVE  Inv'
<1> DEFINE r == proc[p].run
<1>1. Beside /\ At(p, "own")
  BY Elsewhere DEF Own
<1>2. r \in Run /\ r # None /\ rec[r] \in Record /\ rec[r].state # "NONE"
  BY <1>1, HasRun, OwnerAssumption DEF At, OnRun, Claiming
<1>3. CASE MayOwn(Runner, r)
  <2>1. UNCHANGED rec /\ GoesTo(p, "begin") /\ alias' = [alias EXCEPT ![Runner] = r]
    BY <1>3 DEF Own
  <2>2. alias' \in [Owner -> Maybe(Run)] /\ alias'[Runner] = r
        /\ \A o \in Owner \ {Runner} : alias'[o] = alias[o]
    BY <1>2, <2>1 DEF Inv, Typed, Maybe, Owner
  <2>3. rec' \in [Run -> Record] /\ Records /\ Advances
    BY <2>1 DEF Records, Advances, Inv, Typed, Known, Ended
  <2>4. alias[Runner] # None /\ rec[alias[Runner]].state \in LiveStates => alias[Runner] = r
    BY <1>3, Kinds DEF MayOwn, Ended, LiveStates, Started, Terminal
  <2>5. Pointers
    BY <1>2, <2>1, <2>2, <2>4 DEF Pointers, Inv, Pointed
  <2>6. Onward
    BY <2>3, <2>5, OwnsStays
  <2> QED BY <1>1, <2>1, <2>2, <2>6, MovesOn DEF At, Steps, Claiming, Ending, OnRun, OnTree
<1>4. CASE ~MayOwn(Runner, r)
  <2>1. Gives(p, FALSE, "clear") /\ UNCHANGED alias
    BY <1>4 DEF Own
  <2> QED BY <1>1, <2>1, GivesKeeps DEF At, OnRun, Claiming
<1> QED BY <1>3, <1>4

\* The run begins: its worktree and the runner point to it.
LEMMA BeginKeeps ==
  ASSUME Inv, NEW p \in Proc, Begin(p)
  PROVE  Inv'
<1> DEFINE r == proc[p].run
           g == [rec[r] EXCEPT !.state = "SYNC_RUNNING"]
<1>1. Beside /\ At(p, "begin") /\ UNCHANGED alias
  BY Elsewhere DEF Begin
<1>2. r \in Run /\ rec[r] \in Record /\ rec[r].state # "NONE" /\ Sure(proc[p], rec, alias)
  BY <1>1, HasRun DEF At, OnRun, Claiming
<1>3. CASE rec[r].state = "CREATED"
  <2>1. Commits(r, g) /\ GoesTo(p, "sync")
    BY <1>3 DEF Begin
  <2>2. g \in Record /\ g.tree = rec[r].tree /\ g.state = "SYNC_RUNNING"
    BY <1>2 DEF Record, LiveStates, Started
  <2> HIDE DEF g
  <2>3. rec' \in [Run -> Record] /\ rec'[r] = g /\ \A s \in Run \ {r} : rec'[s] = rec[s]
    BY <1>2, <2>1, <2>2 DEF Commits, Inv, Typed
  <2>4. Records
    BY <1>3, <2>2, <2>3 DEF Records, Inv, Known, Ended, Terminal, LiveStates
  <2>5. Pointers
    BY <1>1, <1>3, <2>2, <2>3 DEF Pointers, Inv, Typed, Pointed, Maybe
  <2>6. alias[rec[r].tree] = r /\ alias[Runner] = r
    BY <1>1, <1>2, <1>3 DEF Sure, At, Claiming, LiveStates
  <2>7. Owns'
    BY <1>1, <2>2, <2>3, <2>6 DEF Owns, Inv
  <2>8. Onward
    BY <2>3, <2>4, <2>5, <2>7 DEF Onward
  <2> QED BY <1>1, <2>1, <2>8, MovesOn DEF At, Steps, Claiming, Ending, OnRun, OnTree
<1>4. CASE rec[r].state # "CREATED"
  BY <1>1, <1>4, Untouched, StopKeeps DEF Begin, record
<1> QED BY <1>3, <1>4

\* The first review, or what is left of the run without one.
LEMMA PrimeKeeps ==
  ASSUME Inv, NEW p \in Proc, Prime(p)
  PROVE  Inv'
<1> DEFINE r == proc[p].run
           g == [rec[r] EXCEPT !.state = "OPEN"]
<1>1. Beside /\ At(p, "prime") /\ UNCHANGED alias /\ Stops(p)
  BY Elsewhere DEF Prime
<1>2. r \in Run /\ rec[r] \in Record
  BY <1>1, HasRun DEF At, OnRun
<1>3. CASE rec[r].state = "SYNC_RUNNING"
  <2>1. Commits(r, g)
    BY <1>3 DEF Prime
  <2>2. g \in Record /\ g.tree = rec[r].tree /\ g.state = "OPEN"
    BY <1>2 DEF Record, LiveStates, Started
  <2> HIDE DEF g
  <2>3. Onward
    BY <1>1, <1>2, <1>3, <2>1, <2>2, CommittedOnward DEF Started, Terminal, Ended, LiveStates
  <2> QED BY <1>1, <2>3, StopKeeps
<1>4. CASE rec[r].state # "SYNC_RUNNING"
  BY <1>1, <1>4, Untouched, StopKeeps DEF Prime, record
<1> QED BY <1>3, <1>4

\* The last step of a command that has ended its run.
LEMMA ClearKeeps ==
  ASSUME Inv, NEW p \in Proc, Clear(p)
  PROVE  Inv'
<1>1. Beside /\ At(p, "clear") /\ UNCHANGED rec /\ Clears(proc[p].run) /\ Stops(p)
  BY Elsewhere DEF Clear
<1>2. proc[p].run \in Run /\ Ended(proc[p].run)
  BY <1>1, HasRun DEF At, OnRun, Ending, Sure, Ended
<1> QED BY <1>1, <1>2, ClearedOnward, StopKeeps

\* Any step of a start.
LEMMA StartKeeps == ASSUME Inv, NEW p \in Proc, StartStep(p) PROVE Inv'
BY StartQuiet, ResolveKeeps, OrphanKeeps, OrphanClearKeeps, IdleMarkKeeps, CreateKeeps,
   ClaimKeeps, RefuseKeeps, PathKeeps, OwnKeeps, BeginKeeps, PrimeKeeps, ClearKeeps
   DEF StartStep


\* Opening a session on the run of a worktree.
LEMMA OpenKeeps ==
  ASSUME Inv, NEW p \in Proc, NEW t \in Tree, NEW cmd \in LockedCommands, NEW force \in BOOLEAN,
         Open(p, t, cmd, force)
  PROVE  Inv'
<1> DEFINE f == [Idle EXCEPT !.at = "lock", !.cmd = cmd, !.tree = t, !.run = alias[t],
                             !.force = force]
<1>1. Beside /\ Does(p, f) /\ UNCHANGED record
  BY Elsewhere DEF Open
<1>2. t \in Owner /\ t # None /\ alias[t] # None
  BY OwnerAssumption DEF Open, Owner
<1>3. alias[t] \in Run /\ rec[alias[t]].state # "NONE"
  BY <1>2, PointsToRun
<1>4. f \in Process /\ f.at = "lock" /\ f.run = alias[t] /\ f.tree = t
  BY <1>3, IdleSure DEF Idle, Process, Steps, Cmds, Maybe
<1> HIDE DEF f
<1>5. Sure(f, rec', alias')
  BY <1>1, <1>2, <1>3, <1>4 DEF Sure, Claiming, Ending, record
<1> QED BY <1>1, <1>4, <1>5, Untouched, StepKeeps

\* Waiting for the operation lock, and the release of the checkout.
LEMMA LockedQuiet ==
  ASSUME Inv, NEW p \in Proc, TakeLock(p) \/ Release(p)
  PROVE  Inv'
<1> USE HasRun
<1>1. Onward
  BY Untouched DEF TakeLock, Release
<1>2. CASE TakeLock(p)
  <2> DEFINE f == [proc[p] EXCEPT !.at = "load", !.lock = proc[p].run]
  <2>1. Beside /\ Does(p, f) /\ At(p, "lock") /\ UNCHANGED record
    BY <1>2, Elsewhere DEF TakeLock
  <2>2. proc[p] \in Process /\ Sure(proc[p], rec, alias)
    OBVIOUS
  <2>3. f \in Process /\ f.at = "load" /\ f.run = proc[p].run /\ f.tree = proc[p].tree
    BY <2>2 DEF Process, Steps, Maybe
  <2> HIDE DEF f
  <2>4. Sure(f, rec', alias')
    BY <2>1, <2>2, <2>3 DEF Sure, At, Claiming, Ending, OnRun, OnTree, record
  <2> QED BY <1>1, <2>1, <2>3, <2>4, StepKeeps
<1>3. CASE Release(p)
  <2>1. runner' \in Runners /\ held' \in [Run -> Maybe(Run)]
    BY <1>3, CheckoutTyped DEF Release, At, OnRun
  <2>2. Beside
    BY <1>3, <2>1 DEF Release, Beside, Inv, Typed, world
  <2> QED BY <1>1, <1>3, <2>2, MovesOn DEF Release, At, Steps, Claiming, Ending, OnRun, OnTree
<1> QED BY <1>2, <1>3

\* The command looks its run up again.
LEMMA LoadKeeps ==
  ASSUME Inv, NEW p \in Proc, Load(p)
  PROVE  Inv'
<1> DEFINE r == alias[proc[p].tree]
           f == [proc[p] EXCEPT !.at = FirstStep(proc[p].cmd), !.run = r, !.seen = rec[r]]
<1>1. At(p, "load") /\ UNCHANGED <<record, checkout, here, moved, deaths>>
  BY DEF Load
<1>2. proc[p] \in Process /\ proc[p].tree \in Owner /\ proc[p].tree # None
  BY <1>1, HasRun, OwnerAssumption DEF At, OnTree
<1>3. Onward
  BY <1>1, Untouched
<1>4. CASE r # None /\ Admits(proc[p].cmd, r, proc[p].force)
  <2>1. Does(p, f) /\ given' = IF proc[p].force THEN given \cup {r} ELSE given
    BY <1>4 DEF Load
  <2>2. r \in Run /\ rec[r] \in Record /\ rec[r].state # "NONE"
    BY <1>2, <1>4, PointsToRun
  <2>3. FirstStep(proc[p].cmd) \in {"release", "respond", "push"}
    BY <1>4 DEF Admits, FirstStep
  <2>4. f \in Process /\ f.at \in {"release", "respond", "push"} /\ f.run = r
        /\ f.tree = proc[p].tree
    BY <1>2, <2>2, <2>3 DEF Process, Steps, Maybe
  <2>5. Beside
    BY <1>1, <2>1, <2>2 DEF Beside, Inv, Typed, checkout
  <2> HIDE DEF f, r
  <2>6. Sure(f, rec', alias')
    BY <1>1, <1>2, <1>4, <2>2, <2>4 DEF Sure, Claiming, Ending, record
  <2> QED BY <1>3, <2>1, <2>4, <2>5, <2>6, StepKeeps
<1>5. CASE ~(r # None /\ Admits(proc[p].cmd, r, proc[p].force))
  <2>1. Stops(p) /\ UNCHANGED given
    BY <1>5 DEF Load
  <2>2. Beside
    BY <1>1, <2>1 DEF Beside, Inv, Typed, checkout
  <2> QED BY <1>3, <2>1, <2>2, StopKeeps
<1> QED BY <1>4, <1>5

\* abort and finish end the run before they clear the pointers.
LEMMA CommitKeeps ==
  ASSUME Inv, NEW p \in Proc, Commit(p)
  PROVE  Inv'
<1> DEFINE r == proc[p].run
           ends == IF proc[p].cmd = "abort" THEN "ABORTED" ELSE "DONE"
           g == [rec[r] EXCEPT !.state = ends, !.released = TRUE]
<1>1. Beside /\ At(p, "commit") /\ UNCHANGED alias
  BY Elsewhere DEF Commit
<1>2. r \in Run /\ rec[r] \in Record /\ rec[r].state # "NONE"
  BY <1>1, HasRun DEF At, OnRun
<1>3. \/ Commits(r, g) /\ GoesTo(p, "clear")
      \/ Stops(p) /\ UNCHANGED rec
  BY DEF Commit
<1>4. g \in Record /\ g.state \in {"ABORTED", "DONE"} /\ g.tree = rec[r].tree
  BY <1>2 DEF Record, Terminal
<1> HIDE DEF g
<1>5. CASE Commits(r, g) /\ GoesTo(p, "clear")
  <2>1. Onward
    BY <1>1, <1>2, <1>4, <1>5, CommittedOnward DEF Terminal, Started, LiveStates
  <2>2. rec'[r].state \in Terminal
    BY <1>2, <1>4, <1>5 DEF Commits, Inv, Typed, Terminal
  <2> QED BY <1>1, <1>5, <2>1, <2>2, MovesOn DEF At, Steps, Claiming, OnRun, OnTree
<1>6. CASE Stops(p) /\ UNCHANGED rec
  BY <1>1, <1>6, Untouched, StopKeeps DEF record
<1> QED BY <1>3, <1>5, <1>6

\* Recording a fix commit.
LEMMA RespondKeeps ==
  ASSUME Inv, NEW p \in Proc, Respond(p)
  PROVE  Inv'
<1> DEFINE r == proc[p].run
           g == [rec[r] EXCEPT !.fixes = TRUE]
<1>1. At(p, "respond") /\ UNCHANGED <<alias, runner, world>> /\ Stops(p)
  BY DEF Respond
<1>2. r \in Run /\ rec[r] \in Record /\ rec[r].state # "NONE"
  BY <1>1, HasRun DEF At, OnRun
<1>3. Beside
  <2>1. held' \in [Run -> Maybe(Run)]
    BY <1>2 DEF Respond, Inv, Typed, Maybe, Runners
  <2> QED BY <1>1, <2>1 DEF Beside, Inv, Typed, world
<1>4. Onward
  <2>1. CASE UNCHANGED rec
    BY <1>1, <2>1, Untouched DEF record
  <2>2. CASE Commits(r, g)
    <3>1. g \in Record /\ g.state = rec[r].state /\ g.tree = rec[r].tree
      BY <1>2 DEF Record
    <3> HIDE DEF g
    <3> QED BY <1>1, <1>2, <2>2, <3>1, CommittedOnward DEF Ended, LiveStates, Terminal, Started
  <2> QED BY <2>1, <2>2 DEF Respond
<1> QED BY <1>1, <1>3, <1>4, StopKeeps

\* The push: a run that is open is pushed and stays live.
LEMMA PushKeeps ==
  ASSUME Inv, NEW p \in Proc, Push(p)
  PROVE  Inv'
<1> DEFINE r == proc[p].run
           g == [rec[r] EXCEPT !.state = "PUSHED"]
<1>1. At(p, "push") /\ UNCHANGED <<alias, checkout, here, moved, deaths>> /\ Stops(p)
  BY DEF Push
<1>2. r \in Run /\ rec[r] \in Record
  BY <1>1, HasRun DEF At, OnRun
<1>3. Beside
  BY <1>1, <1>2 DEF Push, Beside, Inv, Typed, checkout
<1>4. CASE rec[r].state = "OPEN"
  <2>1. Commits(r, g)
    BY <1>4 DEF Push
  <2>2. g \in Record /\ g.state = "PUSHED" /\ g.tree = rec[r].tree
    BY <1>2 DEF Record, LiveStates, Started
  <2> HIDE DEF g
  <2>3. Onward
    BY <1>1, <1>2, <1>4, <2>1, <2>2, CommittedOnward DEF Started, Terminal, Ended, LiveStates
  <2> QED BY <1>1, <1>3, <2>3, StopKeeps
<1>5. CASE rec[r].state # "OPEN"
  BY <1>1, <1>3, <1>5, Untouched, StopKeeps DEF Push, record
<1> QED BY <1>4, <1>5

-----------------------------------------------------------------------------

\* gc takes its inventory.
LEMMA InventoryKeeps ==
  ASSUME Inv, NEW p \in Proc, NEW force \in BOOLEAN, Inventory(p, force)
  PROVE  Inv'
<1> DEFINE known == {r \in Run : rec[r] # NoRecord}
           f == [Idle EXCEPT !.at = "collect", !.cmd = "gc", !.force = force, !.runs = known,
                             !.todo = known, !.pointers = [t \in Tree |-> alias[t]]]
<1>1. Beside /\ Does(p, f) /\ UNCHANGED record
  BY Elsewhere DEF Inventory
<1>2. [t \in Tree |-> alias[t]] \in [Tree -> Maybe(Run)]
  BY DEF Inv, Typed, Owner
<1>3. f \in Process /\ f.at = "collect" /\ f.run = None
  BY <1>2, IdleSure DEF Idle, Process, Steps, Cmds
<1> HIDE DEF f
<1>4. Sure(f, rec', alias')
  BY <1>3 DEF Sure, Claiming, Ending, OnRun, OnTree
<1> QED BY <1>1, <1>3, <1>4, Untouched, StepKeeps

\* gc is done with a run.
LEMMA CollectedKeeps ==
  ASSUME Inv, Onward, Beside, NEW p \in Proc, NEW r \in Run, NEW kept \in BOOLEAN,
         Collected(p, r, kept)
  PROVE  Inv'
<1> DEFINE f == [proc[p] EXCEPT !.at = "collect", !.run = None, !.lock = None,
                   !.seen = NoRecord, !.todo = @ \ {r}, !.kept = IF kept THEN @ \cup {r} ELSE @]
<1>1. Does(p, f)
  BY DEF Collected
<1>2. proc[p] \in Process
  BY HasRun
<1>3. f \in Process /\ f.at = "collect" /\ f.run = None
  BY <1>2, IdleSure DEF Process, Steps, Maybe
<1> HIDE DEF f
<1>4. Sure(f, rec', alias')
  BY <1>3 DEF Sure, Claiming, Ending, OnRun, OnTree
<1> QED BY <1>1, <1>3, <1>4, StepKeeps

\* gc goes on with a run only when it has ended, or ends it.
LEMMA CollectKeeps ==
  ASSUME Inv, NEW p \in Proc, NEW r \in Run, Collect(p, r)
  PROVE  Inv'
<1> DEFINE orphan == [rec[r] EXCEPT !.state = "ORPHANED"]
<1>1. Beside /\ At(p, "collect") /\ UNCHANGED alias /\ proc[p] \in Process /\ rec[r] \in Record
      /\ r # None
  BY Elsewhere, HasRun, OwnerAssumption DEF Collect, Inv, Typed
<1>2. CASE Ended(r)
  <2> DEFINE f == [proc[p] EXCEPT !.at = "retain", !.run = r, !.seen = rec[r]]
  <2>1. Does(p, f) /\ UNCHANGED rec
    BY <1>2 DEF Collect
  <2>2. f \in Process /\ f.at = "retain" /\ f.run = r
    BY <1>1 DEF Process, Steps, Maybe
  <2> HIDE DEF f
  <2>3. Sure(f, rec', alias')
    BY <1>1, <1>2, <2>1, <2>2 DEF Sure, Claiming, Ending, OnRun, OnTree, Ended, Terminal
  <2> QED BY <1>1, <2>1, <2>2, <2>3, Untouched, StepKeeps DEF record
<1>3. CASE ~Ended(r) /\ Abandoned(r, proc[p].pointers) /\ ~Locked(r)
  <2> DEFINE f == [proc[p] EXCEPT !.at = "retain", !.run = r, !.lock = r, !.seen = orphan]
  <2>1. Commits(r, orphan) /\ Does(p, f)
    BY <1>3 DEF Collect
  <2>2. orphan \in Record /\ orphan.state = "ORPHANED" /\ orphan.tree = rec[r].tree
    BY <1>1 DEF Record, Terminal
  <2> HIDE DEF orphan
  <2>3. f \in Process /\ f.at = "retain" /\ f.run = r
    BY <1>1, <2>2 DEF Process, Steps, Maybe
  <2> HIDE DEF f
  <2>5. Onward
    BY <1>1, <2>1, <2>2, CommittedOnward DEF Terminal, Started, LiveStates
  <2>6. rec'[r] = orphan
    BY <2>1, <2>2 DEF Commits, Inv, Typed
  <2>7. Sure(f, rec', alias')
    BY <1>1, <2>2, <2>3, <2>6 DEF Sure, Claiming, Ending, OnRun, OnTree, Terminal
  <2> QED BY <1>1, <2>1, <2>3, <2>5, <2>7, StepKeeps
<1>4. CASE ~Ended(r) /\ ~(Abandoned(r, proc[p].pointers) /\ ~Locked(r))
  <2>1. Collected(p, r, rec[r].fixes \/ Abandoned(r, proc[p].pointers)) /\ UNCHANGED rec
    BY <1>4 DEF Collect
  <2>2. Collected(p, r, TRUE) \/ Collected(p, r, FALSE)
    BY <2>1 DEF Collected
  <2> QED BY <1>1, <2>1, <2>2, Untouched, CollectedKeeps DEF record
<1> QED BY <1>2, <1>3, <1>4


\* A run that has ended: its pointers go, its runner is kept or reclaimed.
LEMMA RetainKeeps ==
  ASSUME Inv, NEW p \in Proc, Retain(p)
  PROVE  Inv'
<1> DEFINE r == proc[p].run
<1>1. At(p, "retain") /\ UNCHANGED <<rec, checkout, here, moved, deaths>> /\ Clears(r)
  BY DEF Retain
<1>2. r \in Run /\ Ended(r)
  BY <1>1, HasRun DEF At, OnRun, Ending, Sure, Ended
<1>3. Onward
  BY <1>1, <1>2, ClearedOnward
<1>4. given' \subseteq Run
  BY <1>2 DEF Retain, Inv, Typed
<1>5. Beside
  BY <1>1, <1>4 DEF Beside, Inv, Typed, checkout
<1>6. \/ Collected(p, r, TRUE) \/ Collected(p, r, FALSE) \/ Unlocks(p, "reclaim")
  BY DEF Retain
<1>7. CASE Unlocks(p, "reclaim")
  BY <1>1, <1>3, <1>5, <1>7, MovesOn DEF At, Steps, Claiming, Ending, OnRun, OnTree
<1> QED BY <1>2, <1>3, <1>5, <1>6, <1>7, CollectedKeeps

\* The runner of a run that has ended is released, and its record says so.
LEMMA ReclaimKeeps ==
  ASSUME Inv, NEW p \in Proc, Reclaim(p) \/ Mark(p)
  PROVE  Inv'
<1>1. CASE Reclaim(p)
  <2>1. At(p, "reclaim") /\ GoesTo(p, "mark") /\ UNCHANGED <<record, world>>
    BY <1>1 DEF Reclaim
  <2>2. runner' \in Runners /\ held' \in [Run -> Maybe(Run)]
    BY <1>1, <2>1, HasRun, CheckoutTyped DEF Reclaim, At, OnRun, Ending
  <2>3. Beside
    BY <2>1, <2>2 DEF Beside, Inv, Typed, world
  <2> QED BY <2>1, <2>3, Untouched, MovesOn DEF At, Steps, Claiming, Ending, OnRun, OnTree
<1>2. CASE Mark(p)
  <2>1. Beside /\ At(p, "mark")
    BY <1>2, Elsewhere DEF Mark
  <2>2. proc[p].run \in Run /\ Ended(proc[p].run)
    BY <2>1, HasRun DEF At, OnRun, Ending, Sure, Ended
  <2>3. Onward
    BY <1>2, <2>2, MarkOnward DEF Mark
  <2> QED BY <1>2, <2>1, <2>2, <2>3, CollectedKeeps DEF Mark
<1> QED BY <1>1, <1>2

\* The runner that no known record names is removed.
LEMMA RemoveKeeps ==
  ASSUME Inv, NEW p \in Proc, Look(p) \/ Remove(p)
  PROVE  Inv'
<1>1. Onward
  BY Untouched DEF Look, Remove
<1>2. Beside
  BY DEF Look, Remove, Free, Beside, Inv, Typed, Runners, Maybe, checkout, world
<1>3. CASE Look(p)
  <2>1. Stops(p) \/ GoesTo(p, "remove")
    BY <1>3 DEF Look
  <2> QED BY <1>1, <1>2, <2>1, StopKeeps, MovesOn DEF Steps, Claiming, Ending, OnRun, OnTree
<1>4. CASE Remove(p)
  BY <1>1, <1>2, <1>4, StopKeeps DEF Remove
<1> QED BY <1>3, <1>4

\* What the tool does not decide, and the pointer status clears.
LEMMA WorldKeeps ==
  ASSUME Inv, \/ AgentCommits \/ \E t \in Tree : SourceMoves(t) \/ SourceGoes(t) \/ Status(t)
  PROVE  Inv'
<1>1. ASSUME Onward, Beside, UNCHANGED proc PROVE Inv'
  <2>1. Typed'
    BY <1>1 DEF Inv, Typed, Onward, Pointers, Beside
  <2>2. ASSUME NEW p \in Proc PROVE Sure(proc'[p], rec', alias')
    <3>1. proc'[p] = proc[p] /\ proc[p] \in Process /\ Sure(proc[p], rec, alias)
      BY <1>1, HasRun
    <3> QED BY <1>1, <3>1, SureStays
  <2>3. Pointed' /\ Known'
    BY <1>1 DEF Onward, Pointed, Known, Pointers, Records
  <2> QED BY <1>1, <2>1, <2>2, <2>3 DEF Inv, Onward
<1>2. CASE AgentCommits \/ \E t \in Tree : SourceMoves(t) \/ SourceGoes(t)
  <2>1. UNCHANGED <<record, proc>>
    BY <1>2 DEF AgentCommits, SourceMoves, SourceGoes
  <2>2. Beside
    BY <1>2 DEF AgentCommits, SourceMoves, SourceGoes, Beside, Inv, Typed, Runners, checkout, world
  <2> QED BY <1>1, <2>1, <2>2, Untouched
<1>3. ASSUME NEW t \in Tree, Status(t) PROVE Inv'
  <2>1. t \in Owner /\ alias[t] # None /\ Ended(alias[t]) /\ Clears(alias[t]) /\ UNCHANGED <<rec, proc>>
    BY <1>3 DEF Status, Owner
  <2>2. Beside
    BY <1>3, Elsewhere DEF Status
  <2>3. alias[t] \in Run
    BY <2>1, PointsToRun
  <2>4. Onward
    BY <2>1, <2>3, ClearedOnward
  <2> QED BY <1>1, <2>1, <2>2, <2>4
<1> QED BY <1>2, <1>3

\* A process that is killed has nothing left to do.
LEMMA DiesKeeps ==
  ASSUME Inv, NEW p \in Proc, Dies(p)
  PROVE  Inv'
<1>1. Onward
  BY Untouched DEF Dies
<1>2. Beside
  BY BoundAssumption DEF Dies, Beside, Inv, Typed, checkout
<1> QED BY <1>1, <1>2, StopKeeps DEF Dies

\* No run exists.
LEMMA InitHolds == Init => Inv
<1> SUFFICES ASSUME Init PROVE Inv
  OBVIOUS
<1>1. Typed
  <2>1. runner \in Runners
    BY DEF Init, Free, Runners, Maybe
  <2>2. rec \in [Run -> Record] /\ proc \in [Proc -> Process]
    BY IdleSure DEF Init
  <2>3. alias \in [Owner -> Maybe(Run)] /\ held \in [Run -> Maybe(Run)] /\ deaths \in 0 .. MaxDeaths
    BY BoundAssumption DEF Init, Maybe
  <2> QED BY <2>1, <2>2, <2>3 DEF Init, Typed
<1>2. \A p \in Proc : Sure(proc[p], rec, alias)
  BY IdleSure DEF Init
<1>3. Pointed /\ Known /\ Owns
  BY DEF Init, Pointed, Known, Owns, NoRecord, LiveStates, Started
<1> QED BY <1>1, <1>2, <1>3 DEF Inv

\* Every step keeps the invariant.
LEMMA NextKeeps == Inv /\ [Next]_vars => Inv'
<1> SUFFICES ASSUME Inv, [Next]_vars PROVE Inv'
  OBVIOUS
<1>1. ASSUME NEW p \in Proc, Begins(p) PROVE Inv'
  BY <1>1, StartQuiet, OpenKeeps, InventoryKeeps DEF Begins
<1>2. ASSUME NEW p \in Proc, LockedStep(p) PROVE Inv'
  BY <1>2, LockedQuiet, LoadKeeps, CommitKeeps, RespondKeeps, PushKeeps DEF LockedStep
<1>3. ASSUME NEW p \in Proc, GcStep(p) PROVE Inv'
  BY <1>3, CollectKeeps, RetainKeeps, ReclaimKeeps, RemoveKeeps DEF GcStep
<1>4. CASE UNCHANGED vars
  <2>1. UNCHANGED <<rec, alias, proc>>
    BY <1>4 DEF vars
  <2>2. Typed'
    BY <1>4 DEF vars, Inv, Typed
  <2> QED BY <2>1, <2>2 DEF Inv, Pointed, Known, Owns
<1> QED BY <1>1, <1>2, <1>3, <1>4, StartKeeps, DiesKeeps, WorldKeeps DEF Next

\* The invariant holds in every state.
LEMMA Invariant == Spec => []Inv
BY InitHolds, NextKeeps, PTL DEF Spec

-----------------------------------------------------------------------------

\* Records, pointers, the runner and every process keep their types, whatever
\* the commands, deaths and people do.
THEOREM TypeCorrect == Spec => []LeaseTypeOK
<1>1. Inv => LeaseTypeOK
  BY DEF Inv, Typed, LeaseTypeOK, Runners, Process
<1> QED BY <1>1, Invariant, PTL

\* A run that got past its creation is the one its worktree points to for as
\* long as it lives (start.py, store.py), however its creation raced with
\* others, with gc and with status.
THEOREM PointerIsKept == Spec => []LiveOwnsTree
<1>1. Inv => LiveOwnsTree
  BY DEF Inv, Owns, LiveOwnsTree
<1> QED BY <1>1, Invariant, PTL

\* Of the runs that lease the runner, its pointer lets one get past its
\* creation, for any number of starts, worktrees and deaths.
THEOREM OneRunPerRunner == Spec => []RunnerHasOneRun
<1>1. Inv => RunnerHasOneRun
  BY DEF Inv, Owns, RunnerHasOneRun
<1> QED BY <1>1, Invariant, PTL
=============================================================================
