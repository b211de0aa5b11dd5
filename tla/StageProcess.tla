---------------------------- MODULE StageProcess ----------------------------
(***************************************************************************)
(* One configured command in the worktree (stages/shellstage.py,           *)
(* runs/_shell.py, the setup command of runs/start.py): copied files are   *)
(* read before and after it, the command is planned and spawned, its       *)
(* output is read until the pipe closes or the time is up, and what was    *)
(* read is redacted and written to the log.                                *)
(* The command is a process tree: a leader, a worker in its group, and a   *)
(* descendant that left the group.  They share the pipe, and may write the *)
(* copied file or the worktree at any time, also after the leader is gone. *)
(***************************************************************************)
EXTENDS CommandPlan, FiniteSets

CONSTANTS
  Commands,   \* sequences of characters
  Values,     \* what the copied file may contain
  Original    \* what it contains when the command is started

ASSUME CommandsAssumption == Commands \subseteq Seq(Characters)
ASSUME OriginalIsAValue == Original \in Values
\* No content of the file is one of the marks of the model.
ASSUME ValuesAreNoMarks == Values \cap {"text", "withheld", "unreadable"} = {}

VARIABLES
  posix,       \* whether the host is POSIX or Windows
  setup,       \* whether it is the setup command or a stage
  command,     \* the configured command, until it is planned
  pc,          \* how far agentic-preflight is
  alive,       \* the processes of the command
  holding,     \* those that hold the pipe
  exit,        \* how the leader ended
  file,        \* the copied file: a value, or "unreadable"
  touched,     \* whether it was written since the guard was created
  dirty,       \* whether the worktree has uncommitted changes
  printed,     \* what the command printed: copied values and other text
  captured,    \* the values to redact
  result,      \* the exit code and the flags of the StageResult
  log,         \* what the log shows
  exposed,     \* (history) the values the copied file held
  outlived,    \* (history) whether a process was left when the output ended
  abandoned    \* (history) why the tree was not killed as a whole

tree == <<alive, holding, exit>>
worktree == <<file, touched, dirty, printed, exposed>>
vars == <<posix, setup, command, pc, tree, worktree, captured, result, log, outlived, abandoned>>

Processes == {"leader", "worker", "escaped"}
Group == {"leader", "worker"}
Waiting == {"waiting", "draining", "reaping", "killing"}
Steps == {"capture", "plan", "spawn", "starting", "stopped", "check", "finish", "signalled"} \cup Waiting
Ended == {"done", "dead"}
NoResult == [code |-> "none", timed_out |-> FALSE, truncated |-> FALSE, changed |-> FALSE, output |-> {}]

TypeOK ==
  /\ {posix, setup, touched, dirty, outlived} \subseteq BOOLEAN /\ pc \in Steps \cup Ended
  /\ alive \subseteq Processes /\ holding \subseteq alive
  /\ exit \in {"none", "zero", "failure", "killed"}
  /\ file \in Values \cup {"unreadable"}
  /\ printed \subseteq exposed \cup {"text"} /\ exposed \subseteq Values /\ captured \subseteq Values
  /\ result.code \in {"none", "zero", "failure", "timeout", "unrunnable"}
  /\ log \subseteq Values \cup {"text", "withheld"}

Init ==
  /\ posix \in BOOLEAN /\ setup \in BOOLEAN /\ command \in Commands
  /\ pc = "capture"
  /\ alive = {} /\ holding = {} /\ exit = "none"
  /\ file \in {Original, "unreadable"} /\ touched = FALSE /\ dirty = FALSE
  /\ printed = {} /\ exposed = {file} \ {"unreadable"} /\ captured = {}
  /\ result = NoResult /\ log = {} /\ outlived = FALSE /\ abandoned = "no"

Goto(step) == pc' = step

-----------------------------------------------------------------------------
(* agentic-preflight.                                                      *)

\* (mutant) the copied file is read without looking.
CaptureUnchecked ==
  /\ pc = "capture" /\ Goto("plan") /\ captured' = {file}
  /\ UNCHANGED <<posix, setup, command, tree, worktree, result, log, outlived, abandoned>>

\* OutputProtection.capture; a stage fails before its attempt is recorded.
Capture ==
  /\ pc = "capture"
  /\ IF file = "unreadable"
     THEN /\ Goto("done") /\ result' = [NoResult EXCEPT !.code = "unrunnable"]
          /\ UNCHANGED captured
     ELSE Goto("plan") /\ captured' = {file} /\ UNCHANGED result
  /\ UNCHANGED <<posix, setup, command, tree, worktree, log, outlived, abandoned>>

\* find_shell: on Windows never the launcher of the Linux subsystem.
Shells(present) == present \cap IF posix THEN {"bash", "sh"} ELSE {"git_bash"}

\* plan and build_argv: a program that is not found is left to a shell.
PlanCommand ==
  /\ pc = "plan" /\ command' = <<>>
  /\ LET splits == Splits(command, posix) IN
       \E found \in BOOLEAN, present \in SUBSET {"bash", "sh", "git_bash", "wsl_bash"} :
         IF (found /\ splits) \/ Shells(present) # {}
         THEN Goto("spawn") /\ UNCHANGED result
         ELSE Goto("check") /\ result' = [NoResult EXCEPT !.code = "unrunnable"]
  /\ UNCHANGED <<posix, setup, tree, worktree, captured, log, outlived, abandoned>>

\* The guard records the copied file, then the process starts; the operating
\* system may still refuse to execute the program.
Spawn ==
  /\ pc = "spawn" /\ touched' = (file = "unreadable")
  /\ \/ Goto("starting") /\ alive' = {"leader"} /\ holding' = {"leader"} /\ UNCHANGED result
     \/ Goto("check") /\ result' = [NoResult EXCEPT !.code = "unrunnable"]
        /\ UNCHANGED <<alive, holding>>
  /\ UNCHANGED <<posix, setup, command, exit, file, dirty, printed, exposed, captured, log, outlived, abandoned>>

\* _kill_on_termination: from here to the end of the wait signals are handled.
Handle ==
  /\ pc = "starting" /\ Goto("waiting")
  /\ UNCHANGED <<posix, setup, command, tree, worktree, captured, result, log, outlived, abandoned>>

\* communicate returns when the pipe is closed and the leader has exited.
Returns == "leader" \notin alive /\ holding = {}

Communicate ==
  /\ pc = "waiting" /\ Returns
  /\ Goto("stopped")
  /\ result' = [NoResult EXCEPT !.code = IF exit = "zero" THEN "zero" ELSE "failure", !.output = printed]
  /\ outlived' = (alive # {})
  /\ UNCHANGED <<posix, setup, command, tree, worktree, captured, log, abandoned>>

TimeOut ==
  /\ pc = "waiting" /\ ~Returns
  /\ Goto("killing") /\ result' = [NoResult EXCEPT !.code = "timeout", !.timed_out = TRUE]
  /\ UNCHANGED <<posix, setup, command, tree, worktree, captured, log, outlived, abandoned>>

Dies(victims) ==
  /\ alive' = alive \ victims /\ holding' = holding \ victims
  /\ exit' = IF "leader" \in alive \cap victims THEN "killed" ELSE exit

\* (mutant) the group is looked up from the leader only.
KillsOfLiving ==
  IF posix /\ "leader" \in alive THEN {[victims |-> Group, why |-> "no"]}
  ELSE {[victims |-> {"leader"}, why |-> "no"]}

\* _kill_process_tree.  POSIX signals the group, also when its leader has
\* exited; when that is not permitted, the leader alone.  Windows walks the
\* tree from the leader, or kills the leader alone.
Kills ==
  IF posix THEN {[victims |-> Group, why |-> "no"], [victims |-> {"leader"}, why |-> "denied"]}
  ELSE IF "leader" \in alive
       THEN {[victims |-> Group, why |-> "no"], [victims |-> {"leader"}, why |-> "no tree"]}
       ELSE {[victims |-> {}, why |-> "no tree"]}

KillTree == \E kill \in Kills : Dies(kill.victims) /\ abandoned' = kill.why

KillAfterTimeout ==
  /\ pc = "killing" /\ Goto("draining") /\ KillTree
  /\ UNCHANGED <<posix, setup, command, worktree, captured, result, log, outlived>>

\* (mutant) the output is read to its end.
DrainToEnd ==
  /\ pc = "draining" /\ Returns
  /\ Goto("stopped") /\ result' = [result EXCEPT !.output = printed]
  /\ UNCHANGED <<posix, setup, command, tree, worktree, captured, log, outlived, abandoned>>

\* _drain_after_kill: read to the end, or give up and close the streams.
Drain ==
  /\ pc = "draining"
  /\ IF Returns THEN Goto("stopped") /\ result' = [result EXCEPT !.output = printed]
     ELSE Goto("reaping") /\ result' = [result EXCEPT !.truncated = TRUE]
  /\ UNCHANGED <<posix, setup, command, tree, worktree, captured, log, outlived, abandoned>>

\* The leader is waited for, but not forever.
Reap ==
  /\ pc = "reaping" /\ Goto("stopped")
  /\ UNCHANGED <<posix, setup, command, tree, worktree, captured, result, log, outlived, abandoned>>

\* (mutant) the guard compares contents.
ChangedContents == file # Original

\* _CopiedFileMutationGuard.stop: a write shows even when it was undone.
Changed == touched \/ file = "unreadable"

StopGuard ==
  /\ pc = "stopped" /\ Goto("check") /\ result' = [result EXCEPT !.changed = Changed]
  /\ UNCHANGED <<posix, setup, command, tree, worktree, captured, log, outlived, abandoned>>

Failing(code) == IF code = "zero" THEN "failure" ELSE code

\* (mutant) what the command left behind is not looked at.
CheckNothing ==
  /\ pc = "check" /\ Goto("finish") /\ UNCHANGED result
  /\ UNCHANGED <<posix, setup, command, tree, worktree, captured, log, outlived, abandoned>>

\* _run_protected: changes a stage left are a failure.  The setup command may
\* leave what it installs.
CheckClean ==
  /\ pc = "check" /\ Goto("finish")
  /\ result' = IF dirty /\ ~setup THEN [result EXCEPT !.code = Failing(@)] ELSE result
  /\ UNCHANGED <<posix, setup, command, tree, worktree, captured, log, outlived, abandoned>>

\* OutputProtection.finish: withheld, or redacted by both readings of the file.
Finish ==
  /\ pc = "finish" /\ Goto("done")
  /\ IF result.changed \/ file = "unreadable"
     THEN log' = {"withheld"} /\ result' = [result EXCEPT !.code = Failing(@), !.output = {}]
     ELSE log' = result.output \ (captured \cup {file}) /\ UNCHANGED result
  /\ UNCHANGED <<posix, setup, command, tree, worktree, captured, outlived, abandoned>>

\* SIGTERM or SIGINT.  While the output is read for the first time a handler
\* kills the tree; anywhere else agentic-preflight simply ends.
Signal ==
  /\ pc \in Steps \ {"capture", "plan"}
  /\ IF pc = "waiting" THEN Goto("signalled") /\ KillTree
     ELSE Goto("dead") /\ abandoned' = "unhandled" /\ UNCHANGED tree
  /\ UNCHANGED <<posix, setup, command, worktree, captured, result, log, outlived>>

\* The handler raises the signal again.
Die ==
  /\ pc = "signalled" /\ Goto("dead")
  /\ UNCHANGED <<posix, setup, command, tree, worktree, captured, result, log, outlived, abandoned>>
-----------------------------------------------------------------------------
(* The command.                                                            *)

Fork(p) ==
  /\ p \in alive
  /\ \E q \in Processes \ (alive \cup {"leader"}) :
       /\ q = "worker" => p \in Group
       /\ alive' = alive \cup {q} /\ holding' = IF p \in holding THEN holding \cup {q} ELSE holding
  /\ UNCHANGED <<exit, worktree>>

Exit(p) ==
  /\ p \in alive
  /\ alive' = alive \ {p} /\ holding' = holding \ {p}
  /\ IF p = "leader" THEN exit' \in {"zero", "failure"} ELSE UNCHANGED exit
  /\ UNCHANGED worktree

CloseOutput(p) ==
  /\ p \in holding /\ holding' = holding \ {p}
  /\ UNCHANGED <<alive, exit, worktree>>

WriteOutput(p) ==
  /\ p \in holding /\ \E v \in exposed \cup {"text"} : printed' = printed \cup {v}
  /\ UNCHANGED <<tree, file, touched, dirty, exposed>>

WriteFile(p) ==
  /\ p \in alive /\ touched' = TRUE
  /\ file' \in Values \cup {"unreadable"} /\ exposed' = exposed \cup ({file'} \ {"unreadable"})
  /\ UNCHANGED <<tree, dirty, printed>>

ChangeWorktree(p) ==
  /\ p \in alive /\ dirty' = ~dirty
  /\ UNCHANGED <<tree, file, touched, printed, exposed>>

Runs(p) ==
  /\ Fork(p) \/ Exit(p) \/ CloseOutput(p) \/ WriteOutput(p) \/ WriteFile(p) \/ ChangeWorktree(p)
  /\ UNCHANGED <<posix, setup, command, pc, captured, result, log, outlived, abandoned>>

-----------------------------------------------------------------------------
Protected ==
  \/ Capture \/ PlanCommand \/ Spawn \/ Handle
  \/ Communicate \/ TimeOut \/ KillAfterTimeout \/ Drain \/ Reap
  \/ StopGuard \/ CheckClean \/ Finish \/ Die

Next == Protected \/ Signal \/ \E p \in Processes : pc \notin Ended /\ Runs(p)

\* Every wait of agentic-preflight has a time limit, so it always goes on; the
\* command owes it nothing.
Spec == Init /\ [][Next]_vars /\ WF_vars(Protected)

-----------------------------------------------------------------------------
\* A command that is split runs the program and the arguments the shell would
\* have run, character by character.  (A backslash that continues a line is the exception:
\* the program is passed the newline, the shell drops it.)
DirectIsTheSame ==
  pc = "plan" /\ Splits(command, posix) /\ ~ContinuesLine(command, posix) =>
    OnlySplits(command, posix, Lexed(command, posix).words)

\* No value the copied file held at any time while the command ran appears in
\* the log, even when the command changed the file, printed the new value and
\* put the old one back, or a descendant changes it while the log is written.
SecretsStayOut == log \cap exposed = {}

\* A command that passed exited with zero by itself, closed its output, and was
\* not interrupted.  If it left no process behind, a stage left the worktree
\* clean and any command left the copied file untouched.
PassedIsWhole ==
  pc = "done" /\ result.code = "zero" =>
    /\ exit = "zero" /\ holding = {} /\ ~result.timed_out
    /\ ~outlived => file = Original /\ ~touched /\ (setup \/ ~dirty)

\* After the time is up, or a signal came while the output was read, nothing of
\* the process group is left, whether or not its leader had already exited.
GroupIsGone ==
  /\ abandoned = "no"
  /\ (result.timed_out /\ pc # "killing") \/ pc = "signalled"
  => alive \cap Group = {}

\* The command cannot keep its stage from ending: neither by running on, nor by
\* a descendant that left the group and holds the pipe.
CommandEnds == <>(pc \in Ended)
=============================================================================
