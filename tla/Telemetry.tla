------------------------------- MODULE Telemetry -------------------------------
(***************************************************************************)
(* What remains of a run when it has ended: its summary and its row in the *)
(* mirror (telemetry.py), the outcome GitHub reports for its commit        *)
(* (hosted.py), and the decisions of the pre-push hook (hooklog.py).       *)
(* Commands of several clones write these files at once.  Only the mirror  *)
(* and the hook log are locked; the summary and the hosted outcome of a    *)
(* run are replaced by whoever comes last.  Any command can be killed.     *)
(***************************************************************************)
EXTENDS MirrorFile

CONSTANTS
  Clone,
  RootOf,       \* the root commit of each clone's repository
  Run,
  Home,         \* the clone of each run
  Others,       \* the lines of other repositories in the mirror
  Slot,         \* commands that may run at once
  Mixes,        \* the kinds of commands that occur together
  MaxCommands,  \* commands in all
  MaxClock      \* seconds

NoOne == 0

\* The repositories of the clones, by their root commits.
Repositories == {RootOf[c] : c \in Clone}
OtherRow == [run : STRING, source : STRING, root : STRING, written : Nat, hosted : Nat]
OtherRows == {Others[i] : i \in {j \in 1..Len(Others) : IsRow(Others[j])}}
Directories == Clone \cup {x.source : x \in OtherRows}
RootCommits == Repositories \cup {x.root : x \in OtherRows}

\* A directory never has the name of a commit, and a run one clone.
ASSUME TelemetryConstants ==
  /\ RootOf \in [Clone -> STRING] /\ Home \in [Run -> Clone]
  /\ NoRoot \notin Repositories
  /\ Others \in Seq(OtherRow \cup {Torn})
  /\ Directories \cap RootCommits = {} /\ \A x \in OtherRows : x.run \notin Run
  /\ NoOne \notin Slot /\ MaxCommands \in Nat /\ MaxClock \in Nat \ {0}

VARIABLES
  clock,
  kinds,     \* the kinds of commands that occur
  ended,     \* how each run ended
  hosted,    \* when hosted.json of each run was fetched; 0 when there is none
  summary,   \* summary.json of each run: a row
  mirror,    \* runs.jsonl
  log,       \* the hook log
  holds,     \* who holds the lock of each of the two
  command,   \* what each slot is doing
  begun,     \* how many commands have begun
  told       \* (history) the lines a command reported as written

vars == <<clock, kinds, ended, hosted, summary, mirror, log, holds, command, begun, told>>

Time == 1..MaxClock
NoSummary == [text |-> "none"]
Row == [run : Run, source : Clone, root : Repositories \cup {NoRoot},
        written : Time, hosted : {0} \cup Time]
Files == {"mirror", "log"}
Steps == {"idle", "summarize", "fetch", "answer", "read", "store", "mirror", "lock", "append", "merge",
          "replace", "evaluate", "poll", "write"}
\* todo: the runs it still has to fetch or to read; again: those to summarize;
\* row: the summary or the decision at hand; rows: the summaries for the mirror;
\* lines: the merged mirror; clean: whether nothing failed or went on besides it.
Idle == [kind |-> "idle", clone |-> NoOne, at |-> "idle", todo |-> {}, again |-> {}, row |-> NoSummary, rows |-> {},
         root |-> NoRoot, time |-> 0, lines |-> <<>>, clean |-> FALSE]

TypeOK ==
  /\ clock \in Time /\ kinds \in Mixes /\ ended \in [Run -> {"no", "done", "aborted"}]
  /\ hosted \in [Run -> {0} \cup Time] /\ summary \in [Run -> Row \cup {NoSummary}]
  /\ holds \in [Files -> Slot \cup {NoOne}] /\ begun \in 0..MaxCommands
  /\ \A s \in Slot :
       /\ command[s].at \in Steps /\ command[s].todo \subseteq Run /\ command[s].rows \subseteq Row
       /\ holds["mirror"] = s <=> command[s].at \in {"append", "merge", "replace"}
       /\ holds["log"] = s <=> command[s].at = "write"

Init ==
  /\ clock = 1 /\ kinds \in Mixes /\ ended = [r \in Run |-> "no"]
  /\ hosted = [r \in Run |-> 0] /\ summary = [r \in Run |-> NoSummary]
  /\ mirror = AllEnded(Others) /\ log = EmptyFile
  /\ holds = [f \in Files |-> NoOne]
  /\ command = [s \in Slot |-> Idle]
  /\ begun = 0 /\ told = {}

RunsOf(c) == {r \in Run : Home[r] = c}
Becomes(s, c) == command' = [command EXCEPT ![s] = c]
Goes(s, step) == Becomes(s, [command[s] EXCEPT !.at = step])
Active(kind, s, step) == command[s].kind = kind /\ command[s].at = step

\* A command begins; those under way do not have the files for themselves.
Begins(s, c) ==
  /\ command[s] = Idle /\ begun < MaxCommands /\ begun' = begun + 1 /\ c.kind \in kinds
  /\ command' = [t \in Slot |-> IF t = s THEN c ELSE [command[t] EXCEPT !.clean = FALSE]]
Undisturbed(s) == \A t \in Slot \ {s} : command[t] = Idle

-----------------------------------------------------------------------------
(* The end of a run: record_run_end.                                       *)

\* _session.save commits the terminal state before anything is summarized.
EndRun(s, r) ==
  /\ ended[r] = "no" /\ \E state \in {"done", "aborted"} : ended' = [ended EXCEPT ![r] = state]
  /\ Begins(s, [Idle EXCEPT !.kind = "end", !.at = "summarize", !.todo = {r}])
  /\ UNCHANGED <<clock, kinds, hosted, summary, mirror, log, holds, told>>

Roots(c) == {RootOf[c], NoRoot}
Summary(r, root, time, outcome) ==
  [run |-> r, source |-> Home[r], root |-> root, written |-> time, hosted |-> outcome]

\* The run that ends is summarized without looking at hosted.json.
Summarize(s) ==
  /\ Active("end", s, "summarize")
  /\ \E r \in command[s].todo : \E root \in Roots(Home[r]) :
       Becomes(s, [command[s] EXCEPT !.at = "store", !.row = Summary(r, root, clock, 0), !.todo = {}])
  /\ UNCHANGED <<clock, kinds, ended, hosted, summary, mirror, log, holds, begun, told>>

-----------------------------------------------------------------------------
(* telemetry rebuild and telemetry sync-hosted.                            *)

Rebuild(s, c) ==
  /\ \E root \in Roots(c) :
       Begins(s, [Idle EXCEPT !.kind = "rebuild", !.at = "read", !.todo = RunsOf(c),
                              !.root = root, !.time = clock])
  /\ UNCHANGED <<clock, kinds, ended, hosted, summary, mirror, log, holds, told>>

FetchedInSummary(r) == IF IsRow(summary[r]) THEN summary[r].hosted ELSE 0

\* (mutant) a summary that lacks the outcome is not noticed.
NothingStale(c) == {}

\* Synced runs whose summary does not carry their outcome.
Stale(c) ==
  {r \in RunsOf(c) : ended[r] = "done" /\ hosted[r] # 0 /\ FetchedInSummary(r) # hosted[r]}

\* sync_hosted and _candidates: the pushed runs that are not synced yet, with
\* --refresh all of them, are fetched, the stale ones only summarized.
Sync(s, c) ==
  /\ \E root \in Roots(c), refresh \in BOOLEAN :
       LET pending == {r \in RunsOf(c) : ended[r] = "done" /\ (refresh \/ hosted[r] = 0)} IN
       Begins(s, [Idle EXCEPT !.kind = "sync", !.clone = c, !.at = "fetch", !.todo = pending, !.root = root,
                              !.again = Stale(c) \ pending, !.clean = Undisturbed(s)])
  /\ UNCHANGED <<clock, kinds, ended, hosted, summary, mirror, log, holds, told>>

\* fetch notes the time, then asks GitHub.
Fetch(s) ==
  /\ Active("sync", s, "fetch")
  /\ \E r \in command[s].todo :
       Becomes(s, [command[s] EXCEPT !.at = "answer", !.row = Summary(r, NoRoot, clock, 0)])
  /\ UNCHANGED <<clock, kinds, ended, hosted, summary, mirror, log, holds, begun, told>>

\* _fetch_all: the outcome is stored; a failure concerns this commit or all.
Answer(s) ==
  /\ Active("sync", s, "answer")
  /\ LET r == command[s].row.run
         next == [command[s] EXCEPT !.at = "fetch", !.row = NoSummary, !.todo = @ \ {r}] IN
       \/ /\ hosted' = [hosted EXCEPT ![r] = command[s].row.written]
          /\ Becomes(s, [next EXCEPT !.again = @ \cup {r}])
       \/ /\ \E left \in {{}, next.todo} : Becomes(s, [next EXCEPT !.todo = left, !.clean = FALSE])
          /\ UNCHANGED hosted
  /\ UNCHANGED <<clock, kinds, ended, summary, mirror, log, holds, begun, told>>

\* resummarize, when there is anything to summarize.
Resummarize(s) ==
  /\ Active("sync", s, "fetch") /\ command[s].todo = {} /\ command[s].again # {}
  /\ Becomes(s, [command[s] EXCEPT !.at = "read", !.todo = command[s].again, !.time = clock])
  /\ UNCHANGED <<clock, kinds, ended, hosted, summary, mirror, log, holds, begun, told>>

\* _summarize_stored_run_safely: open and unreadable records are left out.
Read(s) ==
  /\ command[s].at = "read"
  /\ \E r \in command[s].todo :
       LET next == [command[s] EXCEPT !.todo = @ \ {r}] IN
       \/ /\ ended[r] # "no"
          /\ Becomes(s, [next EXCEPT !.at = "store", !.row = Summary(r, next.root, next.time, hosted[r])])
       \/ Becomes(s, [next EXCEPT !.clean = @ /\ ended[r] = "no"])
  /\ UNCHANGED <<clock, kinds, ended, hosted, summary, mirror, log, holds, begun, told>>

\* The summary is replaced; when that fails, the row goes to the mirror anyway.
Store(s) ==
  /\ command[s].at = "store"
  /\ LET row == command[s].row
         next == [command[s] EXCEPT !.row = NoSummary, !.rows = @ \cup {row},
                                    !.at = IF command[s].kind = "end" THEN "mirror" ELSE "read"] IN
       \/ summary' = [summary EXCEPT ![row.run] = row] /\ Becomes(s, next)
       \/ Becomes(s, [next EXCEPT !.clean = FALSE]) /\ UNCHANGED summary
  /\ UNCHANGED <<clock, kinds, ended, hosted, mirror, log, holds, begun, told>>

\* write_summary, replace_mirror_rows: the mirror may be off or not for this
\* repository, and a sync with no row to write leaves it alone.
ToMirror(s) ==
  /\ command[s].at \in {"mirror", "read"} /\ command[s].todo = {}
  /\ \/ (command[s].kind = "rebuild" \/ command[s].rows # {}) /\ Goes(s, "lock")
     \/ Becomes(s, Idle)
  /\ UNCHANGED <<clock, kinds, ended, hosted, summary, mirror, log, holds, begun, told>>

\* A sync with nothing to summarize.
NothingToDo(s) ==
  /\ Active("sync", s, "fetch") /\ command[s].todo = {} /\ command[s].again = {}
  /\ Becomes(s, Idle)
  /\ UNCHANGED <<clock, kinds, ended, hosted, summary, mirror, log, holds, begun, told>>

-----------------------------------------------------------------------------
(* The mirror and the hook log, under their locks.                         *)

\* (mutant) nobody waits for the mirror.
NoLock(file) == TRUE

Free(file) == holds[file] = NoOne
Takes(s, file) == Free(file) /\ holds' = [holds EXCEPT ![file] = s]
Releases(s) == holds' = [f \in Files |-> IF holds[f] = s THEN NoOne ELSE holds[f]]

LockMirror(s) ==
  /\ command[s].at = "lock" /\ Takes(s, "mirror")
  /\ Goes(s, IF command[s].kind = "end" THEN "append" ELSE "merge")
  /\ UNCHANGED <<clock, kinds, ended, hosted, summary, mirror, log, begun, told>>

\* write_summary: _append_row.
AppendRow(s) ==
  /\ command[s].at = "append"
  /\ \E row \in command[s].rows : mirror' = Written(mirror, row)
  /\ told' = told \cup command[s].rows
  /\ Releases(s) /\ Becomes(s, Idle)
  /\ UNCHANGED <<clock, kinds, ended, hosted, summary, log, begun>>

\* _rewrite_mirror reads the lines and merges them, then replaces the file.
Merge(s) ==
  /\ command[s].at = "merge"
  /\ Becomes(s, [command[s] EXCEPT !.at = "replace",
                    !.lines = MergeMirror(mirror.lines, command[s].rows, command[s].root)])
  /\ UNCHANGED <<clock, kinds, ended, hosted, summary, mirror, log, holds, begun, told>>

Replace(s) ==
  /\ command[s].at = "replace"
  /\ mirror' = AllEnded(command[s].lines)
  /\ told' = told \cup command[s].rows
  /\ Releases(s) /\ Becomes(s, Idle)
  /\ UNCHANGED <<clock, kinds, ended, hosted, summary, log, begun>>

\* The hook begins to log while it evaluates the push.
BeginHook(s) ==
  /\ Begins(s, [Idle EXCEPT !.kind = "hook", !.at = "evaluate", !.row = [hook |-> begun]])
  /\ UNCHANGED <<clock, kinds, ended, hosted, summary, mirror, log, holds, told>>

\* finish: from now on the line has a deadline.
Decide(s) ==
  /\ Active("hook", s, "evaluate") /\ Goes(s, "poll")
  /\ UNCHANGED <<clock, kinds, ended, hosted, summary, mirror, log, holds, begun, told>>

\* _locked: tried again and again until the deadline.
LockLog(s) ==
  /\ Active("hook", s, "poll") /\ Takes(s, "log") /\ Goes(s, "write")
  /\ UNCHANGED <<clock, kinds, ended, hosted, summary, mirror, log, begun, told>>

\* hooklog.append; the result may come after finish has given up.
AppendDecision(s) ==
  /\ Active("hook", s, "write")
  /\ log' = Written(log, command[s].row)
  /\ told' \in {told, told \cup {command[s].row}}
  /\ Releases(s) /\ Becomes(s, Idle)
  /\ UNCHANGED <<clock, kinds, ended, hosted, summary, mirror, begun>>

\* The file as an interrupted command leaves it.
LeftBy(s, step, file, line) == IF command[s].at = step THEN Interrupted(file, line) ELSE {file}

\* Pending.finish gives up, and the process ends with its unfinished write.
Expire(s) ==
  /\ command[s].at \in {"poll", "write"}
  /\ log' \in LeftBy(s, "write", log, command[s].row)
  /\ Releases(s) /\ Becomes(s, Idle)
  /\ UNCHANGED <<clock, kinds, ended, hosted, summary, mirror, begun, told>>

\* A write to the mirror fails, or a command is killed.
Interrupt(s) ==
  /\ command[s] # Idle
  /\ \E line \in IF command[s].at = "append" THEN command[s].rows ELSE {command[s].row} :
       /\ mirror' \in LeftBy(s, "append", mirror, line)
       /\ log' \in LeftBy(s, "write", log, line)
  /\ Releases(s) /\ Becomes(s, Idle)
  /\ UNCHANGED <<clock, kinds, ended, hosted, summary, begun, told>>

Tick ==
  /\ clock < MaxClock /\ clock' = clock + 1
  /\ UNCHANGED <<kinds, ended, hosted, summary, mirror, log, holds, command, begun, told>>

-----------------------------------------------------------------------------
Step(s) ==
  \/ Summarize(s) \/ Fetch(s) \/ Answer(s) \/ Resummarize(s) \/ Read(s) \/ Store(s)
  \/ ToMirror(s) \/ NothingToDo(s) \/ LockMirror(s) \/ AppendRow(s) \/ Merge(s) \/ Replace(s)
  \/ Decide(s) \/ LockLog(s) \/ AppendDecision(s) \/ Expire(s)

Next ==
  \/ Tick
  \/ \E s \in Slot :
       \/ Step(s) \/ Interrupt(s) \/ BeginHook(s)
       \/ \E r \in Run : EndRun(s, r)
       \/ \E c \in Clone : Rebuild(s, c) \/ Sync(s, c)

Spec == Init /\ [][Next]_vars

-----------------------------------------------------------------------------
Reported(lines) == {lines[i] : i \in ReportedLines(lines)}

\* A line a command reported as written is there for good: the report shows
\* the run with this row or a newer one, and the hook log the decision, however
\* many commands append, rewrite the mirror or are killed at it.
ToldStands ==
  \A line \in told :
    IF IsRow(line)
    THEN \E x \in Reported(mirror.lines) : x.run = line.run /\ x.written >= line.written
    ELSE \E i \in 1..Len(log.lines) : log.lines[i] = line

\* The runs elsewhere that a row connects with one of the repositories.
Kin == {RunKey(x) : x \in {y \in OtherRows : y.root \in Repositories}}
Related(row) == row.source \in Clone \/ RunKey(row) \in Kin
Strange(line) == ~IsRow(line) \/ (line.root \notin Repositories /\ ~Related(line))
Strangers(lines) == Picked(lines, {i \in DOMAIN lines : Strange(lines[i])})

\* What was written once stays reported: a run that the report shows, of this
\* clone or of another one of its repository, with its record or without, whoever
\* wrote the row and whether or not that command lived to tell, is shown after
\* every append, rewrite and interrupted write, and by no older row.
RunsStayReported ==
  [][mirror' # mirror =>
       \A x \in Reported(mirror.lines) :
         \E y \in Reported(mirror'.lines) : y.run = x.run /\ y.written >= x.written]_vars

\* Lines of other repositories, and lines that are no rows, are never changed,
\* dropped or put in another order.
OthersStand ==
  [][mirror' # mirror => IsPrefix(Strangers(mirror.lines), Strangers(mirror'.lines))]_vars

\* A sync that nothing disturbs leaves no pushed run of its clone without its
\* outcome in the summary, whatever was interrupted before it, and the rows it
\* wrote are those the report shows.
SyncJoins ==
  [][\A s \in Slot : command[s].kind = "sync" /\ command[s].clean =>
       /\ NothingToDo(s) \/ (ToMirror(s) /\ command'[s] = Idle) \/ Replace(s)
          => \A r \in RunsOf(command[s].clone) :
               ended[r] = "done" /\ hosted[r] # 0 => FetchedInSummary(r)' = hosted[r]
       /\ Replace(s) => command[s].rows \subseteq Reported(mirror'.lines)]_vars

=============================================================================
