------------------------------ MODULE MirrorFile ------------------------------
(***************************************************************************)
(* The mirror of run summaries, runs.jsonl, which every clone of a user    *)
(* appends to and rewrites (telemetry.py) and the report reads (report.py).*)
(* A file is a sequence of lines of which the last may lack its newline.   *)
(***************************************************************************)
EXTENDS Naturals, Sequences, FiniteSets, SequencesExt

CONSTANT NoRoot   \* the root commit of a repository that Git could not name

LOCAL Indices(s) == 1..Len(s)

\* What is left of an interrupted write, and of two writes in one line.
Torn == [text |-> "torn"]
IsRow(line) == "run" \in DOMAIN line

EmptyFile == [lines |-> <<>>, ended |-> TRUE]
AllEnded(lines) == [lines |-> lines, ended |-> TRUE]

\* (mutant) the line goes to the end of the file as it is.
WrittenOn(file, line) ==
  AllEnded(IF file.ended THEN Append(file.lines, line) ELSE Append(Front(file.lines), Torn))

\* _append_row, hooklog.append: an interrupted line is ended first.
Written(file, line) == AllEnded(Append(file.lines, line))

\* The same, interrupted: nothing, the newline that ends the line before, a
\* piece of the line, or the line without its newline is in the file.
Interrupted(file, line) ==
  {file, AllEnded(file.lines)}
  \cup {[lines |-> Append(file.lines, piece), ended |-> FALSE] : piece \in {line, Torn}}

-----------------------------------------------------------------------------
RowKey(row) == <<IF row.root = NoRoot THEN row.source ELSE row.root, row.run>>

\* A run has one id and one start, so these two stand for the three parts.
RunKey(row) == <<row.run, row.source>>

\* The newer row wins, of two equally old ones the later.
Supersedes(x, y, later) == x.written > y.written \/ (x.written = y.written /\ later)

\* _newest, _keep_newest: one row for each key; key and place are functions of
\* the indices among which it is looked for.
Newest(rows, among, key, place) ==
  {i \in among : \A j \in among :
     key[i] = key[j] => i = j \/ Supersedes(rows[i], rows[j], place[i] > place[j])}

\* Two passes, because Git may have named the repository in one row only.
NewestOfRuns(rows, among, place) ==
  LET lines == [i \in among |-> i]
      rowKey == [i \in among |-> RowKey(rows[i])]
      runKey == [i \in among |-> RunKey(rows[i])]
  IN Newest(rows, Newest(rows, among, rowKey, lines), runKey, place)

\* (mutant) a row without a root belongs to a clone without one.
ClaimedByNone(row, fresh, root) ==
  RowKey(row) \in {RowKey(f) : f \in fresh} \/ row.root = root

Claimed(row, fresh, root) ==
  RowKey(row) \in {RowKey(f) : f \in fresh} \/ (root # NoRoot /\ row.root = root)

\* The lines at these indices, in their order.
Picked(lines, among) ==
  LET upTo[n \in 0..Len(lines)] ==
        IF n = 0 THEN <<>>
        ELSE IF n \in among THEN Append(upTo[n - 1], lines[n]) ELSE upTo[n - 1]
  IN upTo[Len(lines)]

\* (mutant) the rows of the repository are replaced by those at hand.
MergeMirrorAfresh(lines, fresh, root) ==
  LET old == {i \in Indices(lines) : IsRow(lines[i])}
      claimed == {i \in old : Claimed(lines[i], fresh, root)}
  IN Picked(lines, Indices(lines) \ claimed) \o SetToSeq(fresh)

\* _merge_mirror: the rows of this repository, one for each run, go behind the
\* lines that are not its own.  (The code puts them in the order of their ends.)
MergeMirror(lines, fresh, root) ==
  LET all == lines \o SetToSeq(fresh)
      old == {i \in Indices(lines) : IsRow(lines[i])}
      claimed == {i \in old : Claimed(lines[i], fresh, root)}
      mine == claimed \cup (Indices(all) \ Indices(lines))
      joined == {i \in old \ claimed :
                   /\ all[i].root = NoRoot \/ root = NoRoot
                   /\ RunKey(all[i]) \in {RunKey(all[j]) : j \in mine}}
      kept == NewestOfRuns(all, mine \cup joined, [i \in Indices(all) |-> i])
  IN Picked(all, Indices(lines) \ (mine \cup joined)) \o Picked(all, kept)

\* report._dedupe.  A key keeps the place of its first row in the second pass.
ReportedLines(lines) ==
  LET rows == {i \in Indices(lines) : IsRow(lines[i])}
      first == [i \in rows |-> CHOOSE j \in rows :
        /\ RowKey(lines[j]) = RowKey(lines[i])
        /\ \A k \in rows : RowKey(lines[k]) = RowKey(lines[i]) => j <= k]
  IN NewestOfRuns(lines, rows, first)
=============================================================================
