------------------------------ MODULE NotesRef ------------------------------
(***************************************************************************)
(* The Git ref refs/notes/agentic-preflight of a clone or of the remote,   *)
(* as gitx.py reads, writes and merges it.  A ref names a commit, and here *)
(* a commit is its history: the set of the notes commits it contains, so   *)
(* "is an ancestor of" is inclusion.  A notes commit either writes the     *)
(* note of one commit or merges two histories.                             *)
(***************************************************************************)
EXTENDS Naturals, FiniteSets, FiniteSetsExt

CONSTANTS
  Clone,      \* the clones of the repository
  Commit,     \* the commits that get attested
  Run,        \* the runs that attest them
  Home,       \* the clone of each run
  NoCommit    \* "no such ref"

ASSUME HomeAssumption == Home \in [Run -> Clone]
ASSUME CommitAssumption == NoCommit \notin Commit
ASSUME CloneAssumption == IsFiniteSet(Clone)

\* stamp orders what one clone wrote after what it had seen; replaces tells
\* which note of the same commit the writer saw, as <<clone, stamp>>.
NotesCommit ==
  [clone : Clone, stamp : Nat, sha : Commit \cup {NoCommit},
   evidence : SUBSET Run, replaces : {<<>>} \cup (Clone \X Nat)]

NoNote == [sha |-> NoCommit, evidence |-> {}]

Id(w) == <<w.clone, w.stamp>>
Writes(h) == {w \in h : w.sha # NoCommit}
WritesOf(h, x) == {w \in h : w.sha = x}

\* read_note: the note a history holds for a commit.
NoteOf(h, x) ==
  IF WritesOf(h, x) = {} THEN NoNote
  ELSE CHOOSE w \in WritesOf(h, x) : \A v \in WritesOf(h, x) : v.stamp <= w.stamp

NextStamp(h) == 1 + Max({0} \cup {w.stamp : w \in h})

\* write_note (`notes add -f`): replaces the note the clone has.
Written(h, c, x, evidence) ==
  LET old == NoteOf(h, x)
  IN h \cup {[clone |-> c, stamp |-> NextStamp(h), sha |-> x, evidence |-> evidence,
              replaces |-> IF old = NoNote THEN <<>> ELSE Id(old)]}

\* (mutant) the merge keeps both and never stops.
ConflictIgnored(l, f) == FALSE

\* `notes merge -s manual` stops when both sides changed the same note.
Conflict(l, f) == \E x \in Commit : WritesOf(l \ f, x) # {} /\ WritesOf(f \ l, x) # {}

Merged(c, l, f) ==
  l \cup f \cup {[clone |-> c, stamp |-> NextStamp(l \cup f), sha |-> NoCommit,
                  evidence |-> {}, replaces |-> <<>>]}

\* (mutant) whatever the remote has is newer.
VerdictNewer(l, f) == IF f \subseteq l THEN "keep" ELSE "take"

\* The first half of fetch_notes: how the two histories relate.
Verdict(l, f) ==
  CASE f \subseteq l -> "keep"
    [] ~(f \subseteq l) /\ l \subseteq f -> "take"
    [] OTHER -> "merge"
=============================================================================
