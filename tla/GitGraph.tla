------------------------------- MODULE GitGraph -------------------------------
(***************************************************************************)
(* What agentic-preflight asks Git about two commits (gitx.py): what a     *)
(* merge, a rebase or a diff of them would contain.  A graph is a sequence *)
(* of commits in the order they were made; each names its parents, its     *)
(* tree and the commits it contains, itself included.                      *)
(***************************************************************************)
EXTENDS Naturals, Sequences, FiniteSets, SequencesExt

CONSTANTS
  Path,
  Content(_),   \* what a path may contain
  Plain(_)      \* the content without its whitespace

Conflict == "conflict"
Tree == {tree \in [Path -> UNION {Content(p) : p \in Path}] : \A p \in Path : tree[p] \in Content(p)}
Clean(tree) == \A p \in Path : tree[p] # Conflict

Commit(g, parents, tree) ==
  [parents |-> parents, tree |-> tree,
   past |-> {Len(g) + 1} \cup UNION {g[c].past : c \in ToSet(parents)}]

\* merge-base --all.
MergeBases(g, a, b) ==
  LET common == g[a].past \cap g[b].past
  IN {c \in common : \A d \in common \ {c} : c \notin g[d].past}

\* merge-base prints the newest of them.
MergeBase(g, a, b) == CHOOSE c \in MergeBases(g, a, b) : \A d \in MergeBases(g, a, b) : d <= c

\* What base..head lists.
Between(g, base, head) == g[head].past \ g[base].past
IsMerge(g, c) == Len(g[c].parents) > 1
Contribution(g, base, head) == {c \in Between(g, base, head) : ~IsMerge(g, c)}

-----------------------------------------------------------------------------
Merge3(old, ours, theirs) ==
  [p \in Path |->
     IF ours[p] = theirs[p] \/ theirs[p] = old[p] THEN ours[p]
     ELSE IF ours[p] = old[p] THEN theirs[p] ELSE Conflict]

\* Two merge bases, of a history that crosses, are merged themselves.  (A
\* graph of five commits has no more, and its bases do not cross again.)
OldTree(g, a, b) ==
  LET bases == MergeBases(g, a, b)
      newest == MergeBase(g, a, b) IN
  IF Cardinality(bases) = 1 THEN g[newest].tree
  ELSE LET other == CHOOSE c \in bases \ {newest} : TRUE
       IN Merge3(g[MergeBase(g, newest, other)].tree, g[newest].tree, g[other].tree)

\* merge_tree_result; merge_tree is this when it is clean.
MergeTree(g, a, b) == Merge3(OldTree(g, a, b), g[a].tree, g[b].tree)

\* A rebase replays the commits that are no merges, oldest first, and stops at
\* a conflict.
Replay(g, base, head) ==
  LET upTo[c \in 0..Len(g)] ==
        IF c = 0 THEN g[base].tree
        ELSE IF c \in Contribution(g, base, head) /\ Clean(upTo[c - 1])
             THEN Merge3(g[g[c].parents[1]].tree, upTo[c - 1], g[c].tree)
             ELSE upTo[c - 1]
  IN upTo[Len(g)]

-----------------------------------------------------------------------------
Differs(old, new) == {p \in Path : old[p] # new[p]}

\* git patch-id --stable hashes a patch without its whitespace.
PatchId(old, new) == {<<p, Plain(old[p]), Plain(new[p])>> : p \in Differs(old, new)}

\* The diff base...head starts at one merge base.
ChangedFiles(g, base, head) == Differs(g[MergeBase(g, base, head)].tree, g[head].tree)
RangePatchId(g, base, head) == PatchId(g[MergeBase(g, base, head)].tree, g[head].tree)

MergeResultFiles(g, base, head) == Differs(g[base].tree, MergeTree(g, base, head))
ClassifiedFiles(g, base, head) == ChangedFiles(g, base, head) \cup MergeResultFiles(g, base, head)

Patch(g, c) == PatchId(g[g[c].parents[1]].tree, g[c].tree)
CommitFiles(g, c) == Differs(g[g[c].parents[1]].tree, g[c].tree)
NonMergeCommitFiles(g, base, head) == UNION {CommitFiles(g, c) : c \in Contribution(g, base, head)}
=============================================================================
