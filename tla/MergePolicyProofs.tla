--------------------------- MODULE MergePolicyProofs ---------------------------
(***************************************************************************)
(* What a head that passes may land, for every history of commits.  The    *)
(* protected base is classified against the note, whose base commit is the *)
(* one merge base, so everything rests on two facts about the commit graph *)
(* (GraphInv): a commit contains itself and what its ancestors contain,    *)
(* and an ancestor is older than its descendant.                           *)
(***************************************************************************)
EXTENDS MergePolicy, InductionLemmas

AnyTree == [Path -> UNION {Content(p) : p \in Path}]
CommitRecord == [parents : Seq(Nat), tree : AnyTree, past : SUBSET Nat]

\* A commit contains itself, older commits only, and all that these contain.
GraphOK(g) ==
  \A c \in 1..Len(g) :
    /\ c \in g[c].past /\ g[c].past \subseteq 1..c
    /\ \A d \in g[c].past : g[d].past \subseteq g[c].past

GraphInv ==
  /\ graph \in Seq(CommitRecord)
  /\ base \in Commits /\ head \in Commits
  /\ GraphOK(graph)

ReviewsInv ==
  reviews \in Seq([by : Person, state : Decisive \cup Comment, on : Nat])

-----------------------------------------------------------------------------
(* Lemmas about the operators of GitGraph.                                 *)

\* Where a three-way merge differs from ours it has theirs, which theirs has
\* changed, or a conflict.
LEMMA MergeTakesChanges ==
  ASSUME NEW old, NEW ours, NEW theirs, NEW p \in Differs(ours, Merge3(old, ours, theirs))
  PROVE  /\ p \in Differs(old, theirs)
         /\ Merge3(old, ours, theirs)[p] \in {theirs[p], Conflict}
BY DEF Differs, Merge3

\* merge-base of a commit and its descendant is the commit (git merge-base).
LEMMA MergeBaseOfAncestor ==
  ASSUME NEW g, GraphOK(g), NEW b \in 1..Len(g), NEW c \in 1..Len(g), b \in g[c].past
  PROVE  MergeBases(g, b, c) = {b} /\ MergeBase(g, b, c) = b
<1>1. g[b].past \subseteq g[c].past /\ b \in g[b].past
  BY DEF GraphOK
<1>2. \A d \in g[b].past \ {b} : b \notin g[d].past
  <2> SUFFICES ASSUME NEW d \in g[b].past \ {b} PROVE b \notin g[d].past
    OBVIOUS
  <2>1. d \in 1..b /\ d # b
    BY DEF GraphOK
  <2>2. d \in 1..Len(g)
    BY <2>1
  <2>3. g[d].past \subseteq 1..d
    BY <2>2 DEF GraphOK
  <2> QED BY <2>1, <2>3
<1>3. MergeBases(g, b, c) = {b}
  BY <1>1, <1>2 DEF MergeBases
<1> QED BY <1>3 DEF MergeBase

\* An attested head is merged over the tree it was validated against.
LEMMA VerifiedOldTree ==
  ASSUME NEW note \in Notes, VerifyMergeBase(note)
  PROVE  OldTree(graph, base, note.sha) = TreeOf(note.base)
<1>1. MergeBases(graph, base, note.sha) = {note.base} /\ note.base \in 1..Len(graph)
  BY DEF VerifyMergeBase, Notes, Commits
<1>2. MergeBase(graph, base, note.sha) = note.base
  BY <1>1 DEF MergeBase
<1>3. Cardinality({note.base}) = 1
  BY FS_Singleton
<1> QED BY <1>1, <1>2, <1>3 DEF OldTree, TreeOf

-----------------------------------------------------------------------------
(* The graph stays what Git keeps it.                                      *)

\* A new commit contains its parents' pasts and itself.
LEMMA CommitKeepsGraph ==
  ASSUME NEW g \in Seq(CommitRecord),
         GraphOK(g), NEW parents \in Seq(1..Len(g)),
         NEW tree \in AnyTree
  PROVE  LET h == Append(g, Commit(g, parents, tree))
         IN  /\ h \in Seq(CommitRecord)
             /\ Len(h) = Len(g) + 1
             /\ GraphOK(h)
<1> DEFINE new == Commit(g, parents, tree)
           h == Append(g, new)
           inherited == UNION {g[c].past : c \in ToSet(parents)}
<1>1. ToSet(parents) \subseteq 1..Len(g)
  BY DEF ToSet
<1>2. /\ \A d \in inherited : \E c \in 1..Len(g) : d \in g[c].past /\ g[c].past \subseteq inherited
      /\ inherited \subseteq 1..Len(g)
  <2>1. SUFFICES ASSUME NEW c \in ToSet(parents), NEW d \in g[c].past
                 PROVE  c \in 1..Len(g) /\ g[c].past \subseteq inherited /\ d \in 1..Len(g)
    OBVIOUS
  <2>2. c \in 1..Len(g)
    BY <1>1
  <2>3. g[c].past \subseteq 1..c
    BY <2>2 DEF GraphOK
  <2> QED BY <2>2, <2>3
<1>3. new.past = {Len(g) + 1} \cup inherited
  BY DEF Commit
<1>4. new \in CommitRecord
  <2>1. parents \in Seq(Nat)
    OBVIOUS
  <2>2. new.past \subseteq Nat
    <3> HIDE DEF inherited, new
    <3>1. Len(g) + 1 \in Nat /\ 1..Len(g) \subseteq Nat
      OBVIOUS
    <3>2. inherited \subseteq 1..Len(g)
      BY <1>2
    <3> QED BY <3>1, <3>2, <1>3
  <2> HIDE DEF inherited
  <2> QED BY <2>1, <2>2 DEF Commit, CommitRecord
<1>5. h \in Seq(CommitRecord) /\ Len(h) = Len(g) + 1
  BY <1>4
<1>6. h[Len(g) + 1] = new /\ \A c \in 1..Len(g) : h[c] = g[c]
  BY <1>4
<1>7. GraphOK(h)
  <2> SUFFICES ASSUME NEW c \in 1..Len(h)
               PROVE  /\ c \in h[c].past /\ h[c].past \subseteq 1..c
                      /\ \A d \in h[c].past : h[d].past \subseteq h[c].past
    BY DEF GraphOK
  <2> HIDE DEF h, new, inherited
  <2>1. CASE c \in 1..Len(g)
    <3>1. h[c] = g[c] /\ g[c].past \subseteq 1..c /\ c \in g[c].past
      BY <1>6, <2>1 DEF GraphOK
    <3>2. \A d \in g[c].past : d \in 1..Len(g) /\ h[d] = g[d]
      <4>1. g[c].past \subseteq 1..Len(g)
        BY <2>1, <3>1
      <4> QED BY <1>6, <4>1
    <3> QED BY <2>1, <3>1, <3>2 DEF GraphOK
  <2>2. CASE c = Len(g) + 1
    <3>1. h[c].past = {c} \cup inherited
      BY <1>3, <1>6, <2>2
    <3>2. ASSUME NEW d \in inherited PROVE h[d].past \subseteq inherited
      <4>1. PICK e \in 1..Len(g) : d \in g[e].past /\ g[e].past \subseteq inherited
        BY <1>2
      <4>2. d \in 1..Len(g)
        BY <1>2
      <4>3. g[d].past \subseteq g[e].past
        BY <4>1 DEF GraphOK
      <4> QED BY <1>6, <4>1, <4>2, <4>3
    <3>3. c \in h[c].past /\ h[c].past \subseteq 1..c
      <4>1. inherited \subseteq 1..Len(g) /\ Len(g) \in Nat
        BY <1>2
      <4>2. \A d \in inherited : d \in 1..c
        BY <2>2, <4>1
      <4>3. c \in 1..c
        BY <2>2, <4>1
      <4> QED BY <3>1, <4>2, <4>3
    <3>4. \A d \in h[c].past : h[d].past \subseteq h[c].past
      BY <3>1, <3>2
    <3> QED BY <3>3, <3>4
  <2> QED BY <1>5, <2>1, <2>2
<1> QED BY <1>5, <1>7

\* What a merge makes of two trees is a tree when it is clean.
LEMMA MergeOfTrees ==
  ASSUME NEW old, NEW ours \in AnyTree,
         NEW theirs \in AnyTree,
         Clean(Merge3(old, ours, theirs))
  PROVE  Merge3(old, ours, theirs) \in AnyTree
<1>1. ours \in [Path -> UNION {Content(p) : p \in Path}] /\ theirs \in [Path -> UNION {Content(p) : p \in Path}]
  BY DEF AnyTree
<1> DEFINE C == UNION {Content(p) : p \in Path}
<1> HIDE DEF C
<1>2. \A p \in Path : Merge3(old, ours, theirs)[p] \in C
  BY <1>1 DEF Merge3, Clean, C
<1>3. Merge3(old, ours, theirs) \in [Path -> C]
  BY <1>2 DEF Merge3
<1> QED BY <1>3 DEF C, AnyTree

\* What a person may commit is a tree.
LEMMA TreesAreTyped == Tree \subseteq AnyTree
BY DEF Tree, AnyTree

\* The repository starts with one commit and no review.
LEMMA InitHolds == Init => GraphInv /\ ReviewsInv
<1> SUFFICES ASSUME Init PROVE GraphInv /\ ReviewsInv
  OBVIOUS
<1>1. Start \in AnyTree
  BY StartAssumption, TreesAreTyped
<1>2. graph = <<[parents |-> <<>>, tree |-> Start, past |-> {1}]>>
  <2>1. ToSet(<<>>) = {}
    BY DEF ToSet
  <2>2. UNION {<<>>[c].past : c \in ToSet(<<>>)} = {}
    BY <2>1
  <2>3. {Len(<<>>) + 1} \cup UNION {<<>>[c].past : c \in ToSet(<<>>)} = {1}
    <3> DEFINE inherited == UNION {<<>>[c].past : c \in ToSet(<<>>)}
    <3>1. inherited = {} /\ Len(<<>>) + 1 = 1
      BY <2>2
    <3> HIDE DEF inherited
    <3>2. {Len(<<>>) + 1} \cup inherited = {1}
      BY <3>1
    <3> QED BY <3>2 DEF inherited
  <2>4. Commit(<<>>, <<>>, Start) = [parents |-> <<>>, tree |-> Start, past |-> {1}]
    BY <2>3, Zenon DEF Commit
  <2> QED BY <2>4 DEF Init
<1>3. graph \in Seq(CommitRecord)
  BY <1>1, <1>2 DEF CommitRecord
<1>4. base \in Commits /\ head \in Commits
  BY <1>2 DEF Init, Commits
<1>5. GraphOK(graph)
  BY <1>2 DEF GraphOK
<1>6. ReviewsInv
  BY DEF Init, ReviewsInv
<1> QED BY <1>3, <1>4, <1>5, <1>6 DEF GraphInv

\* A step that adds a commit keeps the graph, and its new tip is a commit.
LEMMA AddsKeepsGraph ==
  ASSUME GraphInv, NEW parents \in Seq(Commits),
         NEW tree \in AnyTree, Adds(parents, tree)
  PROVE  /\ graph' \in Seq(CommitRecord)
         /\ GraphOK(graph')
         /\ base \in Commits' /\ head \in Commits' /\ Len(graph) + 1 \in Commits'
<1>1. /\ graph' \in Seq(CommitRecord)
      /\ GraphOK(graph') /\ Len(graph') = Len(graph) + 1
  BY CommitKeepsGraph DEF GraphInv, Adds, Commits
<1>2. Len(graph) \in Nat
  BY DEF GraphInv
<1> QED BY <1>1, <1>2 DEF GraphInv, Commits

\* Edits, merges, resets, the base that advances and the reviews keep both.
LEMMA NextKeeps == GraphInv /\ ReviewsInv /\ [Next]_vars => GraphInv' /\ ReviewsInv'
<1> SUFFICES ASSUME GraphInv, ReviewsInv, [Next]_vars PROVE GraphInv' /\ ReviewsInv'
  OBVIOUS
<1>0. /\ <<head>> \in Seq(Commits) /\ <<base>> \in Seq(Commits) /\ <<head, base>> \in Seq(Commits)
      /\ \A c \in Commits : <<base, c>> \in Seq(Commits)
  BY DEF GraphInv
<1>9. UNCHANGED reviews => ReviewsInv'
  BY DEF ReviewsInv
<1>1. CASE Edit
  <2>1. PICK tree \in Edited(head) : Adds(<<head>>, tree)
    BY <1>1 DEF Edit
  <2>2. tree \in AnyTree
    BY TreesAreTyped DEF Edited
  <2> QED BY <1>0, <1>1, <1>9, <2>1, <2>2, AddsKeepsGraph DEF Edit, GraphInv
<1>2. CASE MergeIn
  <2>1. PICK tree \in Tree : Adds(<<head, base>>, tree)
    BY <1>2 DEF MergeIn
  <2>2. tree \in AnyTree
    BY TreesAreTyped
  <2> QED BY <1>0, <1>2, <1>9, <2>1, <2>2, AddsKeepsGraph DEF MergeIn, GraphInv
<1>3. CASE Reset
  BY <1>3, <1>9 DEF Reset, GraphInv, Commits
<1>4. CASE Advance
  <2>1. CASE \E tree \in Edited(base) : Adds(<<base>>, tree)
    <3>1. PICK tree \in Edited(base) : Adds(<<base>>, tree)
      BY <2>1
    <3>2. tree \in AnyTree
      BY TreesAreTyped DEF Edited
    <3> QED BY <1>0, <1>4, <1>9, <3>1, <3>2, AddsKeepsGraph DEF Advance, GraphInv
  <2>2. CASE \E c \in Commits \ graph[base].past :
               Clean(MergeTree(graph, base, c)) /\ Adds(<<base, c>>, MergeTree(graph, base, c))
    <3>1. PICK c \in Commits : Clean(MergeTree(graph, base, c)) /\ Adds(<<base, c>>, MergeTree(graph, base, c))
      BY <2>2
    <3>2. /\ graph[base].tree \in AnyTree
          /\ graph[c].tree \in AnyTree
      <4>1. graph[base] \in CommitRecord /\ graph[c] \in CommitRecord
        BY DEF GraphInv, Commits
      <4> QED BY <4>1 DEF CommitRecord
    <3>3. MergeTree(graph, base, c) \in AnyTree
      BY <3>1, <3>2, MergeOfTrees DEF MergeTree
    <3> QED BY <1>0, <1>4, <1>9, <3>1, <3>3, AddsKeepsGraph DEF Advance, GraphInv
  <2> QED BY <1>4, <2>1, <2>2 DEF Advance
<1>5. CASE Review
  <2>1. PICK by \in Person, state \in Decisive \cup Comment :
          reviews' = Append(reviews, [by |-> by, state |-> state, on |-> head])
    BY <1>5 DEF Review, Decisive, Comment
  <2>2. ReviewsInv'
    BY <2>1 DEF ReviewsInv, GraphInv, Commits
  <2> QED BY <1>5, <2>2 DEF Review, GraphInv, Commits
<1>6. CASE Withdraw
  <2>1. PICK i \in DOMAIN reviews :
          reviews' = [reviews EXCEPT ![i].state = IF @ \in Comment THEN "COMMENTED" ELSE "DISMISSED"]
    BY <1>6 DEF Withdraw
  <2>2. ReviewsInv'
    <3> DEFINE S == Decisive \cup Comment
               Rec == [by : Person, state : S, on : Nat]
               fresh == IF reviews[i].state \in Comment THEN "COMMENTED" ELSE "DISMISSED"
    <3>1. fresh \in S
      BY DEF Decisive, Comment
    <3>2. reviews' = [reviews EXCEPT ![i] = [@ EXCEPT !.state = fresh]]
      BY <2>1
    <3> HIDE DEF S, fresh
    <3>3. reviews \in Seq(Rec)
      BY DEF ReviewsInv, S
    <3>4. [reviews[i] EXCEPT !.state = fresh] \in Rec
      <4>1. reviews[i] \in Rec
        <5> HIDE DEF Rec
        <5> QED BY <3>3
      <4> QED BY <3>1, <4>1
    <3>5. reviews' \in Seq(Rec)
      <4> HIDE DEF Rec
      <4> QED BY <3>2, <3>3, <3>4
    <3> QED BY <3>5 DEF ReviewsInv, S
  <2> QED BY <1>6, <2>2 DEF Withdraw, GraphInv, Commits
<1>7. CASE UNCHANGED vars
  BY <1>7 DEF vars, GraphInv, ReviewsInv, Commits
<1> QED BY <1>1, <1>2, <1>3, <1>4, <1>5, <1>6, <1>7 DEF Next

\* In every history an ancestor is older and contains no more than its
\* descendant, the two tips are commits, and the reviews have their type.
THEOREM GraphStands == Spec => [](GraphInv /\ ReviewsInv)
BY InitHolds, NextKeeps, PTL DEF Spec

-----------------------------------------------------------------------------
(* What may land.                                                          *)

\* Whatever a merge or a squash of an attested head changes on the protected
\* base is what was validated, in every history (attestation.py refuses a note
\* whose base is not the only merge base).
THEOREM ValidatedLands == Spec => []LandedIsValidated
<1>1. LandedIsValidated
  <2> SUFFICES ASSUME NEW note \in Notes, Verified(note),
                      NEW p \in Differs(TreeOf(base), Lands("merge", head)), Clean(Lands("merge", head))
               PROVE  /\ Lands("merge", head)[p] = TreeOf(head)[p]
                      /\ Lands("merge", head)[p] # TreeOf(note.base)[p]
    BY DEF LandedIsValidated
  <2>1. Lands("merge", head) = Merge3(TreeOf(note.base), TreeOf(base), TreeOf(head))
    BY VerifiedOldTree DEF Lands, MergeTree, Verified, TreeOf
  <2>2. p \in Differs(TreeOf(note.base), TreeOf(head)) /\ Lands("merge", head)[p] \in {TreeOf(head)[p], Conflict}
    BY <2>1, MergeTakesChanges
  <2> QED BY <2>2 DEF Differs, Clean
<1> QED BY <1>1, PTL

\* The tests are skipped only when no merge or squash changes anything but
\* documentation (verify_evidence accepts the gap only then).
THEOREM UntestedLands == Spec => []UntestedIsDocumentation
<1>1. GraphInv => UntestedIsDocumentation
  <2> SUFFICES ASSUME GraphInv, NEW note \in Notes, Verified(note), TestsNotApplicable(note),
                      NEW p \in Differs(TreeOf(base), Lands("merge", head))
               PROVE  p \in Documents
    BY DEF UntestedIsDocumentation
  <2>1. Lands("merge", head) = Merge3(TreeOf(note.base), TreeOf(base), TreeOf(head))
    BY VerifiedOldTree DEF Lands, MergeTree, Verified, TreeOf
  <2>2. p \in Differs(TreeOf(note.base), TreeOf(head))
    BY <2>1, MergeTakesChanges
  <2>3. MergeBase(graph, note.base, note.sha) = note.base
    BY MergeBaseOfAncestor DEF GraphInv, Notes, Commits
  <2>4. p \in ChangedFiles(graph, note.base, note.sha)
    BY <2>2, <2>3 DEF ChangedFiles, TreeOf, Verified
  <2> QED BY <2>4 DEF TestsNotApplicable, ClassifiedFiles
<1> QED BY <1>1, GraphStands, PTL

-----------------------------------------------------------------------------
(* What a rebase replays.                                                   *)

\* The table that Replay is read from: the tree after each commit of the graph.
Replayed(g, b, h, f, m) ==
  f = [c \in 0..m |->
         IF c = 0 THEN g[b].tree
         ELSE IF c \in Contribution(g, b, h) /\ Clean(f[c - 1])
              THEN Merge3(g[g[c].parents[1]].tree, f[c - 1], g[c].tree)
              ELSE f[c - 1]]

\* There is such a table for every history.
LEMMA ReplayTable ==
  ASSUME NEW g, Len(g) \in Nat, NEW b, NEW h
  PROVE  \E f : Replayed(g, b, h, f, Len(g)) /\ Replay(g, b, h) = f[Len(g)]
<1> DEFINE F == {m \in Nat : \E f : Replayed(g, b, h, f, m)}
           Next1(f, c) == IF c \in Contribution(g, b, h) /\ Clean(f[c - 1])
                          THEN Merge3(g[g[c].parents[1]].tree, f[c - 1], g[c].tree)
                          ELSE f[c - 1]
<1>1. 0 \in F
  <2> DEFINE f == [c \in 0..0 |-> g[b].tree]
  <2>1. Replayed(g, b, h, f, 0)
    BY DEF Replayed
  <2> QED BY <2>1
<1>2. ASSUME NEW m \in Nat, m \in F PROVE m + 1 \in F
  <2>1. PICK f : Replayed(g, b, h, f, m)
    BY <1>2
  <2> DEFINE last == Next1(f, m + 1)
             k == [c \in 0..(m + 1) |-> IF c = m + 1 THEN last ELSE f[c]]
  <2>2. \A c \in 0..m : f[c] = IF c = 0 THEN g[b].tree ELSE Next1(f, c)
    BY <2>1 DEF Replayed
  <2> HIDE DEF last
  <2>3. k[m + 1] = last /\ \A c \in 0..m : k[c] = f[c]
    OBVIOUS
  <2> HIDE DEF k
  <2>4. ASSUME NEW c \in 0..(m + 1)
        PROVE  k[c] = IF c = 0 THEN g[b].tree ELSE Next1(k, c)
    <3>1. CASE c = m + 1
      <4>1. k[c - 1] = f[m] /\ c # 0 /\ c - 1 = m
        BY <2>3, <3>1
      <4>2. last = Next1(f, m + 1) /\ (m + 1) - 1 = m
        BY DEF last
      <4> QED BY <2>3, <3>1, <4>1, <4>2
    <3>2. CASE c = 0
      BY <2>2, <2>3, <3>2
    <3>3. CASE c # m + 1 /\ c # 0
      <4>1. c \in 0..m /\ c - 1 \in 0..m
        BY <3>3
      <4>2. k[c] = f[c] /\ k[c - 1] = f[c - 1]
        BY <2>3, <4>1
      <4> QED BY <2>2, <3>3, <4>1, <4>2
    <3> QED BY <3>1, <3>2, <3>3
  <2>5. k = [c \in 0..(m + 1) |-> k[c]]
    BY DEF k
  <2>6. Replayed(g, b, h, k, m + 1)
    BY <2>4, <2>5 DEF Replayed
  <2> QED BY <2>6
<1>3. Len(g) \in F
  <2> HIDE DEF F
  <2> QED BY <1>1, <1>2, NatSetInduction
<1> DEFINE upTo == CHOOSE f : f = [c \in 0..Len(g) |-> IF c = 0 THEN g[b].tree ELSE Next1(f, c)]
<1>4. upTo = [c \in 0..Len(g) |-> IF c = 0 THEN g[b].tree ELSE Next1(upTo, c)]
  <2>1. \E f : f = [c \in 0..Len(g) |-> IF c = 0 THEN g[b].tree ELSE Next1(f, c)]
    BY <1>3 DEF Replayed
  <2> QED BY <2>1
<1>5. Replay(g, b, h) = upTo[Len(g)]
  BY DEF Replay
<1>6. Replayed(g, b, h, upTo, Len(g))
  <2> HIDE DEF upTo
  <2> QED BY <1>4 DEF Replayed
<1> QED BY <1>5, <1>6

\* Where a rebase went through, a path is as on the base, or as some replayed
\* commit that changes it made it.
LEMMA ReplayTakesCommits ==
  ASSUME NEW g, Len(g) \in Nat, NEW b, NEW h, NEW p \in Path, Clean(Replay(g, b, h))
  PROVE  \/ Replay(g, b, h)[p] = g[b].tree[p]
         \/ \E c \in Contribution(g, b, h) :
              p \in CommitFiles(g, c) /\ Replay(g, b, h)[p] = g[c].tree[p]
<1>1. PICK f : Replayed(g, b, h, f, Len(g)) /\ Replay(g, b, h) = f[Len(g)]
  BY ReplayTable
<1> DEFINE Holds(tree) == Clean(tree) =>
             \/ tree[p] = g[b].tree[p]
             \/ \E c \in Contribution(g, b, h) : p \in CommitFiles(g, c) /\ tree[p] = g[c].tree[p]
           F == {m \in Nat : m <= Len(g) => Holds(f[m])}
<1>2. f[0] = g[b].tree
  BY <1>1 DEF Replayed
<1>3. \A m \in Nat : m + 1 <= Len(g) =>
        f[m + 1] = IF m + 1 \in Contribution(g, b, h) /\ Clean(f[m])
                   THEN Merge3(g[g[m + 1].parents[1]].tree, f[m], g[m + 1].tree)
                   ELSE f[m]
  <2>1. \A c \in 0..Len(g) : f[c] =
         IF c = 0 THEN g[b].tree
         ELSE IF c \in Contribution(g, b, h) /\ Clean(f[c - 1])
              THEN Merge3(g[g[c].parents[1]].tree, f[c - 1], g[c].tree)
              ELSE f[c - 1]
    BY <1>1 DEF Replayed
  <2>2. ASSUME NEW m \in Nat, m + 1 <= Len(g)
        PROVE  m + 1 \in 0..Len(g) /\ m + 1 # 0 /\ (m + 1) - 1 = m
    BY <2>2
  <2> QED BY <2>1, <2>2
<1>4. 0 \in F
  BY <1>2
<1>5. ASSUME NEW m \in Nat, m \in F PROVE m + 1 \in F
  <2> SUFFICES ASSUME m + 1 <= Len(g) PROVE Holds(f[m + 1])
    OBVIOUS
  <2>1. Holds(f[m])
    BY <1>5
  <2>2. CASE m + 1 \in Contribution(g, b, h) /\ Clean(f[m])
    <3> DEFINE old == g[g[m + 1].parents[1]].tree
               theirs == g[m + 1].tree
               ours == f[m]
    <3>1. f[m + 1] = Merge3(old, ours, theirs)
      BY <1>3, <2>2
    <3>2. CommitFiles(g, m + 1) = Differs(old, theirs)
      BY DEF CommitFiles
    <3>3. CASE p \in Differs(ours, f[m + 1])
      <4>1. p \in CommitFiles(g, m + 1) /\ f[m + 1][p] \in {theirs[p], Conflict}
        <5> HIDE DEF old, ours, theirs
        <5> QED BY <3>1, <3>2, <3>3, MergeTakesChanges
      <4>2. Clean(f[m + 1]) => f[m + 1][p] # Conflict
        BY DEF Clean
      <4> QED BY <2>2, <4>1, <4>2
    <3>4. CASE f[m + 1][p] = ours[p]
      BY <2>1, <2>2, <3>4
    <3> QED BY <3>3, <3>4 DEF Differs
  <2>3. CASE ~(m + 1 \in Contribution(g, b, h) /\ Clean(f[m]))
    <3>1. f[m + 1] = f[m]
      BY <1>3, <2>3
    <3> QED BY <2>1, <3>1
  <2> QED BY <2>2, <2>3
<1>6. Len(g) \in F
  <2> HIDE DEF F
  <2> QED BY <1>4, <1>5, NatSetInduction
<1> QED BY <1>1, <1>6

-----------------------------------------------------------------------------
(* What was approved.                                                      *)

\* What a policy that asks for an approval finds: a review that stands, of this
\* head or of one that says the same.
LEMMA ApprovalStands ==
  ASSUME ReviewsInv, NEW mode \in Modes, Passes(mode), RequiresApproval
  PROVE  \E a \in ToSet(reviews) : Stands(a, mode) /\ EquivalentHeads(a.on)
<1>1. PICK a \in Approvals(mode) : TRUE
  BY DEF Passes, Approved
<1>2. PICK heads : a \in LatestApprovals(mode, heads)
  BY <1>1 DEF Approvals, Carried
<1>3. PICK i \in DOMAIN reviews :
        a = reviews[i] /\ Considered(mode, reviews[i], heads) /\ reviews[i].state \in Approving
  BY <1>2 DEF LatestApprovals
<1>4. a \in ToSet(reviews)
  BY <1>3 DEF ToSet
<1>5. reviews[i].by \in Person
  <2> DEFINE Rec == [by : Person, state : Decisive \cup Comment, on : Nat]
  <2>1. reviews \in Seq(Rec)
    BY DEF ReviewsInv
  <2>2. reviews[i] \in Rec
    <3> HIDE DEF Rec
    <3> QED BY <1>3, <2>1
  <2> QED BY <2>2
<1>6. Stands(a, mode)
  BY <1>3, <1>5 DEF Considered, Person, Stands
<1>7. EquivalentHeads(a.on)
  BY <1>1 DEF Approvals, Carried, LatestApprovals, Considered, EquivalentHeads
<1> QED BY <1>4, <1>6, <1>7

\* Heads that say the same contribute the same patches.
LEMMA EquivalentPatches ==
  ASSUME NEW approved, EquivalentHeads(approved), NEW c \in Contribution(graph, base, head)
  PROVE  \E d \in Contribution(graph, base, approved) : Patch(graph, c) = Patch(graph, d)
<1>1. CASE approved = head
  BY <1>1
<1>2. CASE approved # head
  <2>1. ContributionPatches(head) = ContributionPatches(approved)
    BY <1>2 DEF EquivalentHeads
  <2>2. DOMAIN ContributionPatches(head) = {Patch(graph, d) : d \in Contribution(graph, base, head)}
    BY DEF ContributionPatches
  <2>3. DOMAIN ContributionPatches(approved) = {Patch(graph, d) : d \in Contribution(graph, base, approved)}
    BY DEF ContributionPatches
  <2>4. Patch(graph, c) \in {Patch(graph, d) : d \in Contribution(graph, base, head)}
    OBVIOUS
  <2>5. Patch(graph, c) \in {Patch(graph, d) : d \in Contribution(graph, base, approved)}
    <3>1. Patch(graph, c) \in DOMAIN ContributionPatches(head)
      BY <2>2, <2>4
    <3>2. Patch(graph, c) \in DOMAIN ContributionPatches(approved)
      BY <2>1, <3>1
    <3> QED BY <2>3, <3>2
  <2> QED BY <2>5
<1> QED BY <1>1, <1>2

\* A head that passes changes high-risk paths as a person approved it: merging
\* or squashing the commit of an approval that stands gives the same tree, and
\* whatever a rebase makes of such a path is the work of a commit whose patch
\* the approved head contributes too (approval.py equivalent_heads).
THEOREM ApprovedLanding == Spec => []ApprovedLands
<1>1. ASSUME ReviewsInv PROVE ApprovedMerges
  <2> SUFFICES ASSUME NEW mode \in Modes, Passes(mode),
                      Differs(TreeOf(base), MergeTree(graph, base, head)) \cap HighRisk # {}
               PROVE  \E a \in ToSet(reviews) :
                        Stands(a, mode) /\ MergeTree(graph, base, a.on) = MergeTree(graph, base, head)
    BY DEF ApprovedMerges, Lands
  <2>1. RequiresApproval
    BY DEF RequiresApproval, ChangedPaths, ClassifiedFiles, MergeResultFiles, TreeOf
  <2>2. PICK a \in ToSet(reviews) : Stands(a, mode) /\ EquivalentHeads(a.on)
    BY <1>1, <2>1, ApprovalStands
  <2>3. MergeTree(graph, base, a.on) = MergeTree(graph, base, head)
    BY <2>2 DEF EquivalentHeads
  <2> QED BY <2>2, <2>3
<1>2. ASSUME GraphInv, ReviewsInv PROVE ApprovedReplays
  <2> DEFINE landed == Replay(graph, base, head)
             risky == Differs(TreeOf(base), landed) \cap HighRisk
  <2> SUFFICES ASSUME NEW mode \in Modes, Passes(mode), Clean(landed), risky # {}
               PROVE  \E a \in ToSet(reviews) :
                        /\ Stands(a, mode)
                        /\ \A p \in risky :
                             \E c \in Contribution(graph, base, head),
                                d \in Contribution(graph, base, a.on) :
                               /\ p \in CommitFiles(graph, c) /\ landed[p] = TreeOf(c)[p]
                               /\ Patch(graph, c) = Patch(graph, d)
    BY DEF ApprovedReplays, Lands
  <2>1. Len(graph) \in Nat
    BY <1>2 DEF GraphInv
  <2>2. ASSUME NEW p \in risky
        PROVE  \E c \in Contribution(graph, base, head) :
                 p \in CommitFiles(graph, c) /\ landed[p] = TreeOf(c)[p]
    <3>1. p \in Path /\ landed[p] # graph[base].tree[p]
      BY DEF Differs, TreeOf
    <3> QED BY <2>1, <3>1, ReplayTakesCommits DEF TreeOf
  <2>3. RequiresApproval
    <3>1. PICK p \in risky : TRUE
      OBVIOUS
    <3>2. PICK c \in Contribution(graph, base, head) : p \in CommitFiles(graph, c)
      BY <2>2
    <3>3. p \in NonMergeCommitFiles(graph, base, head)
      BY <3>2 DEF NonMergeCommitFiles
    <3> QED BY <3>3 DEF RequiresApproval, ChangedPaths
  <2>4. PICK a \in ToSet(reviews) : Stands(a, mode) /\ EquivalentHeads(a.on)
    BY <1>2, <2>3, ApprovalStands
  <2> HIDE DEF landed, risky
  <2>5. ASSUME NEW p \in risky
        PROVE  \E c \in Contribution(graph, base, head), d \in Contribution(graph, base, a.on) :
                 /\ p \in CommitFiles(graph, c) /\ landed[p] = TreeOf(c)[p]
                 /\ Patch(graph, c) = Patch(graph, d)
    <3>1. PICK c \in Contribution(graph, base, head) :
            p \in CommitFiles(graph, c) /\ landed[p] = TreeOf(c)[p]
      BY <2>2
    <3>2. PICK d \in Contribution(graph, base, a.on) : Patch(graph, c) = Patch(graph, d)
      BY <2>4, EquivalentPatches
    <3> QED BY <3>1, <3>2
  <2> QED BY <2>4, <2>5
<1> QED BY <1>1, <1>2, GraphStands, PTL DEF ApprovedLands
=============================================================================
