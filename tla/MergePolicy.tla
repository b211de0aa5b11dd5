------------------------------ MODULE MergePolicy ------------------------------
(***************************************************************************)
(* Whether a pull request may be merged: its head is attested against the  *)
(* protected base (attestation.py, refresh_validation.py), the change is   *)
(* classified by the paths it touches, and a high-risk one needs a human   *)
(* approval, of this head or of an earlier one that says the same          *)
(* (approval.py).  Meanwhile the author edits, merges the base, resets or  *)
(* rebases the branch, the base advances, and reviews come and go.         *)
(***************************************************************************)
EXTENDS GitGraph

CONSTANTS
  HighRisk,    \* the paths that need a human by the protected policy
  Documents,   \* the paths whose change needs no tests
  Modes,       \* of approval, in the protected configuration: "peer_review", "owner_review"
  Owner,       \* the reviewer of owner_review, who may be the author
  Start,       \* the tree of the first commit
  MaxCommits,
  MaxReviews,
  MaxSize      \* commits and reviews together

ASSUME StartAssumption == Start \in Tree

VARIABLES
  graph,    \* the commits of the repository
  base,     \* the protected branch
  head,     \* the head of the pull request
  reviews   \* in the order of their ids

vars == <<graph, base, head, reviews>>

Person == {"author", "peer"}
\* "approved" is a Comment review that says just that.
Decisive == {"APPROVED", "CHANGES_REQUESTED", "DISMISSED"}
Comment == {"COMMENTED", "approved"}
Approving == {"APPROVED", "approved"}
Commits == 1..Len(graph)
TreeOf(c) == graph[c].tree

Init ==
  /\ graph = <<Commit(<<>>, <<>>, Start)>>
  /\ base = 1 /\ head = 1 /\ reviews = <<>>

-----------------------------------------------------------------------------
(* attestation.verify_value against a protected base.                      *)

\* An attestation names a commit and the merge base it was validated against.
\* Every commit may have been validated against every commit before it: a
\* repository holds some of these notes.
Notes == {n \in [sha : Commits, base : Commits] : n.base \in graph[n.sha].past \ {n.sha}}

\* (mutant) one of the merge bases is enough.
VerifyAnyMergeBase(note) == note.base \in MergeBases(graph, base, note.sha)

\* verify_merge_base: the only one.
VerifyMergeBase(note) == MergeBases(graph, base, note.sha) = {note.base}

\* (mutant) what the merges of the branch change themselves is not seen.
TestsNotApplicableByCommits(note) ==
  LET changed == NonMergeCommitFiles(graph, note.base, note.sha)
  IN changed # {} /\ changed \subseteq Documents

\* tests_are_not_applicable: the run skipped the tests, and verify_evidence
\* accepts that.
TestsNotApplicable(note) ==
  LET changed == ClassifiedFiles(graph, note.base, note.sha)
  IN changed # {} /\ changed \subseteq Documents

Verified(note) == note.sha = head /\ VerifyMergeBase(note)

-----------------------------------------------------------------------------
(* approval.evaluate_value.                                                *)

\* Which reviews latest_approvals looks at: a peer's decisive ones, the
\* owner's decisive ones, or when the owner is the author, the comments.
Considered(mode, review, heads) ==
  /\ review.on \in heads
  /\ IF mode = "owner_review" THEN review.by = Owner ELSE review.by # "author"
  /\ review.state \in Comment => mode = "owner_review" /\ review.by = "author"

\* The latest considered review of each reviewer, when it approves.
LatestApprovals(mode, heads) ==
  {reviews[i] : i \in {i \in DOMAIN reviews :
     /\ Considered(mode, reviews[i], heads) /\ reviews[i].state \in Approving
     /\ \A j \in DOMAIN reviews :
          Considered(mode, reviews[j], heads) /\ reviews[j].by = reviews[i].by => j <= i}}

\* How often each patch is contributed.
ContributionPatches(c) ==
  LET mine == Contribution(graph, base, c)
  IN [patch \in {Patch(graph, d) : d \in mine} |->
        Cardinality({d \in mine : Patch(graph, d) = patch})]

\* (mutant) the commits are not compared.
EquivalentTrees(approved) ==
  \/ approved = head
  \/ LET landed == MergeTree(graph, base, approved) IN
     /\ ChangedFiles(graph, base, approved) = ChangedFiles(graph, base, head)
     /\ Clean(landed) /\ landed = MergeTree(graph, base, head)

\* equivalent_heads, for an approved commit that is there or can be fetched.
EquivalentHeads(approved) ==
  \/ approved = head
  \/ LET integrated == MergeTree(graph, approved, MergeBase(graph, base, head))
         landed == MergeTree(graph, base, approved) IN
     /\ ChangedFiles(graph, base, approved) = ChangedFiles(graph, base, head)
     /\ RangePatchId(graph, base, approved) # {}
     /\ RangePatchId(graph, base, approved) = RangePatchId(graph, base, head)
     /\ Clean(integrated) /\ integrated = TreeOf(head)
     /\ Clean(landed) /\ landed = MergeTree(graph, base, head)
     /\ ContributionPatches(head) = ContributionPatches(approved)

Carried(mode) == {a \in LatestApprovals(mode, Commits) : EquivalentHeads(a.on)}

\* Every path that any way of merging could change.
ChangedPaths == ClassifiedFiles(graph, base, head) \cup NonMergeCommitFiles(graph, base, head)
RequiresApproval == ChangedPaths \cap HighRisk # {}

Approvals(mode) == IF LatestApprovals(mode, {head}) # {} THEN LatestApprovals(mode, {head}) ELSE Carried(mode)
Approved(mode) == RequiresApproval => Approvals(mode) # {}

-----------------------------------------------------------------------------
(* The people.                                                             *)

Room == Len(graph) + Len(reviews) < MaxSize
Adds(parents, tree) ==
  /\ Len(graph) < MaxCommits /\ Room
  /\ graph' = Append(graph, Commit(graph, parents, tree))
Edited(c) == {tree \in Tree : Cardinality(Differs(TreeOf(c), tree)) = 1}

\* The author edits a file, merges the base in whatever way, or resets the
\* branch; a rebase is a reset to the base and the edits again.
Edit ==
  /\ \E tree \in Edited(head) : Adds(<<head>>, tree)
  /\ head' = Len(graph) + 1
  /\ UNCHANGED <<base, reviews>>

MergeIn ==
  /\ base \notin graph[head].past
  /\ \E tree \in Tree : Adds(<<head, base>>, tree)
  /\ head' = Len(graph) + 1
  /\ UNCHANGED <<base, reviews>>

\* A head that was not reviewed and is not in the base leaves nothing behind:
\* dropping it is as if it had never been made.
Reset ==
  /\ head \in graph[base].past \cup {review.on : review \in ToSet(reviews)}
  /\ head' \in Commits \ {head}
  /\ UNCHANGED <<graph, base, reviews>>

\* Other pull requests are merged; one of them may contain commits of this one.
Advance ==
  /\ \/ \E tree \in Edited(base) : Adds(<<base>>, tree)
     \/ \E c \in Commits \ graph[base].past :
          Clean(MergeTree(graph, base, c)) /\ Adds(<<base, c>>, MergeTree(graph, base, c))
  /\ base' = Len(graph) + 1
  /\ UNCHANGED <<head, reviews>>

Review ==
  /\ Len(reviews) < MaxReviews /\ Room
  /\ \E by \in Person :
       \E state \in IF by = "author" THEN {"approved"} ELSE {"APPROVED", "CHANGES_REQUESTED"} :
         reviews' = Append(reviews, [by |-> by, state |-> state, on |-> head])
  /\ UNCHANGED <<graph, base, head>>

\* A review keeps its id when it is dismissed or its text is edited.
Withdraw ==
  /\ \E i \in DOMAIN reviews :
       /\ reviews[i].state \in Approving
       /\ reviews' = [reviews EXCEPT ![i].state = IF @ \in Comment THEN "COMMENTED" ELSE "DISMISSED"]
  /\ UNCHANGED <<graph, base, head>>

Next == Edit \/ MergeIn \/ Reset \/ Advance \/ Review \/ Withdraw
Spec == Init /\ [][Next]_vars

-----------------------------------------------------------------------------
Passes(mode) == (\E note \in Notes : Verified(note)) /\ Approved(mode)

\* What landing a commit on the base makes of it.  A squash lands what a merge
\* does.
Lands(method, c) ==
  IF method = "rebase" THEN Replay(graph, base, c) ELSE MergeTree(graph, base, c)

\* Whatever a merge or a squash of an attested head changes is what was
\* validated, however the base and the branch moved in between.
LandedIsValidated ==
  \A note \in Notes : Verified(note) =>
    LET landed == Lands("merge", head) IN
    \A p \in Differs(TreeOf(base), landed) : Clean(landed) =>
      landed[p] = TreeOf(head)[p] /\ landed[p] # TreeOf(note.base)[p]

\* The tests are missing only if no merge or squash changes anything else than
\* documentation.
UntestedIsDocumentation ==
  \A note \in Notes : Verified(note) /\ TestsNotApplicable(note) =>
    Differs(TreeOf(base), Lands("merge", head)) \subseteq Documents

\* An approval that stands, of somebody whose approval the mode asks for.
Stands(review, mode) ==
  /\ review.state \in Approving
  /\ review.by = IF mode = "owner_review" THEN Owner ELSE "peer"

\* A head that passes changes high-risk paths by a merge or a squash only as a
\* person approved it: landing the commit of an approval that was not withdrawn
\* gives the same.
ApprovedMerges ==
  \A mode \in Modes : Passes(mode) =>
    LET landed == Lands("merge", head) IN
    Differs(TreeOf(base), landed) \cap HighRisk # {} =>
      \E a \in ToSet(reviews) : Stands(a, mode) /\ Lands("merge", a.on) = landed

\* By a rebase, whatever a high-risk path becomes was put there by a commit with
\* the patch of a commit that one such approval covers.  (The order in which
\* they follow each other may be another.)
ApprovedReplays ==
  \A mode \in Modes : Passes(mode) =>
    LET landed == Lands("rebase", head)
        risky == Differs(TreeOf(base), landed) \cap HighRisk IN
    Clean(landed) /\ risky # {} =>
      \E a \in ToSet(reviews) :
        /\ Stands(a, mode)
        /\ \A p \in risky :
             \E c \in Contribution(graph, base, head), d \in Contribution(graph, base, a.on) :
               /\ p \in CommitFiles(graph, c) /\ landed[p] = TreeOf(c)[p]
               /\ Patch(graph, c) = Patch(graph, d)

\* Whichever way a head that passes is merged, a person saw what it does to the
\* paths of high risk.
ApprovedLands == ApprovedMerges /\ ApprovedReplays
=============================================================================
