--------------------------- MODULE MCRunLifecycle ---------------------------
(* Instances of RunLifecycle for TLC: small sets of patches and branches. *)
EXTENDS RunLifecycle

CONSTANTS
  work,      \* the change under validation
  fix, fix2, \* repairs the agent may commit
  doc,       \* a repair of documentation only
  human,     \* something a person commits on the source branch
  upstream   \* what the base has that the branch does not

OneBranch == {<<work>>}
DocBranch == {<<doc>>}
EitherBranch == {<<work>>, <<doc>>}
NoUpstream == <<>>
Ahead == <<upstream>>

\* No path of the change is sensitive, or one repair touches such a path.
LowPaths == [p \in Patch |-> "low"]
SensitiveFix == [p \in Patch |-> IF p = fix THEN "medium" ELSE "low"]

Blocks == {<<"blocking", "low">>}
BlocksOrNotes == {<<"blocking", "low">>, <<"note", "medium">>}
BlocksOrFixes == {<<"blocking", "high">>, <<"auto_fix", "low">>}
=============================================================================
