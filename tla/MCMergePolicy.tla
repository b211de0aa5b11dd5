----------------------------- MODULE MCMergePolicy -----------------------------
(* Two files: code, which is of high risk, and a text.  Two contents of the   *)
(* code differ in their whitespace only, and are interchangeable.            *)
EXTENDS MergePolicy, TLC

CONSTANTS b1, b2

ContentOf(p) == IF p = "code" THEN {"a", b1, b2} ELSE {"a", "b"}
Spaceless(content) == IF content \in {b1, b2} THEN "b" ELSE content
AllA == [p \in {"code", "text"} |-> "a"]
Whitespace == Permutations({b1, b2})
=============================================================================
