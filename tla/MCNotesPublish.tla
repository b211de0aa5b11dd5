--------------------------- MODULE MCNotesPublish ---------------------------
(* Two clones and three runs; commit x2 contains commit x1.                *)
EXTENDS NotesPublish, TLC

CONSTANTS a, b, r1, r2, r3, x1, x2, main

HomeOfThree == (r1 :> a @@ r2 :> a @@ r3 :> b)
Publishing(v, w) == [sha |-> v, branch |-> w]
\* r1 and r2 attest one commit in one clone; r3 the same one or its successor.
SameOrNext == {(r1 :> Publishing(x1, main) @@ r2 :> Publishing(x1, main) @@ r3 :> Publishing(x, main)) : x \in {x1, x2}}
InHistory(v, w) == v = w \/ (v = x1 /\ w = x2)
=============================================================================
