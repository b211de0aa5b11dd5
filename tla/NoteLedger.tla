----------------------------- MODULE NoteLedger -----------------------------
(***************************************************************************)
(* What the exchange of attestation notes promises: a ledger of which each *)
(* clone and the remote hold a copy.  A clone learns from the remote and   *)
(* adds notes of its own; the remote takes over a clone's copy only as a   *)
(* whole, and only one that knows everything the remote has.  Nobody       *)
(* forgets a note, and nobody makes one in the name of another.            *)
(***************************************************************************)
CONSTANTS Clone, Note   \* a note is a record that names the clone that wrote it

VARIABLES known, published

vars == <<known, published>>

Init == known = [c \in Clone |-> {}] /\ published = {}

Grow(c) ==
  /\ known[c] \subseteq known'[c] /\ known'[c] \subseteq Note
  /\ \A n \in known'[c] \ (known[c] \cup published) : n.clone = c
  /\ known' = [known EXCEPT ![c] = known'[c]]
  /\ UNCHANGED published

Publish(c) ==
  /\ published \subseteq known[c]
  /\ published' = known[c]
  /\ UNCHANGED known

Next == \E c \in Clone : Grow(c) \/ Publish(c)

Spec == Init /\ [][Next]_vars
=============================================================================
