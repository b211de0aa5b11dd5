--------------------------- MODULE ValidatedPublish ---------------------------
(***************************************************************************)
(* What one validation run promises to whoever reads the published         *)
(* attestation, without any of the steps by which the run gets there:      *)
(* stages are carried out on trees; an attestation vouches for a stage of  *)
(* a commit only if the stage was carried out on the tree of that commit   *)
(* (or, for docs, was shown another tree although it answered for this one);*)
(* what is published is what was attested, once and for all.               *)
(***************************************************************************)
CONSTANTS
  Commit, NoCommit,
  Trees, Tree(_),  \* the trees, and the tree of a commit
  Stages,
  Excused(_, _)    \* the policy excuses the tree from the stage

VARIABLES
  validated,   \* the stages carried out, each with its tree
  torn,        \* the trees whose documentation may have been judged by another
  attested,    \* the commit that the latest attestation names
  vouched,     \* the stages that it vouches for
  published,   \* the commit that was published
  phase        \* "open", then perhaps "published", then "closed"

promised == <<validated, torn, attested, vouched, published, phase>>

Init ==
  /\ validated = {} /\ torn = {} /\ vouched = {}
  /\ attested = NoCommit /\ published = NoCommit
  /\ phase = "open"

\* One stage is carried out on one tree.
Validate ==
  /\ phase = "open"
  /\ \E result \in validated' : /\ result \in Stages \X Trees
                               /\ validated' = validated \cup {result}
  /\ UNCHANGED <<torn, attested, vouched, published, phase>>

\* A checkout moves while its documentation context is read.
Tear ==
  /\ phase = "open"
  /\ \E tree \in torn' : tree \in Trees /\ torn' = torn \cup {tree}
  /\ UNCHANGED <<validated, attested, vouched, published, phase>>

Attest ==
  /\ phase = "open"
  /\ attested' \in Commit /\ vouched' \subseteq Stages
  /\ \A s \in vouched' : \/ <<s, Tree(attested')>> \in validated
                         \/ Excused(s, Tree(attested'))
                         \/ s = "docs" /\ Tree(attested') \in torn
  /\ UNCHANGED <<validated, torn, published, phase>>

Publish ==
  /\ phase = "open" /\ attested # NoCommit
  /\ published' = attested /\ phase' = "published"
  /\ UNCHANGED <<validated, torn, attested, vouched>>

Close ==
  /\ phase # "closed" /\ phase' = "closed"
  /\ UNCHANGED <<validated, torn, attested, vouched, published>>

Next == Validate \/ Tear \/ Attest \/ Publish \/ Close

Spec == Init /\ [][Next]_promised
=============================================================================
