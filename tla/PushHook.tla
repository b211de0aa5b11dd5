------------------------------ MODULE PushHook ------------------------------
(***************************************************************************)
(* The decision of the pre-push hook (hook.py): one `git push` is a        *)
(* sequence of ref updates, each exempt, refused, already on the remote or *)
(* in need of an attestation.  The first update that blocks decides.       *)
(***************************************************************************)
EXTENDS Sequences

CONSTANTS
  Commit, NoCommit,
  Branch,            \* the branches of the remote
  IsAncestor(_, _)   \* between commits; reflexive

Exemptions == {"deletion", "attestation_note", "evidence_ref", "tag"}

\* ref is where the update goes: a branch, or the kind of an exempt ref.
RefUpdate == [ref : Branch \cup (Exemptions \ {"deletion"}), from : Commit \cup {NoCommit},
              to : Commit \cup {NoCommit}]

Exemption(u) == IF u.to = NoCommit THEN "deletion"
                ELSE IF u.ref \in Exemptions THEN u.ref ELSE "none"

Forced(u) == u.from # NoCommit /\ ~IsAncestor(u.from, u.to)
OnRemote(u) == u.from # NoCommit /\ IsAncestor(u.to, u.from)

\* (mutant) a tip that contains what the remote has counts as known to it.
OutcomeBehind(u, attested, mayForce) ==
  IF Exemption(u) # "none" THEN Exemption(u)
  ELSE IF Forced(u) /\ ~mayForce THEN "force_push_refused"
  ELSE IF u.from # NoCommit THEN "already_on_remote"
  ELSE IF u.to \notin attested THEN "missing_attestation" ELSE "attested"

\* attested: the commits whose note the clone can verify; mayForce: its
\* [hook] allow_force_push.
Outcome(u, attested, mayForce) ==
  IF Exemption(u) # "none" THEN Exemption(u)
  ELSE IF Forced(u) /\ ~mayForce THEN "force_push_refused"
  ELSE IF OnRemote(u) THEN "already_on_remote"
  ELSE IF u.to \notin attested THEN "missing_attestation" ELSE "attested"

Blocking == {"force_push_refused", "missing_attestation"}

Allowed(updates, attested, mayForce) ==
  \A n \in DOMAIN updates : Outcome(updates[n], attested, mayForce) \notin Blocking
=============================================================================
