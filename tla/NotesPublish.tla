---------------------------- MODULE NotesPublish ----------------------------
(***************************************************************************)
(* How attestations travel.  Runs in several clones of one repository      *)
(* synchronize the notes ref with the remote when they start (sync.py),    *)
(* write the note of the commit they attested (attestation.write, called   *)
(* from mergeback.py) and publish note, evidence and branch (publish.py).  *)
(* Each of these holds the lock "notes" of its clone; nothing locks the    *)
(* remote.  Any command can be killed, and the answer of the remote to a   *)
(* push can be lost.  Besides, a person pushes by hand through the         *)
(* pre-push hook.                                                          *)
(***************************************************************************)
EXTENDS NotesRef, SequencesExt

CONSTANTS
  Branch,            \* the branches of the remote
  Heads,             \* what the runs may publish: the commit and the branch of each
  IsAncestor(_, _),  \* between commits
  MayForce,          \* the clones with [hook] allow_force_push
  MaxEvents          \* killed commands, lost answers and pushes by a person

ASSUME HeadsAssumption == Heads \subseteq [Run -> [sha : Commit, branch : Branch]]
\* A branch is not one of the exempt kinds of ref.
ASSUME BranchAssumption == Branch \cap {"deletion", "attestation_note", "evidence_ref", "tag"} = {}
ASSUME AncestorAssumption ==
  /\ \A x \in Commit : IsAncestor(x, x)
  /\ \A x, y, z \in Commit : IsAncestor(x, y) /\ IsAncestor(y, z) => IsAncestor(x, z)
ASSUME EventsAssumption == MaxEvents \in Nat

VARIABLES
  head,       \* the commit and the branch each run publishes
  notes,      \* the notes ref of each clone
  retained,   \* the runs whose evidence commits each clone keeps
  remote,     \* the notes ref, the evidence refs and the branches of the remote
  at,         \* how far the command of each run is
  seen,       \* the history it fetched
  vouched,    \* the note push verified before it took the lock
  unchecked,  \* (history) commits the hook let through unevaluated
  events      \* how many commands were killed, answers lost and pushes made by hand

vars == <<head, notes, retained, remote, at, seen, vouched, unchecked, events>>

Hook == INSTANCE PushHook
Ledger == INSTANCE NoteLedger
  WITH Note <- NotesCommit, known <- notes, published <- remote.notes

Waiting == {"new", "working", "attested", "pushed"}
WriteSteps == {"note", "record_note"}
PushSteps == {"push_reconcile", "push_evidence", "push_refs", "record_push"}

TypeOK ==
  /\ head \in [Run -> [sha : Commit, branch : Branch]]
  /\ \A c \in Clone : notes[c] \subseteq NotesCommit
  /\ retained \in [Clone -> SUBSET Run]
  /\ remote.notes \subseteq NotesCommit /\ remote.evidence \subseteq Run
  /\ remote.tip \in [Branch -> Commit \cup {NoCommit}]
  /\ at \in [Run -> Waiting \cup {"sync_reconcile"} \cup WriteSteps \cup PushSteps]
  /\ \A r \in Run : IF at[r] \in Waiting THEN seen[r] = {} ELSE seen[r] \subseteq NotesCommit
  /\ unchecked \subseteq Commit /\ events \in 0..MaxEvents

Init ==
  /\ head \in Heads
  /\ notes = [c \in Clone |-> {}] /\ retained = [c \in Clone |-> {}]
  /\ remote = [notes |-> {}, evidence |-> {}, tip |-> [b \in Branch |-> NoCommit]]
  /\ at = [r \in Run |-> "new"]
  /\ seen = [r \in Run |-> {}] /\ vouched = [r \in Run |-> NoNote]
  /\ unchecked = {} /\ events = 0

\* attestation.verify in one clone: the note, and the evidence commits present.
Verified(c, x) ==
  /\ NoteOf(notes[c], x) # NoNote
  /\ NoteOf(notes[c], x).evidence \subseteq retained[c]

Attested(c) == {x \in Commit : Verified(c, x)}

LockFree(c) == \A r \in Run : Home[r] = c => at[r] \in Waiting

Goto(r, step) == at' = [at EXCEPT ![r] = step]

Disturb == events < MaxEvents /\ events' = events + 1

Enter(r, from, to) == at[r] = from /\ LockFree(Home[r]) /\ Goto(r, to)

\* Where an error, or a new attempt after a kill, takes the command of a run.
Entry(step) == CASE step = "sync_reconcile" -> "new" [] step \in WriteSteps -> "working"
                 [] OTHER -> "attested"

\* (mutant) the temporary ref stays.
GiveUpLeaving(r) ==
  /\ Goto(r, Entry(at[r]))
  /\ UNCHANGED seen /\ vouched' = [vouched EXCEPT ![r] = NoNote]

\* A command that fails drops the ref it fetched into and its copy of the note.
GiveUp(r) ==
  /\ Goto(r, Entry(at[r]))
  /\ seen' = [seen EXCEPT ![r] = {}] /\ vouched' = [vouched EXCEPT ![r] = NoNote]

\* fetch_notes, first half: the remote's notes into a ref of this process.
Fetch(r) == seen' = [seen EXCEPT ![r] = remote.notes]

BeginSync(r) ==
  /\ Enter(r, "new", "sync_reconcile") /\ Fetch(r)
  /\ UNCHANGED <<head, notes, retained, remote, vouched, unchecked, events>>

\* push verifies before it takes the lock.
VerifyPush(r) ==
  /\ at[r] = "attested" /\ vouched[r] = NoNote /\ Verified(Home[r], head[r].sha)
  /\ vouched' = [vouched EXCEPT ![r] = NoteOf(notes[Home[r]], head[r].sha)]
  /\ UNCHANGED <<head, notes, retained, remote, at, seen, unchecked, events>>

BeginPush(r) ==
  /\ vouched[r] # NoNote /\ Enter(r, "attested", "push_reconcile") /\ Fetch(r)
  /\ UNCHANGED <<head, notes, retained, remote, vouched, unchecked, events>>

\* Second half: the clone keeps its notes, takes the remote's or merges both.
Reconciled(c, theirs) ==
  CASE Verdict(notes[c], theirs) = "keep" -> notes[c]
    [] Verdict(notes[c], theirs) = "take" -> theirs
    [] OTHER -> Merged(c, notes[c], theirs)

Conflicts(c, theirs) == Verdict(notes[c], theirs) = "merge" /\ Conflict(notes[c], theirs)

\* (mutant) push trusts what it verified before the lock.
StillVouchedUnread(r) == NoteOf(notes[Home[r]], head[r].sha) = vouched[r]

\* push: the note must still be the one that was verified.
StillVouched(r) == NoteOf(notes'[Home[r]], head[r].sha) = vouched[r]

\* A merge that stops on a conflict is aborted, and the command fails.
Reconcile(r) ==
  LET c == Home[r] IN
  /\ at[r] \in {"sync_reconcile", "push_reconcile"}
  /\ IF Conflicts(c, seen[r]) THEN GiveUp(r) /\ UNCHANGED notes
     ELSE /\ notes' = [notes EXCEPT ![c] = Reconciled(c, seen[r])]
          /\ IF at[r] = "push_reconcile" /\ ~StillVouched(r) THEN GiveUp(r)
             ELSE /\ Goto(r, IF at[r] = "sync_reconcile" THEN "working" ELSE "push_evidence")
                  /\ seen' = [seen EXCEPT ![r] = {}] /\ UNCHANGED vouched
  /\ UNCHANGED <<head, retained, remote, unchecked, events>>

\* attestation.write: first the evidence refs, then the note.
BeginWrite(r) ==
  /\ Enter(r, "working", "note")
  /\ retained' = [retained EXCEPT ![Home[r]] = @ \cup {r}]
  /\ UNCHANGED <<head, notes, remote, seen, vouched, unchecked, events>>

WriteNote(r) ==
  /\ at[r] = "note" /\ Goto(r, "record_note")
  /\ notes' = [notes EXCEPT ![Home[r]] = Written(@, Home[r], head[r].sha, {r})]
  /\ UNCHANGED <<head, retained, remote, seen, vouched, unchecked, events>>

\* The transaction that records MERGEBACK_OK or PUSH.
Record(r) ==
  /\ \/ at[r] = "record_note" /\ Goto(r, "attested")
     \/ at[r] = "record_push" /\ Goto(r, "pushed")
  /\ vouched' = [vouched EXCEPT ![r] = NoNote]
  /\ UNCHANGED <<head, notes, retained, remote, seen, unchecked, events>>

PushEvidence(r) ==
  /\ at[r] = "push_evidence" /\ Goto(r, "push_refs")
  /\ remote' = [remote EXCEPT !.evidence = @ \cup vouched[r].evidence]
  /\ UNCHANGED <<head, notes, retained, seen, vouched, unchecked, events>>

FastForward(b, x) == remote.tip[b] = NoCommit \/ IsAncestor(remote.tip[b], x)

Update(b, x) == [ref |-> b, from |-> IF b \in Branch THEN remote.tip[b] ELSE NoCommit, to |-> x]

Passes(c, updates) == Hook!Allowed(updates, Attested(c), c \in MayForce)

\* `git push` runs the hook; then the remote wants a fast-forward of the branch
\* and of the notes ref, and moves both together or neither.
Accepted(r) ==
  /\ Passes(Home[r], <<Update(head[r].branch, head[r].sha)>>)
  /\ FastForward(head[r].branch, head[r].sha)
  /\ remote.notes \subseteq notes[Home[r]]

\* (mutant) a rejected push is repeated without fetching again.
PushRefsAgain(r) ==
  /\ at[r] = "push_refs" /\ Accepted(r)
  /\ remote' = [remote EXCEPT !.tip[head[r].branch] = head[r].sha, !.notes = notes[Home[r]]]
  /\ Goto(r, "record_push")
  /\ UNCHANGED <<head, notes, retained, seen, vouched, unchecked, events>>

PushRefs(r) ==
  /\ at[r] = "push_refs"
  /\ IF Accepted(r)
     THEN /\ remote' = [remote EXCEPT !.tip[head[r].branch] = head[r].sha,
                                      !.notes = IF @ \subseteq notes[Home[r]] THEN notes[Home[r]] ELSE @]
          /\ \/ Goto(r, "record_push") /\ UNCHANGED <<seen, vouched, events>>
             \/ GiveUp(r) /\ Disturb   \* the answer is lost
     ELSE GiveUp(r) /\ UNCHANGED <<remote, events>>
  /\ UNCHANGED <<head, notes, retained, unchecked>>

Kill(r) ==
  /\ at[r] \notin Waiting /\ Disturb
  /\ GiveUp(r)
  /\ UNCHANGED <<head, notes, retained, remote, unchecked>>

Wishes ==
  [ref : Branch, to : Commit \cup {NoCommit}] \cup [ref : {"attestation_note", "tag"}, to : Commit]

Moved(updates) == {u \in updates : u.ref \in Branch}
Shares(updates) == \E u \in updates : u.ref = "attestation_note"
TipsAfter(updates) ==
  [b \in Branch |-> IF \E u \in Moved(updates) : u.ref = b
                    THEN (CHOOSE u \in Moved(updates) : u.ref = b).to ELSE remote.tip[b]]

\* The hook of the clone judges all updates before any is made; a configuration
\* it cannot load lets them pass unevaluated.  The notes ref is not forced.
PushByHand(c, updates) ==
  /\ \A u, v \in updates : u.ref = v.ref => u = v
  /\ Shares(updates) => remote.notes \subseteq notes[c]
  /\ \/ Passes(c, SetToSeq(updates)) /\ UNCHANGED unchecked
     \/ unchecked' = unchecked \cup ({u.to : u \in Moved(updates)} \ {NoCommit})
  /\ remote' = [remote EXCEPT !.tip = TipsAfter(updates),
                              !.notes = IF Shares(updates) THEN notes[c] ELSE @]

\* A person pushes one or two refs, with --force when a branch needs it.
HandPush(c) ==
  /\ Disturb
  /\ \E v, w \in Wishes : PushByHand(c, {Update(v.ref, v.to), Update(w.ref, w.to)})
  /\ UNCHANGED <<head, notes, retained, at, seen, vouched>>

\* What the command of a run does once it holds the lock.
Step(r) ==
  \/ Reconcile(r) \/ WriteNote(r) \/ Record(r) \/ PushEvidence(r) \/ PushRefs(r)

Begin(r) == BeginSync(r) \/ BeginWrite(r) \/ BeginPush(r)

Next ==
  \/ \E r \in Run : Begin(r) \/ VerifyPush(r) \/ Step(r) \/ Kill(r)
  \/ \E c \in Clone : HandPush(c)

\* A command goes on once it runs; the agent repeats a failed command, and the
\* lock gives each waiter its turn (filelock.exclusive waits for it).
Fairness ==
  \A r \in Run : WF_vars(Step(r)) /\ WF_vars(VerifyPush(r)) /\ SF_vars(Begin(r))

Spec == Init /\ [][Next]_vars /\ Fairness

-----------------------------------------------------------------------------
\* What a push shows to the world is what push verified: when the branch
\* moves, the remote's note of the commit is the verified one and its evidence
\* is already there, whatever other clones pushed in between.
PublishesWhatItVerified ==
  [][\A r \in Run : at[r] = "push_refs" /\ at'[r] = "record_push" =>
        /\ remote'.tip[head[r].branch] = head[r].sha
        /\ NoteOf(remote'.notes, head[r].sha) = vouched[r]
        /\ vouched[r].evidence \subseteq remote'.evidence]_vars

\* No fetch, merge or push ever loses a note, in a clone or on the remote, and
\* the remote only moves to a history that contains its own.
NothingIsForgotten == Ledger!Spec

\* Two notes of one commit are never merged silently: each was written by a
\* clone that had seen the one it replaces, so one never hides the other
\* (`notes merge -s manual` stops instead).
NotesAreChained ==
  \A h \in {remote.notes} \cup {notes[c] : c \in Clone} : \A x \in Commit :
    \A v, w \in WritesOf(h, x) : v.replaces = w.replaces => v = w

\* Every branch of the remote ends in a commit some clone can verify, in one
\* that is part of such a commit, or in one the hook let pass because it could
\* not load its configuration.
TipsAreAttested ==
  \A b \in Branch : remote.tip[b] # NoCommit =>
    \E x \in unchecked \cup UNION {Attested(c) : c \in Clone} : IsAncestor(remote.tip[b], x)

\* What the code leaves to a person: the clone and the remote hold different
\* notes of one commit, the remote branch has moved elsewhere, or another
\* clone's note of the commit replaced this one.
Stuck(r) ==
  \/ Conflict(notes[Home[r]], remote.notes)
  \/ ~FastForward(head[r].branch, head[r].sha)
  \/ at[r] = "attested" /\ ~Verified(Home[r], head[r].sha)

\* Under an agent that repeats what failed, every run gets its branch out or
\* ends in one of those three situations: rejected pushes, waits for the lock
\* and killed commands do not keep it from publishing forever.
PushSettles == \A r \in Run : <>[](at[r] = "pushed" \/ Stuck(r))
=============================================================================
