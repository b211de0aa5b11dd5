-------------------------- MODULE NotesPublishProofs --------------------------
(***************************************************************************)
(* The exchange of attestation notes, for any clones, runs, commits and    *)
(* number of disturbances.  The invariant says where a note may be: every  *)
(* history holds only notes that their writer still has (Copies), no two   *)
(* notes of one commit in a history are alike (Linear), the lock "notes"   *)
(* keeps a clone still between the check and the push (Locked), and what   *)
(* a branch ends in has a note somewhere (Noted).                          *)
(***************************************************************************)
EXTENDS NotesPublish, InductionLemmas

History == {h \in SUBSET NotesCommit : IsFiniteSet(h)}

\* The notes of one commit in a history form a chain: no two replace the same
\* note or carry the same stamp, and each is later than the one it replaces.
Linear(h) ==
  /\ \A x \in Commit : \A v, w \in WritesOf(h, x) :
       v.replaces = w.replaces \/ v.stamp = w.stamp => v = w
  /\ \A w \in h : w.replaces # <<>> => w.replaces[2] < w.stamp

-----------------------------------------------------------------------------
(* The operators of NotesRef.                                              *)

\* A new notes commit is later than everything its writer had seen.
LEMMA StampIsNew ==
  ASSUME NEW h \in History
  PROVE  NextStamp(h) \in Nat /\ \A w \in h : w.stamp < NextStamp(h)
<1> DEFINE S == {0} \cup {w.stamp : w \in h}
<1>1. S \in SUBSET Nat
  BY DEF History, NotesCommit
<1>2. IsFiniteSet(S)
  <2>1. IsFiniteSet({w.stamp : w \in h})
    <3> DEFINE f == [w \in h |-> w.stamp]
               T == {w.stamp : w \in h}
    <3>1. f \in Surjection(h, T)
      BY DEF Surjection
    <3> QED BY <3>1, FS_Surjection DEF History
  <2> QED BY <2>1, FS_AddElement
<1>3. \E m \in S : \A n \in S : n <= m
  BY <1>1, <1>2, FiniteMax
<1>4. Max(S) \in S /\ \A n \in S : n <= Max(S)
  <2> HIDE DEF S
  <2> QED BY <1>1, <1>3 DEF Max
<1>5. NextStamp(h) = 1 + Max(S)
  BY DEF NextStamp
<1>6. \A w \in h : w.stamp \in S
  OBVIOUS
<1> HIDE DEF S
<1>7. Max(S) \in Nat
  BY <1>1, <1>4
<1>8. ASSUME NEW w \in h PROVE w.stamp < NextStamp(h)
  <2>1. w.stamp \in Nat /\ w.stamp <= Max(S)
    BY <1>1, <1>4, <1>6
  <2> QED BY <1>5, <1>7, <2>1
<1> QED BY <1>5, <1>7, <1>8

\* read_note finds the latest note of a commit that has one.
LEMMA NoteIsLatest ==
  ASSUME NEW h \in History, NEW x \in Commit, WritesOf(h, x) # {}
  PROVE  /\ NoteOf(h, x) \in WritesOf(h, x) /\ NoteOf(h, x) # NoNote
         /\ \A v \in WritesOf(h, x) : v.stamp <= NoteOf(h, x).stamp
<1> DEFINE S == {w.stamp : w \in WritesOf(h, x)}
<1>1. S \in SUBSET Nat /\ S # {}
  BY DEF WritesOf, History, NotesCommit
<1>2. IsFiniteSet(S)
  <2> DEFINE f == [w \in WritesOf(h, x) |-> w.stamp]
  <2>1. IsFiniteSet(WritesOf(h, x))
    BY FS_Subset DEF WritesOf, History
  <2>2. f \in Surjection(WritesOf(h, x), S)
    BY DEF Surjection
  <2> QED BY <2>1, <2>2, FS_Surjection
<1>3. \E m \in S : \A n \in S : n <= m
  <2> HIDE DEF S
  <2> QED BY <1>1, <1>2, FiniteMax
<1>4. \E w \in WritesOf(h, x) : \A v \in WritesOf(h, x) : v.stamp <= w.stamp
  BY <1>3
<1>5. NoteOf(h, x) \in WritesOf(h, x) /\ \A v \in WritesOf(h, x) : v.stamp <= NoteOf(h, x).stamp
  BY <1>4 DEF NoteOf
<1>6. NoteOf(h, x).sha = x
  BY <1>5 DEF WritesOf
<1> QED BY <1>5, <1>6, CommitAssumption DEF NoNote

\* What read_note returns.
LEMMA NoteIsTyped ==
  ASSUME NEW h \in History, NEW x \in Commit
  PROVE  NoteOf(h, x) \in NotesCommit \cup {NoNote}
<1>1. CASE WritesOf(h, x) = {}
  BY <1>1 DEF NoteOf
<1>2. CASE WritesOf(h, x) # {}
  BY <1>2, NoteIsLatest DEF WritesOf, History
<1> QED BY <1>1, <1>2

\* A part of a chained history is chained.
LEMMA LinearSubset ==
  ASSUME NEW h, NEW g \in SUBSET h, Linear(h)
  PROVE  Linear(g)
BY DEF Linear, WritesOf

\* A merge that git did not stop: two notes of one commit are not chained anew.
LEMMA MergedIsLinear ==
  ASSUME NEW c \in Clone, NEW l \in History, NEW f \in History,
         Linear(l), Linear(f), ~Conflict(l, f)
  PROVE  Merged(c, l, f) \in History /\ Linear(Merged(c, l, f))
<1> DEFINE n == [clone |-> c, stamp |-> NextStamp(l \cup f), sha |-> NoCommit,
                 evidence |-> {}, replaces |-> <<>>]
<1>1. l \cup f \in History
  BY FS_Union DEF History
<1>2. n \in NotesCommit
  BY <1>1, StampIsNew DEF NotesCommit
<1>3. Merged(c, l, f) = (l \cup f) \cup {n}
  BY DEF Merged
<1>4. Merged(c, l, f) \in History
  <2> HIDE DEF n
  <2>1. IsFiniteSet((l \cup f) \cup {n})
    BY <1>1, FS_AddElement DEF History
  <2>2. (l \cup f) \cup {n} \subseteq NotesCommit
    BY <1>1, <1>2 DEF History
  <2> QED BY <1>3, <2>1, <2>2 DEF History
<1>5. \A x \in Commit : WritesOf(Merged(c, l, f), x) = WritesOf(l, x) \cup WritesOf(f, x)
  BY <1>3, CommitAssumption DEF WritesOf
<1>6. ASSUME NEW x \in Commit, NEW v \in WritesOf(l, x) \cup WritesOf(f, x),
             NEW w \in WritesOf(l, x) \cup WritesOf(f, x),
             v.replaces = w.replaces \/ v.stamp = w.stamp
      PROVE  v = w
  <2>1. {v, w} \subseteq l \/ {v, w} \subseteq f
    BY <1>6 DEF Conflict, WritesOf
  <2> QED BY <1>6, <2>1 DEF Linear, WritesOf
<1>7. \A w \in Merged(c, l, f) : w.replaces # <<>> => w.replaces[2] < w.stamp
  BY <1>3 DEF Linear
<1> QED BY <1>4, <1>5, <1>6, <1>7 DEF Linear

\* A note that replaces the one its writer saw extends the chain.
LEMMA WrittenIsLinear ==
  ASSUME NEW h \in History, Linear(h), NEW c \in Clone, NEW x \in Commit, NEW e \in SUBSET Run
  PROVE  LET n == [clone |-> c, stamp |-> NextStamp(h), sha |-> x, evidence |-> e,
                   replaces |-> IF NoteOf(h, x) = NoNote THEN <<>> ELSE Id(NoteOf(h, x))]
         IN  /\ n \in NotesCommit /\ Written(h, c, x, e) = h \cup {n}
             /\ Written(h, c, x, e) \in History /\ Linear(Written(h, c, x, e))
<1> DEFINE old == NoteOf(h, x)
           n == [clone |-> c, stamp |-> NextStamp(h), sha |-> x, evidence |-> e,
                 replaces |-> IF old = NoNote THEN <<>> ELSE Id(old)]
<1>1. NextStamp(h) \in Nat /\ \A w \in h : w.stamp < NextStamp(h)
  BY StampIsNew
<1>2. old \in NotesCommit \cup {NoNote}
  BY NoteIsTyped
<1>3. n \in NotesCommit
  <2>1. old # NoNote => Id(old) \in Clone \X Nat
    BY <1>2 DEF Id, NotesCommit
  <2> QED BY <1>1, <2>1 DEF NotesCommit
<1>4. Written(h, c, x, e) = h \cup {n}
  BY DEF Written
<1>5. h \cup {n} \in History
  <2> HIDE DEF n
  <2> QED BY <1>3, FS_AddElement DEF History
<1>6. n.replaces # <<>> => n.replaces[2] < n.stamp
  <2> SUFFICES ASSUME old # NoNote PROVE old.stamp < NextStamp(h)
    BY DEF Id
  <2>1. old \in WritesOf(h, x)
    BY NoteIsLatest DEF NoteOf
  <2> QED BY <1>1, <2>1 DEF WritesOf
<1>7. ASSUME NEW v \in WritesOf(h, x) PROVE v.replaces # n.replaces /\ v.stamp # n.stamp
  <2>1. old \in WritesOf(h, x) /\ old # NoNote /\ v.stamp <= old.stamp
    BY NoteIsLatest
  <2>2. v \in h /\ old \in h /\ v.stamp \in Nat /\ old.stamp \in Nat
    BY <2>1 DEF WritesOf, History, NotesCommit
  <2>3. v.replaces # n.replaces
    <3> SUFFICES ASSUME v.replaces = Id(old) PROVE FALSE
      BY <2>1
    <3>1. v.replaces # <<>> /\ v.replaces[2] = old.stamp
      BY DEF Id
    <3> QED BY <2>1, <2>2, <3>1 DEF Linear
  <2> QED BY <1>1, <2>2, <2>3
<1>8. \A y \in Commit : WritesOf(h \cup {n}, y) = IF y = x THEN WritesOf(h, x) \cup {n} ELSE WritesOf(h, y)
  BY DEF WritesOf
<1>9. Linear(h \cup {n})
  <2> HIDE DEF n
  <2> QED BY <1>6, <1>7, <1>8 DEF Linear
<1> QED BY <1>3, <1>4, <1>5, <1>9
-----------------------------------------------------------------------------
(* The inductive invariant.                                                *)

Typed ==
  /\ head \in [Run -> [sha : Commit, branch : Branch]]
  /\ notes \in [Clone -> History]
  /\ retained \in [Clone -> SUBSET Run]
  /\ remote \in [notes : History, evidence : SUBSET Run, tip : [Branch -> Commit \cup {NoCommit}]]
  /\ at \in [Run -> Waiting \cup {"sync_reconcile"} \cup WriteSteps \cup PushSteps]
  /\ seen \in [Run -> SUBSET NotesCommit]
  /\ \A r \in Run : at[r] \notin {"sync_reconcile", "push_reconcile"} => seen[r] = {}
  /\ vouched \in [Run -> NotesCommit \cup {NoNote}]
  /\ unchecked \in SUBSET Commit /\ events \in 0..MaxEvents

\* What a run fetched the remote still has; whatever any history holds, its
\* writer holds, together with the evidence of its own notes.
Copies ==
  /\ \A r \in Run : seen[r] \subseteq remote.notes
  /\ \A w \in remote.notes : w \in notes[w.clone]
  /\ \A c \in Clone : \A w \in notes[c] :
       /\ w \in notes[w.clone]
       /\ w.clone = c => w.evidence \subseteq retained[c]

Chains == Linear(remote.notes) /\ \A c \in Clone : Linear(notes[c])

\* One command per clone holds the lock; between its check of the note and its
\* push nothing changes what it checked.
Locked ==
  /\ \A r, s \in Run : r # s /\ Home[r] = Home[s] => at[r] \in Waiting \/ at[s] \in Waiting
  /\ \A r \in Run :
       /\ at[r] \in {"push_evidence", "push_refs"} =>
            vouched[r] = NoteOf(notes[Home[r]], head[r].sha)
       /\ at[r] = "push_refs" => vouched[r].evidence \subseteq remote.evidence
       /\ at[r] = "note" => r \in retained[Home[r]]

\* The commits that have a note in some clone, and those the hook let pass.
NotedIn(h) == {x \in Commit : WritesOf(h, x) # {}}
Noted == unchecked \cup UNION {NotedIn(notes[c]) : c \in Clone}

TipsAreNoted ==
  \A b \in Branch : remote.tip[b] # NoCommit => \E x \in Noted : IsAncestor(remote.tip[b], x)

Inv == Typed /\ Copies /\ Chains /\ Locked /\ TipsAreNoted
Steps == Waiting \cup {"sync_reconcile"} \cup WriteSteps \cup PushSteps

-----------------------------------------------------------------------------
(* How one step keeps each part.                                           *)

\* A run whose command holds the lock, or may take it, goes on.
LEMMA LockedStep ==
  ASSUME Typed, Locked, NEW r \in Run, NEW step \in Steps, Goto(r, step),
         at[r] \notin Waiting \/ LockFree(Home[r]) \/ step \in Waiting,
         head' = head,
         \A c \in Clone : c # Home[r] => notes'[c] = notes[c],
         \A c \in Clone : retained[c] \subseteq retained'[c],
         remote.evidence \subseteq remote'.evidence,
         \A s \in Run : s # r => vouched'[s] = vouched[s],
         at[r] \in Waiting /\ step \in Waiting => notes' = notes,
         step \in {"push_evidence", "push_refs"} =>
           vouched'[r] = NoteOf(notes'[Home[r]], head[r].sha),
         step = "push_refs" => vouched'[r].evidence \subseteq remote'.evidence,
         step = "note" => r \in retained'[Home[r]]
  PROVE  Locked'
<1>0. at' = [at EXCEPT ![r] = step] /\ at \in [Run -> Steps] /\ Home \in [Run -> Clone]
  BY HomeAssumption DEF Goto, Typed, Steps
<1>1. ASSUME NEW s \in Run, NEW t \in Run, s # t, Home[s] = Home[t]
      PROVE  at'[s] \in Waiting \/ at'[t] \in Waiting
  BY <1>0, <1>1 DEF Locked, LockFree
<1>2. ASSUME NEW s \in Run, s # r, at[s] \notin Waiting, Home[s] = Home[r]
      PROVE  notes' = notes
  BY <1>0, <1>2 DEF Locked, LockFree
<1>3. ASSUME NEW s \in Run
      PROVE  /\ at'[s] \in {"push_evidence", "push_refs"} =>
                  vouched'[s] = NoteOf(notes'[Home[s]], head'[s].sha)
             /\ at'[s] = "push_refs" => vouched'[s].evidence \subseteq remote'.evidence
             /\ at'[s] = "note" => s \in retained'[Home[s]]
  <2>1. CASE s = r
    BY <1>0, <2>1
  <2>2. CASE s # r
    <3>1. at'[s] = at[s] /\ vouched'[s] = vouched[s] /\ Home[s] \in Clone
      BY <1>0, <2>2
    <3>2. at[s] \notin Waiting => notes'[Home[s]] = notes[Home[s]]
      BY <1>2, <2>2, <3>1
    <3> QED BY <3>1, <3>2 DEF Locked, Waiting
  <2> QED BY <2>1, <2>2
<1> QED BY <1>1, <1>3 DEF Locked

\* A clone whose notes grow by what the remote has and by notes of its own.
LEMMA CopiesGrow ==
  ASSUME Typed, Copies, NEW c \in Clone, NEW h \in History,
         notes' = [notes EXCEPT ![c] = h], notes[c] \subseteq h,
         \A w \in h \ notes[c] : w \in remote.notes \/ (w.clone = c /\ w.evidence \subseteq retained[c]),
         UNCHANGED <<retained, remote>>,
         \A r \in Run : seen'[r] \subseteq seen[r]
  PROVE  Copies'
<1>1. notes' \in [Clone -> History] /\ notes'[c] = h /\ \A d \in Clone \ {c} : notes'[d] = notes[d]
  BY DEF Typed
<1>2. \A d \in Clone : notes[d] \subseteq notes'[d]
  BY <1>1
<1>3. \A w \in NotesCommit : w.clone \in Clone
  BY DEF NotesCommit
<1>4. \A w \in remote.notes : w \in notes'[w.clone]
  BY <1>2, <1>3 DEF Copies, Typed, History
<1>5. ASSUME NEW d \in Clone, NEW w \in notes'[d]
      PROVE  w \in notes'[w.clone] /\ (w.clone = d => w.evidence \subseteq retained[d])
  <2>0. w.clone \in Clone
    BY <1>1, <1>3 DEF History
  <2>1. CASE w \in notes[d]
    BY <1>2, <2>0, <2>1 DEF Copies
  <2>2. CASE w \in remote.notes
    <3>1. w \in notes[w.clone]
      BY <2>2 DEF Copies
    <3> QED BY <1>2, <2>0, <3>1 DEF Copies
  <2>3. CASE w \notin notes[d] /\ w \notin remote.notes
    BY <1>1, <1>5, <2>3
  <2> QED BY <2>1, <2>2, <2>3
<1> QED BY <1>4, <1>5 DEF Copies

\* Steps that touch no history.
LEMMA CopiesStay ==
  ASSUME Typed, Copies, notes' = notes, remote'.notes = remote.notes,
         \A c \in Clone : retained[c] \subseteq retained'[c],
         \A r \in Run : seen'[r] \subseteq seen[r] \/ seen'[r] \subseteq remote.notes
  PROVE  Copies'
BY DEF Copies

\* The remote takes over the notes of one clone.
LEMMA CopiesPublish ==
  ASSUME Typed, Copies, NEW c \in Clone, UNCHANGED <<notes, retained>>,
         remote'.notes \in {remote.notes, notes[c]}, remote.notes \subseteq remote'.notes,
         \A r \in Run : seen'[r] \subseteq seen[r]
  PROVE  Copies'
BY DEF Copies

\* A commit keeps its note, so a branch that does not move stays noted.
LEMMA TipsStay ==
  ASSUME Typed, TipsAreNoted, remote'.tip = remote.tip, unchecked' = unchecked,
         \A c \in Clone : notes[c] \subseteq notes'[c]
  PROVE  TipsAreNoted'
<1>1. Noted \subseteq Noted'
  BY DEF Noted, NotedIn, WritesOf
<1> QED BY <1>1 DEF TipsAreNoted

\* What the hook lets through has a note, or is part of what has one.
LEMMA HookLets ==
  ASSUME Typed, TipsAreNoted, NEW c \in Clone, NEW b \in Branch, NEW x \in Commit, NEW force \in BOOLEAN,
         Hook!Outcome(Update(b, x), Attested(c), force) \notin Hook!Blocking
  PROVE  \E y \in Noted : IsAncestor(x, y)
<1> DEFINE u == Update(b, x)
<1>1. u.ref = b /\ u.to = x /\ u.from = remote.tip[b] /\ remote.tip[b] \in Commit \cup {NoCommit}
  BY DEF Update, Typed
<1>2. Hook!Exemption(u) = "none"
  BY <1>1, BranchAssumption, CommitAssumption DEF Hook!Exemption, Hook!Exemptions
<1>3. Hook!OnRemote(u) \/ x \in Attested(c)
  <2> HIDE DEF u
  <2>1. Hook!Outcome(u, Attested(c), force) \notin Hook!Blocking
    BY DEF u
  <2> QED BY <1>1, <1>2, <2>1 DEF Hook!Outcome, Hook!Blocking
<1>4. CASE Hook!OnRemote(u)
  <2>1. remote.tip[b] # NoCommit /\ IsAncestor(x, remote.tip[b])
    BY <1>1, <1>4 DEF Hook!OnRemote
  <2>2. PICK y \in Noted : IsAncestor(remote.tip[b], y)
    BY <2>1 DEF TipsAreNoted
  <2>3. y \in Commit
    BY DEF Noted, NotedIn, Typed
  <2> QED BY <1>1, <2>1, <2>2, <2>3, AncestorAssumption
<1>5. CASE x \in Attested(c)
  <2>1. WritesOf(notes[c], x) # {}
    BY <1>5 DEF Attested, Verified, NoteOf
  <2>2. x \in Noted
    BY <2>1 DEF Noted, NotedIn
  <2> QED BY <2>2, AncestorAssumption
<1> QED BY <1>3, <1>4, <1>5

-----------------------------------------------------------------------------
(* Each action keeps the invariant.                                        *)

\* SetToSeq lists every member of a finite set.
LEMMA SequenceOfSet ==
  ASSUME NEW S, IsFiniteSet(S), NEW x \in S
  PROVE  \E n \in DOMAIN SetToSeq(S) : SetToSeq(S)[n] = x
<1> DEFINE n == Cardinality(S)
<1>1. n \in Nat
  BY FS_CardinalityType
<1>2. ExistsBijection(1..n, S)
  BY FS_CardinalityType
<1>3. \E f \in [1..n -> S] : IsInjective(f)
  BY <1>2 DEF ExistsBijection, Bijection, Injection
<1>4. SetToSeq(S) \in Injection(1..n, S)
  BY <1>3 DEF SetToSeq, Injection
<1>5. Cardinality(1..n) = n
  BY <1>1, FS_Interval
<1>6. SetToSeq(S) \in Surjection(1..n, S)
  <2> HIDE DEF n
  <2> QED BY <1>4, <1>5, FS_Injection DEF n
<1> QED BY <1>6 DEF Surjection

\* Nothing is attested yet.
LEMMA InitHolds == Init => Inv
<1> SUFFICES ASSUME Init PROVE Inv
  OBVIOUS
<1>1. {} \in History
  BY FS_EmptySet DEF History
<1>2. Typed
  BY <1>1, HeadsAssumption, EventsAssumption DEF Init, Typed, Waiting
<1>3. Copies
  BY <1>2, HomeAssumption DEF Init, Copies
<1>4. Chains
  BY DEF Init, Chains, Linear, WritesOf
<1>5. Locked
  BY DEF Init, Locked, Waiting
<1>6. TipsAreNoted
  BY DEF Init, TipsAreNoted
<1> QED BY <1>2, <1>3, <1>4, <1>5, <1>6 DEF Inv

\* A command that starts, and push when it verifies.
LEMMA BeginKeeps ==
  ASSUME Inv, NEW r \in Run, Begin(r) \/ VerifyPush(r)
  PROVE  Inv'
<1> USE DEF Inv
<1>0. Home[r] \in Clone /\ Home \in [Run -> Clone]
  BY HomeAssumption
<1>1. CASE BeginSync(r)
  <2> USE <1>1 DEF BeginSync, Enter, Fetch
  <2>1. Typed'
    BY DEF Typed, Goto, Waiting, History
  <2>2. Copies'
    BY CopiesStay DEF Typed
  <2>3. Locked'
    BY LockedStep DEF Steps
  <2> QED BY <2>1, <2>2, <2>3, TipsStay DEF Chains
<1>2. CASE BeginPush(r)
  <2> USE <1>2 DEF BeginPush, Enter, Fetch
  <2>1. Typed'
    BY DEF Typed, Goto, Waiting, PushSteps, History
  <2>2. Copies'
    BY CopiesStay DEF Typed
  <2>3. Locked'
    BY LockedStep DEF Steps, PushSteps
  <2> QED BY <2>1, <2>2, <2>3, TipsStay DEF Chains
<1>3. CASE BeginWrite(r)
  <2> USE <1>3 DEF BeginWrite, Enter
  <2>1. Typed'
    BY DEF Typed, Goto, Waiting, WriteSteps
  <2>2. /\ \A c \in Clone : retained[c] \subseteq retained'[c]
        /\ r \in retained'[Home[r]]
    BY <1>0 DEF Typed
  <2>3. Copies'
    BY <2>2, CopiesStay DEF Typed
  <2>4. Locked'
    BY <2>2, LockedStep DEF Steps, WriteSteps
  <2> QED BY <2>1, <2>3, <2>4, TipsStay DEF Chains
<1>4. CASE VerifyPush(r)
  <2> USE <1>4 DEF VerifyPush
  <2>1. vouched' \in [Run -> NotesCommit \cup {NoNote}]
    <3>1. notes[Home[r]] \in History /\ head[r].sha \in Commit
      BY <1>0 DEF Typed
    <3>2. NoteOf(notes[Home[r]], head[r].sha) \in NotesCommit \cup {NoNote}
      BY <3>1, NoteIsTyped
    <3> QED BY <3>2 DEF Typed
  <2>2. Typed'
    BY <2>1 DEF Typed
  <2>3. Copies'
    BY CopiesStay DEF Typed
  <2>4. Locked'
    <3>1. \A s \in Run : at[s] \notin Waiting => vouched'[s] = vouched[s]
      BY DEF Waiting, Typed
    <3> QED BY <3>1 DEF Locked, Waiting
  <2> QED BY <2>2, <2>3, <2>4, TipsStay DEF Chains
<1> QED BY <1>1, <1>2, <1>3, <1>4 DEF Begin

\* A command that fails or is killed leaves the notes and the remote alone.
LEMMA GiveUpKeeps ==
  ASSUME Inv, NEW r \in Run, at[r] \notin Waiting, GiveUp(r),
         UNCHANGED <<head, notes, retained, remote, unchecked>>, events' \in 0..MaxEvents
  PROVE  Inv'
<1> USE DEF Inv, GiveUp
<1>0. Entry(at[r]) \in Waiting
  BY DEF Entry, Waiting
<1>1. Typed'
  BY <1>0 DEF Typed, Goto
<1>2. Copies'
  BY CopiesStay DEF Typed
<1>3. Locked'
  BY <1>0, LockedStep DEF Steps, Waiting, Typed
<1> QED BY <1>1, <1>2, <1>3, TipsStay DEF Chains

\* What reconciling makes of the notes of a clone: a chained history that adds
\* only what the remote has and one merge of the clone's own.
LEMMA ReconciledGrows ==
  ASSUME Inv, NEW r \in Run, ~Conflicts(Home[r], seen[r])
  PROVE  LET c == Home[r]
             h == Reconciled(c, seen[r])
         IN  /\ h \in History /\ Linear(h) /\ notes[c] \subseteq h
             /\ \A w \in h \ notes[c] : w \in remote.notes \/ (w.clone = c /\ w.evidence = {})
<1> DEFINE c == Home[r]
           h == Reconciled(c, seen[r])
<1>0. c \in Clone /\ notes[c] \in History /\ Linear(notes[c])
  BY HomeAssumption DEF Inv, Typed, Chains
<1>1. seen[r] \in SUBSET remote.notes
  BY DEF Inv, Copies
<1>2. seen[r] \in History
  BY <1>1, FS_Subset DEF Inv, Typed, History
<1>3. Linear(seen[r])
  BY <1>1, LinearSubset DEF Inv, Chains
<1>4. CASE Verdict(notes[c], seen[r]) = "keep"
  BY <1>0, <1>4 DEF Reconciled
<1>5. CASE Verdict(notes[c], seen[r]) = "take"
  <2>1. h = seen[r] /\ notes[c] \subseteq seen[r]
    BY <1>5 DEF Reconciled, Verdict
  <2> QED BY <1>1, <1>2, <1>3, <2>1
<1>6. CASE Verdict(notes[c], seen[r]) \notin {"keep", "take"}
  <2>1. h = Merged(c, notes[c], seen[r])
    BY <1>6 DEF Reconciled
  <2>2. ~Conflict(notes[c], seen[r])
    BY <1>6 DEF Conflicts, Verdict
  <2>3. h \in History /\ Linear(h)
    BY <1>0, <1>2, <1>3, <2>1, <2>2, MergedIsLinear
  <2> QED BY <1>1, <2>1, <2>3 DEF Merged
<1> QED BY <1>4, <1>5, <1>6

\* The second half of fetch_notes: the clone keeps, takes or merges, or gives up.
LEMMA ReconcileKeeps ==
  ASSUME Inv, NEW r \in Run, Reconcile(r)
  PROVE  Inv' /\ \A c \in Clone : notes[c] \subseteq notes'[c]
<1> DEFINE c == Home[r]
           h == Reconciled(c, seen[r])
<1>0. /\ c \in Clone /\ at[r] \notin Waiting /\ events' \in 0..MaxEvents
      /\ UNCHANGED <<head, retained, remote, unchecked>>
  BY HomeAssumption DEF Reconcile, Waiting, Inv, Typed
<1>1. CASE Conflicts(c, seen[r])
  BY <1>0, <1>1, GiveUpKeeps DEF Reconcile
<1>2. CASE ~Conflicts(c, seen[r])
  <2> DEFINE stops == at[r] = "push_reconcile" /\ ~StillVouched(r)
             to == IF at[r] = "sync_reconcile" THEN "working" ELSE "push_evidence"
  <2>1. h \in History /\ Linear(h) /\ notes[c] \subseteq h
        /\ \A w \in h \ notes[c] : w \in remote.notes \/ (w.clone = c /\ w.evidence = {})
    BY <1>2, ReconciledGrows
  <2>2. /\ notes' = [notes EXCEPT ![c] = h]
        /\ IF stops THEN GiveUp(r)
           ELSE Goto(r, to) /\ seen' = [seen EXCEPT ![r] = {}] /\ UNCHANGED vouched
    BY <1>2 DEF Reconcile
  <2> HIDE DEF h
  <2>3. \A d \in Clone : notes[d] \subseteq notes'[d] /\ (d # c => notes'[d] = notes[d])
    BY <2>1, <2>2 DEF Inv, Typed
  <2>4. seen' = [seen EXCEPT ![r] = {}]
    BY <2>2 DEF GiveUp
  <2>5. Copies'
    <3>1. \A s \in Run : seen'[s] \subseteq seen[s]
      BY <2>4 DEF Inv, Typed
    <3> QED BY <1>0, <2>1, <2>2, <3>1, CopiesGrow DEF Inv
  <2>6. Chains'
    BY <1>0, <2>1, <2>2 DEF Inv, Chains, Typed
  <2>7. TipsAreNoted'
    BY <1>0, <2>3, TipsStay DEF Inv
  <2>8. CASE stops
    <3>1. Entry(at[r]) \in Waiting
      BY DEF Entry, Waiting
    <3>2. Typed'
      <4>1. /\ at' = [at EXCEPT ![r] = Entry(at[r])] /\ vouched' = [vouched EXCEPT ![r] = NoNote]
            /\ at \in [Run -> Steps]
        BY <2>2, <2>8 DEF GiveUp, Goto, Inv, Typed, Steps
      <4>2. at' \in [Run -> Steps] /\ \A s \in Run : at'[s] \notin {"sync_reconcile", "push_reconcile"} => seen'[s] = {}
        BY <2>4, <3>1, <4>1 DEF Inv, Typed, Steps, Waiting
      <4> QED BY <1>0, <2>1, <2>2, <2>4, <4>1, <4>2 DEF Inv, Typed, Steps
    <3>3. Locked'
      BY <1>0, <2>2, <2>3, <2>8, <3>1, LockedStep DEF GiveUp, Steps, Waiting, Inv, Typed
    <3> QED BY <2>3, <2>5, <2>6, <2>7, <3>2, <3>3 DEF Inv
  <2>9. CASE ~stops
    <3>1. to \in {"working", "push_evidence"}
      OBVIOUS
    <3>2. Typed'
      <4>1. at' = [at EXCEPT ![r] = to] /\ vouched' = vouched /\ at \in [Run -> Steps]
        BY <2>2, <2>9 DEF Goto, Inv, Typed, Steps
      <4>2. at' \in [Run -> Steps] /\ \A s \in Run : at'[s] \notin {"sync_reconcile", "push_reconcile"} => seen'[s] = {}
        BY <2>4, <3>1, <4>1 DEF Inv, Typed, Steps, Waiting, PushSteps
      <4> QED BY <1>0, <2>1, <2>2, <2>4, <4>1, <4>2 DEF Inv, Typed, Steps
    <3>3. to = "push_evidence" => vouched'[r] = NoteOf(notes'[Home[r]], head[r].sha)
      BY <2>2, <2>9 DEF StillVouched, Reconcile
    <3>4. Locked'
      <4>1. Goto(r, to) /\ to \in Steps /\ vouched' = vouched
        BY <2>2, <2>9, <3>1 DEF Steps, PushSteps, Waiting
      <4> QED BY <1>0, <2>3, <3>1, <3>3, <4>1, LockedStep DEF Inv, Typed
    <3> QED BY <2>3, <2>5, <2>6, <2>7, <3>2, <3>4 DEF Inv
  <2> QED BY <2>8, <2>9
<1> QED BY <1>1, <1>2

\* attestation.write extends the chain of its commit.
LEMMA WriteNoteKeeps ==
  ASSUME Inv, NEW r \in Run, WriteNote(r)
  PROVE  Inv' /\ \A c \in Clone : notes[c] \subseteq notes'[c]
<1> DEFINE c == Home[r]
           x == head[r].sha
           h == Written(notes[c], c, x, {r})
           n == [clone |-> c, stamp |-> NextStamp(notes[c]), sha |-> x, evidence |-> {r},
                 replaces |-> IF NoteOf(notes[c], x) = NoNote THEN <<>> ELSE Id(NoteOf(notes[c], x))]
<1>0. c \in Clone /\ x \in Commit /\ notes[c] \in History /\ Linear(notes[c])
  BY HomeAssumption DEF Inv, Typed, Chains
<1>1. h = notes[c] \cup {n} /\ h \in History /\ Linear(h)
  BY <1>0, WrittenIsLinear
<1>2. n.clone = c /\ n.evidence \subseteq retained[c]
  BY DEF WriteNote, Inv, Locked
<1>3. /\ at[r] = "note" /\ Goto(r, "record_note") /\ notes' = [notes EXCEPT ![c] = h]
      /\ UNCHANGED <<head, retained, remote, seen, vouched, unchecked, events>>
  BY DEF WriteNote, Inv, Typed
<1> HIDE DEF h, n
<1>4. \A d \in Clone : notes[d] \subseteq notes'[d] /\ (d # c => notes'[d] = notes[d])
  BY <1>1, <1>3 DEF Inv, Typed
<1>5. Typed'
  BY <1>1, <1>3 DEF Inv, Typed, Goto, WriteSteps, Waiting
<1>6. Copies'
  BY <1>0, <1>1, <1>2, <1>3, CopiesGrow DEF Inv
<1>7. Chains'
  BY <1>0, <1>1, <1>3 DEF Inv, Chains, Typed
<1>8. Locked'
  BY <1>3, <1>4, LockedStep DEF Inv, Steps, WriteSteps, Waiting, Typed
<1>9. TipsAreNoted'
  BY <1>3, <1>4, TipsStay DEF Inv
<1> QED BY <1>4, <1>5, <1>6, <1>7, <1>8, <1>9 DEF Inv

\* The transaction after the write or the push changes no note.
LEMMA RecordKeeps ==
  ASSUME Inv, NEW r \in Run, Record(r)
  PROVE  Inv'
<1> USE DEF Inv
<1>1. PICK step \in {"attested", "pushed"} : Goto(r, step) /\ at[r] \notin Waiting
  BY DEF Record, Waiting
<1>2. /\ vouched' = [vouched EXCEPT ![r] = NoNote]
      /\ UNCHANGED <<head, notes, retained, remote, seen, unchecked, events>>
  BY DEF Record
<1>3. Typed'
  <2>1. seen[r] = {}
    BY DEF Record, Typed
  <2>2. at' = [at EXCEPT ![r] = step] /\ at \in [Run -> Steps]
    BY <1>1 DEF Goto, Typed, Steps
  <2>3. at' \in [Run -> Steps] /\ \A s \in Run : at'[s] \notin {"sync_reconcile", "push_reconcile"} => seen'[s] = {}
    BY <1>1, <1>2, <2>1, <2>2 DEF Typed, Steps, Waiting
  <2> QED BY <1>2, <2>3 DEF Typed, Steps
<1>4. Copies'
  BY <1>2, CopiesStay DEF Typed
<1>5. Locked'
  BY <1>1, <1>2, LockedStep DEF Steps, Waiting, Typed
<1> QED BY <1>2, <1>3, <1>4, <1>5, TipsStay DEF Chains

\* The evidence refs go first.
LEMMA PushEvidenceKeeps ==
  ASSUME Inv, NEW r \in Run, PushEvidence(r)
  PROVE  Inv'
<1> USE DEF Inv, PushEvidence
<1>1. vouched[r].evidence \subseteq Run
  BY DEF Typed, NotesCommit, NoNote
<1>2. /\ remote'.evidence = remote.evidence \cup vouched[r].evidence
      /\ remote'.notes = remote.notes /\ remote'.tip = remote.tip
  BY DEF Typed
<1>3. Typed'
  <2>1. remote' \in [notes : History, evidence : SUBSET Run, tip : [Branch -> Commit \cup {NoCommit}]]
    BY <1>1 DEF Typed
  <2> QED BY <2>1 DEF Typed, Goto, PushSteps, Waiting
<1>4. Copies'
  BY <1>2, CopiesStay DEF Typed
<1>5. Locked'
  <2>1. vouched'[r] = NoteOf(notes'[Home[r]], head[r].sha)
    BY DEF Locked
  <2> QED BY <1>2, <2>1, LockedStep DEF Steps, PushSteps, Waiting
<1> QED BY <1>2, <1>3, <1>4, <1>5, TipsStay DEF Chains

\* What an accepted push leaves on the remote.
LEMMA AcceptedPush ==
  ASSUME Inv, NEW r \in Run, at[r] = "push_refs", Accepted(r),
         remote' = [remote EXCEPT !.tip[head[r].branch] = head[r].sha,
                                  !.notes = IF @ \subseteq notes[Home[r]] THEN notes[Home[r]] ELSE @],
         UNCHANGED <<head, notes, retained, unchecked>>
  PROVE  /\ remote' \in [notes : History, evidence : SUBSET Run, tip : [Branch -> Commit \cup {NoCommit}]]
         /\ remote'.notes = notes[Home[r]] /\ remote.notes \subseteq notes[Home[r]]
         /\ remote'.evidence = remote.evidence
         /\ remote'.tip = [remote.tip EXCEPT ![head[r].branch] = head[r].sha]
         /\ TipsAreNoted'
<1> USE DEF Inv
<1>0. /\ Home[r] \in Clone /\ head[r].sha \in Commit /\ head[r].branch \in Branch
      /\ notes[Home[r]] \in History
  BY HomeAssumption DEF Typed
<1>1. remote.notes \subseteq notes[Home[r]]
  BY DEF Accepted
<1>2. remote' = [remote EXCEPT !.tip = [remote.tip EXCEPT ![head[r].branch] = head[r].sha],
                               !.notes = notes[Home[r]]]
  BY <1>1 DEF Typed
<1>3. \E y \in Noted : IsAncestor(head[r].sha, y)
  <2>1. Hook!Outcome(Update(head[r].branch, head[r].sha), Attested(Home[r]), Home[r] \in MayForce) \notin Hook!Blocking
    BY DEF Accepted, Passes, Hook!Allowed
  <2>2. (Home[r] \in MayForce) \in BOOLEAN
    OBVIOUS
  <2> QED BY <1>0, <2>1, <2>2, HookLets
<1>4. remote'.tip = [remote.tip EXCEPT ![head[r].branch] = head[r].sha]
  BY <1>2 DEF Typed
<1>5. TipsAreNoted'
  <2>1. Noted' = Noted
    BY DEF Noted
  <2> QED BY <1>0, <1>3, <1>4, <2>1 DEF TipsAreNoted, Typed
<1>6. /\ remote'.notes = notes[Home[r]] /\ remote'.evidence = remote.evidence
      /\ remote' \in [notes : History, evidence : SUBSET Run, tip : [Branch -> Commit \cup {NoCommit}]]
  <2>1. [remote.tip EXCEPT ![head[r].branch] = head[r].sha] \in [Branch -> Commit \cup {NoCommit}]
    BY <1>0 DEF Typed
  <2> QED BY <1>0, <1>2, <2>1 DEF Typed
<1> QED BY <1>1, <1>4, <1>5, <1>6

\* Branch and notes move together, or the push is rejected and nothing moves.
LEMMA PushRefsKeeps ==
  ASSUME Inv, NEW r \in Run, PushRefs(r)
  PROVE  Inv'
<1> USE DEF Inv
<1>0. at[r] = "push_refs" /\ UNCHANGED <<head, notes, retained, unchecked>>
  BY DEF PushRefs
<1>1. CASE Accepted(r)
  <2>1. remote' = [remote EXCEPT !.tip[head[r].branch] = head[r].sha,
                                 !.notes = IF @ \subseteq notes[Home[r]] THEN notes[Home[r]] ELSE @]
    BY <1>1 DEF PushRefs
  <2>2. /\ remote' \in [notes : History, evidence : SUBSET Run, tip : [Branch -> Commit \cup {NoCommit}]]
        /\ remote'.notes = notes[Home[r]] /\ remote.notes \subseteq notes[Home[r]]
        /\ remote'.evidence = remote.evidence /\ TipsAreNoted'
    BY <1>0, <1>1, <2>1, AcceptedPush
  <2>3. PICK step \in {"record_push", "attested"} : Goto(r, step)
    BY <1>0, <1>1 DEF PushRefs, GiveUp, Entry, WriteSteps
  <2>4. seen' \in {seen, [seen EXCEPT ![r] = {}]} /\ vouched' \in {vouched, [vouched EXCEPT ![r] = NoNote]}
        /\ events' \in 0..MaxEvents
    <3>1. CASE UNCHANGED <<seen, vouched, events>>
      BY <3>1 DEF Typed
    <3>2. CASE GiveUp(r) /\ Disturb
      BY <3>2, EventsAssumption DEF GiveUp, Disturb, Typed
    <3> QED BY <1>1, <3>1, <3>2 DEF PushRefs
  <2>5. Typed'
    <3>1. at' \in [Run -> Steps] /\ \A s \in Run : at'[s] \notin {"sync_reconcile", "push_reconcile"} => seen'[s] = {}
      <4>1. at' = [at EXCEPT ![r] = step] /\ at \in [Run -> Steps]
        BY <2>3 DEF Goto, Typed, Steps
      <4> QED BY <1>0, <2>4, <4>1 DEF Typed, Steps, Waiting, PushSteps
    <3>2. seen' \in [Run -> SUBSET NotesCommit] /\ vouched' \in [Run -> NotesCommit \cup {NoNote}]
      BY <2>4 DEF Typed
    <3> QED BY <1>0, <2>2, <2>4, <3>1, <3>2 DEF Typed, Steps
  <2>6. Copies'
    <3>1. \A s \in Run : seen'[s] \subseteq seen[s]
      BY <2>4 DEF Typed
    <3>2. Home[r] \in Clone
      BY HomeAssumption
    <3> QED BY <1>0, <2>2, <3>1, <3>2, CopiesPublish
  <2>7. Locked'
    <3>1. \A s \in Run : s # r => vouched'[s] = vouched[s]
      BY <2>4 DEF Typed
    <3>2. step \in Steps /\ at[r] \notin Waiting /\ step \notin {"push_evidence", "push_refs", "note"}
      BY <1>0, <2>3 DEF Steps, PushSteps, Waiting
    <3> QED BY <1>0, <2>2, <2>3, <3>1, <3>2, LockedStep
  <2>8. Chains'
    <3>1. Home[r] \in Clone
      BY HomeAssumption
    <3> QED BY <1>0, <2>2, <3>1 DEF Chains
  <2> QED BY <2>2, <2>5, <2>6, <2>7, <2>8
<1>2. CASE ~Accepted(r)
  <2>1. GiveUp(r) /\ UNCHANGED <<remote, events>> /\ at[r] \notin Waiting
    BY <1>0, <1>2 DEF PushRefs, Waiting
  <2>2. events' \in 0..MaxEvents
    BY <2>1 DEF Typed
  <2>3. UNCHANGED <<head, notes, retained, remote, unchecked>>
    BY <1>0, <2>1
  <2> HIDE DEF Inv
  <2> QED BY <2>1, <2>2, <2>3, GiveUpKeeps
<1> QED BY <1>1, <1>2

\* A killed command leaves what it had done.
LEMMA KillKeeps ==
  ASSUME Inv, NEW r \in Run, Kill(r)
  PROVE  Inv'
<1>1. events' \in 0..MaxEvents
  BY EventsAssumption DEF Kill, Disturb, Inv, Typed
<1> QED BY <1>1, GiveUpKeeps DEF Kill

\* A push by a person moves branches the hook lets pass, and the notes only forward.
LEMMA HandPushKeeps ==
  ASSUME Inv, NEW c \in Clone, HandPush(c)
  PROVE  /\ Inv'
         /\ remote'.notes \in {remote.notes, notes[c]} /\ remote.notes \subseteq remote'.notes
<1> USE DEF Inv
<1>1. PICK v, w \in Wishes : PushByHand(c, {Update(v.ref, v.to), Update(w.ref, w.to)})
  BY DEF HandPush
<1> DEFINE updates == {Update(v.ref, v.to), Update(w.ref, w.to)}
           tip == TipsAfter(updates)
<1>3. ASSUME NEW u \in updates
      PROVE  u = Update(u.ref, u.to) /\ u.to \in Commit \cup {NoCommit}
  BY DEF Wishes, Update
<1>4. IsFiniteSet(updates)
  <2>1. IsFiniteSet({Update(v.ref, v.to)})
    BY FS_Singleton
  <2>2. updates = {Update(v.ref, v.to)} \cup {Update(w.ref, w.to)}
    OBVIOUS
  <2> QED BY <2>1, <2>2, FS_AddElement
<1> HIDE DEF updates
<1>2. /\ Shares(updates) => remote.notes \subseteq notes[c]
      /\ \/ Passes(c, SetToSeq(updates)) /\ UNCHANGED unchecked
         \/ unchecked' = unchecked \cup ({u.to : u \in Moved(updates)} \ {NoCommit})
      /\ remote' = [remote EXCEPT !.tip = tip, !.notes = IF Shares(updates) THEN notes[c] ELSE @]
  BY <1>1 DEF PushByHand, updates
<1>5. ASSUME NEW b \in Branch, \E u \in Moved(updates) : u.ref = b
      PROVE  \E u \in Moved(updates) : u.ref = b /\ tip[b] = u.to
  BY <1>5 DEF TipsAfter
<1>6. tip \in [Branch -> Commit \cup {NoCommit}]
  <2>1. ASSUME NEW b \in Branch PROVE tip[b] \in Commit \cup {NoCommit}
    BY <1>3, <1>5 DEF TipsAfter, Moved, Typed
  <2> QED BY <2>1 DEF TipsAfter
<1>7. unchecked \subseteq unchecked' /\ unchecked' \subseteq Commit
  BY <1>2, <1>3 DEF Typed, Moved
<1> HIDE DEF tip
<1>8. /\ remote' \in [notes : History, evidence : SUBSET Run, tip : [Branch -> Commit \cup {NoCommit}]]
      /\ remote'.notes \in {remote.notes, notes[c]} /\ remote.notes \subseteq remote'.notes
      /\ remote'.evidence = remote.evidence /\ remote'.tip = tip
  BY <1>2, <1>6 DEF Typed
<1>9. UNCHANGED <<head, notes, retained, at, seen, vouched>> /\ events' \in 0..MaxEvents
  <2>1. UNCHANGED <<head, notes, retained, at, seen, vouched>> /\ Disturb
    BY DEF HandPush
  <2> QED BY <2>1, EventsAssumption DEF Disturb, Typed
<1>10. Typed'
  BY <1>7, <1>8, <1>9 DEF Typed
<1>11. Copies'
  BY <1>8, <1>9, CopiesPublish
<1>12. Chains'
  BY <1>8, <1>9 DEF Chains
<1>13. Locked'
  BY <1>8, <1>9 DEF Locked
<1>14. TipsAreNoted'
  <2> SUFFICES ASSUME NEW b \in Branch, tip[b] # NoCommit
               PROVE  \E y \in Noted' : IsAncestor(tip[b], y)
    BY <1>8 DEF TipsAreNoted
  <2>1. Noted \subseteq Noted'
    BY <1>7, <1>9 DEF Noted
  <2>2. CASE \E u \in Moved(updates) : u.ref = b
    <3>1. PICK u \in Moved(updates) : u.ref = b /\ tip[b] = u.to
      BY <1>5, <2>2
    <3>2. u = Update(b, tip[b]) /\ tip[b] \in Commit
      BY <1>3, <1>6, <3>1 DEF Moved
    <3>3. CASE Passes(c, SetToSeq(updates))
      <4>1. PICK n \in DOMAIN SetToSeq(updates) : SetToSeq(updates)[n] = u
        BY <1>4, <3>1, SequenceOfSet DEF Moved
      <4>2. Hook!Outcome(u, Attested(c), c \in MayForce) \notin Hook!Blocking
        BY <3>3, <4>1 DEF Passes, Hook!Allowed
      <4>3. (c \in MayForce) \in BOOLEAN
        OBVIOUS
      <4> QED BY <2>1, <3>2, <4>2, <4>3, HookLets
    <3>4. CASE unchecked' = unchecked \cup ({z.to : z \in Moved(updates)} \ {NoCommit})
      <4>1. tip[b] \in Noted'
        BY <3>1, <3>4 DEF Noted
      <4> QED BY <3>2, <4>1, AncestorAssumption
    <3> QED BY <1>2, <3>3, <3>4
  <2>3. CASE ~ \E u \in Moved(updates) : u.ref = b
    <3>1. tip[b] = remote.tip[b]
      BY <2>3 DEF tip, TipsAfter
    <3> QED BY <2>1, <3>1 DEF TipsAreNoted
  <2> QED BY <2>2, <2>3
<1> QED BY <1>8, <1>10, <1>11, <1>12, <1>13, <1>14

\* Every step keeps the invariant.
LEMMA NextKeeps == Inv /\ [Next]_vars => Inv'
<1> SUFFICES ASSUME Inv, [Next]_vars PROVE Inv'
  OBVIOUS
<1>1. ASSUME NEW r \in Run, Begin(r) \/ VerifyPush(r) PROVE Inv'
  BY <1>1, BeginKeeps
<1>2. ASSUME NEW r \in Run, Step(r) PROVE Inv'
  BY <1>2, ReconcileKeeps, WriteNoteKeeps, RecordKeeps, PushEvidenceKeeps, PushRefsKeeps DEF Step
<1>3. ASSUME NEW r \in Run, Kill(r) PROVE Inv'
  BY <1>3, KillKeeps
<1>4. ASSUME NEW c \in Clone, HandPush(c) PROVE Inv'
  BY <1>4, HandPushKeeps
<1>5. CASE UNCHANGED vars
  BY <1>5 DEF vars, Inv, Typed, Copies, Chains, Locked, TipsAreNoted, Noted
<1> QED BY <1>1, <1>2, <1>3, <1>4, <1>5 DEF Next

\* The invariant holds in every state.
LEMMA InvHolds == Spec => []Inv
BY InitHolds, NextKeeps, PTL DEF Spec

-----------------------------------------------------------------------------
(* What the runs check, for every value of the constants.                  *)

\* Notes refs, evidence refs and branches have their type in every state.
THEOREM TypeCorrect == Spec => []TypeOK
<1>1. Inv => TypeOK
  BY DEF Inv, Typed, TypeOK, History, Waiting
<1> QED BY <1>1, InvHolds, PTL

\* No two notes of one commit are ever merged silently (`notes merge -s manual`
\* in gitx.py): each replaces another one.
THEOREM NotesChained == Spec => []NotesAreChained
<1>1. Inv => NotesAreChained
  BY DEF Inv, Chains, Linear, NotesAreChained
<1> QED BY <1>1, InvHolds, PTL

\* A commit that has a note somewhere can be verified by the clone whose note
\* of it is the latest.
LEMMA SomeoneVerifies ==
  ASSUME Inv, NEW x \in Commit, NEW d \in Clone, WritesOf(notes[d], x) # {}
  PROVE  \E c \in Clone : Verified(c, x)
<1> DEFINE all == UNION {WritesOf(notes[c], x) : c \in Clone}
<1>1. all \in History
  <2>1. IsFiniteSet({WritesOf(notes[c], x) : c \in Clone})
    <3> DEFINE T == {WritesOf(notes[c], x) : c \in Clone}
               f == [c \in Clone |-> WritesOf(notes[c], x)]
    <3>1. f \in Surjection(Clone, T)
      BY DEF Surjection
    <3> QED BY <3>1, CloneAssumption, FS_Surjection
  <2>2. \A h \in {WritesOf(notes[c], x) : c \in Clone} : IsFiniteSet(h) /\ h \subseteq NotesCommit
    <3> SUFFICES ASSUME NEW c \in Clone PROVE IsFiniteSet(WritesOf(notes[c], x)) /\ WritesOf(notes[c], x) \subseteq NotesCommit
      OBVIOUS
    <3>1. notes[c] \in History
      BY DEF Inv, Typed
    <3> QED BY <3>1, FS_Subset DEF History, WritesOf
  <2>3. IsFiniteSet(all)
    BY <2>1, <2>2, FS_UNION
  <2> QED BY <2>2, <2>3 DEF History
<1>2. WritesOf(all, x) = all /\ all # {}
  BY DEF WritesOf
<1> DEFINE w == NoteOf(all, x)
<1>3. w \in all /\ \A v \in all : v.stamp <= w.stamp
  <2> HIDE DEF all
  <2> QED BY <1>1, <1>2, NoteIsLatest
<1> HIDE DEF w
<1> DEFINE c == w.clone
<1>4. PICK e \in Clone : w \in WritesOf(notes[e], x)
  BY <1>3
<1>5. c \in Clone /\ w \in WritesOf(notes[c], x) /\ w.evidence \subseteq retained[c]
  <2>1. c \in Clone /\ w \in notes[e] /\ w.sha = x
    BY <1>1, <1>3, <1>4 DEF History, NotesCommit, WritesOf
  <2>2. w \in notes[c]
    BY <2>1 DEF Inv, Copies
  <2> QED BY <2>1, <2>2 DEF Inv, Copies, WritesOf
<1>6. notes[c] \in History /\ Linear(notes[c])
  BY <1>5 DEF Inv, Typed, Chains
<1> DEFINE n == NoteOf(notes[c], x)
<1>7. n \in WritesOf(notes[c], x) /\ n # NoNote /\ w.stamp <= n.stamp
  BY <1>5, <1>6, NoteIsLatest
<1> HIDE DEF n
<1>8. n.stamp <= w.stamp
  BY <1>3, <1>5, <1>7
<1>9. n = w
  <2>1. n.stamp \in Nat /\ w.stamp \in Nat
    BY <1>5, <1>6, <1>7 DEF History, NotesCommit, WritesOf
  <2> QED BY <1>5, <1>6, <1>7, <1>8, <2>1 DEF Linear
<1>10. Verified(c, x)
  BY <1>5, <1>7, <1>9 DEF Verified, n
<1> QED BY <1>5, <1>10

\* Every branch of the remote ends in a commit that some clone can verify, is
\* part of one, or was let through by a hook that could not load its
\* configuration (hook.py).
THEOREM TipsAttested == Spec => []TipsAreAttested
<1>1. Inv => TipsAreAttested
  <2> SUFFICES ASSUME Inv, NEW b \in Branch, remote.tip[b] # NoCommit
               PROVE  \E x \in unchecked \cup UNION {Attested(c) : c \in Clone} : IsAncestor(remote.tip[b], x)
    BY DEF TipsAreAttested
  <2>1. PICK x \in Noted : IsAncestor(remote.tip[b], x)
    BY DEF Inv, TipsAreNoted
  <2>2. CASE x \in unchecked
    BY <2>1, <2>2
  <2>3. CASE x \notin unchecked
    <3>1. PICK d \in Clone : x \in Commit /\ WritesOf(notes[d], x) # {}
      BY <2>1, <2>3 DEF Noted, NotedIn
    <3>2. PICK c \in Clone : Verified(c, x)
      BY <3>1, SomeoneVerifies
    <3> QED BY <2>1, <3>1, <3>2 DEF Attested
  <2> QED BY <2>2, <2>3
<1> QED BY <1>1, InvHolds, PTL

\* A push moves the branch to the commit of the run, together with the note it
\* verified before it took the lock and after the evidence (publish.py).
THEOREM VerifiedIsPublished == Spec => PublishesWhatItVerified
<1>1. Inv /\ [Next]_vars =>
        [\A r \in Run : at[r] = "push_refs" /\ at'[r] = "record_push" =>
           /\ remote'.tip[head[r].branch] = head[r].sha
           /\ NoteOf(remote'.notes, head[r].sha) = vouched[r]
           /\ vouched[r].evidence \subseteq remote'.evidence]_vars
  <2> SUFFICES ASSUME Inv, Next, NEW r \in Run, at[r] = "push_refs", at'[r] = "record_push"
               PROVE  /\ remote'.tip[head[r].branch] = head[r].sha
                      /\ NoteOf(remote'.notes, head[r].sha) = vouched[r]
                      /\ vouched[r].evidence \subseteq remote'.evidence
    OBVIOUS
  <2>0. at \in [Run -> Steps] /\ Entry("push_refs") = "attested"
    BY DEF Inv, Typed, Steps, Entry, WriteSteps
  <2>1. ASSUME NEW s \in Run, NEW step, Goto(s, step)
        PROVE  s = r /\ step = "record_push"
    BY <2>0, <2>1 DEF Goto
  <2>2. ASSUME NEW s \in Run, Begin(s) \/ VerifyPush(s) PROVE FALSE
    <3>1. CASE BeginSync(s)
      BY <2>1, <3>1 DEF BeginSync, Enter
    <3>2. CASE BeginWrite(s)
      BY <2>1, <3>2 DEF BeginWrite, Enter
    <3>3. CASE BeginPush(s)
      BY <2>1, <3>3 DEF BeginPush, Enter
    <3>4. CASE VerifyPush(s)
      BY <3>4 DEF VerifyPush
    <3> QED BY <2>2, <3>1, <3>2, <3>3, <3>4 DEF Begin
  <2>3. ASSUME NEW s \in Run, Kill(s) PROVE FALSE
    BY <2>0, <2>1, <2>3 DEF Kill, GiveUp
  <2>4. ASSUME NEW s \in Run, Step(s) PROVE PushRefs(r)
    <3>1. CASE Reconcile(s)
      <4>1. PICK step \in {Entry(at[s]), "working", "push_evidence"} : Goto(s, step)
        BY <3>1 DEF Reconcile, GiveUp
      <4> QED BY <2>0, <2>1, <4>1
    <3>2. CASE WriteNote(s)
      BY <2>1, <3>2 DEF WriteNote
    <3>3. CASE Record(s)
      <4>1. PICK step \in {"attested", "pushed"} : Goto(s, step)
        BY <3>3 DEF Record
      <4> QED BY <2>1, <4>1
    <3>4. CASE PushEvidence(s)
      BY <2>1, <3>4 DEF PushEvidence
    <3>5. CASE PushRefs(s)
      <4>1. \E step : Goto(s, step)
        BY <3>5 DEF PushRefs, GiveUp
      <4> QED BY <2>1, <3>5, <4>1
    <3> QED BY <2>4, <3>1, <3>2, <3>3, <3>4, <3>5 DEF Step
  <2>5. ASSUME NEW c \in Clone, HandPush(c) PROVE FALSE
    BY <2>5 DEF HandPush
  <2>6. PushRefs(r)
    BY <2>2, <2>3, <2>4, <2>5 DEF Next
  <2>7. Accepted(r)
    BY <2>0, <2>1, <2>6 DEF PushRefs, GiveUp
  <2>8. /\ remote'.notes = notes[Home[r]] /\ remote'.evidence = remote.evidence
        /\ remote'.tip = [remote.tip EXCEPT ![head[r].branch] = head[r].sha]
    BY <2>6, <2>7, AcceptedPush DEF PushRefs
  <2>9. head[r].branch \in Branch /\ remote.tip \in [Branch -> Commit \cup {NoCommit}]
    BY DEF Inv, Typed
  <2> QED BY <2>8, <2>9 DEF Inv, Locked
<1> QED BY <1>1, InvHolds, PTL DEF Spec, PublishesWhatItVerified

-----------------------------------------------------------------------------
(* The exchange implements the ledger.                                     *)

\* A clone that reconciles or writes learns from the remote and adds its own.
LEMMA GrowIsLedgerStep ==
  ASSUME Inv, Inv', NEW c \in Clone, NEW h, notes' = [notes EXCEPT ![c] = h],
         notes[c] \subseteq h, \A w \in h \ notes[c] : w \in remote.notes \/ w.clone = c,
         UNCHANGED remote
  PROVE  Ledger!Grow(c)
<1>1. notes'[c] = h /\ notes'[c] \subseteq NotesCommit
  BY DEF Inv, Typed, History
<1> QED BY <1>1 DEF Ledger!Grow

\* The notes of a clone change in Reconcile and WriteNote only, the remote's in
\* PushRefs and HandPush.
LEMMA StepIsLedgerStep ==
  ASSUME Inv, Inv', [Next]_vars
  PROVE  [Ledger!Next]_(Ledger!vars)
<1> SUFFICES ASSUME Next PROVE UNCHANGED <<notes, remote.notes>> \/ Ledger!Next
  BY DEF Ledger!vars, vars
<1>1. ASSUME NEW r \in Run, Begin(r) \/ VerifyPush(r) \/ Record(r) \/ Kill(r)
      PROVE  UNCHANGED <<notes, remote.notes>>
  BY <1>1 DEF Begin, BeginSync, BeginWrite, BeginPush, VerifyPush, Record, Kill
<1>2. ASSUME NEW r \in Run, Reconcile(r)
      PROVE  UNCHANGED <<notes, remote.notes>> \/ Ledger!Next
  <2>1. CASE Conflicts(Home[r], seen[r])
    BY <1>2, <2>1 DEF Reconcile
  <2>2. CASE ~Conflicts(Home[r], seen[r])
    <3>1. /\ notes' = [notes EXCEPT ![Home[r]] = Reconciled(Home[r], seen[r])]
          /\ UNCHANGED remote /\ Home[r] \in Clone
      BY <1>2, <2>2, HomeAssumption DEF Reconcile
    <3>2. Ledger!Grow(Home[r])
      BY <2>2, <3>1, ReconciledGrows, GrowIsLedgerStep
    <3> QED BY <3>1, <3>2 DEF Ledger!Next
  <2> QED BY <2>1, <2>2
<1>3. ASSUME NEW r \in Run, WriteNote(r)
      PROVE  Ledger!Next
  <2>1. Home[r] \in Clone /\ UNCHANGED remote /\ notes \in [Clone -> History]
    BY <1>3, HomeAssumption DEF WriteNote, Inv, Typed
  <2>2. notes' = [notes EXCEPT ![Home[r]] = Written(notes[Home[r]], Home[r], head[r].sha, {r})]
    BY <1>3, <2>1 DEF WriteNote
  <2>3. /\ notes[Home[r]] \subseteq Written(notes[Home[r]], Home[r], head[r].sha, {r})
        /\ \A w \in Written(notes[Home[r]], Home[r], head[r].sha, {r}) \ notes[Home[r]] : w.clone = Home[r]
    BY DEF Written
  <2>4. Ledger!Grow(Home[r])
    BY <2>1, <2>2, <2>3, GrowIsLedgerStep
  <2> QED BY <2>1, <2>4 DEF Ledger!Next
<1>4. ASSUME NEW r \in Run, PushEvidence(r)
      PROVE  UNCHANGED <<notes, remote.notes>>
  BY <1>4 DEF PushEvidence, Inv, Typed
<1>5. ASSUME NEW r \in Run, PushRefs(r)
      PROVE  UNCHANGED <<notes, remote.notes>> \/ Ledger!Next
  <2>1. CASE Accepted(r)
    <3>1. remote'.notes = notes[Home[r]] /\ remote.notes \subseteq notes[Home[r]] /\ UNCHANGED notes
      BY <1>5, <2>1, AcceptedPush DEF PushRefs
    <3>2. Home[r] \in Clone
      BY HomeAssumption
    <3> QED BY <3>1, <3>2 DEF Ledger!Publish, Ledger!Next
  <2>2. CASE ~Accepted(r)
    BY <1>5, <2>2 DEF PushRefs
  <2> QED BY <2>1, <2>2
<1>6. ASSUME NEW c \in Clone, HandPush(c)
      PROVE  UNCHANGED <<notes, remote.notes>> \/ Ledger!Next
  <2>1. remote'.notes \in {remote.notes, notes[c]} /\ remote.notes \subseteq remote'.notes /\ UNCHANGED notes
    BY <1>6, HandPushKeeps DEF HandPush
  <2> QED BY <2>1 DEF Ledger!Publish, Ledger!Next
<1> QED BY <1>1, <1>2, <1>3, <1>4, <1>5, <1>6 DEF Next, Step

\* No fetch, merge or push loses a note in a clone or on the remote
\* (NothingIsForgotten): initial states map to initial states, and each step to
\* a step of the ledger or a stutter.
THEOREM ImplementsLedger == Spec => NothingIsForgotten
<1>1. Init => Ledger!Init
  BY DEF Init, Ledger!Init
<1>2. Inv /\ Inv' /\ [Next]_vars => [Ledger!Next]_(Ledger!vars)
  BY StepIsLedgerStep
<1> QED BY <1>1, <1>2, InvHolds, PTL DEF Spec, NothingIsForgotten, Ledger!Spec
=============================================================================
