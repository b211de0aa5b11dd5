---------------------------- MODULE TelemetryProofs ----------------------------
(***************************************************************************)
(* Telemetry: types and locks, the rows of the mirror and the lines of the *)
(* hook log stay, no run is counted twice, the lines of others are never   *)
(* touched, and a sync that is alone joins every outcome.  First what      *)
(* picking lines and picking the newest rows give, then the rewrite of the *)
(* mirror, then the two inductive invariants, Inv and Sound, step by step. *)
(***************************************************************************)
EXTENDS Telemetry, InductionLemmas, SequenceTheorems

-----------------------------------------------------------------------------
(* Picked.                                                                  *)

\* The table Picked is defined by: the picked lines among the first n.
Table(lines, among, f) ==
  f = [n \in 0..Len(lines) |->
         IF n = 0 THEN <<>>
         ELSE IF n \in among THEN Append(f[n - 1], lines[n]) ELSE f[n - 1]]

\* There is such a table for every sequence, and its last entry is what Picked
\* returns.
LEMMA PickedTable ==
  ASSUME NEW S, NEW lines \in Seq(S), NEW among
  PROVE  \E f : Table(lines, among, f) /\ Picked(lines, among) = f[Len(lines)]
<1> DEFINE Rec(m, f) ==
  f = [n \in 0..m |->
         IF n = 0 THEN <<>>
         ELSE IF n \in among THEN Append(f[n - 1], lines[n]) ELSE f[n - 1]]
<1> DEFINE F == {m \in Nat : \E f : Rec(m, f)}
<1>0. Len(lines) \in Nat
  BY LenProperties
<1>1. 0 \in F
  <2> DEFINE g == [n \in 0..0 |-> <<>>]
  <2>1. Rec(0, g)
    OBVIOUS
  <2> QED BY <2>1
<1>2. ASSUME NEW m \in Nat, m \in F PROVE m + 1 \in F
  <2>1. PICK f : Rec(m, f)
    BY <1>2
  <2> DEFINE g == [n \in 0..(m + 1) |->
        IF n = m + 1 THEN (IF n \in among THEN Append(f[m], lines[n]) ELSE f[m]) ELSE f[n]]
  <2>2. \A n \in 0..m : f[n] = IF n = 0 THEN <<>>
         ELSE IF n \in among THEN Append(f[n - 1], lines[n]) ELSE f[n - 1]
    BY <2>1
  <2>3. ASSUME NEW n \in 0..(m + 1)
        PROVE  g[n] = IF n = 0 THEN <<>>
                 ELSE IF n \in among THEN Append(g[n - 1], lines[n]) ELSE g[n - 1]
    <3>1. CASE n = m + 1
      <4>1. n # 0 /\ n - 1 = m /\ n - 1 # m + 1 /\ n - 1 \in 0..(m + 1)
        BY <3>1
      <4>2. g[n - 1] = f[m]
        BY <4>1
      <4> QED BY <3>1, <4>1, <4>2
    <3>2. CASE n # m + 1 /\ n = 0
      BY <3>2, <2>2
    <3>3. CASE n # m + 1 /\ n # 0
      <4>1. n \in 0..m /\ n - 1 \in 0..(m + 1) /\ n - 1 # m + 1
        BY <3>3
      <4>2. g[n] = f[n] /\ g[n - 1] = f[n - 1]
        BY <3>3, <4>1
      <4> QED BY <3>3, <4>1, <4>2, <2>2
    <3> QED BY <3>1, <3>2, <3>3
  <2>4. g = [n \in 0..(m + 1) |->
         IF n = 0 THEN <<>>
         ELSE IF n \in among THEN Append(g[n - 1], lines[n]) ELSE g[n - 1]]
    <3>1. \A n \in 0..(m + 1) : g[n] = IF n = 0 THEN <<>>
                 ELSE IF n \in among THEN Append(g[n - 1], lines[n]) ELSE g[n - 1]
      BY <2>3
    <3>2. g = [n \in 0..(m + 1) |-> g[n]]
      OBVIOUS
    <3> HIDE DEF g
    <3> QED BY <3>1, <3>2
  <2>5. Rec(m + 1, g)
    <3> HIDE DEF g
    <3> QED BY <2>4
  <2>6. \E h : Rec(m + 1, h)
    <3> HIDE DEF g, Rec
    <3> QED BY <2>5
  <2>7. m + 1 \in Nat
    OBVIOUS
  <2> HIDE DEF g, Rec
  <2> QED BY <2>6, <2>7
<1>3. Len(lines) \in F
  <2> HIDE DEF F
  <2> QED BY <1>0, <1>1, <1>2, NatSetInduction
<1>4. \E f : Table(lines, among, f)
  BY <1>3 DEF Table
<1> DEFINE upTo == CHOOSE f : f = [n \in 0..Len(lines) |->
         IF n = 0 THEN <<>>
         ELSE IF n \in among THEN Append(f[n - 1], lines[n]) ELSE f[n - 1]]
<1>5. Table(lines, among, upTo)
  BY <1>4 DEF Table
<1>6. Picked(lines, among) = upTo[Len(lines)]
  BY DEF Picked
<1> QED BY <1>5, <1>6

\* What a table holds: it starts with nothing, and takes line after line.
LEMMA TableStep ==
  ASSUME NEW S, NEW lines \in Seq(S), NEW among, NEW f, Table(lines, among, f)
  PROVE  /\ f[0] = <<>>
         /\ \A n \in 1..Len(lines) :
              f[n] = IF n \in among THEN Append(f[n - 1], lines[n]) ELSE f[n - 1]
<1>0. Len(lines) \in Nat
  BY LenProperties
<1>1. \A n \in 0..Len(lines) : f[n] =
         IF n = 0 THEN <<>>
         ELSE IF n \in among THEN Append(f[n - 1], lines[n]) ELSE f[n - 1]
  BY DEF Table
<1>2. 0 \in 0..Len(lines)
  BY <1>0
<1>3. f[0] = <<>>
  BY <1>1, <1>2
<1>4. \A n \in 1..Len(lines) : n \in 0..Len(lines) /\ n # 0
  BY <1>0
<1> QED BY <1>1, <1>3, <1>4

\* Nothing is picked from no lines.
LEMMA PickedEmpty ==
  ASSUME NEW S, NEW s \in Seq(S), Len(s) = 0, NEW among
  PROVE  Picked(s, among) = <<>>
<1>1. PICK f : Table(s, among, f) /\ Picked(s, among) = f[Len(s)]
  BY PickedTable
<1>2. Table(s, among, f)
  BY <1>1
<1>3. f[0] = <<>>
  BY <1>2 DEF Table
<1> QED BY <1>1, <1>3

\* Two tables agree as far as the lines and the picked indices do.
LEMMA TablesAgree ==
  ASSUME NEW S, NEW s \in Seq(S), NEW t \in Seq(S), NEW I, NEW J, NEW f, NEW g,
         Table(s, I, f), Table(t, J, g),
         NEW m \in Nat, m <= Len(s), m <= Len(t),
         \A n \in 1..m : s[n] = t[n] /\ (n \in I <=> n \in J)
  PROVE  f[m] = g[m]
<1> DEFINE F == {n \in Nat : n <= m => f[n] = g[n]}
<1>0. Len(s) \in Nat /\ Len(t) \in Nat
  BY LenProperties
<1>1. 0 \in F
  BY TableStep
<1>2. ASSUME NEW n \in Nat, n \in F PROVE n + 1 \in F
  <2> SUFFICES ASSUME n + 1 <= m PROVE f[n + 1] = g[n + 1]
    OBVIOUS
  <2>1. f[n] = g[n]
    BY <1>2
  <2>2. n + 1 \in 1..m /\ n + 1 \in 1..Len(s) /\ n + 1 \in 1..Len(t) /\ (n + 1) - 1 = n
    BY <1>0
  <2>3. f[n + 1] = IF n + 1 \in I THEN Append(f[n], s[n + 1]) ELSE f[n]
    BY <2>2, TableStep
  <2>4. g[n + 1] = IF n + 1 \in J THEN Append(g[n], t[n + 1]) ELSE g[n]
    BY <2>2, TableStep
  <2> QED BY <2>1, <2>2, <2>3, <2>4
<1>3. Nat \subseteq F
  <2> HIDE DEF F
  <2> QED BY <1>1, <1>2, NatSetInduction
<1> QED BY <1>3

\* Picking looks at the indices of the lines only.
LEMMA PickedSame ==
  ASSUME NEW S, NEW s \in Seq(S), NEW I, NEW J,
         \A n \in 1..Len(s) : n \in I <=> n \in J
  PROVE  Picked(s, I) = Picked(s, J)
<1>0. Len(s) \in Nat
  BY LenProperties
<1>1. PICK f : Table(s, I, f) /\ Picked(s, I) = f[Len(s)]
  BY PickedTable
<1>2. PICK g : Table(s, J, g) /\ Picked(s, J) = g[Len(s)]
  BY PickedTable
<1>3. f[Len(s)] = g[Len(s)]
  BY <1>0, <1>1, <1>2, TablesAgree
<1> QED BY <1>1, <1>2, <1>3

\* Picking from a longer sequence takes its last line when that is asked for.
LEMMA PickedAppend ==
  ASSUME NEW S, NEW s \in Seq(S), NEW x \in S, NEW I
  PROVE  Picked(Append(s, x), I) =
           IF Len(s) + 1 \in I THEN Append(Picked(s, I), x) ELSE Picked(s, I)
<1> DEFINE t == Append(s, x)
<1>0. /\ Len(s) \in Nat /\ t \in Seq(S) /\ Len(t) = Len(s) + 1 /\ t[Len(s) + 1] = x
      /\ \A i \in 1..Len(s) : t[i] = s[i]
  BY LenProperties, AppendProperties
<1> HIDE DEF t
<1>1. PICK f : Table(s, I, f) /\ Picked(s, I) = f[Len(s)]
  BY PickedTable
<1>2. PICK g : Table(t, I, g) /\ Picked(t, I) = g[Len(t)]
  BY <1>0, PickedTable
<1>3. f[Len(s)] = g[Len(s)]
  BY <1>0, <1>1, <1>2, TablesAgree
<1>4. Len(s) + 1 \in 1..Len(t) /\ (Len(s) + 1) - 1 = Len(s)
  BY <1>0
<1>5. g[Len(s) + 1] = IF Len(s) + 1 \in I THEN Append(g[Len(s)], t[Len(s) + 1]) ELSE g[Len(s)]
  BY <1>0, <1>2, <1>4, TableStep
<1>6. Picked(t, I) = IF Len(s) + 1 \in I THEN Append(Picked(s, I), x) ELSE Picked(s, I)
  BY <1>0, <1>1, <1>2, <1>3, <1>5
<1> QED BY <1>6 DEF t

\* Induction over the sequences of a set, with a set for the predicate.
LEMMA SequenceInduction ==
  ASSUME NEW S, NEW F,
         \A s \in Seq(S) : Len(s) = 0 => s \in F,
         \A s \in Seq(S), x \in S : s \in F => Append(s, x) \in F
  PROVE  Seq(S) \subseteq F
<1> DEFINE G == {n \in Nat : \A s \in Seq(S) : Len(s) = n => s \in F}
<1>1. 0 \in G
  OBVIOUS
<1>2. ASSUME NEW n \in Nat, n \in G PROVE n + 1 \in G
  <2> SUFFICES ASSUME NEW s \in Seq(S), Len(s) = n + 1 PROVE s \in F
    OBVIOUS
  <2>1. Len(<<>>) = 0
    BY EmptySeq
  <2>2. s # <<>>
    BY <2>1
  <2>3. PICK t \in Seq(S), x \in S : s = Append(t, x)
    BY <2>2, SequenceEmptyOrAppend
  <2>4. Len(t) = n
    BY <2>3, AppendProperties, LenProperties
  <2>5. t \in F
    BY <1>2, <2>4
  <2> QED BY <2>3, <2>5
<1>3. Nat \subseteq G
  <2> HIDE DEF G
  <2> QED BY <1>1, <1>2, NatSetInduction
<1>4. \A s \in Seq(S) : Len(s) \in Nat
  BY LenProperties
<1> QED BY <1>3, <1>4

\* The entries of a sequence that ends with one more element.
LEMMA AppendEntries ==
  ASSUME NEW S, NEW s \in Seq(S), NEW x \in S
  PROVE  /\ Append(s, x) \in Seq(S) /\ Len(s) \in Nat /\ Len(Append(s, x)) = Len(s) + 1
         /\ \A i \in 1..Len(s) : i \in 1..Len(Append(s, x)) /\ Append(s, x)[i] = s[i]
         /\ Len(s) + 1 \in 1..Len(Append(s, x)) /\ Append(s, x)[Len(s) + 1] = x
         /\ \A i \in 1..Len(Append(s, x)) : i \in 1..Len(s) \/ i = Len(s) + 1
<1>1. /\ Append(s, x) \in Seq(S) /\ Len(s) \in Nat /\ Len(Append(s, x)) = Len(s) + 1
      /\ \A i \in 1..Len(s) : Append(s, x)[i] = s[i]
      /\ Append(s, x)[Len(s) + 1] = x
  BY AppendProperties, LenProperties
<1> QED BY <1>1

\* What is picked are the lines with the indices asked for, all of them.
LEMMA PickedHolds ==
  ASSUME NEW S, NEW lines \in Seq(S), NEW I
  PROVE  /\ Picked(lines, I) \in Seq(S)
         /\ \A k \in 1..Len(Picked(lines, I)) :
              \E n \in 1..Len(lines) : n \in I /\ Picked(lines, I)[k] = lines[n]
         /\ \A n \in 1..Len(lines) : n \in I =>
              \E k \in 1..Len(Picked(lines, I)) : Picked(lines, I)[k] = lines[n]
<1> DEFINE Holds(s) ==
      /\ Picked(s, I) \in Seq(S)
      /\ \A k \in 1..Len(Picked(s, I)) : \E n \in 1..Len(s) : n \in I /\ Picked(s, I)[k] = s[n]
      /\ \A n \in 1..Len(s) : n \in I => \E k \in 1..Len(Picked(s, I)) : Picked(s, I)[k] = s[n]
<1> DEFINE F == {s \in Seq(S) : Holds(s)}
<1>1. ASSUME NEW s \in Seq(S), Len(s) = 0 PROVE s \in F
  <2>1. Picked(s, I) = <<>>
    BY <1>1, PickedEmpty
  <2>2. <<>> \in Seq(S) /\ Len(<<>>) = 0
    BY EmptySeq
  <2>3. 1..0 = {}
    OBVIOUS
  <2> QED BY <1>1, <2>1, <2>2, <2>3
<1>2. ASSUME NEW s \in Seq(S), NEW x \in S, s \in F PROVE Append(s, x) \in F
  <2> DEFINE t == Append(s, x)
             p == Picked(s, I)
             q == Picked(t, I)
  <2>1. /\ t \in Seq(S) /\ Len(s) \in Nat /\ Len(t) = Len(s) + 1
        /\ \A i \in 1..Len(s) : i \in 1..Len(t) /\ t[i] = s[i]
        /\ Len(s) + 1 \in 1..Len(t) /\ t[Len(s) + 1] = x
        /\ \A i \in 1..Len(t) : i \in 1..Len(s) \/ i = Len(s) + 1
    BY AppendEntries
  <2>2. q = IF Len(s) + 1 \in I THEN Append(p, x) ELSE p
    BY PickedAppend
  <2>3. /\ p \in Seq(S)
        /\ \A k \in 1..Len(p) : \E n \in 1..Len(s) : n \in I /\ p[k] = s[n]
        /\ \A n \in 1..Len(s) : n \in I => \E k \in 1..Len(p) : p[k] = s[n]
    BY <1>2
  <2> HIDE DEF p, q, t
  <2>4. CASE Len(s) + 1 \in I
    <3>1. q = Append(p, x)
      BY <2>2, <2>4
    <3>2. /\ q \in Seq(S) /\ Len(p) \in Nat /\ Len(q) = Len(p) + 1
          /\ \A i \in 1..Len(p) : i \in 1..Len(q) /\ q[i] = p[i]
          /\ Len(p) + 1 \in 1..Len(q) /\ q[Len(p) + 1] = x
          /\ \A i \in 1..Len(q) : i \in 1..Len(p) \/ i = Len(p) + 1
      BY <2>3, <3>1, AppendEntries
    <3>3. ASSUME NEW k \in 1..Len(q) PROVE \E n \in 1..Len(t) : n \in I /\ q[k] = t[n]
      <4>1. CASE k = Len(p) + 1
        BY <2>1, <2>4, <3>2, <4>1
      <4>2. CASE k \in 1..Len(p)
        <5>1. PICK n \in 1..Len(s) : n \in I /\ p[k] = s[n]
          BY <2>3, <4>2
        <5> QED BY <2>1, <3>2, <4>2, <5>1
      <4> QED BY <3>2, <4>1, <4>2
    <3>4. ASSUME NEW n \in 1..Len(t), n \in I PROVE \E k \in 1..Len(q) : q[k] = t[n]
      <4>1. CASE n = Len(s) + 1
        BY <2>1, <3>2, <4>1
      <4>2. CASE n \in 1..Len(s)
        <5>1. PICK k \in 1..Len(p) : p[k] = s[n]
          BY <2>3, <3>4, <4>2
        <5> QED BY <2>1, <3>2, <4>2, <5>1
      <4> QED BY <2>1, <4>1, <4>2
    <3> QED BY <2>1, <3>2, <3>3, <3>4 DEF q, t
  <2>5. CASE Len(s) + 1 \notin I
    <3>1. q = p
      BY <2>2, <2>5
    <3>2. ASSUME NEW k \in 1..Len(q) PROVE \E n \in 1..Len(t) : n \in I /\ q[k] = t[n]
      BY <2>1, <2>3, <3>1
    <3>3. ASSUME NEW n \in 1..Len(t), n \in I PROVE \E k \in 1..Len(q) : q[k] = t[n]
      BY <2>1, <2>3, <2>5, <3>1, <3>3
    <3> QED BY <2>1, <2>3, <3>1, <3>2, <3>3 DEF q, t
  <2> QED BY <2>4, <2>5
<1>3. Seq(S) \subseteq F
  <2> HIDE DEF F
  <2> QED BY <1>1, <1>2, SequenceInduction
<1> QED BY <1>3

\* What is picked is of the sequence it is picked from, at the places wanted.
LEMMA PickedType ==
  ASSUME NEW S, NEW lines \in Seq(S), NEW I
  PROVE  Picked(lines, I) \in Seq(S)
BY PickedHolds

LEMMA PickedFrom ==
  ASSUME NEW S, NEW lines \in Seq(S), NEW I
  PROVE  \A m \in 1..Len(Picked(lines, I)) :
           \E n \in 1..Len(lines) : n \in I /\ Picked(lines, I)[m] = lines[n]
BY PickedHolds

\* Where two sequences are joined, an entry is one of the first at its place
\* or one of the second.
LEMMA JoinedEntries ==
  ASSUME NEW S, NEW front \in Seq(S), NEW back \in Seq(S)
  PROVE  \A k \in 1..Len(front \o back) :
           \/ k \in 1..Len(front) /\ (front \o back)[k] = front[k]
           \/ \E m \in 1..Len(back) : (front \o back)[k] = back[m]
<1> SUFFICES ASSUME NEW k \in 1..Len(front \o back)
             PROVE  \/ k \in 1..Len(front) /\ (front \o back)[k] = front[k]
                    \/ \E m \in 1..Len(back) : (front \o back)[k] = back[m]
  OBVIOUS
<1> DEFINE joined == front \o back
<1>1. /\ Len(joined) = Len(front) + Len(back)
      /\ Len(front) \in Nat /\ Len(back) \in Nat
      /\ \A i \in 1..(Len(front) + Len(back)) :
           joined[i] = IF i <= Len(front) THEN front[i] ELSE back[i - Len(front)]
  BY ConcatProperties, LenProperties
<1>2. k \in 1..Len(joined)
  OBVIOUS
<1> HIDE DEF joined
<1>3. \/ k \in 1..Len(front) /\ joined[k] = front[k]
      \/ \E m \in 1..Len(back) : joined[k] = back[m]
  <2>1. CASE k <= Len(front)
    BY <1>1, <1>2, <2>1
  <2>2. CASE ~(k <= Len(front))
    <3>1. k - Len(front) \in 1..Len(back) /\ joined[k] = back[k - Len(front)]
      BY <1>1, <1>2, <2>2
    <3> QED BY <3>1
  <2> QED BY <2>1, <2>2
<1> QED BY <1>3 DEF joined

-----------------------------------------------------------------------------
(* Prefixes, and the lines of one kind in their order.                      *)

\* A prefix in terms of the entries.
LEMMA PrefixEntries ==
  ASSUME NEW S, NEW s \in Seq(S), NEW t \in Seq(S)
  PROVE  IsPrefix(s, t) <=> Len(s) <= Len(t) /\ \A i \in 1..Len(s) : s[i] = t[i]
<1>1. Len(s) \in Nat /\ Len(t) \in Nat
  BY LenProperties
<1>2. SubSeq(s, 1, Len(s)) = s
  BY SubSeqFull
<1>3. ASSUME Len(s) <= Len(t)
      PROVE  /\ SubSeq(t, 1, Len(s)) \in Seq(S) /\ Len(SubSeq(t, 1, Len(s))) = Len(s)
             /\ \A i \in 1..Len(s) : SubSeq(t, 1, Len(s))[i] = t[i]
  <2>1. \A i \in 1..Len(s) : t[i] \in S
    BY <1>1, <1>3, ElementOfSeq
  <2>2. /\ SubSeq(t, 1, Len(s)) \in Seq(S)
        /\ Len(SubSeq(t, 1, Len(s))) = IF 1 <= Len(s) THEN Len(s) - 1 + 1 ELSE 0
        /\ \A i \in 1..(Len(s) - 1 + 1) : SubSeq(t, 1, Len(s))[i] = t[1 + i - 1]
    BY <1>1, <2>1, SubSeqProperties
  <2>3. Len(s) - 1 + 1 = Len(s) /\ \A i \in 1..Len(s) : 1 + i - 1 = i
    BY <1>1
  <2> QED BY <1>1, <2>2, <2>3
<1>4. ASSUME IsPrefix(s, t) PROVE Len(s) <= Len(t) /\ \A i \in 1..Len(s) : s[i] = t[i]
  BY <1>2, <1>3, <1>4 DEF IsPrefix
<1>5. ASSUME Len(s) <= Len(t), \A i \in 1..Len(s) : s[i] = t[i] PROVE IsPrefix(s, t)
  <2>1. s = SubSeq(t, 1, Len(s))
    BY <1>3, <1>5, SeqEqual
  <2> QED BY <1>2, <1>5, <2>1 DEF IsPrefix
<1> QED BY <1>4, <1>5

\* The lines of a set, in the order of the sequence.
Only(T, s) == Picked(s, {i \in DOMAIN s : s[i] \in T})

\* They are a sequence of these lines.
LEMMA OnlyType ==
  ASSUME NEW S, NEW s \in Seq(S), NEW T
  PROVE  Only(T, s) \in Seq(S)
BY PickedHolds DEF Only

\* One more line of the set comes last, any other changes nothing.
LEMMA OnlyAppend ==
  ASSUME NEW S, NEW s \in Seq(S), NEW x \in S, NEW T
  PROVE  Only(T, Append(s, x)) = IF x \in T THEN Append(Only(T, s), x) ELSE Only(T, s)
<1> DEFINE t == Append(s, x)
           I == {i \in DOMAIN s : s[i] \in T}
           J == {i \in DOMAIN t : t[i] \in T}
<1>1. /\ t \in Seq(S) /\ Len(s) \in Nat /\ Len(t) = Len(s) + 1
      /\ \A i \in 1..Len(s) : i \in 1..Len(t) /\ t[i] = s[i]
      /\ Len(s) + 1 \in 1..Len(t) /\ t[Len(s) + 1] = x
  BY AppendEntries
<1>2. DOMAIN s = 1..Len(s) /\ DOMAIN t = 1..Len(t)
  BY <1>1, LenProperties
<1>3. Picked(t, J) = IF Len(s) + 1 \in J THEN Append(Picked(s, J), x) ELSE Picked(s, J)
  <2> HIDE DEF J
  <2> QED BY PickedAppend
<1> HIDE DEF t
<1>4. \A n \in 1..Len(s) : n \in J <=> n \in I
  BY <1>1, <1>2
<1>5. Len(s) + 1 \in J <=> x \in T
  BY <1>1, <1>2
<1>6. Picked(s, J) = Picked(s, I)
  <2> HIDE DEF I, J
  <2> QED BY <1>4, PickedSame
<1>7. Only(T, t) = Picked(t, J) /\ Only(T, s) = Picked(s, I)
  BY DEF Only
<1> HIDE DEF I, J
<1> QED BY <1>3, <1>5, <1>6, <1>7 DEF t

\* More lines behind leave the lines of the set where they are.
LEMMA OnlyPrefix ==
  ASSUME NEW S, NEW s \in Seq(S), NEW t \in Seq(S), NEW T
  PROVE  IsPrefix(Only(T, s), Only(T, s \o t))
<1> DEFINE F == {u \in Seq(S) : IsPrefix(Only(T, s), Only(T, s \o u))}
<1>0. Only(T, s) \in Seq(S) /\ \A u \in Seq(S) : s \o u \in Seq(S) /\ Only(T, s \o u) \in Seq(S)
  BY ConcatProperties, OnlyType
<1>1. ASSUME NEW u \in Seq(S), Len(u) = 0 PROVE u \in F
  <2>1. u = <<>>
    BY <1>1, EmptySeq
  <2>2. s \o u = s
    BY <2>1, ConcatEmptySeq
  <2>3. IsPrefix(Only(T, s), Only(T, s))
    BY <1>0, PrefixEntries, LenProperties
  <2> QED BY <2>2, <2>3
<1>2. ASSUME NEW u \in Seq(S), NEW x \in S, u \in F PROVE Append(u, x) \in F
  <2> DEFINE v == s \o u
  <2>1. s \o Append(u, x) = Append(v, x)
    <3>1. <<x>> \in Seq(S)
      OBVIOUS
    <3>2. Append(u, x) = u \o <<x>> /\ Append(v, x) = v \o <<x>>
      BY <1>0, AppendIsConcat
    <3> QED BY <3>1, <3>2, ConcatAssociative
  <2>2. v \in Seq(S) /\ Only(T, v) \in Seq(S)
    BY <1>0
  <2>3. IsPrefix(Only(T, s), Only(T, v))
    BY <1>2
  <2> HIDE DEF v
  <2>4. Only(T, Append(v, x)) = IF x \in T THEN Append(Only(T, v), x) ELSE Only(T, v)
    BY <2>2, OnlyAppend
  <2>5. IsPrefix(Only(T, s), Append(Only(T, v), x))
    <3>1. /\ Append(Only(T, v), x) \in Seq(S) /\ Len(Only(T, v)) \in Nat
          /\ Len(Append(Only(T, v), x)) = Len(Only(T, v)) + 1
          /\ \A i \in 1..Len(Only(T, v)) : Append(Only(T, v), x)[i] = Only(T, v)[i]
      BY <2>2, AppendEntries
    <3>2. Len(Only(T, s)) <= Len(Only(T, v))
          /\ \A i \in 1..Len(Only(T, s)) : Only(T, s)[i] = Only(T, v)[i]
      BY <1>0, <2>2, <2>3, PrefixEntries
    <3>3. Len(Only(T, s)) \in Nat
      BY <1>0, LenProperties
    <3>4. /\ Len(Only(T, s)) <= Len(Append(Only(T, v), x))
          /\ \A i \in 1..Len(Only(T, s)) : Only(T, s)[i] = Append(Only(T, v), x)[i]
      BY <3>1, <3>2, <3>3
    <3> QED BY <1>0, <3>1, <3>4, PrefixEntries
  <2>6. Append(u, x) \in Seq(S)
    BY AppendProperties
  <2> QED BY <2>1, <2>3, <2>4, <2>5, <2>6
<1>3. Seq(S) \subseteq F
  <2> HIDE DEF F
  <2> QED BY <1>1, <1>2, SequenceInduction
<1> QED BY <1>3

\* Picking that leaves no line of the set out keeps these lines in their order.
LEMMA OnlyPicked ==
  ASSUME NEW S, NEW lines \in Seq(S), NEW I, NEW T,
         \A n \in 1..Len(lines) : lines[n] \in T => n \in I
  PROVE  Only(T, Picked(lines, I)) = Only(T, lines)
<1> DEFINE F == {s \in Seq(S) :
       (\A n \in 1..Len(s) : s[n] \in T => n \in I) => Only(T, Picked(s, I)) = Only(T, s)}
<1>1. ASSUME NEW s \in Seq(S), Len(s) = 0 PROVE s \in F
  <2>1. Picked(s, I) = <<>> /\ s = <<>>
    BY <1>1, PickedEmpty, EmptySeq
  <2> QED BY <2>1
<1>2. ASSUME NEW s \in Seq(S), NEW x \in S, s \in F PROVE Append(s, x) \in F
  <2> DEFINE t == Append(s, x)
             p == Picked(s, I)
  <2>1. /\ t \in Seq(S) /\ Len(s) \in Nat
        /\ \A i \in 1..Len(s) : i \in 1..Len(t) /\ t[i] = s[i]
        /\ Len(s) + 1 \in 1..Len(t) /\ t[Len(s) + 1] = x
    BY AppendEntries
  <2>2. Picked(t, I) = IF Len(s) + 1 \in I THEN Append(p, x) ELSE p
    BY PickedAppend
  <2>3. p \in Seq(S)
    BY PickedHolds
  <2>4. Only(T, t) = IF x \in T THEN Append(Only(T, s), x) ELSE Only(T, s)
    BY OnlyAppend
  <2>5. (\A n \in 1..Len(s) : s[n] \in T => n \in I) => Only(T, p) = Only(T, s)
    BY <1>2
  <2> HIDE DEF t, p
  <2>6. ASSUME \A n \in 1..Len(t) : t[n] \in T => n \in I
        PROVE  Only(T, Picked(t, I)) = Only(T, t)
    <3>1. Only(T, p) = Only(T, s)
      BY <2>1, <2>5, <2>6
    <3>2. Only(T, Append(p, x)) = IF x \in T THEN Append(Only(T, p), x) ELSE Only(T, p)
      BY <2>3, OnlyAppend
    <3>3. CASE Len(s) + 1 \in I
      BY <2>2, <2>4, <3>1, <3>2, <3>3
    <3>4. CASE Len(s) + 1 \notin I
      <4>1. x \notin T
        BY <2>1, <2>6, <3>4
      <4> QED BY <2>2, <2>4, <3>1, <3>4, <4>1
    <3> QED BY <3>3, <3>4
  <2> QED BY <2>1, <2>6 DEF t
<1>3. Seq(S) \subseteq F
  <2> HIDE DEF F
  <2> QED BY <1>1, <1>2, SequenceInduction
<1> QED BY <1>3

\* Picking from the beginning does not see what comes behind.
LEMMA PickedConcat ==
  ASSUME NEW S, NEW s \in Seq(S), NEW t \in Seq(S), NEW I, I \subseteq 1..Len(s)
  PROVE  Picked(s \o t, I) = Picked(s, I)
<1> DEFINE F == {u \in Seq(S) : Picked(s \o u, I) = Picked(s, I)}
<1>1. ASSUME NEW u \in Seq(S), Len(u) = 0 PROVE u \in F
  <2>1. u = <<>>
    BY <1>1, EmptySeq
  <2>2. s \o u = s
    BY <2>1, ConcatEmptySeq
  <2> QED BY <2>2
<1>2. ASSUME NEW u \in Seq(S), NEW x \in S, u \in F PROVE Append(u, x) \in F
  <2> DEFINE v == s \o u
  <2>1. v \in Seq(S) /\ Len(v) = Len(s) + Len(u) /\ Len(s) \in Nat /\ Len(u) \in Nat
    BY ConcatProperties, LenProperties
  <2>2. s \o Append(u, x) = Append(v, x)
    <3>1. <<x>> \in Seq(S)
      OBVIOUS
    <3>2. Append(u, x) = u \o <<x>> /\ Append(v, x) = v \o <<x>>
      BY <2>1, AppendIsConcat
    <3> QED BY <3>1, <3>2, ConcatAssociative
  <2>3. Picked(v, I) = Picked(s, I)
    BY <1>2
  <2> HIDE DEF v
  <2>4. Len(v) + 1 \notin I
    BY <2>1
  <2>5. Picked(Append(v, x), I) = Picked(v, I)
    BY <2>1, <2>4, PickedAppend
  <2>6. Append(u, x) \in Seq(S)
    BY AppendProperties
  <2> QED BY <2>2, <2>3, <2>5, <2>6
<1>3. Seq(S) \subseteq F
  <2> HIDE DEF F
  <2> QED BY <1>1, <1>2, SequenceInduction
<1> QED BY <1>3

-----------------------------------------------------------------------------
(* The rows that count: one for each run, and none older than another.      *)

\* Indices of rows with a time, and places that are numbers.
Dated(rows, among, place) ==
  IsFiniteSet(among) /\ \A i \in among : rows[i].written \in Nat /\ place[i] \in Int

\* Two rows of a key are not at the same place.
Placed(among, key, place) ==
  \A i, j \in among : key[i] = key[j] /\ place[i] = place[j] => i = j

\* A function with numbers for values is largest somewhere in a finite set.
LEMMA LargestAt ==
  ASSUME NEW S, IsFiniteSet(S), S # {}, NEW f, \A x \in S : f[x] \in Int
  PROVE  \E m \in S : \A n \in S : f[n] <= f[m]
<1> DEFINE T == {f[x] : x \in S}
           g == [x \in S |-> f[x]]
<1>1. g \in Surjection(S, T)
  BY DEF Surjection
<1>2. T # {} /\ T \in SUBSET Int
  OBVIOUS
<1>3. IsFiniteSet(T)
  <2> HIDE DEF T, g
  <2> QED BY <1>1, FS_Surjection
<1>4. PICK t \in T : \A u \in T : u <= t
  <2> HIDE DEF T
  <2> QED BY <1>2, <1>3, FiniteMax
<1> QED BY <1>4

\* Every row has a newest row of its key, when no two rows of a key have the
\* same place.
LEMMA NewestExists ==
  ASSUME NEW rows, NEW among, NEW key, NEW place,
         Dated(rows, among, place), Placed(among, key, place), NEW i \in among
  PROVE  \E j \in Newest(rows, among, key, place) :
           key[j] = key[i] /\ rows[j].written >= rows[i].written
<1> DEFINE C == {j \in among : key[j] = key[i]}
           written == [j \in among |-> rows[j].written]
<1>1. IsFiniteSet(C) /\ i \in C /\ \A j \in C : written[j] = rows[j].written /\ written[j] \in Int
  BY FS_Subset DEF Dated
<1>2. PICK newest \in C : \A j \in C : written[j] <= written[newest]
  <2> HIDE DEF C, written
  <2> QED BY <1>1, LargestAt
<1> DEFINE w == rows[newest].written
           D == {j \in C : rows[j].written = w}
<1>3. \A j \in C : rows[j].written <= w
  BY <1>1, <1>2
<1>4. IsFiniteSet(D) /\ newest \in D /\ \A j \in D : place[j] \in Int
  <2>1. newest \in D /\ \A j \in D : place[j] \in Int
    BY DEF Dated
  <2>2. IsFiniteSet(D)
    <3> HIDE DEF C
    <3> QED BY <1>1, FS_Subset
  <2> QED BY <2>1, <2>2
<1>5. PICK j \in D : \A k \in D : place[k] <= place[j]
  <2> HIDE DEF D
  <2> QED BY <1>4, LargestAt
<1> HIDE DEF written
<1>8. ASSUME NEW k \in among, key[j] = key[k]
      PROVE  j = k \/ Supersedes(rows[j], rows[k], place[j] > place[k])
  <2>1. k \in C /\ rows[k].written <= w
    BY <1>3, <1>5, <1>8
  <2>2. rows[j].written = w /\ j \in among
    BY <1>5
  <2>3. rows[k].written \in Nat /\ rows[j].written \in Nat /\ place[j] \in Int /\ place[k] \in Int
    BY <2>2 DEF Dated
  <2>4. CASE rows[k].written # w
    BY <2>1, <2>2, <2>3, <2>4 DEF Supersedes
  <2>5. CASE rows[k].written = w
    <3>1. place[k] <= place[j]
      BY <1>5, <2>1, <2>5
    <3>2. CASE place[k] = place[j]
      BY <1>8, <2>2, <3>2 DEF Placed
    <3>3. CASE place[k] # place[j]
      BY <2>2, <2>3, <2>5, <3>1, <3>3 DEF Supersedes
    <3> QED BY <3>2, <3>3
  <2> QED BY <2>4, <2>5
<1>9. j \in among /\ key[j] = key[i] /\ rows[j].written = w
  BY <1>5
<1>10. rows[i].written <= w
  BY <1>1, <1>3
<1>11. j \in Newest(rows, among, key, place)
  BY <1>8, <1>9 DEF Newest
<1>12. rows[i].written \in Nat /\ rows[j].written \in Nat
  BY <1>9 DEF Dated
<1> QED BY <1>9, <1>10, <1>11, <1>12

\* It is the only one.
LEMMA NewestIsOne ==
  ASSUME NEW rows, NEW among, NEW key, NEW place, Dated(rows, among, place),
         NEW i \in Newest(rows, among, key, place), NEW j \in Newest(rows, among, key, place),
         key[i] = key[j]
  PROVE  i = j
<1> SUFFICES ASSUME i # j PROVE FALSE
  OBVIOUS
<1>1. i \in among /\ j \in among
  BY DEF Newest
<1>2. /\ Supersedes(rows[i], rows[j], place[i] > place[j])
      /\ Supersedes(rows[j], rows[i], place[j] > place[i])
  BY <1>1 DEF Newest
<1>3. /\ rows[i].written \in Nat /\ rows[j].written \in Nat
      /\ place[i] \in Int /\ place[j] \in Int
  BY <1>1 DEF Dated
<1> QED BY <1>2, <1>3 DEF Supersedes

\* The two passes leave a row at least as new of every run, and one of each run
\* and directory, when rows in the same place have the same key.
LEMMA NewestRuns ==
  ASSUME NEW rows, NEW among, NEW place, Dated(rows, among, place), among \subseteq Int,
         \A i, j \in among : place[i] = place[j] => RowKey(rows[i]) = RowKey(rows[j])
  PROVE  /\ NewestOfRuns(rows, among, place) \subseteq among
         /\ \A i \in among : \E j \in NewestOfRuns(rows, among, place) :
              rows[j].run = rows[i].run /\ rows[j].written >= rows[i].written
         /\ \A i, j \in NewestOfRuns(rows, among, place) :
              RunKey(rows[i]) = RunKey(rows[j]) => i = j
<1> DEFINE lines == [i \in among |-> i]
           rowKey == [i \in among |-> RowKey(rows[i])]
           runKey == [i \in among |-> RunKey(rows[i])]
           once == Newest(rows, among, rowKey, lines)
           twice == Newest(rows, once, runKey, place)
<1>1. NewestOfRuns(rows, among, place) = twice
  BY DEF NewestOfRuns
<1>2. once \subseteq among /\ twice \subseteq once
  BY DEF Newest
<1>3. Dated(rows, among, lines) /\ Dated(rows, once, place)
  <2>1. IsFiniteSet(once)
    BY <1>2, FS_Subset DEF Dated
  <2>2. Dated(rows, once, place)
    BY <1>2, <2>1 DEF Dated
  <2>3. Dated(rows, among, lines)
    BY DEF Dated
  <2> QED BY <2>2, <2>3
<1>4. /\ \A i \in among : lines[i] = i /\ rowKey[i] = RowKey(rows[i]) /\ runKey[i] = RunKey(rows[i])
  OBVIOUS
<1>5. \A x, y : RowKey(x) = RowKey(y) => x.run = y.run
  BY DEF RowKey
<1>6. \A x, y : RunKey(x) = RunKey(y) => x.run = y.run
  BY DEF RunKey
<1> HIDE DEF lines, rowKey, runKey
<1>7. Placed(once, runKey, place)
  <2> SUFFICES ASSUME NEW i \in once, NEW j \in once, place[i] = place[j] PROVE i = j
    BY DEF Placed
  <2>1. i \in among /\ j \in among
    BY <1>2
  <2>2. RowKey(rows[i]) = RowKey(rows[j])
    BY <2>1
  <2>3. rowKey[i] = rowKey[j]
    BY <1>4, <2>1, <2>2
  <2> QED BY <1>3, <2>3, NewestIsOne
<1>8. ASSUME NEW i \in among
      PROVE  \E j \in twice : rows[j].run = rows[i].run /\ rows[j].written >= rows[i].written
  <2>1. Placed(among, rowKey, lines)
    BY <1>4 DEF Placed
  <2>2. PICK k \in once : rowKey[k] = rowKey[i] /\ rows[k].written >= rows[i].written
    <3>1. once = Newest(rows, among, rowKey, lines) /\ Dated(rows, among, lines)
      BY <1>3
    <3> HIDE DEF once, twice
    <3>2. \E k \in Newest(rows, among, rowKey, lines) :
            rowKey[k] = rowKey[i] /\ rows[k].written >= rows[i].written
      BY <2>1, <3>1, NewestExists
    <3> QED BY <3>1, <3>2
  <2>3. PICK j \in twice : runKey[j] = runKey[k] /\ rows[j].written >= rows[k].written
    <3>1. twice = Newest(rows, once, runKey, place) /\ Dated(rows, once, place)
      BY <1>3
    <3> HIDE DEF once, twice
    <3>2. \E j \in Newest(rows, once, runKey, place) :
            runKey[j] = runKey[k] /\ rows[j].written >= rows[k].written
      BY <1>7, <3>1, NewestExists
    <3> QED BY <3>1, <3>2
  <2>4. i \in among /\ j \in among /\ k \in among
    BY <1>2
  <2>5. rows[j].run = rows[i].run
    BY <1>4, <1>5, <1>6, <2>2, <2>3, <2>4
  <2>6. rows[i].written \in Nat /\ rows[j].written \in Nat /\ rows[k].written \in Nat
    BY <2>4 DEF Dated
  <2>7. rows[j].written >= rows[i].written
    BY <2>2, <2>3, <2>6
  <2> QED BY <2>5, <2>7
<1>9. ASSUME NEW i \in twice, NEW j \in twice, RunKey(rows[i]) = RunKey(rows[j]) PROVE i = j
  <2>1. runKey[i] = runKey[j]
    BY <1>2, <1>4, <1>9
  <2> HIDE DEF once
  <2> QED BY <1>3, <2>1, NewestIsOne
<1> QED BY <1>1, <1>2, <1>8, <1>9

-----------------------------------------------------------------------------
(* What a report shows.                                                     *)

\* Lines that are rows with a time, or no rows.
Timed(lines) == \A i \in 1..Len(lines) : IsRow(lines[i]) => lines[i].written \in Nat

\* A set of numbers that is not empty has a least member.
LEMMA LeastNumber ==
  ASSUME NEW S \in SUBSET Nat, S # {}
  PROVE  \E m \in S : \A n \in S : m <= n
<1>1. PICK m \in S : \A n \in S : ~ (<<n, m>> \in OpToRel(<, Nat))
  BY NatLessThanWellFounded, WFMin
<1>2. \A n \in S : ~ (n < m)
  BY <1>1 DEF OpToRel
<1> QED BY <1>2

\* The places of the rows in a report are fit for choosing among them.
LEMMA ReportPlaces ==
  ASSUME NEW S, NEW lines \in Seq(S), Timed(lines)
  PROVE  \E rows, first :
           /\ rows = {i \in 1..Len(lines) : IsRow(lines[i])}
           /\ Dated(lines, rows, first) /\ rows \subseteq Int
           /\ \A i, j \in rows : first[i] = first[j] => RowKey(lines[i]) = RowKey(lines[j])
           /\ ReportedLines(lines) = NewestOfRuns(lines, rows, first)
<1> DEFINE rows == {i \in 1..Len(lines) : IsRow(lines[i])}
           Leads(i, j) == /\ RowKey(lines[j]) = RowKey(lines[i])
                          /\ \A k \in rows : RowKey(lines[k]) = RowKey(lines[i]) => j <= k
           first == [i \in rows |-> CHOOSE j \in rows : Leads(i, j)]
<1>0. Len(lines) \in Nat
  BY LenProperties
<1>1. \A i \in rows : first[i] \in rows /\ RowKey(lines[first[i]]) = RowKey(lines[i])
  <2> SUFFICES ASSUME NEW i \in rows PROVE \E j \in rows : Leads(i, j)
    OBVIOUS
  <2> DEFINE T == {j \in rows : RowKey(lines[j]) = RowKey(lines[i])}
  <2>1. T \in SUBSET Nat /\ i \in T
    BY <1>0
  <2>2. PICK m \in T : \A n \in T : m <= n
    <3> HIDE DEF T
    <3> QED BY <2>1, LeastNumber
  <2> QED BY <2>2
<1>2. IsFiniteSet(rows)
  <2>1. 1 \in Int /\ Len(lines) \in Int /\ rows \in SUBSET (1..Len(lines))
    BY <1>0
  <2>2. IsFiniteSet(1..Len(lines))
    BY <2>1, FS_Interval
  <2> HIDE DEF rows
  <2> QED BY <2>1, <2>2, FS_Subset
<1>3. ReportedLines(lines) = NewestOfRuns(lines, rows, first)
  BY DEF ReportedLines
<1>4. \A i \in rows : i \in Int /\ lines[i].written \in Nat
  BY <1>0 DEF Timed
<1> HIDE DEF first
<1>5. Dated(lines, rows, first)
  BY <1>1, <1>2, <1>4 DEF Dated
<1>6. \A i, j \in rows : first[i] = first[j] => RowKey(lines[i]) = RowKey(lines[j])
  BY <1>1
<1> QED BY <1>3, <1>4, <1>5, <1>6

\* A report shows of every run a row at least as new as any line of it.
LEMMA ReportShows ==
  ASSUME NEW S, NEW lines \in Seq(S), Timed(lines)
  PROVE  /\ ReportedLines(lines) \subseteq {i \in 1..Len(lines) : IsRow(lines[i])}
         /\ \A i \in 1..Len(lines) : IsRow(lines[i]) =>
              \E x \in Reported(lines) : x.run = lines[i].run /\ x.written >= lines[i].written
<1>1. PICK rows, first :
           /\ rows = {i \in 1..Len(lines) : IsRow(lines[i])}
           /\ Dated(lines, rows, first) /\ rows \subseteq Int
           /\ \A i, j \in rows : first[i] = first[j] => RowKey(lines[i]) = RowKey(lines[j])
           /\ ReportedLines(lines) = NewestOfRuns(lines, rows, first)
  BY ReportPlaces
<1> DEFINE shown == NewestOfRuns(lines, rows, first)
<1>2. /\ shown \subseteq rows
      /\ \A i \in rows : \E j \in shown :
           lines[j].run = lines[i].run /\ lines[j].written >= lines[i].written
      /\ \A i, j \in shown : RunKey(lines[i]) = RunKey(lines[j]) => i = j
  BY <1>1, NewestRuns
<1>5. ReportedLines(lines) = shown
  BY <1>1
<1> HIDE DEF shown
<1>3. ASSUME NEW i \in 1..Len(lines), IsRow(lines[i])
      PROVE  \E x \in Reported(lines) : x.run = lines[i].run /\ x.written >= lines[i].written
  <2>1. PICK j \in ReportedLines(lines) :
          lines[j].run = lines[i].run /\ lines[j].written >= lines[i].written
    BY <1>1, <1>2, <1>3, <1>5
  <2> QED BY <2>1 DEF Reported
<1> QED BY <1>1, <1>2, <1>3, <1>5

-----------------------------------------------------------------------------
(* The rewrite of the mirror.                                               *)

\* What a line of the mirror can be.
Line == Row \cup OtherRows \cup {Torn}
\* A line of the hook log.
Decision == [hook : Nat]

\* A row has the fields of a row; pieces and decisions have not.
LEMMA RowsAreRows ==
  /\ \A x \in Row : IsRow(x) /\ x.run \in Run /\ x.source \in Clone /\ x.written \in Nat
                    /\ x.root \in Repositories \cup {NoRoot}
  /\ \A x \in OtherRows : IsRow(x) /\ x.written \in Nat
  /\ ~IsRow(Torn) /\ \A x \in Decision : ~IsRow(x)
<1>1. \A x \in Row : IsRow(x)
  BY DEF Row, IsRow
<1>2. \A x \in Row : x.run \in Run /\ x.source \in Clone /\ x.written \in Nat
                    /\ x.root \in Repositories \cup {NoRoot}
  BY DEF Row, Time
<1>3. ~IsRow(Torn)
  BY DEF Torn, IsRow
<1>4. \A x \in Decision : ~IsRow(x)
  BY DEF Decision, IsRow
<1>5. ASSUME NEW x \in OtherRows PROVE IsRow(x) /\ x.written \in Nat
  <2>1. PICK i \in 1..Len(Others) : IsRow(Others[i]) /\ x = Others[i]
    BY DEF OtherRows
  <2>2. Others[i] \in OtherRow \cup {Torn}
    BY TelemetryConstants, ElementOfSeq
  <2>3. x \in OtherRow
    BY <1>3, <2>1, <2>2
  <2> QED BY <2>1, <2>3 DEF OtherRow
<1> QED BY <1>1, <1>2, <1>3, <1>4, <1>5

\* A row of one of the repositories is of a run of a clone, or of a run that
\* this row connects with it.
LEMMA KinOfRepositories ==
  ASSUME NEW x \in Line, IsRow(x), x.root \in Repositories
  PROVE  Related(x)
BY RowsAreRows DEF Line, Kin, Related

\* A finite set is listed by SetToSeq.
LEMMA SetIsListed ==
  ASSUME NEW S, IsFiniteSet(S)
  PROVE  /\ SetToSeq(S) \in Seq(S)
         /\ \A x \in S : \E i \in 1..Len(SetToSeq(S)) : SetToSeq(S)[i] = x
<1> DEFINE n == Cardinality(S)
           Lists(f) == f \in [1..n -> S] /\ IsInjective(f)
<1>1. n \in Nat /\ ExistsBijection(1..n, S)
  BY FS_CardinalityType
<1>2. \E f \in [1..n -> S] : IsInjective(f)
  <2>1. PICK f : f \in Bijection(1..n, S)
    BY <1>1 DEF ExistsBijection
  <2> QED BY <2>1 DEF Bijection, Injection, IsInjective
<1>3. SetToSeq(S) \in [1..n -> S] /\ IsInjective(SetToSeq(S))
  BY <1>2 DEF SetToSeq
<1>4. SetToSeq(S) \in Injection(1..n, S)
  BY <1>3 DEF Injection, IsInjective
<1>5. IsFiniteSet(1..n) /\ Cardinality(1..n) = n
  BY <1>1, FS_Interval
<1>6. SetToSeq(S) \in Surjection(1..n, S)
  BY <1>4, <1>5, FS_Injection
<1>7. SetToSeq(S) \in Seq(S) /\ Len(SetToSeq(S)) = n
  BY <1>1, <1>3
<1> QED BY <1>6, <1>7 DEF Surjection

\* The key of a line of the mirror tells directories from commits: a line with
\* the key of a row of a clone is related to one.
LEMMA SameKeyIsKin ==
  ASSUME NEW x \in Line, IsRow(x), NEW f \in Row, RowKey(x) = RowKey(f)
  PROVE  Related(x)
<1>1. x \in Row \cup OtherRows
  BY RowsAreRows DEF Line
<1>2. x.source \in Directories /\ (x.root # NoRoot => x.root \in RootCommits)
  BY <1>1, RowsAreRows DEF Directories, RootCommits
<1>3. f.source \in Clone /\ f.root \in Repositories \cup {NoRoot}
  BY RowsAreRows
<1>4. Clone \subseteq Directories /\ Repositories \subseteq RootCommits 
  BY DEF Directories, RootCommits
<1>5. (IF x.root = NoRoot THEN x.source ELSE x.root) = (IF f.root = NoRoot THEN f.source ELSE f.root)
  BY DEF RowKey
<1>6. Directories \cap RootCommits = {}
  BY TelemetryConstants
<1>7. CASE x.root = NoRoot /\ f.root = NoRoot
  BY <1>3, <1>5, <1>7 DEF Related
<1>8. CASE x.root = NoRoot /\ f.root # NoRoot
  BY <1>2, <1>3, <1>4, <1>5, <1>6, <1>8
<1>9. CASE x.root # NoRoot /\ f.root = NoRoot
  BY <1>2, <1>3, <1>4, <1>5, <1>6, <1>9
<1>10. CASE x.root # NoRoot /\ f.root # NoRoot
  <2>1. x.root \in Repositories
    BY <1>3, <1>5, <1>10
  <2> QED BY <2>1, KinOfRepositories
<1> QED BY <1>7, <1>8, <1>9, <1>10

\* A row that a rewrite takes: of the repository, or of a run at hand when Git
\* could not tell the repository of one of the two.
MustGo(row, fresh, root) ==
  \/ Claimed(row, fresh, root)
  \/ (row.root = NoRoot \/ root = NoRoot) /\ \E x \in fresh : RunKey(row) = RunKey(x)

\* How a rewrite comes about: the rows at hand come behind the lines, the taken
\* rows are dealt with, and the rest stays in front.
Parts(lines, fresh, root, added, all, taken) ==
  /\ all = lines \o added
  /\ \A x \in fresh : \E i \in 1..Len(added) : added[i] = x
  /\ taken \subseteq 1..Len(all) /\ (Len(lines) + 1)..Len(all) \subseteq taken
  /\ \A i \in taken : IsRow(all[i]) /\ Related(all[i])
  /\ \A i \in 1..Len(added) : added[i] \in fresh
  /\ \A i \in 1..Len(lines) : IsRow(lines[i]) /\ MustGo(lines[i], fresh, root) => i \in taken
  /\ MergeMirror(lines, fresh, root) =
       Picked(all, (1..Len(lines)) \ taken)
       \o Picked(all, NewestOfRuns(all, taken, [i \in 1..Len(all) |-> i]))

\* A rewrite takes rows of the kin out of the mirror, and puts the newest of them
\* and of the rows at hand behind what is left.
LEMMA MergeParts ==
  ASSUME NEW lines \in Seq(Line), NEW fresh \in SUBSET Row, IsFiniteSet(fresh),
         NEW root \in Repositories \cup {NoRoot}
  PROVE  \E added \in Seq(Row), all \in Seq(Line), taken \in SUBSET Int :
           Parts(lines, fresh, root, added, all, taken)
<1> DEFINE added == SetToSeq(fresh)
           all == lines \o added
           old == {i \in 1..Len(lines) : IsRow(lines[i])}
           claimed == {i \in old : Claimed(lines[i], fresh, root)}
           mine == claimed \cup ((1..Len(all)) \ (1..Len(lines)))
           joined == {i \in old \ claimed :
                   /\ all[i].root = NoRoot \/ root = NoRoot
                   /\ RunKey(all[i]) \in {RunKey(all[j]) : j \in mine}}
           taken == mine \cup joined
<1>1. MergeMirror(lines, fresh, root) =
        Picked(all, (1..Len(lines)) \ taken)
        \o Picked(all, NewestOfRuns(all, taken, [i \in 1..Len(all) |-> i]))
  BY DEF MergeMirror
<1>2. added \in Seq(fresh) /\ \A x \in fresh : \E i \in 1..Len(added) : added[i] = x
  BY SetIsListed
<1>3. added \in Seq(Row)
  <2> HIDE DEF added
  <2> QED BY <1>2, SeqMonotonic
<1>4. added \in Seq(Line)
  <2> HIDE DEF added
  <2>1. Row \subseteq Line
    BY DEF Line
  <2> QED BY <1>3, <2>1, SeqMonotonic
<1> HIDE DEF added
<1>5. /\ all \in Seq(Line) /\ Len(lines) \in Nat /\ Len(added) \in Nat
      /\ Len(all) = Len(lines) + Len(added)
      /\ \A i \in 1..Len(lines) : all[i] = lines[i]
      /\ \A i \in 1..Len(all) : i \notin 1..Len(lines) => all[i] \in Row
  <2>1. /\ all \in Seq(Line) /\ Len(all) = Len(lines) + Len(added)
        /\ Len(lines) \in Nat /\ Len(added) \in Nat
        /\ \A i \in 1..(Len(lines) + Len(added)) :
             all[i] = IF i <= Len(lines) THEN lines[i] ELSE added[i - Len(lines)]
    BY <1>4, ConcatProperties, LenProperties
  <2> HIDE DEF all
  <2>2. \A i \in 1..Len(lines) : all[i] = lines[i]
    BY <2>1
  <2>3. ASSUME NEW i \in 1..Len(all), i \notin 1..Len(lines) PROVE all[i] \in Row
    <3>1. i - Len(lines) \in 1..Len(added) /\ ~(i <= Len(lines))
      BY <2>1, <2>3
    <3>2. all[i] = added[i - Len(lines)]
      BY <2>1, <3>1
    <3> QED BY <1>3, <3>1, <3>2, ElementOfSeq
  <2> QED BY <2>1, <2>2, <2>3
<1> HIDE DEF all
<1>6. taken \subseteq 1..Len(all) /\ (Len(lines) + 1)..Len(all) \subseteq taken
  BY <1>5
<1>7. \A i \in mine : IsRow(all[i]) /\ Related(all[i])
  <2>1. ASSUME NEW i \in claimed PROVE IsRow(all[i]) /\ Related(all[i])
    <3>1. IsRow(lines[i]) /\ all[i] = lines[i] /\ lines[i] \in Line /\ Claimed(lines[i], fresh, root)
      BY <1>5, ElementOfSeq
    <3>2. CASE RowKey(lines[i]) \in {RowKey(f) : f \in fresh}
      BY <3>1, <3>2, SameKeyIsKin
    <3>3. CASE root # NoRoot /\ lines[i].root = root
      BY <3>1, <3>3, KinOfRepositories
    <3> QED BY <3>1, <3>2, <3>3 DEF Claimed
  <2>2. ASSUME NEW i \in (1..Len(all)) \ (1..Len(lines)) PROVE IsRow(all[i]) /\ Related(all[i])
    BY <1>5, RowsAreRows DEF Related
  <2> HIDE DEF claimed
  <2> QED BY <2>1, <2>2
<1>8. \A i \in joined : IsRow(all[i]) /\ Related(all[i])
  <2> SUFFICES ASSUME NEW i \in joined PROVE IsRow(all[i]) /\ Related(all[i])
    OBVIOUS
  <2>1. PICK j \in mine : RunKey(all[i]) = RunKey(all[j])
    <3> HIDE DEF mine
    <3> QED OBVIOUS
  <2>2. i \in old
    <3> HIDE DEF mine, claimed, old
    <3> QED OBVIOUS
  <2>3. IsRow(all[i])
    BY <1>5, <2>2
  <2>4. all[i].source = all[j].source /\ RunKey(all[i]) = RunKey(all[j])
    BY <2>1 DEF RunKey
  <2>5. Related(all[j])
    <3> HIDE DEF mine
    <3> QED BY <1>7
  <2> HIDE DEF mine
  <2> QED BY <2>3, <2>4, <2>5 DEF Related
<1>9. \A i \in taken : IsRow(all[i]) /\ Related(all[i])
  <2> HIDE DEF mine, joined
  <2> QED BY <1>7, <1>8
<1>10. \A i \in 1..Len(added) : added[i] \in fresh
  BY <1>2, ElementOfSeq
<1>11. ASSUME NEW i \in 1..Len(lines), IsRow(lines[i]), MustGo(lines[i], fresh, root)
       PROVE  i \in taken
  <2>1. i \in old /\ all[i] = lines[i]
    BY <1>5, <1>11
  <2>2. CASE Claimed(lines[i], fresh, root)
    <3>1. i \in claimed
      BY <2>1, <2>2
    <3> HIDE DEF claimed
    <3> QED BY <3>1
  <2>3. CASE ~Claimed(lines[i], fresh, root)
    <3>1. lines[i].root = NoRoot \/ root = NoRoot
      BY <1>11, <2>3 DEF MustGo
    <3>2. PICK x \in fresh : RunKey(lines[i]) = RunKey(x)
      BY <1>11, <2>3 DEF MustGo
    <3>3. PICK j \in 1..Len(added) : added[j] = x
      BY <1>2
    <3>4. Len(lines) + j \in mine /\ all[Len(lines) + j] = x
      <4>1. Len(lines) + j \in (1..Len(all)) \ (1..Len(lines))
        BY <1>5
      <4>2. all[Len(lines) + j] = added[j]
        <5>1. (Len(lines) + j) - Len(lines) = j /\ ~(Len(lines) + j <= Len(lines))
              /\ Len(lines) + j \in 1..(Len(lines) + Len(added))
          BY <1>5
        <5>2. all[Len(lines) + j] = added[(Len(lines) + j) - Len(lines)]
          BY <1>4, <5>1, ConcatProperties DEF all
        <5> QED BY <5>1, <5>2
      <4> HIDE DEF claimed
      <4> QED BY <3>3, <4>1, <4>2
    <3>5. i \notin claimed
      BY <2>3
    <3>6. RunKey(all[i]) \in {RunKey(all[n]) : n \in mine}
      <4> HIDE DEF mine
      <4> QED BY <2>1, <3>2, <3>4
    <3>7. i \in joined
      <4> HIDE DEF mine, claimed, old
      <4> QED BY <2>1, <3>1, <3>5, <3>6
    <3> HIDE DEF joined, mine
    <3> QED BY <3>7
  <2> QED BY <2>2, <2>3
<1> HIDE DEF taken
<1>12. taken \in SUBSET Int
  BY <1>5, <1>6
<1>13. Parts(lines, fresh, root, added, all, taken)
  BY <1>1, <1>2, <1>5, <1>6, <1>9, <1>10, <1>11 DEF all, Parts
<1> QED BY <1>3, <1>5, <1>12, <1>13

\* The lines of the mirror that Strangers shows.
StrangeLine == {x \in Line : Strange(x)}

\* Strangers is a choice by a set.
LEMMA StrangersAreOnly ==
  ASSUME NEW lines \in Seq(Line)
  PROVE  Strangers(lines) = Only(StrangeLine, lines)
<1>1. DOMAIN lines = 1..Len(lines) /\ \A n \in 1..Len(lines) : lines[n] \in Line
  BY LenProperties, ElementOfSeq
<1> DEFINE I == {i \in DOMAIN lines : Strange(lines[i])}
           J == {i \in DOMAIN lines : lines[i] \in StrangeLine}
<1>2. I = J
  BY <1>1 DEF StrangeLine
<1>3. Strangers(lines) = Picked(lines, I) /\ Only(StrangeLine, lines) = Picked(lines, J)
  BY DEF Strangers, Only
<1> HIDE DEF I, J
<1> QED BY <1>2, <1>3

\* The lines show the run of a row, with it or with a newer one.
Shows(lines, row) ==
  \E i \in 1..Len(lines) : IsRow(lines[i]) /\ lines[i].run = row.run /\ lines[i].written >= row.written

\* A rewrite loses no run that a line of the mirror or a row at hand shows, and
\* leaves the lines of other repositories, in their order.
LEMMA MergeKeeps ==
  ASSUME NEW lines \in Seq(Line), NEW fresh \in SUBSET Row, IsFiniteSet(fresh),
         NEW root \in Repositories \cup {NoRoot}, NEW merged,
         merged = MergeMirror(lines, fresh, root)
  PROVE  /\ merged \in Seq(Line)
         /\ \A row \in fresh : Shows(merged, row)
         /\ \A row \in Row \cup OtherRows : Shows(lines, row) => Shows(merged, row)
         /\ IsPrefix(Strangers(lines), Strangers(merged))
<1>1. PICK added \in Seq(Row), all \in Seq(Line), taken \in SUBSET Int :
           Parts(lines, fresh, root, added, all, taken)
  BY MergeParts
<1> USE DEF Parts
<1> DEFINE rest == (1..Len(lines)) \ taken
           place == [i \in 1..Len(all) |-> i]
           kept == NewestOfRuns(all, taken, place)
           front == Picked(all, rest)
           back == Picked(all, kept)
<1>2. /\ Len(lines) \in Nat /\ Len(added) \in Nat /\ Len(all) \in Nat
      /\ Len(all) = Len(lines) + Len(added)
      /\ \A i \in 1..Len(lines) : all[i] = lines[i]
      /\ \A i \in 1..Len(added) : Len(lines) + i \in 1..Len(all) /\ all[Len(lines) + i] = added[i]
  <2>1. added \in Seq(Line)
    <3>1. Row \subseteq Line
      BY DEF Line
    <3> QED BY <3>1, SeqMonotonic
  <2>2. /\ Len(all) = Len(lines) + Len(added)
        /\ Len(lines) \in Nat /\ Len(added) \in Nat
        /\ \A i \in 1..(Len(lines) + Len(added)) :
             all[i] = IF i <= Len(lines) THEN lines[i] ELSE added[i - Len(lines)]
    BY <1>1, <2>1, ConcatProperties, LenProperties
  <2>3. \A i \in 1..Len(lines) : all[i] = lines[i]
    BY <2>2
  <2>4. ASSUME NEW i \in 1..Len(added)
        PROVE  Len(lines) + i \in 1..Len(all) /\ all[Len(lines) + i] = added[i]
    <3>1. /\ Len(lines) + i \in 1..(Len(lines) + Len(added)) /\ ~(Len(lines) + i <= Len(lines))
          /\ (Len(lines) + i) - Len(lines) = i
      BY <2>2
    <3>2. all[Len(lines) + i] = added[(Len(lines) + i) - Len(lines)]
      BY <2>2, <3>1
    <3> QED BY <2>2, <3>1, <3>2
  <2>5. Len(all) \in Nat
    BY <2>2
  <2> HIDE DEF rest, place, kept, front, back
  <2> QED BY <2>2, <2>3, <2>4, <2>5
<1>3. \A i \in 1..Len(all) : IsRow(all[i]) => all[i].written \in Nat
  <2>1. \A i \in 1..Len(all) : all[i] \in Line
    BY ElementOfSeq
  <2> QED BY <2>1, RowsAreRows DEF Line
<1>4. Dated(all, taken, place)
  <2>1. IsFiniteSet(1..Len(all)) /\ taken \in SUBSET (1..Len(all))
    BY <1>1, <1>2, FS_Interval
  <2>2. IsFiniteSet(taken)
    BY <2>1, FS_Subset
  <2>3. \A i \in taken : i \in 1..Len(all) /\ place[i] = i /\ i \in Int /\ all[i].written \in Nat
    <3> SUFFICES ASSUME NEW i \in taken
                 PROVE  i \in 1..Len(all) /\ place[i] = i /\ i \in Int /\ all[i].written \in Nat
      OBVIOUS
    <3>1. i \in 1..Len(all) /\ IsRow(all[i])
      BY <1>1
    <3> QED BY <1>2, <1>3, <3>1
  <2> HIDE DEF place
  <2> QED BY <2>2, <2>3 DEF Dated
<1>5. /\ kept \subseteq taken
      /\ \A i \in taken : \E j \in kept : all[j].run = all[i].run /\ all[j].written >= all[i].written
  <2>1. taken \subseteq Int
    BY <1>1, <1>2
  <2>2. \A i \in taken : place[i] = i
    BY <1>1
  <2>3. \A m, n \in taken : place[m] = place[n] => RowKey(all[m]) = RowKey(all[n])
    BY <2>2
  <2> HIDE DEF place
  <2> QED BY <1>4, <2>1, <2>3, NewestRuns
<1> HIDE DEF kept
<1>6. /\ front \in Seq(Line)
      /\ \A n \in 1..Len(all) : n \in rest => \E k \in 1..Len(front) : front[k] = all[n]
  <2> HIDE DEF rest
  <2> QED BY PickedHolds
<1>7. /\ back \in Seq(Line)
      /\ \A n \in 1..Len(all) : n \in kept => \E k \in 1..Len(back) : back[k] = all[n]
  BY PickedHolds
<1>8. merged = front \o back
  BY <1>1 DEF kept
<1> HIDE DEF front, back
<1>9. merged \in Seq(Line)
  BY <1>6, <1>7, <1>8, ConcatProperties
<1>10. /\ \A k \in 1..Len(front) : k \in 1..Len(merged) /\ merged[k] = front[k]
       /\ \A k \in 1..Len(back) : Len(front) + k \in 1..Len(merged) /\ merged[Len(front) + k] = back[k]
  <2>1. /\ Len(merged) = Len(front) + Len(back)
        /\ Len(front) \in Nat /\ Len(back) \in Nat
        /\ \A i \in 1..(Len(front) + Len(back)) :
             merged[i] = IF i <= Len(front) THEN front[i] ELSE back[i - Len(front)]
    BY <1>6, <1>7, <1>8, ConcatProperties, LenProperties
  <2>2. \A k \in 1..Len(front) : k \in 1..Len(merged) /\ merged[k] = front[k]
    BY <2>1
  <2>3. ASSUME NEW k \in 1..Len(back)
        PROVE  Len(front) + k \in 1..Len(merged) /\ merged[Len(front) + k] = back[k]
    <3>1. /\ Len(front) + k \in 1..(Len(front) + Len(back)) /\ ~(Len(front) + k <= Len(front))
          /\ (Len(front) + k) - Len(front) = k
      BY <2>1
    <3>2. merged[Len(front) + k] = back[(Len(front) + k) - Len(front)]
      BY <2>1, <3>1
    <3> QED BY <2>1, <3>1, <3>2
  <2> QED BY <2>2, <2>3
<1>11. ASSUME NEW n \in 1..Len(all), n \in rest \/ n \in kept
       PROVE  \E k \in 1..Len(merged) : merged[k] = all[n]
  <2>1. CASE n \in rest
    <3>1. PICK k \in 1..Len(front) : front[k] = all[n]
      BY <1>6, <2>1
    <3> QED BY <1>10, <3>1
  <2>2. CASE n \in kept
    <3>1. PICK k \in 1..Len(back) : back[k] = all[n]
      BY <1>7, <2>2
    <3> QED BY <1>10, <3>1
  <2> QED BY <1>11, <2>1, <2>2
<1>12. ASSUME NEW row \in Row \cup OtherRows, NEW n \in 1..Len(all), IsRow(all[n]),
              all[n].run = row.run, all[n].written >= row.written
       PROVE  Shows(merged, row)
  <2>1. CASE n \in taken
    <3>1. PICK j \in kept : all[j].run = all[n].run /\ all[j].written >= all[n].written
      BY <1>5, <2>1
    <3>2. j \in 1..Len(all) /\ IsRow(all[j])
      BY <1>1, <1>5
    <3>3. PICK k \in 1..Len(merged) : merged[k] = all[j]
      BY <1>11, <3>2
    <3>4. all[j].written \in Nat /\ all[n].written \in Nat /\ row.written \in Nat
      BY <1>3, <1>12, <3>2, RowsAreRows
    <3>5. all[j].written >= row.written
      BY <1>12, <3>1, <3>4
    <3> QED BY <1>12, <3>1, <3>2, <3>3, <3>5 DEF Shows
  <2>2. CASE n \notin taken
    <3>1. n \in rest
      <4>1. n \notin (Len(lines) + 1)..Len(all)
        BY <1>1, <2>2
      <4>2. n \in 1..Len(lines)
        BY <1>2, <4>1
      <4> QED BY <2>2, <4>2
    <3>2. PICK k \in 1..Len(merged) : merged[k] = all[n]
      BY <1>11, <3>1
    <3> QED BY <1>12, <3>2 DEF Shows
  <2> QED BY <2>1, <2>2
<1>13. ASSUME NEW row \in fresh PROVE Shows(merged, row)
  <2>1. PICK i \in 1..Len(added) : added[i] = row
    BY <1>1
  <2>2. Len(lines) + i \in 1..Len(all) /\ all[Len(lines) + i] = row
    BY <1>2, <2>1
  <2>3. row \in Row /\ IsRow(row) /\ row.written >= row.written
    BY RowsAreRows
  <2> QED BY <1>12, <2>2, <2>3
<1>14. ASSUME NEW row \in Row \cup OtherRows, Shows(lines, row) PROVE Shows(merged, row)
  <2>1. PICK i \in 1..Len(lines) :
          IsRow(lines[i]) /\ lines[i].run = row.run /\ lines[i].written >= row.written
    BY <1>14 DEF Shows
  <2>2. i \in 1..Len(all) /\ all[i] = lines[i]
    BY <1>2
  <2> QED BY <1>12, <2>1, <2>2
<1>15. IsPrefix(Strangers(lines), Strangers(merged))
  <2>1. front = Picked(lines, rest)
    <3>1. added \in Seq(Line)
      <4>1. Row \subseteq Line
        BY DEF Line
      <4> QED BY <4>1, SeqMonotonic
    <3>2. rest \subseteq 1..Len(lines)
      OBVIOUS
    <3>3. Picked(lines \o added, rest) = Picked(lines, rest)
      <4> HIDE DEF rest
      <4> QED BY <3>1, <3>2, PickedConcat
    <3> QED BY <1>1, <3>3 DEF front
  <2>2. \A n \in 1..Len(lines) : lines[n] \in StrangeLine => n \in rest
    BY <1>1, <1>2 DEF StrangeLine, Strange
  <2>3. Only(StrangeLine, Picked(lines, rest)) = Only(StrangeLine, lines)
    <3> HIDE DEF rest
    <3> QED BY <2>2, OnlyPicked
  <2>4. IsPrefix(Only(StrangeLine, front), Only(StrangeLine, front \o back))
    BY <1>6, <1>7, OnlyPrefix
  <2> QED BY <1>8, <1>9, <2>1, <2>3, <2>4, StrangersAreOnly
<1> QED BY <1>9, <1>13, <1>14, <1>15

-----------------------------------------------------------------------------
(* What a command carries, and who holds the locks.                         *)

\* What a slot holds.
Command == [kind : {"idle", "end", "rebuild", "sync", "hook"}, clone : Clone \cup {NoOne},
            at : Steps, todo : SUBSET Run, again : SUBSET Run,
            row : Row \cup Decision \cup {NoSummary}, rows : SUBSET Row,
            root : Repositories \cup {NoRoot}, time : Time \cup {0},
            lines : Seq(Line), clean : BOOLEAN]

\* The steps of a kind of commands.
StepOfKind(c) ==
  /\ c.at \in {"summarize", "mirror", "append"} => c.kind = "end"
  /\ c.at \in {"fetch", "answer"} => c.kind = "sync"
  /\ c.at \in {"read", "merge", "replace"} => c.kind \in {"rebuild", "sync"}
  /\ c.at \in {"store", "lock"} => c.kind \in {"end", "rebuild", "sync"}
  /\ c.at \in {"evaluate", "poll", "write"} => c.kind = "hook"

\* A command that ends a run has one row for the mirror, once it is stored.
OneRow(c) ==
  c.kind = "end" =>
    /\ c.at \in {"summarize", "store"} => c.rows = {}
    /\ c.at \in {"mirror", "lock", "append"} => \E row \in Row : c.rows = {row}

\* What a command has at hand fits its step, and what it is about to write to
\* the mirror is the rewrite of what the mirror holds now.
Good(c, lines) ==
  /\ StepOfKind(c) /\ OneRow(c) /\ IsFiniteSet(c.rows)
  /\ c.at \in {"answer", "store"} => c.row \in Row
  /\ c.at \in {"evaluate", "poll", "write"} => c.row \in Decision
  /\ c.at \in {"read", "store"} /\ c.kind # "end" => c.time \in Time
  /\ c.at = "replace" => c.lines = MergeMirror(lines, c.rows, c.root)

\* The steps of whoever has the mirror's lock.
MirrorSteps == {"append", "merge", "replace"}

\* Whoever is at a file has its lock.
Locks ==
  /\ holds \in [Files -> Slot \cup {NoOne}]
  /\ \A s \in Slot : /\ holds["mirror"] = s <=> command[s].at \in MirrorSteps
                     /\ holds["log"] = s <=> command[s].at = "write"

\* Every slot holds a command that fits the mirror.
Commands == command \in [Slot -> Command] /\ \A s \in Slot : Good(command[s], mirror.lines)

\* Clock, states, outcomes and summaries.
Contents ==
  /\ clock \in Time /\ kinds \in Mixes /\ ended \in [Run -> {"no", "done", "aborted"}]
  /\ hosted \in [Run -> {0} \cup Time] /\ summary \in [Run -> Row \cup {NoSummary}]
  /\ begun \in 0..MaxCommands

\* The mirror consists of rows and torn lines.
MirrorContents == mirror \in [lines : Seq(Line), ended : BOOLEAN]
\* The hook log consists of decisions and torn lines.
LogContents == log \in [lines : Seq(Decision \cup {Torn}), ended : BOOLEAN]

\* A line of the log is this decision.
Logged(lines, decision) == \E i \in 1..Len(lines) : lines[i] = decision

\* What was reported is in the mirror and in the log, or something newer is.
Stands ==
  /\ told \subseteq Row \cup Decision
  /\ \A row \in told \cap Row : Shows(mirror.lines, row)
  /\ \A decision \in told \cap Decision : Logged(log.lines, decision)

\* The inductive strengthening of TypeOK and ToldStands.
Inv == Contents /\ MirrorContents /\ LogContents /\ Commands /\ Locks /\ Stands

-----------------------------------------------------------------------------
(* Files.                                                                   *)

\* Before the first command the mirror has the rows of others.
LEMMA OthersAreLines ==
  Others \in Seq(Line)
<1>1. Others \in Seq(OtherRow \cup {Torn}) /\ Len(Others) \in Nat
  BY TelemetryConstants, LenProperties
<1>2. \A i \in 1..Len(Others) : Others[i] \in Line
  <2> SUFFICES ASSUME NEW i \in 1..Len(Others) PROVE Others[i] \in Line
    OBVIOUS
  <2>1. Others[i] \in OtherRow \cup {Torn}
    BY <1>1, ElementOfSeq
  <2>2. CASE Others[i] = Torn
    BY <2>2 DEF Line
  <2>3. CASE Others[i] \in OtherRow
    <3>1. IsRow(Others[i])
      BY <2>3 DEF OtherRow, IsRow
    <3> QED BY <3>1 DEF OtherRows, Line
  <2> QED BY <2>1, <2>2, <2>3
<1>3. DOMAIN Others = 1..Len(Others) /\ Others = [i \in 1..Len(Others) |-> Others[i]]
  BY <1>1, LenProperties
<1> DEFINE n == Len(Others)
<1>4. [i \in 1..n |-> Others[i]] \in [1..n -> Line]
  BY <1>2
<1>5. [1..n -> Line] \subseteq Seq(Line)
  BY <1>1
<1> QED BY <1>3, <1>4, <1>5

\* One line more at the end of a file: what was shown and logged stays so.
LEMMA OneMore ==
  ASSUME NEW S, NEW lines \in Seq(S), NEW x \in S
  PROVE  /\ Append(lines, x) \in Seq(S)
         /\ \A row : Shows(lines, row) => Shows(Append(lines, x), row)
         /\ \A d : Logged(lines, d) => Logged(Append(lines, x), d)
         /\ Logged(Append(lines, x), x)
<1>1. /\ Append(lines, x) \in Seq(S) /\ Len(lines) \in Nat /\ Len(Append(lines, x)) = Len(lines) + 1
      /\ \A i \in 1..Len(lines) : i \in 1..Len(Append(lines, x)) /\ Append(lines, x)[i] = lines[i]
      /\ Len(lines) + 1 \in 1..Len(Append(lines, x)) /\ Append(lines, x)[Len(lines) + 1] = x
  BY AppendEntries
<1>2. \A row : Shows(lines, row) => Shows(Append(lines, x), row)
  BY <1>1 DEF Shows
<1>3. \A d : Logged(lines, d) => Logged(Append(lines, x), d)
  BY <1>1 DEF Logged
<1>4. Logged(Append(lines, x), x)
  BY <1>1 DEF Logged
<1> QED BY <1>1, <1>2, <1>3, <1>4

\* A file that only gets longer: the same, for what a write or an interrupted
\* write leaves.
Longer(file, next) ==
  /\ \A row : Shows(file.lines, row) => Shows(next.lines, row)
  /\ \A d : Logged(file.lines, d) => Logged(next.lines, d)

\* A complete write adds its line.
LEMMA WrittenIsLonger ==
  ASSUME NEW S, NEW file \in [lines : Seq(S), ended : BOOLEAN], NEW x \in S
  PROVE  /\ Written(file, x) \in [lines : Seq(S), ended : BOOLEAN]
         /\ Longer(file, Written(file, x)) /\ Logged(Written(file, x).lines, x)
         /\ Written(file, x).lines = Append(file.lines, x)
<1>1. file.lines \in Seq(S)
  OBVIOUS
<1>2. Written(file, x) = [lines |-> Append(file.lines, x), ended |-> TRUE]
  BY DEF Written, AllEnded
<1> QED BY <1>1, <1>2, OneMore DEF Longer

\* An interrupted one leaves the file as it was, or a line more.
LEMMA InterruptedIsLonger ==
  ASSUME NEW S, Torn \in S, NEW file \in [lines : Seq(S), ended : BOOLEAN], NEW x \in S,
         NEW next \in Interrupted(file, x)
  PROVE  /\ next \in [lines : Seq(S), ended : BOOLEAN] /\ Longer(file, next)
         /\ next.lines = file.lines \/ \E piece \in S : next.lines = Append(file.lines, piece)
<1>1. file.lines \in Seq(S)
  OBVIOUS
<1>2. CASE next = file
  BY <1>2 DEF Longer
<1>3. CASE next = AllEnded(file.lines)
  BY <1>1, <1>3 DEF Longer, AllEnded
<1>4. CASE \E piece \in {x, Torn} : next = [lines |-> Append(file.lines, piece), ended |-> FALSE]
  <2>1. PICK piece \in {x, Torn} : next = [lines |-> Append(file.lines, piece), ended |-> FALSE]
    BY <1>4
  <2>2. piece \in S
    OBVIOUS
  <2> QED BY <1>1, <2>1, <2>2, OneMore DEF Longer
<1> QED BY <1>2, <1>3, <1>4 DEF Interrupted

-----------------------------------------------------------------------------
(* How the commands change.                                                 *)

\* One command goes on; the others do not notice, when the mirror stays as it
\* is or no other has read it for a rewrite.
LEMMA OneCommand ==
  ASSUME Commands, NEW s \in Slot, NEW c \in Command, Good(c, mirror'.lines), Becomes(s, c),
         mirror' = mirror \/ \A t \in Slot \ {s} : command[t].at # "replace"
  PROVE  Commands' /\ command'[s] = c /\ \A t \in Slot \ {s} : command'[t] = command[t]
<1>1. command' = [command EXCEPT ![s] = c] /\ command \in [Slot -> Command]
  BY DEF Becomes, Commands
<1>2. command'[s] = c /\ \A t \in Slot \ {s} : command'[t] = command[t]
  BY <1>1
<1>3. command' \in [Slot -> Command]
  BY <1>1
<1>4. ASSUME NEW t \in Slot PROVE Good(command'[t], mirror'.lines)
  <2>1. CASE t = s
    BY <1>2, <2>1
  <2>2. CASE t # s
    <3>1. Good(command[t], mirror.lines) /\ command'[t] = command[t]
      BY <1>2, <2>2 DEF Commands
    <3>2. CASE mirror' = mirror
      BY <3>1, <3>2
    <3>3. CASE command[t].at # "replace"
      BY <3>1, <3>3 DEF Good
    <3> QED BY <2>2, <3>2, <3>3
  <2> QED BY <2>1, <2>2
<1> QED BY <1>2, <1>3, <1>4 DEF Commands

\* A step that leaves the files, their locks and what was reported alone.
LEMMA QuietStep ==
  ASSUME Inv, Contents', UNCHANGED <<mirror, log, holds, told>>,
         NEW s \in Slot, NEW c \in Command, Good(c, mirror.lines), Becomes(s, c),
         c.at \in MirrorSteps <=> command[s].at \in MirrorSteps,
         c.at = "write" <=> command[s].at = "write"
  PROVE  Inv'
<1>1. Commands' /\ command'[s] = c /\ \A t \in Slot \ {s} : command'[t] = command[t]
  BY OneCommand DEF Inv
<1>2. Locks'
  BY <1>1 DEF Inv, Locks
<1>3. MirrorContents' /\ LogContents' /\ Stands'
  BY DEF Inv, MirrorContents, LogContents, Stands
<1> QED BY <1>1, <1>2, <1>3 DEF Inv

\* An idle slot is a command like the others.
LEMMA IdleIsGood ==
  /\ Idle \in Command /\ \A lines : Good(Idle, lines)
  /\ Idle.at = "idle" /\ Idle.at \notin MirrorSteps
<1>1. {} \subseteq Run /\ {} \subseteq Row /\ <<>> \in Seq(Line) /\ IsFiniteSet({})
  BY EmptySeq, FS_EmptySet
<1>2. Idle.at = "idle" /\ Idle.kind = "idle" /\ Idle.rows = {}
  BY DEF Idle
<1>3. Idle \in Command
  BY <1>1 DEF Idle, Command, Steps
<1>4. \A lines : Good(Idle, lines)
  BY <1>1, <1>2 DEF Good, StepOfKind, OneRow
<1> QED BY <1>2, <1>3, <1>4 DEF MirrorSteps

\* A command that ends and gives its locks back leaves files that are longer or,
\* when it has the lock of the mirror, a mirror that shows what the old one did.
LEMMA LastStep ==
  ASSUME Inv, UNCHANGED <<clock, kinds, ended, hosted, summary, begun>>,
         NEW s \in Slot, Releases(s), Becomes(s, Idle),
         MirrorContents', LogContents', Stands',
         mirror' = mirror \/ command[s].at \in MirrorSteps
  PROVE  Inv'
<1>0. Contents'
  BY DEF Inv, Contents
<1>1. \A t \in Slot \ {s} : command[t].at = "replace" => mirror' = mirror
  BY DEF Inv, Locks, MirrorSteps
<1>2. Commands' /\ command'[s] = Idle /\ \A t \in Slot \ {s} : command'[t] = command[t]
  BY <1>1, IdleIsGood, OneCommand DEF Inv
<1>3. holds' = [f \in Files |-> IF holds[f] = s THEN NoOne ELSE holds[f]]
  BY DEF Releases
<1>4. Locks'
  <2>1. holds' \in [Files -> Slot \cup {NoOne}]
    BY <1>3 DEF Inv, Locks
  <2>2. NoOne \notin Slot /\ "mirror" \in Files /\ "log" \in Files
    BY TelemetryConstants DEF Files
  <2>3. ASSUME NEW t \in Slot
        PROVE  /\ holds'["mirror"] = t <=> command'[t].at \in MirrorSteps
               /\ holds'["log"] = t <=> command'[t].at = "write"
    <3>1. CASE t = s
      BY <1>2, <1>3, <2>2, <3>1, IdleIsGood
    <3>2. CASE t # s
      BY <1>2, <1>3, <2>2, <3>2 DEF Inv, Locks
    <3> QED BY <3>1, <3>2
  <2> QED BY <2>1, <2>3 DEF Locks
<1> QED BY <1>0, <1>2, <1>4 DEF Inv

\* A command that takes a free lock.
LEMMA LockStep ==
  ASSUME Inv, UNCHANGED <<clock, kinds, ended, hosted, summary, begun, mirror, log, told>>,
         NEW s \in Slot, NEW c \in Command, Good(c, mirror.lines), Becomes(s, c),
         NEW file \in Files, Takes(s, file),
         command[s].at \notin MirrorSteps, command[s].at # "write",
         c.at \in MirrorSteps <=> file = "mirror",
         c.at = "write" <=> file = "log"
  PROVE  Inv'
<1>0. Contents' /\ MirrorContents' /\ LogContents' /\ Stands'
  BY DEF Inv, Contents, MirrorContents, LogContents, Stands
<1>1. Commands' /\ command'[s] = c /\ \A t \in Slot \ {s} : command'[t] = command[t]
  BY OneCommand DEF Inv
<1>2. holds[file] = NoOne /\ holds' = [holds EXCEPT ![file] = s]
  BY DEF Takes, Free
<1>3. Locks'
  <2>1. holds' \in [Files -> Slot \cup {NoOne}]
    BY <1>2 DEF Inv, Locks
  <2>2. NoOne \notin Slot /\ "mirror" \in Files /\ "log" \in Files /\ file \in {"mirror", "log"}
        /\ "mirror" # "log" /\ holds \in [Files -> Slot \cup {NoOne}]
    BY TelemetryConstants DEF Files, Inv, Locks
  <2>3. ASSUME NEW t \in Slot
        PROVE  /\ holds'["mirror"] = t <=> command'[t].at \in MirrorSteps
               /\ holds'["log"] = t <=> command'[t].at = "write"
    <3>0. /\ holds["mirror"] = t <=> command[t].at \in MirrorSteps
          /\ holds["log"] = t <=> command[t].at = "write"
          /\ holds["mirror"] # s /\ holds["log"] # s
      BY DEF Inv, Locks
    <3>1. CASE t = s
      BY <1>1, <1>2, <2>2, <3>0, <3>1
    <3>2. CASE t # s
      BY <1>1, <1>2, <2>2, <3>0, <3>2
    <3> QED BY <3>1, <3>2
  <2> QED BY <2>1, <2>3 DEF Locks
<1> QED BY <1>0, <1>1, <1>3 DEF Inv

\* A command that begins; the others lose the files for themselves.
LEMMA FirstStep ==
  ASSUME Inv, UNCHANGED <<mirror, log, holds, told>>,
         Contents', NEW s \in Slot, NEW c \in Command, Good(c, mirror.lines), Begins(s, c),
         c.at \notin MirrorSteps, c.at # "write"
  PROVE  Inv'
<1>1. /\ command[s] = Idle /\ command \in [Slot -> Command]
      /\ command' = [t \in Slot |-> IF t = s THEN c ELSE [command[t] EXCEPT !.clean = FALSE]]
  BY DEF Begins, Inv, Commands
<1>2. ASSUME NEW t \in Slot, t # s
      PROVE  /\ command'[t] \in Command /\ Good(command'[t], mirror.lines)
             /\ command'[t].at = command[t].at
  <2> DEFINE old == command[t]
             new == [old EXCEPT !.clean = FALSE]
  <2>1. command'[t] = new
    BY <1>1, <1>2
  <2>2. old \in Command /\ Good(old, mirror.lines)
    BY DEF Inv, Commands
  <2> HIDE DEF old
  <2>3. /\ new \in Command /\ new.at = old.at /\ new.kind = old.kind /\ new.rows = old.rows
        /\ new.row = old.row /\ new.time = old.time /\ new.lines = old.lines /\ new.root = old.root
    <3>1. new \in Command
      BY <2>2 DEF Command
    <3>2. new.at = old.at /\ new.kind = old.kind /\ new.rows = old.rows /\ new.row = old.row
      BY <2>2 DEF Command
    <3>3. new.time = old.time /\ new.lines = old.lines /\ new.root = old.root
      BY <2>2 DEF Command
    <3> QED BY <3>1, <3>2, <3>3
  <2>4. Good(new, mirror.lines)
    <3> HIDE DEF new
    <3> QED BY <2>2, <2>3 DEF Good, StepOfKind, OneRow
  <2> QED BY <2>1, <2>3, <2>4 DEF old
<1>3. command'[s] = c
  BY <1>1
<1>4. Commands'
  <2>1. \A t \in Slot : command'[t] \in Command /\ Good(command'[t], mirror.lines)
    BY <1>2, <1>3
  <2>2. command' \in [Slot -> Command]
    <3>1. command' = [t \in Slot |-> command'[t]]
      BY <1>1
    <3> QED BY <2>1, <3>1
  <2> QED BY <2>1, <2>2 DEF Commands
<1>5. Locks'
  <2>1. command[s].at \notin MirrorSteps /\ command[s].at # "write"
    BY <1>1, IdleIsGood
  <2> QED BY <1>2, <1>3, <2>1 DEF Inv, Locks
<1>6. MirrorContents' /\ LogContents' /\ Stands'
  BY DEF Inv, MirrorContents, LogContents, Stands
<1> QED BY <1>4, <1>5, <1>6 DEF Inv

-----------------------------------------------------------------------------
(* Inv is inductive.                                                        *)

\* Rows that a command makes are rows.
LEMMA SummaryIsRow ==
  ASSUME NEW r \in Run, NEW root \in Repositories \cup {NoRoot}, NEW time \in Time,
         NEW outcome \in {0} \cup Time
  PROVE  Summary(r, root, time, outcome) \in Row
<1>1. Home[r] \in Clone
  BY TelemetryConstants
<1> QED BY <1>1 DEF Summary, Row

\* The roots that Git names for a clone.
LEMMA RootsAreRoots ==
  ASSUME NEW c \in Clone
  PROVE  Roots(c) \subseteq Repositories \cup {NoRoot}
BY DEF Roots, Repositories

\* The mirror and the log are empty of reports at first.
LEMMA InitInv ==
  Init => Inv
<1> SUFFICES ASSUME Init PROVE Inv
  OBVIOUS
<1>1. Contents
  BY TelemetryConstants DEF Init, Contents, Time
<1>2. MirrorContents
  BY OthersAreLines DEF Init, MirrorContents, AllEnded
<1>3. LogContents
  BY EmptySeq DEF Init, LogContents, EmptyFile
<1>4. Commands
  BY IdleIsGood DEF Init, Commands
<1>5. Locks
  <2>1. NoOne \notin Slot /\ "mirror" \in Files /\ "log" \in Files
    BY TelemetryConstants DEF Files
  <2>2. \A s \in Slot : command[s].at \notin MirrorSteps /\ command[s].at # "write"
    BY IdleIsGood DEF Init
  <2> QED BY <2>1, <2>2 DEF Init, Locks
<1>6. Stands
  BY DEF Init, Stands
<1> QED BY <1>1, <1>2, <1>3, <1>4, <1>5, <1>6 DEF Inv

\* What is known of the command of a slot.
LEMMA CommandHere ==
  ASSUME Inv, NEW s \in Slot
  PROVE  /\ command[s] \in Command /\ Good(command[s], mirror.lines)
         /\ holds["mirror"] = s <=> command[s].at \in MirrorSteps
         /\ holds["log"] = s <=> command[s].at = "write"
BY DEF Inv, Commands, Locks

\* record_run_end: the summary of the run.
LEMMA SummarizeInv ==
  ASSUME Inv, NEW s \in Slot, Summarize(s)
  PROVE  Inv'
<1> DEFINE old == command[s]
<1>0. old \in Command /\ Good(old, mirror.lines) /\ old.kind = "end" /\ old.at = "summarize"
  BY CommandHere DEF Summarize, Active
<1>1a. PICK r \in old.todo : \E root \in Roots(Home[r]) :
        Becomes(s, [old EXCEPT !.at = "store", !.row = Summary(r, root, clock, 0), !.todo = {}])
  BY DEF Summarize
<1>1. PICK root \in Roots(Home[r]) :
        Becomes(s, [old EXCEPT !.at = "store", !.row = Summary(r, root, clock, 0), !.todo = {}])
  BY <1>1a
<1> DEFINE c == [old EXCEPT !.at = "store", !.row = Summary(r, root, clock, 0), !.todo = {}]
<1>2. Summary(r, root, clock, 0) \in Row
  <2>1. r \in Run /\ Home[r] \in Clone /\ clock \in Time
    BY <1>0, TelemetryConstants DEF Command, Inv, Contents
  <2> QED BY <2>1, RootsAreRoots, SummaryIsRow
<1>3. c \in Command /\ c.at = "store" /\ c.kind = "end" /\ c.rows = old.rows
      /\ c.row = Summary(r, root, clock, 0)
  <2> HIDE DEF old
  <2> QED BY <1>0, <1>2 DEF Command, Steps
<1>4. Good(c, mirror.lines)
  <2> HIDE DEF c, old
  <2> QED BY <1>0, <1>2, <1>3 DEF Good, StepOfKind, OneRow
<1>5. Contents' /\ UNCHANGED <<mirror, log, holds, told>>
  BY DEF Summarize, Inv, Contents
<1>6. (c.at \in MirrorSteps <=> command[s].at \in MirrorSteps)
      /\ (c.at = "write" <=> command[s].at = "write")
  BY <1>0, <1>3 DEF MirrorSteps
<1> HIDE DEF c
<1> QED BY <1>1, <1>3, <1>4, <1>5, <1>6, QuietStep DEF c

\* fetch notes the time of its question.
LEMMA FetchInv ==
  ASSUME Inv, NEW s \in Slot, Fetch(s)
  PROVE  Inv'
<1> DEFINE old == command[s]
<1>0. old \in Command /\ Good(old, mirror.lines) /\ old.kind = "sync" /\ old.at = "fetch"
  BY CommandHere DEF Fetch, Active
<1>1. PICK r \in old.todo :
        Becomes(s, [old EXCEPT !.at = "answer", !.row = Summary(r, NoRoot, clock, 0)])
  BY DEF Fetch
<1> DEFINE c == [old EXCEPT !.at = "answer", !.row = Summary(r, NoRoot, clock, 0)]
<1>2. Summary(r, NoRoot, clock, 0) \in Row
  <2>1. r \in Run /\ clock \in Time
    BY <1>0 DEF Command, Inv, Contents
  <2> QED BY <2>1, SummaryIsRow
<1>3. c \in Command /\ c.at = "answer" /\ c.kind = "sync" /\ c.rows = old.rows
      /\ c.row = Summary(r, NoRoot, clock, 0)
  <2> HIDE DEF old
  <2> QED BY <1>0, <1>2 DEF Command, Steps
<1>4. Good(c, mirror.lines)
  <2> HIDE DEF c, old
  <2> QED BY <1>0, <1>2, <1>3 DEF Good, StepOfKind, OneRow
<1>5. Contents' /\ UNCHANGED <<mirror, log, holds, told>>
  BY DEF Fetch, Inv, Contents
<1>6. (c.at \in MirrorSteps <=> command[s].at \in MirrorSteps)
      /\ (c.at = "write" <=> command[s].at = "write")
  BY <1>0, <1>3 DEF MirrorSteps
<1> HIDE DEF c
<1> QED BY <1>1, <1>3, <1>4, <1>5, <1>6, QuietStep DEF c

\* _fetch_all: the outcome is stored or not, and the next run is fetched.
LEMMA AnswerInv ==
  ASSUME Inv, NEW s \in Slot, Answer(s)
  PROVE  Inv'
<1> DEFINE old == command[s]
           r == old.row.run
           next == [old EXCEPT !.at = "fetch", !.row = NoSummary, !.todo = @ \ {r}]
<1>0. old \in Command /\ Good(old, mirror.lines) /\ old.kind = "sync" /\ old.at = "answer"
      /\ old.row \in Row
  BY CommandHere DEF Answer, Active, Good
<1>1. r \in Run /\ old.row.written \in Time
  BY <1>0 DEF Row
<1>2. \E c : /\ \/ c = [next EXCEPT !.again = @ \cup {r}]
                \/ \E left \in {{}, next.todo} : c = [next EXCEPT !.todo = left, !.clean = FALSE]
             /\ Becomes(s, c)
  BY DEF Answer
<1>3. PICK c : /\ \/ c = [next EXCEPT !.again = @ \cup {r}]
                  \/ \E left \in {{}, next.todo} : c = [next EXCEPT !.todo = left, !.clean = FALSE]
               /\ Becomes(s, c)
  BY <1>2
<1>4. next \in Command /\ next.at = "fetch" /\ next.kind = "sync" /\ next.rows = old.rows
  <2> HIDE DEF old, r
  <2> QED BY <1>0 DEF Command, Steps
<1>5. c \in Command /\ c.at = "fetch" /\ c.kind = "sync" /\ c.rows = old.rows
  <2> HIDE DEF next, r
  <2>1. CASE c = [next EXCEPT !.again = @ \cup {r}]
    BY <1>1, <1>4, <2>1 DEF Command
  <2>2. CASE \E left \in {{}, next.todo} : c = [next EXCEPT !.todo = left, !.clean = FALSE]
    <3>1. PICK left \in {{}, next.todo} : c = [next EXCEPT !.todo = left, !.clean = FALSE]
      BY <2>2
    <3>2. left \in SUBSET Run
      BY <1>4 DEF Command
    <3> QED BY <1>4, <3>1, <3>2 DEF Command
  <2> QED BY <1>3, <2>1, <2>2
<1>6. Good(c, mirror.lines)
  <2> HIDE DEF old, next
  <2> QED BY <1>0, <1>5 DEF Good, StepOfKind, OneRow
<1>7. Contents'
  <2>1. hosted' = hosted \/ hosted' = [hosted EXCEPT ![r] = old.row.written]
    BY DEF Answer
  <2>2. hosted' \in [Run -> {0} \cup Time]
    BY <1>1, <2>1 DEF Inv, Contents
  <2> QED BY <2>2 DEF Answer, Inv, Contents
<1>8. UNCHANGED <<mirror, log, holds, told>>
  BY DEF Answer
<1>9. (c.at \in MirrorSteps <=> command[s].at \in MirrorSteps)
      /\ (c.at = "write" <=> command[s].at = "write")
  BY <1>0, <1>5 DEF MirrorSteps
<1> QED BY <1>3, <1>5, <1>6, <1>7, <1>8, <1>9, QuietStep

\* resummarize.
LEMMA ResummarizeInv ==
  ASSUME Inv, NEW s \in Slot, Resummarize(s)
  PROVE  Inv'
<1> DEFINE old == command[s]
           c == [old EXCEPT !.at = "read", !.todo = old.again, !.time = clock]
<1>0. old \in Command /\ Good(old, mirror.lines) /\ old.kind = "sync" /\ old.at = "fetch"
  BY CommandHere DEF Resummarize, Active
<1>1. clock \in Time
  BY DEF Inv, Contents
<1>3. c \in Command /\ c.at = "read" /\ c.kind = "sync" /\ c.rows = old.rows /\ c.time = clock
  <2> HIDE DEF old
  <2> QED BY <1>0, <1>1 DEF Command, Steps
<1>4. Good(c, mirror.lines)
  <2> HIDE DEF c, old
  <2> QED BY <1>0, <1>1, <1>3 DEF Good, StepOfKind, OneRow
<1>5. Contents' /\ UNCHANGED <<mirror, log, holds, told>> /\ Becomes(s, c)
  BY DEF Resummarize, Inv, Contents
<1>6. (c.at \in MirrorSteps <=> command[s].at \in MirrorSteps)
      /\ (c.at = "write" <=> command[s].at = "write")
  BY <1>0, <1>3 DEF MirrorSteps
<1> HIDE DEF c
<1> QED BY <1>3, <1>4, <1>5, <1>6, QuietStep

\* _summarize_stored_run_safely.
LEMMA ReadInv ==
  ASSUME Inv, NEW s \in Slot, Read(s)
  PROVE  Inv'
<1> DEFINE old == command[s]
<1>0. old \in Command /\ Good(old, mirror.lines) /\ old.kind \in {"rebuild", "sync"} /\ old.at = "read"
      /\ old.time \in Time
  BY CommandHere DEF Read, Good, StepOfKind
<1>1. PICK r \in old.todo :
        LET next == [old EXCEPT !.todo = @ \ {r}] IN
       \/ /\ ended[r] # "no"
          /\ Becomes(s, [next EXCEPT !.at = "store", !.row = Summary(r, next.root, next.time, hosted[r])])
       \/ Becomes(s, [next EXCEPT !.clean = @ /\ ended[r] = "no"])
  BY DEF Read
<1> DEFINE next == [old EXCEPT !.todo = @ \ {r}]
<1>2. next \in Command /\ next.at = "read" /\ next.kind = old.kind /\ next.rows = old.rows
      /\ next.root = old.root /\ next.time = old.time
  <2> HIDE DEF old
  <2> QED BY <1>0 DEF Command
<1>3. r \in Run /\ hosted[r] \in {0} \cup Time /\ next.root \in Repositories \cup {NoRoot}
      /\ next.clean \in BOOLEAN
  BY <1>0, <1>2 DEF Command, Inv, Contents
<1>4. Summary(r, next.root, next.time, hosted[r]) \in Row
  BY <1>0, <1>2, <1>3, SummaryIsRow
<1>5. Contents' /\ UNCHANGED <<mirror, log, holds, told>>
  BY DEF Read, Inv, Contents
<1>6. CASE Becomes(s, [next EXCEPT !.at = "store", !.row = Summary(r, next.root, next.time, hosted[r])])
  <2> DEFINE c == [next EXCEPT !.at = "store", !.row = Summary(r, next.root, next.time, hosted[r])]
  <2>1. c \in Command /\ c.at = "store" /\ c.kind = old.kind /\ c.rows = old.rows
        /\ c.row = Summary(r, next.root, next.time, hosted[r]) /\ c.time = old.time
    <3> HIDE DEF next
    <3> QED BY <1>2, <1>4 DEF Command, Steps
  <2>2. Good(c, mirror.lines)
    <3> HIDE DEF c, old, next
    <3> QED BY <1>0, <1>4, <2>1 DEF Good, StepOfKind, OneRow
  <2>3. (c.at \in MirrorSteps <=> command[s].at \in MirrorSteps)
        /\ (c.at = "write" <=> command[s].at = "write")
    BY <1>0, <2>1 DEF MirrorSteps
  <2>4. Becomes(s, c)
    BY <1>6
  <2> HIDE DEF c
  <2> QED BY <1>5, <2>1, <2>2, <2>3, <2>4, QuietStep
<1>7. CASE Becomes(s, [next EXCEPT !.clean = @ /\ ended[r] = "no"])
  <2> DEFINE clean == next.clean /\ ended[r] = "no"
             c == [next EXCEPT !.clean = clean]
  <2>1. c \in Command /\ c.at = "read" /\ c.kind = old.kind /\ c.rows = old.rows /\ c.time = old.time
    <3>1. clean \in BOOLEAN
      OBVIOUS
    <3> HIDE DEF next, clean
    <3> QED BY <1>2, <3>1 DEF Command
  <2>2. Good(c, mirror.lines)
    <3> HIDE DEF c, old, next
    <3> QED BY <1>0, <2>1 DEF Good, StepOfKind, OneRow
  <2>3. (c.at \in MirrorSteps <=> command[s].at \in MirrorSteps)
        /\ (c.at = "write" <=> command[s].at = "write")
    BY <1>0, <2>1 DEF MirrorSteps
  <2>4. Becomes(s, c)
    BY <1>7
  <2> HIDE DEF c
  <2> QED BY <1>5, <2>1, <2>2, <2>3, <2>4, QuietStep
<1> QED BY <1>1, <1>6, <1>7

\* The summary is replaced, or not; its row is for the mirror.
LEMMA StoreInv ==
  ASSUME Inv, NEW s \in Slot, Store(s)
  PROVE  Inv'
<1> DEFINE old == command[s]
           row == old.row
           step == IF old.kind = "end" THEN "mirror" ELSE "read"
           next == [old EXCEPT !.row = NoSummary, !.rows = @ \cup {row}, !.at = step]
<1>0. old \in Command /\ Good(old, mirror.lines) /\ old.kind \in {"end", "rebuild", "sync"}
      /\ old.at = "store" /\ row \in Row
  BY CommandHere DEF Store, Good, StepOfKind
<1>1. next \in Command /\ next.at = step /\ next.kind = old.kind /\ next.rows = old.rows \cup {row}
      /\ next.time = old.time /\ next.clean = old.clean
  <2>1. step \in Steps /\ old.rows \cup {row} \in SUBSET Row
    BY <1>0 DEF Steps, Command
  <2> HIDE DEF old, row, step
  <2> QED BY <1>0, <2>1 DEF Command
<1>2. \E c : (c = next \/ c = [next EXCEPT !.clean = FALSE]) /\ Becomes(s, c)
  BY DEF Store
<1>3. PICK c : (c = next \/ c = [next EXCEPT !.clean = FALSE]) /\ Becomes(s, c)
  BY <1>2
<1>4. c \in Command /\ c.at = step /\ c.kind = old.kind /\ c.rows = old.rows \cup {row}
      /\ c.time = old.time
  <2> HIDE DEF next, step, row, old
  <2>1. CASE c = next
    BY <1>1, <2>1
  <2>2. CASE c = [next EXCEPT !.clean = FALSE]
    BY <1>1, <2>2 DEF Command
  <2> QED BY <1>3, <2>1, <2>2
<1>5. Good(c, mirror.lines)
  <2>1. IsFiniteSet(c.rows)
    BY <1>0, <1>4, FS_AddElement DEF Good
  <2>2. OneRow(c)
    <3> SUFFICES ASSUME c.kind = "end" PROVE \E x \in Row : c.rows = {x}
      BY <1>4 DEF OneRow
    <3>1. old.rows = {}
      BY <1>0, <1>4 DEF Good, OneRow
    <3> HIDE DEF old, row
    <3> QED BY <1>0, <1>4, <3>1
  <2>3. step = "read" => old.kind # "end"
    OBVIOUS
  <2>4. step \in {"read", "mirror"} /\ (step = "mirror" <=> old.kind = "end")
    OBVIOUS
  <2> HIDE DEF old, step
  <2> QED BY <1>0, <1>4, <2>1, <2>2, <2>3, <2>4 DEF Good, StepOfKind
<1>6. Contents'
  <2>1. summary' = summary \/ summary' = [summary EXCEPT ![row.run] = row]
    BY DEF Store
  <2>2. summary' \in [Run -> Row \cup {NoSummary}]
    BY <1>0, <2>1 DEF Inv, Contents
  <2> QED BY <2>2 DEF Store, Inv, Contents
<1>7. UNCHANGED <<mirror, log, holds, told>>
  BY DEF Store
<1>8. (c.at \in MirrorSteps <=> command[s].at \in MirrorSteps)
      /\ (c.at = "write" <=> command[s].at = "write")
  BY <1>0, <1>4 DEF MirrorSteps
<1> QED BY <1>3, <1>4, <1>5, <1>6, <1>7, <1>8, QuietStep

\* A command that has its rows asks for the mirror, or is done.
LEMMA ToMirrorInv ==
  ASSUME Inv, NEW s \in Slot, ToMirror(s)
  PROVE  Inv'
<1> DEFINE old == command[s]
<1>0. old \in Command /\ Good(old, mirror.lines) /\ old.at \in {"mirror", "read"}
  BY CommandHere DEF ToMirror
<1>1. Contents' /\ UNCHANGED <<mirror, log, holds, told>>
  BY DEF ToMirror, Inv, Contents
<1>2. CASE Goes(s, "lock")
  <2> DEFINE c == [old EXCEPT !.at = "lock"]
  <2>1. c \in Command /\ c.at = "lock" /\ c.kind = old.kind /\ c.rows = old.rows
    <3> HIDE DEF old
    <3> QED BY <1>0 DEF Command, Steps
  <2>2. Good(c, mirror.lines)
    <3> HIDE DEF c, old
    <3> QED BY <1>0, <2>1 DEF Good, StepOfKind, OneRow
  <2>3. (c.at \in MirrorSteps <=> command[s].at \in MirrorSteps)
        /\ (c.at = "write" <=> command[s].at = "write")
    BY <1>0, <2>1 DEF MirrorSteps
  <2>4. Becomes(s, c)
    BY <1>2 DEF Goes
  <2> HIDE DEF c
  <2> QED BY <1>1, <2>1, <2>2, <2>3, <2>4, QuietStep
<1>3. CASE Becomes(s, Idle)
  <2>1. Idle.at = "idle" /\ Idle \in Command /\ Good(Idle, mirror.lines)
    BY IdleIsGood
  <2>2. (Idle.at \in MirrorSteps <=> command[s].at \in MirrorSteps)
        /\ (Idle.at = "write" <=> command[s].at = "write")
    BY <1>0, <2>1 DEF MirrorSteps
  <2> QED BY <1>1, <1>3, <2>1, <2>2, QuietStep
<1> QED BY <1>2, <1>3 DEF ToMirror

\* A sync with nothing to summarize is done.
LEMMA NothingToDoInv ==
  ASSUME Inv, NEW s \in Slot, NothingToDo(s)
  PROVE  Inv'
<1>1. Contents' /\ UNCHANGED <<mirror, log, holds, told>> /\ Becomes(s, Idle)
      /\ command[s].at = "fetch"
  BY DEF NothingToDo, Active, Inv, Contents
<1>2. Idle.at = "idle" /\ Idle \in Command /\ Good(Idle, mirror.lines)
  BY IdleIsGood
<1>3. (Idle.at \in MirrorSteps <=> command[s].at \in MirrorSteps)
      /\ (Idle.at = "write" <=> command[s].at = "write")
  BY <1>1, <1>2 DEF MirrorSteps
<1> QED BY <1>1, <1>2, <1>3, QuietStep

\* The lock of the mirror.
LEMMA LockMirrorInv ==
  ASSUME Inv, NEW s \in Slot, LockMirror(s)
  PROVE  Inv'
<1> DEFINE old == command[s]
           step == IF old.kind = "end" THEN "append" ELSE "merge"
           c == [old EXCEPT !.at = step]
<1>0. old \in Command /\ Good(old, mirror.lines) /\ old.at = "lock"
  BY CommandHere DEF LockMirror
<1>1. c \in Command /\ c.at = step /\ c.kind = old.kind /\ c.rows = old.rows
  <2>1. step \in Steps
    BY DEF Steps
  <2> HIDE DEF old, step
  <2> QED BY <1>0, <2>1 DEF Command
<1>2. step \in {"append", "merge"} /\ (step = "append" <=> old.kind = "end")
  OBVIOUS
<1>3. Good(c, mirror.lines)
  <2> HIDE DEF c, old, step
  <2> QED BY <1>0, <1>1, <1>2 DEF Good, StepOfKind, OneRow
<1>4. UNCHANGED <<clock, kinds, ended, hosted, summary, begun, mirror, log, told>>
      /\ Takes(s, "mirror") /\ Becomes(s, c)
  BY DEF LockMirror, Goes
<1>5. "mirror" \in Files /\ "mirror" # "log"
  BY DEF Files
<1>6. command[s].at \notin MirrorSteps /\ command[s].at # "write" /\ c.at \in MirrorSteps /\ c.at # "write"
  <2> HIDE DEF c, step
  <2> QED BY <1>0, <1>1, <1>2 DEF MirrorSteps
<1> HIDE DEF c
<1> QED BY <1>1, <1>3, <1>4, <1>5, <1>6, LockStep

\* The row of a run that ends comes to the mirror.
LEMMA AppendRowInv ==
  ASSUME Inv, NEW s \in Slot, AppendRow(s)
  PROVE  Inv'
<1> DEFINE old == command[s]
<1>0. old \in Command /\ Good(old, mirror.lines) /\ old.at = "append"
  BY CommandHere DEF AppendRow
<1>1. PICK row \in Row : old.rows = {row}
  BY <1>0 DEF Good, StepOfKind, OneRow
<1>2. mirror' = Written(mirror, row) /\ told' = told \cup {row}
  BY <1>1 DEF AppendRow
<1>3. mirror \in [lines : Seq(Line), ended : BOOLEAN] /\ row \in Line
  BY DEF Inv, MirrorContents, Line
<1>4. /\ mirror' \in [lines : Seq(Line), ended : BOOLEAN]
      /\ Longer(mirror, mirror') /\ Logged(mirror'.lines, row)
  BY <1>2, <1>3, WrittenIsLonger
<1>5. Shows(mirror'.lines, row)
  <2>1. IsRow(row) /\ row.written \in Nat
    BY RowsAreRows
  <2> QED BY <1>4, <2>1 DEF Shows, Logged
<1>6. UNCHANGED <<clock, kinds, ended, hosted, summary, begun, log>> /\ Releases(s) /\ Becomes(s, Idle)
  BY DEF AppendRow
<1>7. Stands'
  <2>1. row \notin Decision
    BY RowsAreRows
  <2> QED BY <1>2, <1>4, <1>5, <1>6, <2>1 DEF Inv, Stands, Longer
<1>8. MirrorContents' /\ LogContents'
  BY <1>4, <1>6 DEF Inv, MirrorContents, LogContents
<1>9. command[s].at \in MirrorSteps
  BY <1>0 DEF MirrorSteps
<1> QED BY <1>6, <1>7, <1>8, <1>9, LastStep

\* _rewrite_mirror merges what it has read.
LEMMA MergeInv ==
  ASSUME Inv, NEW s \in Slot, Merge(s)
  PROVE  Inv'
<1> DEFINE old == command[s]
           merged == MergeMirror(mirror.lines, old.rows, old.root)
           c == [old EXCEPT !.at = "replace", !.lines = merged]
<1>0. old \in Command /\ Good(old, mirror.lines) /\ old.at = "merge"
  BY CommandHere DEF Merge
<1>1. merged \in Seq(Line)
  <2>1. mirror.lines \in Seq(Line) /\ old.rows \in SUBSET Row /\ IsFiniteSet(old.rows)
        /\ old.root \in Repositories \cup {NoRoot}
    BY <1>0 DEF Inv, MirrorContents, Good, Command
  <2> HIDE DEF old
  <2> QED BY <2>1, MergeKeeps
<1>2. c \in Command /\ c.at = "replace" /\ c.kind = old.kind /\ c.rows = old.rows /\ c.root = old.root
      /\ c.lines = merged
  <2> HIDE DEF old, merged
  <2> QED BY <1>0, <1>1 DEF Command, Steps
<1>3. Good(c, mirror.lines)
  <2> HIDE DEF c, old
  <2> QED BY <1>0, <1>2 DEF Good, StepOfKind, OneRow
<1>4. Contents' /\ UNCHANGED <<mirror, log, holds, told>> /\ Becomes(s, c)
  BY DEF Merge, Inv, Contents
<1>5. (c.at \in MirrorSteps <=> command[s].at \in MirrorSteps)
      /\ (c.at = "write" <=> command[s].at = "write")
  BY <1>0, <1>2 DEF MirrorSteps
<1> HIDE DEF c
<1> QED BY <1>2, <1>3, <1>4, <1>5, QuietStep

\* What the command at "replace" is about to write.
LEMMA RewriteKeeps ==
  ASSUME Inv, NEW s \in Slot, command[s].at = "replace"
  PROVE  LET merged == command[s].lines IN
         /\ merged \in Seq(Line) /\ command[s].rows \subseteq Row
         /\ \A row \in command[s].rows : Shows(merged, row)
         /\ \A row \in Row \cup OtherRows : Shows(mirror.lines, row) => Shows(merged, row)
         /\ IsPrefix(Strangers(mirror.lines), Strangers(merged))
<1> DEFINE old == command[s]
<1>0. old \in Command /\ Good(old, mirror.lines)
  BY CommandHere
<1>1. old.lines = MergeMirror(mirror.lines, old.rows, old.root) /\ IsFiniteSet(old.rows)
  BY <1>0 DEF Good
<1>2. mirror.lines \in Seq(Line) /\ old.rows \in SUBSET Row /\ old.root \in Repositories \cup {NoRoot}
  BY <1>0 DEF Inv, MirrorContents, Command
<1> HIDE DEF old
<1>3. /\ old.lines \in Seq(Line)
      /\ \A row \in old.rows : Shows(old.lines, row)
      /\ \A row \in Row \cup OtherRows : Shows(mirror.lines, row) => Shows(old.lines, row)
      /\ IsPrefix(Strangers(mirror.lines), Strangers(old.lines))
  BY <1>1, <1>2, MergeKeeps
<1> QED BY <1>2, <1>3 DEF old

\* _rewrite_mirror replaces the mirror.
LEMMA ReplaceInv ==
  ASSUME Inv, NEW s \in Slot, Replace(s)
  PROVE  Inv'
<1> DEFINE merged == command[s].lines
<1>0. command[s].at = "replace" /\ mirror' = AllEnded(merged) /\ told' = told \cup command[s].rows
  BY DEF Replace
<1>1. /\ merged \in Seq(Line) /\ command[s].rows \subseteq Row
      /\ \A row \in command[s].rows : Shows(merged, row)
      /\ \A row \in Row : Shows(mirror.lines, row) => Shows(merged, row)
  BY <1>0, RewriteKeeps
<1>2. mirror' \in [lines : Seq(Line), ended : BOOLEAN] /\ mirror'.lines = merged
  <2> HIDE DEF merged
  <2> QED BY <1>0, <1>1 DEF AllEnded
<1>3. UNCHANGED <<clock, kinds, ended, hosted, summary, begun, log>> /\ Releases(s) /\ Becomes(s, Idle)
  BY DEF Replace
<1>4. Stands'
  <2>1. command[s].rows \cap Decision = {}
    BY <1>1, RowsAreRows
  <2> HIDE DEF merged
  <2>2. told' \subseteq Row \cup Decision
    BY <1>0, <1>1 DEF Inv, Stands
  <2>3. \A row \in told' \cap Row : Shows(mirror'.lines, row)
    BY <1>0, <1>1, <1>2 DEF Inv, Stands
  <2>4. \A d \in told' \cap Decision : Logged(log'.lines, d)
    BY <1>0, <1>3, <2>1 DEF Inv, Stands
  <2> QED BY <2>2, <2>3, <2>4 DEF Stands
<1>5. MirrorContents' /\ LogContents'
  BY <1>2, <1>3 DEF Inv, MirrorContents, LogContents
<1>6. command[s].at \in MirrorSteps
  BY <1>0 DEF MirrorSteps
<1> QED BY <1>3, <1>4, <1>5, <1>6, LastStep

\* The hook has decided.
LEMMA DecideInv ==
  ASSUME Inv, NEW s \in Slot, Decide(s)
  PROVE  Inv'
<1> DEFINE old == command[s]
           c == [old EXCEPT !.at = "poll"]
<1>0. old \in Command /\ Good(old, mirror.lines) /\ old.kind = "hook" /\ old.at = "evaluate"
  BY CommandHere DEF Decide, Active
<1>1. c \in Command /\ c.at = "poll" /\ c.kind = "hook" /\ c.rows = old.rows /\ c.row = old.row
  <2> HIDE DEF old
  <2> QED BY <1>0 DEF Command, Steps
<1>2. Good(c, mirror.lines)
  <2> HIDE DEF c, old
  <2> QED BY <1>0, <1>1 DEF Good, StepOfKind, OneRow
<1>3. Contents' /\ UNCHANGED <<mirror, log, holds, told>> /\ Becomes(s, c)
  BY DEF Decide, Goes, Inv, Contents
<1>4. (c.at \in MirrorSteps <=> command[s].at \in MirrorSteps)
      /\ (c.at = "write" <=> command[s].at = "write")
  BY <1>0, <1>1 DEF MirrorSteps
<1> HIDE DEF c
<1> QED BY <1>1, <1>2, <1>3, <1>4, QuietStep

\* The lock of the hook log.
LEMMA LockLogInv ==
  ASSUME Inv, NEW s \in Slot, LockLog(s)
  PROVE  Inv'
<1> DEFINE old == command[s]
           c == [old EXCEPT !.at = "write"]
<1>0. old \in Command /\ Good(old, mirror.lines) /\ old.kind = "hook" /\ old.at = "poll"
  BY CommandHere DEF LockLog, Active
<1>1. c \in Command /\ c.at = "write" /\ c.kind = "hook" /\ c.rows = old.rows /\ c.row = old.row
  <2> HIDE DEF old
  <2> QED BY <1>0 DEF Command, Steps
<1>2. Good(c, mirror.lines)
  <2> HIDE DEF c, old
  <2> QED BY <1>0, <1>1 DEF Good, StepOfKind, OneRow
<1>3. UNCHANGED <<clock, kinds, ended, hosted, summary, begun, mirror, log, told>>
      /\ Takes(s, "log") /\ Becomes(s, c)
  BY DEF LockLog, Goes
<1>4. "log" \in Files /\ "mirror" # "log"
  BY DEF Files
<1>5. command[s].at \notin MirrorSteps /\ command[s].at # "write" /\ c.at \notin MirrorSteps
  BY <1>0, <1>1 DEF MirrorSteps
<1> HIDE DEF c
<1> QED BY <1>1, <1>2, <1>3, <1>4, <1>5, LockStep

\* The decision comes to the log.
LEMMA AppendDecisionInv ==
  ASSUME Inv, NEW s \in Slot, AppendDecision(s)
  PROVE  Inv'
<1> DEFINE row == command[s].row
<1>0. row \in Decision /\ command[s].at = "write"
  BY CommandHere DEF AppendDecision, Active, Good
<1>1. log' = Written(log, row) /\ told' \in {told, told \cup {row}}
  BY DEF AppendDecision
<1>2. log \in [lines : Seq(Decision \cup {Torn}), ended : BOOLEAN]
  BY DEF Inv, LogContents
<1> HIDE DEF row
<1>3. /\ log' \in [lines : Seq(Decision \cup {Torn}), ended : BOOLEAN]
      /\ Longer(log, log') /\ Logged(log'.lines, row)
  BY <1>0, <1>1, <1>2, WrittenIsLonger
<1>4. UNCHANGED <<clock, kinds, ended, hosted, summary, begun, mirror>> /\ Releases(s) /\ Becomes(s, Idle)
  BY DEF AppendDecision
<1>5. Stands'
  <2>1. row \notin Row
    BY <1>0, RowsAreRows
  <2> QED BY <1>0, <1>1, <1>3, <1>4, <2>1 DEF Inv, Stands, Longer
<1>6. MirrorContents' /\ LogContents'
  BY <1>3, <1>4 DEF Inv, MirrorContents, LogContents
<1> QED BY <1>4, <1>5, <1>6, LastStep

\* A write that is interrupted, to the file whose lock the command has, or
\* anywhere else.
LEMMA InterruptedInv ==
  ASSUME Inv, NEW s \in Slot, NEW line,
         mirror' = mirror \/ (command[s].at = "append" /\ line \in Row /\ mirror' \in Interrupted(mirror, line)),
         log' = log \/ (line \in Decision /\ log' \in Interrupted(log, line)),
         Releases(s), Becomes(s, Idle), UNCHANGED <<clock, kinds, ended, hosted, summary, begun, told>>
  PROVE  Inv'
<1>1. mirror \in [lines : Seq(Line), ended : BOOLEAN]
      /\ log \in [lines : Seq(Decision \cup {Torn}), ended : BOOLEAN]
  BY DEF Inv, MirrorContents, LogContents
<1>2. mirror' \in [lines : Seq(Line), ended : BOOLEAN] /\ Longer(mirror, mirror')
  <2>1. CASE mirror' = mirror
    BY <1>1, <2>1 DEF Longer
  <2>2. CASE line \in Row /\ mirror' \in Interrupted(mirror, line)
    <3>1. line \in Line /\ Torn \in Line
      BY <2>2 DEF Line
    <3> QED BY <1>1, <2>2, <3>1, InterruptedIsLonger
  <2> QED BY <2>1, <2>2
<1>3. log' \in [lines : Seq(Decision \cup {Torn}), ended : BOOLEAN] /\ Longer(log, log')
  <2>1. CASE log' = log
    BY <1>1, <2>1 DEF Longer
  <2>2. CASE line \in Decision /\ log' \in Interrupted(log, line)
    <3>1. line \in Decision \cup {Torn} /\ Torn \in Decision \cup {Torn}
      BY <2>2
    <3> QED BY <1>1, <2>2, <3>1, InterruptedIsLonger
  <2> QED BY <2>1, <2>2
<1>4. Stands'
  BY <1>2, <1>3 DEF Inv, Stands, Longer
<1>5. MirrorContents' /\ LogContents'
  BY <1>2, <1>3 DEF MirrorContents, LogContents
<1>6. mirror' = mirror \/ command[s].at \in MirrorSteps
  BY DEF MirrorSteps
<1> QED BY <1>4, <1>5, <1>6, LastStep

\* The deadline of the hook.
LEMMA ExpireInv ==
  ASSUME Inv, NEW s \in Slot, Expire(s)
  PROVE  Inv'
<1>1. log' = log \/ (command[s].row \in Decision /\ log' \in Interrupted(log, command[s].row))
  <2>1. CASE command[s].at = "write"
    <3>1. command[s].row \in Decision
      BY <2>1, CommandHere DEF Good
    <3> QED BY <2>1, <3>1 DEF Expire, LeftBy
  <2>2. CASE command[s].at # "write"
    BY <2>2 DEF Expire, LeftBy
  <2> QED BY <2>1, <2>2
<1>2. mirror' = mirror /\ Releases(s) /\ Becomes(s, Idle)
      /\ UNCHANGED <<clock, kinds, ended, hosted, summary, begun, told>>
  BY DEF Expire
<1> QED BY <1>1, <1>2, InterruptedInv

\* A command is killed.
LEMMA InterruptInv ==
  ASSUME Inv, NEW s \in Slot, Interrupt(s)
  PROVE  Inv'
<1>1. PICK line \in (IF command[s].at = "append" THEN command[s].rows ELSE {command[s].row}) :
        mirror' \in LeftBy(s, "append", mirror, line) /\ log' \in LeftBy(s, "write", log, line)
  BY DEF Interrupt
<1>2. mirror' = mirror
      \/ (command[s].at = "append" /\ line \in Row /\ mirror' \in Interrupted(mirror, line))
  <2>1. CASE command[s].at = "append"
    <3>1. line \in Row
      BY <1>1, <2>1, CommandHere DEF Command
    <3> QED BY <1>1, <2>1, <3>1 DEF LeftBy
  <2>2. CASE command[s].at # "append"
    BY <1>1, <2>2 DEF LeftBy
  <2> QED BY <2>1, <2>2
<1>3. log' = log \/ (line \in Decision /\ log' \in Interrupted(log, line))
  <2>1. CASE command[s].at = "write"
    <3>1. command[s].row \in Decision /\ line = command[s].row
      BY <1>1, <2>1, CommandHere DEF Good
    <3> QED BY <1>1, <2>1, <3>1 DEF LeftBy
  <2>2. CASE command[s].at # "write"
    BY <1>1, <2>2 DEF LeftBy
  <2> QED BY <2>1, <2>2
<1>4. Releases(s) /\ Becomes(s, Idle)
      /\ UNCHANGED <<clock, kinds, ended, hosted, summary, begun, told>>
  BY DEF Interrupt
<1> QED BY <1>2, <1>3, <1>4, InterruptedInv

\* A run ends.
LEMMA EndRunInv ==
  ASSUME Inv, NEW s \in Slot, NEW r \in Run, EndRun(s, r)
  PROVE  Inv'
<1> DEFINE c == [Idle EXCEPT !.kind = "end", !.at = "summarize", !.todo = {r}]
<1>1. c \in Command /\ c.kind = "end" /\ c.at = "summarize" /\ c.rows = {}
  <2>1. Idle \in Command /\ Idle.rows = {}
    BY IdleIsGood DEF Idle
  <2> QED BY <2>1 DEF Command, Steps
<1>2. Begins(s, c) /\ UNCHANGED <<mirror, log, holds, told>>
  BY DEF EndRun
<1> HIDE DEF c
<1>3. Good(c, mirror.lines)
  BY <1>1, FS_EmptySet DEF Good, StepOfKind, OneRow
<1>4. Contents'
  <2>1. \E state \in {"done", "aborted"} : ended' = [ended EXCEPT ![r] = state]
    BY DEF EndRun
  <2>2. ended' \in [Run -> {"no", "done", "aborted"}]
    BY <2>1 DEF Inv, Contents
  <2>3. begun' \in 0..MaxCommands
    BY <1>2, TelemetryConstants DEF Begins, Inv, Contents
  <2> QED BY <2>2, <2>3 DEF EndRun, Inv, Contents
<1> QED BY <1>1, <1>2, <1>3, <1>4, FirstStep DEF MirrorSteps

\* telemetry rebuild.
LEMMA RebuildInv ==
  ASSUME Inv, NEW s \in Slot, NEW d \in Clone, Rebuild(s, d)
  PROVE  Inv'
<1>0. PICK root \in Roots(d) :
        Begins(s, [Idle EXCEPT !.kind = "rebuild", !.at = "read", !.todo = RunsOf(d),
                              !.root = root, !.time = clock])
  BY DEF Rebuild
<1> DEFINE c == [Idle EXCEPT !.kind = "rebuild", !.at = "read", !.todo = RunsOf(d),
                              !.root = root, !.time = clock]
<1>1. c \in Command /\ c.kind = "rebuild" /\ c.at = "read" /\ c.rows = {} /\ c.time = clock
  <2>1. Idle \in Command /\ Idle.rows = {}
    BY IdleIsGood DEF Idle
  <2>2. RunsOf(d) \subseteq Run /\ root \in Repositories \cup {NoRoot} /\ clock \in Time
    BY RootsAreRoots DEF RunsOf, Inv, Contents
  <2> QED BY <2>1, <2>2 DEF Command, Steps
<1>2. Begins(s, c) /\ UNCHANGED <<mirror, log, holds, told>>
  BY <1>0 DEF Rebuild
<1> HIDE DEF c
<1>3. Good(c, mirror.lines)
  <2>1. clock \in Time
    BY DEF Inv, Contents
  <2> QED BY <1>1, <2>1, FS_EmptySet DEF Good, StepOfKind, OneRow
<1>4. Contents'
  <2>1. begun' \in 0..MaxCommands
    BY <1>2, TelemetryConstants DEF Begins, Inv, Contents
  <2> QED BY <2>1 DEF Rebuild, Inv, Contents
<1> QED BY <1>1, <1>2, <1>3, <1>4, FirstStep DEF MirrorSteps

\* telemetry sync-hosted.
LEMMA SyncInv ==
  ASSUME Inv, NEW s \in Slot, NEW d \in Clone, Sync(s, d)
  PROVE  Inv'
<1>0. PICK root \in Roots(d), pending \in SUBSET Run, again \in SUBSET Run, clean \in BOOLEAN :
        Begins(s, [Idle EXCEPT !.kind = "sync", !.clone = d, !.at = "fetch", !.todo = pending, !.root = root,
                              !.again = again, !.clean = clean])
  <2>1. PICK root \in Roots(d), refresh \in BOOLEAN :
       LET pending == {r \in RunsOf(d) : ended[r] = "done" /\ (refresh \/ hosted[r] = 0)} IN
       Begins(s, [Idle EXCEPT !.kind = "sync", !.clone = d, !.at = "fetch", !.todo = pending, !.root = root,
                              !.again = Stale(d) \ pending, !.clean = Undisturbed(s)])
    BY DEF Sync
  <2> DEFINE pending == {r \in RunsOf(d) : ended[r] = "done" /\ (refresh \/ hosted[r] = 0)}
  <2>2. pending \in SUBSET Run /\ Stale(d) \ pending \in SUBSET Run
    BY DEF RunsOf, Stale
  <2>3. Undisturbed(s) \in BOOLEAN
    BY DEF Undisturbed
  <2>4. Begins(s, [Idle EXCEPT !.kind = "sync", !.clone = d, !.at = "fetch", !.todo = pending, !.root = root,
                              !.again = Stale(d) \ pending, !.clean = Undisturbed(s)])
    BY <2>1
  <2> HIDE DEF pending
  <2> QED BY <2>2, <2>3, <2>4
<1> DEFINE c == [Idle EXCEPT !.kind = "sync", !.clone = d, !.at = "fetch", !.todo = pending, !.root = root,
                              !.again = again, !.clean = clean]
<1>1. c \in Command /\ c.kind = "sync" /\ c.at = "fetch" /\ c.rows = {}
  <2>1. Idle \in Command /\ Idle.rows = {}
    BY IdleIsGood DEF Idle
  <2>2. root \in Repositories \cup {NoRoot}
    BY RootsAreRoots
  <2> QED BY <2>1, <2>2 DEF Command, Steps
<1>2. Begins(s, c) /\ UNCHANGED <<mirror, log, holds, told>>
  BY <1>0 DEF Sync
<1> HIDE DEF c
<1>3. Good(c, mirror.lines)
  BY <1>1, FS_EmptySet DEF Good, StepOfKind, OneRow
<1>4. Contents'
  <2>1. begun' \in 0..MaxCommands
    BY <1>2, TelemetryConstants DEF Begins, Inv, Contents
  <2> QED BY <2>1 DEF Sync, Inv, Contents
<1> QED BY <1>1, <1>2, <1>3, <1>4, FirstStep DEF MirrorSteps

\* The hook begins.
LEMMA BeginHookInv ==
  ASSUME Inv, NEW s \in Slot, BeginHook(s)
  PROVE  Inv'
<1> DEFINE row == [hook |-> begun]
           c == [Idle EXCEPT !.kind = "hook", !.at = "evaluate", !.row = row]
<1>0. row \in Decision
  BY TelemetryConstants DEF Decision, Inv, Contents
<1>1. c \in Command /\ c.kind = "hook" /\ c.at = "evaluate" /\ c.rows = {} /\ c.row = row
  <2>1. Idle \in Command /\ Idle.rows = {}
    BY IdleIsGood DEF Idle
  <2> HIDE DEF row
  <2> QED BY <1>0, <2>1 DEF Command, Steps
<1>2. Begins(s, c) /\ UNCHANGED <<mirror, log, holds, told>>
  BY DEF BeginHook
<1> HIDE DEF c, row
<1>3. Good(c, mirror.lines)
  BY <1>0, <1>1, FS_EmptySet DEF Good, StepOfKind, OneRow
<1>4. Contents'
  <2>1. begun' \in 0..MaxCommands
    BY <1>2, TelemetryConstants DEF Begins, Inv, Contents
  <2> QED BY <2>1 DEF BeginHook, Inv, Contents
<1> QED BY <1>1, <1>2, <1>3, <1>4, FirstStep DEF MirrorSteps

\* The clock goes on.
LEMMA TickInv ==
  ASSUME Inv, Tick
  PROVE  Inv'
<1>1. Contents'
  BY TelemetryConstants DEF Tick, Inv, Contents, Time
<1> QED BY <1>1 DEF Tick, Inv, MirrorContents, LogContents, Commands, Locks, Stands

\* Inv is inductive.
LEMMA NextInv ==
  Inv /\ [Next]_vars => Inv'
<1> SUFFICES ASSUME Inv, [Next]_vars PROVE Inv'
  OBVIOUS
<1>1. CASE UNCHANGED vars
  BY <1>1 DEF vars, Inv, Contents, MirrorContents, LogContents, Commands, Locks, Stands
<1>2. CASE Tick
  BY <1>2, TickInv
<1>3. ASSUME NEW s \in Slot, Step(s) PROVE Inv'
  BY <1>3, SummarizeInv, FetchInv, AnswerInv, ResummarizeInv, ReadInv, StoreInv, ToMirrorInv,
     NothingToDoInv, LockMirrorInv, AppendRowInv, MergeInv, ReplaceInv, DecideInv, LockLogInv,
     AppendDecisionInv, ExpireInv DEF Step
<1>4. ASSUME NEW s \in Slot, Interrupt(s) \/ BeginHook(s) PROVE Inv'
  BY <1>4, InterruptInv, BeginHookInv
<1>5. ASSUME NEW s \in Slot, NEW r \in Run, EndRun(s, r) PROVE Inv'
  BY <1>5, EndRunInv
<1>6. ASSUME NEW s \in Slot, NEW c \in Clone, Rebuild(s, c) \/ Sync(s, c) PROVE Inv'
  BY <1>6, RebuildInv, SyncInv
<1> QED BY <1>1, <1>2, <1>3, <1>4, <1>5, <1>6 DEF Next

\* Inv holds in every state.
LEMMA AlwaysInv ==
  Spec => []Inv
<1>1. Init => Inv
  BY InitInv
<1>2. Inv /\ [Next]_vars => Inv'
  BY NextInv
<1> QED BY <1>1, <1>2, PTL DEF Spec

-----------------------------------------------------------------------------
(* The properties.                                                          *)

\* The commands, their files and the two locks keep their types, and whoever is
\* at a file holds its lock.
THEOREM TelemetryTypeCorrect ==
  Spec => []TypeOK
<1>1. Inv => TypeOK
  <2> SUFFICES ASSUME Inv PROVE TypeOK
    OBVIOUS
  <2>1. ASSUME NEW s \in Slot
        PROVE  /\ command[s].at \in Steps /\ command[s].todo \subseteq Run /\ command[s].rows \subseteq Row
               /\ holds["mirror"] = s <=> command[s].at \in {"append", "merge", "replace"}
               /\ holds["log"] = s <=> command[s].at = "write"
    BY CommandHere DEF Command, MirrorSteps
  <2> QED BY <2>1 DEF Inv, Contents, Locks, TypeOK
<1> QED BY <1>1, AlwaysInv, PTL

\* The rows of a mirror have a time, all of them.
LEMMA MirrorIsTimed ==
  ASSUME MirrorContents
  PROVE  mirror.lines \in Seq(Line) /\ Timed(mirror.lines)
<1>1. mirror.lines \in Seq(Line)
  BY DEF MirrorContents
<1>2. \A i \in 1..Len(mirror.lines) : mirror.lines[i] \in Line
  BY <1>1, ElementOfSeq
<1> QED BY <1>1, <1>2, RowsAreRows DEF Timed, Line

\* What write_summary, replace_mirror_rows and hooklog.append reported stands.
THEOREM WhatIsToldStands ==
  Spec => []ToldStands
<1>1. Inv => ToldStands
  <2> SUFFICES ASSUME Inv, NEW line \in told
               PROVE  IF IsRow(line)
                      THEN \E x \in Reported(mirror.lines) : x.run = line.run /\ x.written >= line.written
                      ELSE \E i \in 1..Len(log.lines) : log.lines[i] = line
    BY DEF ToldStands
  <2>1. CASE line \in Row
    <3>1. IsRow(line) /\ line.written \in Nat
      BY <2>1, RowsAreRows
    <3>2. PICK i \in 1..Len(mirror.lines) :
            /\ IsRow(mirror.lines[i]) /\ mirror.lines[i].run = line.run
            /\ mirror.lines[i].written >= line.written
      BY <2>1 DEF Inv, Stands, Shows
    <3>3. mirror.lines \in Seq(Line) /\ Timed(mirror.lines)
      BY MirrorIsTimed DEF Inv
    <3>4. PICK x \in Reported(mirror.lines) :
            x.run = mirror.lines[i].run /\ x.written >= mirror.lines[i].written
      BY <3>2, <3>3, ReportShows
    <3>5. x.written \in Nat /\ mirror.lines[i].written \in Nat
      <4>1. x \in {mirror.lines[j] : j \in {k \in 1..Len(mirror.lines) : IsRow(mirror.lines[k])}}
        BY <3>3, ReportShows DEF Reported
      <4> QED BY <3>2, <3>3, <4>1 DEF Timed
    <3> QED BY <3>1, <3>2, <3>4, <3>5
  <2>2. CASE line \in Decision
    <3>1. ~IsRow(line)
      BY <2>2, RowsAreRows
    <3> QED BY <2>2, <3>1 DEF Inv, Stands, Logged
  <2> QED BY <2>1, <2>2 DEF Inv, Stands
<1> QED BY <1>1, AlwaysInv, PTL

\* A report shows rows of the mirror, and of every run in the mirror one that is
\* as new.
LEMMA ReportedShow ==
  ASSUME NEW lines \in Seq(Line)
  PROVE  /\ \A x \in Reported(lines) : x \in Row \cup OtherRows /\ Shows(lines, x)
         /\ \A row \in Row \cup OtherRows : Shows(lines, row) =>
              \E y \in Reported(lines) : y.run = row.run /\ y.written >= row.written
<1>1. Timed(lines)
  <2>1. \A i \in 1..Len(lines) : lines[i] \in Line
    BY ElementOfSeq
  <2> QED BY <2>1, RowsAreRows DEF Timed, Line
<1>2. ASSUME NEW x \in Reported(lines)
      PROVE  x \in Row \cup OtherRows /\ Shows(lines, x) /\ x.written \in Nat
  <2>1. PICK i \in 1..Len(lines) : IsRow(lines[i]) /\ x = lines[i]
    BY <1>1, ReportShows DEF Reported
  <2>2. x \in Row \cup OtherRows
    BY <2>1, ElementOfSeq, RowsAreRows DEF Line
  <2>3. x.written \in Nat
    BY <2>2, RowsAreRows
  <2>4. x.written >= x.written
    BY <2>3
  <2> QED BY <2>1, <2>2, <2>3, <2>4 DEF Shows
<1>3. ASSUME NEW row \in Row \cup OtherRows, Shows(lines, row)
      PROVE  \E y \in Reported(lines) : y.run = row.run /\ y.written >= row.written
  <2>1. PICK i \in 1..Len(lines) :
          IsRow(lines[i]) /\ lines[i].run = row.run /\ lines[i].written >= row.written
    BY <1>3 DEF Shows
  <2>2. PICK y \in Reported(lines) : y.run = lines[i].run /\ y.written >= lines[i].written
    BY <1>1, <2>1, ReportShows
  <2>3. y.written \in Nat /\ lines[i].written \in Nat /\ row.written \in Nat
    BY <1>1, <1>2, <2>1, RowsAreRows DEF Timed
  <2> QED BY <2>1, <2>2, <2>3
<1> QED BY <1>2, <1>3

\* A line more leaves every line that there was.
LEMMA AppendStillShows ==
  ASSUME NEW lines \in Seq(Line), NEW x \in Line, NEW row, Shows(lines, row)
  PROVE  Append(lines, x) \in Seq(Line) /\ Shows(Append(lines, x), row)
<1>1. PICK i \in 1..Len(lines) :
        IsRow(lines[i]) /\ lines[i].run = row.run /\ lines[i].written >= row.written
  BY DEF Shows
<1>2. i \in 1..Len(Append(lines, x)) /\ Append(lines, x)[i] = lines[i]
  BY AppendProperties, LenProperties
<1>3. Append(lines, x) \in Seq(Line)
  BY AppendProperties
<1> QED BY <1>1, <1>2, <1>3 DEF Shows

\* Only these steps touch the mirror.
LEMMA MirrorWriters ==
  ASSUME Next, mirror' # mirror
  PROVE  \E s \in Slot : AppendRow(s) \/ Replace(s) \/ Interrupt(s)
<1>1. ~ Tick
  BY DEF Tick
<1>2. ASSUME NEW s \in Slot, Step(s) PROVE AppendRow(s) \/ Replace(s)
  BY <1>2 DEF Step, Summarize, Fetch, Answer, Resummarize, Read, Store, ToMirror, NothingToDo,
     LockMirror, Merge, Decide, LockLog, AppendDecision, Expire
<1>3. \A s \in Slot : ~ BeginHook(s) /\ (\A r \in Run : ~ EndRun(s, r))
                     /\ (\A c \in Clone : ~ Rebuild(s, c) /\ ~ Sync(s, c))
  BY DEF BeginHook, EndRun, Rebuild, Sync
<1> QED BY <1>1, <1>2, <1>3 DEF Next

\* _append_row puts one line behind the others, _rewrite_mirror the merged lines
\* in their place, and an interrupted write a piece behind them or nothing.
LEMMA MirrorChanges ==
  ASSUME Inv, NEW s \in Slot, AppendRow(s) \/ Replace(s) \/ Interrupt(s)
  PROVE  \/ mirror'.lines = mirror.lines
         \/ \E piece \in Line : mirror'.lines = Append(mirror.lines, piece)
         \/ command[s].at = "replace" /\ mirror'.lines = command[s].lines
<1>1. mirror \in [lines : Seq(Line), ended : BOOLEAN]
  BY DEF Inv, MirrorContents
<1>2. CASE AppendRow(s)
  <2>1. PICK row \in command[s].rows : mirror' = Written(mirror, row)
    BY <1>2 DEF AppendRow
  <2>2. row \in Line
    BY CommandHere DEF Command, Line
  <2> QED BY <2>1, <2>2 DEF Written, AllEnded
<1>3. CASE Replace(s)
  BY <1>3 DEF Replace, AllEnded
<1>4. CASE Interrupt(s)
  <2>1. PICK line \in (IF command[s].at = "append" THEN command[s].rows ELSE {command[s].row}) :
          mirror' \in LeftBy(s, "append", mirror, line)
    BY <1>4 DEF Interrupt
  <2>2. CASE command[s].at # "append"
    BY <2>1, <2>2 DEF LeftBy
  <2>3. CASE command[s].at = "append"
    <3>1. mirror' \in Interrupted(mirror, line)
      BY <2>1, <2>3 DEF LeftBy
    <3>2. line \in Line /\ Torn \in Line
      BY <2>1, <2>3, CommandHere DEF Command, Line
    <3> QED BY <1>1, <3>1, <3>2, InterruptedIsLonger
  <2> QED BY <2>2, <2>3
<1> QED BY <1>2, <1>3, <1>4

\* What the report shows it shows again after every append, rewrite and
\* interrupted write, or something newer of the run.
THEOREM RunsAlwaysStay ==
  Spec => RunsStayReported
<1> DEFINE Stays == mirror' # mirror =>
             \A x \in Reported(mirror.lines) :
               \E y \in Reported(mirror'.lines) : y.run = x.run /\ y.written >= x.written
<1>1. Inv /\ [Next]_vars => Stays
  <2> SUFFICES ASSUME Inv, [Next]_vars, mirror' # mirror, NEW x \in Reported(mirror.lines)
               PROVE  \E y \in Reported(mirror'.lines) : y.run = x.run /\ y.written >= x.written
    OBVIOUS
  <2>1. mirror.lines \in Seq(Line)
    BY DEF Inv, MirrorContents
  <2>2. x \in Row \cup OtherRows /\ Shows(mirror.lines, x)
    BY <2>1, ReportedShow
  <2>3. PICK s \in Slot : AppendRow(s) \/ Replace(s) \/ Interrupt(s)
    BY MirrorWriters DEF vars
  <2>4. \/ mirror'.lines = mirror.lines
        \/ \E piece \in Line : mirror'.lines = Append(mirror.lines, piece)
        \/ command[s].at = "replace" /\ mirror'.lines = command[s].lines
    BY <2>3, MirrorChanges
  <2>5. mirror'.lines \in Seq(Line) /\ Shows(mirror'.lines, x)
    <3>1. CASE mirror'.lines = mirror.lines
      BY <2>1, <2>2, <3>1
    <3>2. ASSUME NEW piece \in Line, mirror'.lines = Append(mirror.lines, piece)
          PROVE  mirror'.lines \in Seq(Line) /\ Shows(mirror'.lines, x)
      BY <2>1, <2>2, <3>2, AppendStillShows
    <3>3. CASE command[s].at = "replace" /\ mirror'.lines = command[s].lines
      BY <2>2, <3>3, RewriteKeeps
    <3> QED BY <2>4, <3>1, <3>2, <3>3
  <2> QED BY <2>2, <2>5, ReportedShow
<1>2. Inv /\ [Next]_vars => [Stays]_vars
  BY <1>1
<1> QED BY <1>2, AlwaysInv, PTL DEF Spec, RunsStayReported

\* A line more at the end of the mirror leaves the lines of others.
LEMMA AppendLeavesStrangers ==
  ASSUME NEW lines \in Seq(Line), NEW x \in Line
  PROVE  IsPrefix(Strangers(lines), Strangers(Append(lines, x)))
<1>1. <<x>> \in Seq(Line) /\ Append(lines, x) = lines \o <<x>> /\ Append(lines, x) \in Seq(Line)
  BY AppendIsConcat, AppendProperties
<1>2. IsPrefix(Only(StrangeLine, lines), Only(StrangeLine, lines \o <<x>>))
  BY <1>1, OnlyPrefix
<1> QED BY <1>1, <1>2, StrangersAreOnly

\* The lines of others are the beginning of themselves.
LEMMA StrangersOfSame ==
  ASSUME NEW lines \in Seq(Line)
  PROVE  IsPrefix(Strangers(lines), Strangers(lines))
<1>1. Only(StrangeLine, lines) \in Seq(Line)
  BY OnlyType
<1>2. IsPrefix(Only(StrangeLine, lines), Only(StrangeLine, lines))
  BY <1>1, PrefixEntries, LenProperties
<1> QED BY <1>2, StrangersAreOnly

\* _append_row and _rewrite_mirror, finished or interrupted, never touch the lines
\* of other repositories.
THEOREM OthersAlwaysStand ==
  Spec => OthersStand
<1> DEFINE Untouched == mirror' # mirror => IsPrefix(Strangers(mirror.lines), Strangers(mirror'.lines))
<1>1. Inv /\ [Next]_vars => Untouched \/ UNCHANGED vars
  <2> SUFFICES ASSUME Inv, [Next]_vars, mirror' # mirror
               PROVE  IsPrefix(Strangers(mirror.lines), Strangers(mirror'.lines))
    OBVIOUS
  <2>0. mirror \in [lines : Seq(Line), ended : BOOLEAN] /\ mirror.lines \in Seq(Line)
    BY DEF Inv, MirrorContents
  <2>1. PICK s \in Slot : AppendRow(s) \/ Replace(s) \/ Interrupt(s)
    BY MirrorWriters DEF vars
  <2>2. \/ mirror'.lines = mirror.lines
        \/ \E piece \in Line : mirror'.lines = Append(mirror.lines, piece)
        \/ command[s].at = "replace" /\ mirror'.lines = command[s].lines
    BY <2>1, MirrorChanges
  <2> QED BY <2>0, <2>2, AppendLeavesStrangers, StrangersOfSame, RewriteKeeps
<1>2. Inv /\ [Next]_vars => [Untouched]_vars
  BY <1>1
<1> QED BY <1>2, AlwaysInv, PTL DEF Spec, OthersStand
-----------------------------------------------------------------------------
(* The rows of the runs, and a sync that nothing disturbs.                  *)

\* A row says where its run was and, when Git could tell, its repository, and is
\* not from the future.
Own(x, now) == x.source = Home[x.run] /\ x.root \in Roots(Home[x.run]) /\ x.written <= now
\* A line of one of the runs.
OwnLine(x, now) == IsRow(x) /\ x.run \in Run => Own(x, now)
OwnLines(lines, now) == \A i \in 1..Len(lines) : OwnLine(lines[i], now)

\* So are the rows at hand, and those that a command will make.
Owned(c, now) ==
  /\ \A x \in c.rows : Own(x, now)
  /\ c.at = "store" => Own(c.row, now)
  /\ c.kind \in {"rebuild", "sync"} => \A r \in c.todo \cup c.again : c.root \in Roots(Home[r])
  /\ c.at = "answer" => c.root \in Roots(Home[c.row.run])
  /\ c.time <= now
  /\ c.at = "replace" => OwnLines(c.lines, now)

\* All of this holds of the mirror and of every command.
OwnInv == OwnLines(mirror.lines, clock) /\ \A s \in Slot : Owned(command[s], clock)

\* The rows of a sync: of one time and one root, one for each run that is no
\* longer to do, and not older than what the mirror holds.
Fresh(c, rows, lines) ==
  /\ \A x \in rows : x.written = c.time /\ x.root = c.root /\ x.run \in RunsOf(c.clone) \ c.todo
  /\ \A x, y \in rows : x.run = y.run => x = y
  /\ \A i \in 1..Len(lines) : IsRow(lines[i]) /\ lines[i].run \in Run => lines[i].written <= c.time

\* A sync will summarize the run.
Planned(c, r) ==
  \/ c.at \in {"fetch", "answer"} /\ r \in c.todo \cup c.again
  \/ c.at \in {"read", "store"} /\ r \in c.todo
  \/ c.at = "store" /\ r = c.row.run

\* The finished runs whose outcome is known and not in their summary.
LackingRuns ==
  {r \in Run : ended[r] = "done" /\ hosted[r] # 0 /\ FetchedInSummary(r) # hosted[r]}

\* What a sync relies on as long as no other command runs: where it stands with
\* the runs that lack their outcome, with what was fetched and with the mirror.
Joining(c, lacking, fetched, lines) ==
  /\ c.clone \in Clone /\ c.root \in Roots(c.clone) /\ c.todo \cup c.again \subseteq RunsOf(c.clone)
  /\ c.at \in {"fetch", "answer"} => c.rows = {}
  /\ c.at = "answer" => c.row.run \in c.todo
  /\ c.at \in {"read", "lock", "merge", "replace"} => Fresh(c, c.rows, lines)
  /\ c.at = "store" => Fresh(c, c.rows \cup {c.row}, lines) /\ c.row.hosted = fetched[c.row.run]
  /\ \A r \in lacking \cap RunsOf(c.clone) : Planned(c, r)

\* A sync that nothing has failed for and that is alone.
Clear(c) == c.kind = "sync" /\ c.clean

\* It has no other command beside it, and what it relies on.
SyncOK ==
  \A s \in Slot : Clear(command[s]) =>
    /\ Joining(command[s], LackingRuns, hosted, mirror.lines)
    /\ \A t \in Slot \ {s} : command[t] = Idle

\* The inductive strengthening of SyncJoins, beside Inv.
Sound == OwnInv /\ SyncOK

-----------------------------------------------------------------------------
(* What the report shows after a sync.                                      *)

\* An index that beats all others of its run stays.
LEMMA BestStays ==
  ASSUME NEW rows, NEW among, NEW place, NEW i \in among,
         \A j \in among : rows[j].run = rows[i].run =>
           i = j \/ (Supersedes(rows[i], rows[j], i > j) /\ Supersedes(rows[i], rows[j], place[i] > place[j]))
  PROVE  i \in NewestOfRuns(rows, among, place)
<1> DEFINE lines == [j \in among |-> j]
           rowKey == [j \in among |-> RowKey(rows[j])]
           runKey == [j \in among |-> RunKey(rows[j])]
           once == Newest(rows, among, rowKey, lines)
           twice == Newest(rows, once, runKey, place)
<1>1. NewestOfRuns(rows, among, place) = twice
  BY DEF NewestOfRuns
<1>2. \A j \in among : lines[j] = j /\ rowKey[j] = RowKey(rows[j]) /\ runKey[j] = RunKey(rows[j])
  OBVIOUS
<1>3. \A x, y : RowKey(x) = RowKey(y) \/ RunKey(x) = RunKey(y) => x.run = y.run
  BY DEF RowKey, RunKey
<1> HIDE DEF lines, rowKey, runKey
<1>4. i \in once
  BY <1>2, <1>3 DEF Newest
<1>5. once \subseteq among
  BY DEF Newest
<1>6. i \in twice
  <2> HIDE DEF once
  <2> QED BY <1>2, <1>3, <1>4, <1>5 DEF Newest
<1> QED BY <1>1, <1>6

\* Rows at hand of one time and one root, one for each run, and lines that say of
\* a run only what fits and is not newer.
Fits(lines, fresh, root, time) ==
  /\ \A x \in fresh : x.written = time /\ x.root = root /\ x.source = Home[x.run]
                      /\ root \in Roots(Home[x.run])
  /\ \A x, y \in fresh : x.run = y.run => x = y
  /\ \A i \in 1..Len(lines) : IsRow(lines[i]) /\ lines[i].run \in Run =>
       /\ lines[i].written <= time /\ lines[i].source = Home[lines[i].run]
       /\ lines[i].root \in Roots(Home[lines[i].run])

\* Then the rewrite has of the run of a row at hand this row and no other.
LEMMA MergedRun ==
  ASSUME NEW lines \in Seq(Line), NEW fresh \in SUBSET Row, IsFiniteSet(fresh),
         NEW root \in Repositories \cup {NoRoot}, NEW time \in Nat,
         Fits(lines, fresh, root, time), NEW x \in fresh, NEW merged,
         merged = MergeMirror(lines, fresh, root),
         NEW k \in 1..Len(merged), IsRow(merged[k]), merged[k].run = x.run
  PROVE  merged[k] = x
<1>1. PICK added \in Seq(Row), all \in Seq(Line), taken \in SUBSET Int :
           Parts(lines, fresh, root, added, all, taken)
  BY MergeParts
<1> USE DEF Parts
<1> DEFINE rest == (1..Len(lines)) \ taken
           place == [i \in 1..Len(all) |-> i]
           kept == NewestOfRuns(all, taken, place)
           front == Picked(all, rest)
           back == Picked(all, kept)
<1>2. /\ Len(lines) \in Nat /\ Len(added) \in Nat /\ Len(all) = Len(lines) + Len(added)
      /\ \A i \in 1..Len(lines) : i \in 1..Len(all) /\ all[i] = lines[i]
      /\ \A i \in 1..Len(all) : i \in 1..Len(lines) \/ (i > Len(lines) /\ all[i] \in fresh)
      /\ \E i \in 1..Len(all) : i > Len(lines) /\ all[i] = x
  <2>1. added \in Seq(Line)
    <3>1. Row \subseteq Line
      BY DEF Line
    <3> QED BY <3>1, SeqMonotonic
  <2>2. /\ Len(all) = Len(lines) + Len(added)
        /\ Len(lines) \in Nat /\ Len(added) \in Nat
        /\ \A i \in 1..(Len(lines) + Len(added)) :
             all[i] = IF i <= Len(lines) THEN lines[i] ELSE added[i - Len(lines)]
    BY <1>1, <2>1, ConcatProperties, LenProperties
  <2>3. \A i \in 1..Len(lines) : i \in 1..Len(all) /\ all[i] = lines[i]
    BY <2>2
  <2>4. ASSUME NEW i \in 1..Len(all), i \notin 1..Len(lines) PROVE i > Len(lines) /\ all[i] \in fresh
    <3>1. i - Len(lines) \in 1..Len(added) /\ ~(i <= Len(lines))
      BY <2>2, <2>4
    <3> QED BY <1>1, <2>2, <3>1
  <2>5. \E i \in 1..Len(all) : i > Len(lines) /\ all[i] = x
    <3>1. PICK i \in 1..Len(added) : added[i] = x
      BY <1>1
    <3>2. /\ Len(lines) + i \in 1..Len(all) /\ ~(Len(lines) + i <= Len(lines))
          /\ (Len(lines) + i) - Len(lines) = i /\ Len(lines) + i > Len(lines)
      BY <2>2
    <3>3. all[Len(lines) + i] = added[(Len(lines) + i) - Len(lines)]
      BY <2>2, <3>2
    <3> QED BY <3>1, <3>2, <3>3
  <2> QED BY <2>2, <2>3, <2>4, <2>5
<1>3. PICK n \in 1..Len(all) : /\ n > Len(lines) /\ all[n] = x
                               /\ \A j \in 1..Len(all) : j > Len(lines) /\ all[j] = x => j <= n
  <2> DEFINE S == {j \in 1..Len(all) : j > Len(lines) /\ all[j] = x}
  <2>1. S # {} /\ S \in SUBSET Int
    <3>1. S # {}
      BY <1>2
    <3>2. S \in SUBSET Int
      BY <1>2
    <3> QED BY <3>1, <3>2
  <2>2. IsFiniteSet(S)
    <3>1. 1 \in Int /\ Len(all) \in Int /\ S \in SUBSET (1..Len(all))
      BY <1>2
    <3>2. IsFiniteSet(1..Len(all))
      BY <3>1, FS_Interval
    <3> HIDE DEF S
    <3> QED BY <3>1, <3>2, FS_Subset
  <2>3. PICK m \in S : \A j \in S : j <= m
    <3> HIDE DEF S
    <3> QED BY <2>1, <2>2, FiniteMax
  <2> QED BY <2>3
<1>4. x \in Row /\ x.run \in Run /\ x.written = time /\ x.root = root /\ x.source = Home[x.run]
      /\ root \in Roots(Home[x.run])
  BY RowsAreRows DEF Fits
<1>5. n \in taken
  BY <1>1, <1>2, <1>3
<1>6. ASSUME NEW j \in taken, all[j].run = x.run
      PROVE  /\ n = j \/ (Supersedes(all[n], all[j], n > j) /\ Supersedes(all[n], all[j], place[n] > place[j]))
             /\ RunKey(all[n]) = RunKey(all[j])
  <2>1. j \in 1..Len(all) /\ IsRow(all[j])
    BY <1>1
  <2>2. place[n] = n /\ place[j] = j
    BY <2>1
  <2> HIDE DEF place
  <2>3. CASE j \in 1..Len(lines)
    <3>1. IsRow(lines[j]) /\ all[j] = lines[j] /\ lines[j].run \in Run
      BY <1>2, <1>4, <1>6, <2>1, <2>3
    <3>2. lines[j].written <= time /\ lines[j].source = Home[lines[j].run]
      BY <2>3, <3>1 DEF Fits
    <3>3. RunKey(all[n]) = RunKey(all[j])
      BY <1>3, <1>4, <1>6, <3>1, <3>2 DEF RunKey
    <3>4. lines[j].written \in Nat
      <4>1. lines[j] \in Line
        BY <2>3, ElementOfSeq
      <4> QED BY <3>1, <4>1, RowsAreRows DEF Line
    <3>5. all[n].written = time /\ n > j
      BY <1>2, <1>3, <1>4, <2>3
    <3>6. time > lines[j].written \/ time = lines[j].written
      BY <3>2, <3>4
    <3> QED BY <2>2, <3>1, <3>3, <3>5, <3>6 DEF Supersedes
  <2>4. CASE j \notin 1..Len(lines)
    <3>1. j > Len(lines) /\ all[j] \in fresh
      BY <1>2, <2>1, <2>4
    <3>2. all[j] = x
      BY <1>6, <3>1 DEF Fits
    <3>3. j <= n
      BY <1>3, <2>1, <3>1, <3>2
    <3>4. n = j \/ n > j
      BY <1>2, <2>1, <3>3
    <3> QED BY <1>3, <2>2, <3>2, <3>4 DEF Supersedes
  <2> QED BY <2>3, <2>4
<1>7. n \in kept
  <2> HIDE DEF place
  <2> QED BY <1>3, <1>5, <1>6, BestStays
<1>8. /\ kept \subseteq taken
      /\ \A i, j \in kept : RunKey(all[i]) = RunKey(all[j]) => i = j
  <2>1. taken \subseteq Int /\ Len(all) \in Nat
    BY <1>1, <1>2
  <2>2. \A i \in taken : place[i] = i /\ i \in Int /\ all[i].written \in Nat
    <3> SUFFICES ASSUME NEW i \in taken PROVE place[i] = i /\ i \in Int /\ all[i].written \in Nat
      OBVIOUS
    <3>1. i \in 1..Len(all) /\ IsRow(all[i]) /\ all[i] \in Line
      BY <1>1, ElementOfSeq
    <3> QED BY <2>1, <3>1, RowsAreRows DEF Line
  <2>3. IsFiniteSet(taken)
    <3>1. 1 \in Int /\ Len(all) \in Int /\ taken \in SUBSET (1..Len(all))
      BY <1>1, <2>1
    <3>2. IsFiniteSet(1..Len(all))
      BY <3>1, FS_Interval
    <3> QED BY <3>1, <3>2, FS_Subset
  <2>4. \A i, j \in taken : place[i] = place[j] => RowKey(all[i]) = RowKey(all[j])
    BY <2>2
  <2> HIDE DEF place
  <2>5. Dated(all, taken, place)
    BY <2>2, <2>3 DEF Dated
  <2> QED BY <2>1, <2>4, <2>5, NewestRuns
<1> HIDE DEF kept, place
<1>9. ASSUME NEW i \in 1..Len(all), i \in rest, IsRow(all[i]), all[i].run = x.run PROVE FALSE
  <2>1. i \in 1..Len(lines) /\ all[i] = lines[i] /\ i \notin taken
    BY <1>2, <1>9
  <2>2. lines[i].source = Home[x.run] /\ lines[i].root \in Roots(Home[x.run])
    BY <1>4, <1>9, <2>1 DEF Fits
  <2>3. RunKey(lines[i]) = RunKey(x)
    BY <1>4, <1>9, <2>1, <2>2 DEF RunKey
  <2>4. CASE lines[i].root = NoRoot \/ root = NoRoot
    BY <1>1, <1>9, <2>1, <2>3, <2>4 DEF MustGo
  <2>5. CASE lines[i].root # NoRoot /\ root # NoRoot
    <3>1. lines[i].root = root
      BY <1>4, <2>2, <2>5 DEF Roots
    <3> QED BY <1>1, <1>9, <2>1, <2>5, <3>1 DEF MustGo, Claimed
  <2> QED BY <2>4, <2>5
<1>10. ASSUME NEW i \in 1..Len(all), i \in kept, all[i].run = x.run PROVE all[i] = x
  <2>1. RunKey(all[n]) = RunKey(all[i])
    BY <1>6, <1>8, <1>10
  <2> QED BY <1>3, <1>7, <1>8, <1>10, <2>1
<1>11. front \in Seq(Line) /\ \A m \in 1..Len(front) : \E i \in 1..Len(all) : i \in rest /\ front[m] = all[i]
  <2> HIDE DEF rest
  <2>0. all \in Seq(Line)
    OBVIOUS
  <2>1. Picked(all, rest) \in Seq(Line)
    BY ONLY <2>0, PickedType
  <2>2. \A m \in 1..Len(Picked(all, rest)) :
          \E i \in 1..Len(all) : i \in rest /\ Picked(all, rest)[m] = all[i]
    BY ONLY <2>0, PickedFrom
  <2> QED BY <2>1, <2>2
<1>12. back \in Seq(Line) /\ \A m \in 1..Len(back) : \E i \in 1..Len(all) : i \in kept /\ back[m] = all[i]
  <2> HIDE DEF kept
  <2>0. all \in Seq(Line)
    OBVIOUS
  <2>1. Picked(all, kept) \in Seq(Line)
    BY ONLY <2>0, PickedType
  <2>2. \A m \in 1..Len(Picked(all, kept)) :
          \E i \in 1..Len(all) : i \in kept /\ Picked(all, kept)[m] = all[i]
    BY ONLY <2>0, PickedFrom
  <2> QED BY <2>1, <2>2
<1>13. merged = front \o back
  BY <1>1 DEF kept, place
<1> HIDE DEF front, back, rest
<1>14. (k \in 1..Len(front) /\ merged[k] = front[k])
       \/ \E m \in 1..Len(back) : merged[k] = back[m]
  <2>1. front \in Seq(Line) /\ back \in Seq(Line)
    BY <1>11, <1>12
  <2>2. \A m \in 1..Len(front \o back) :
          \/ m \in 1..Len(front) /\ (front \o back)[m] = front[m]
          \/ \E i \in 1..Len(back) : (front \o back)[m] = back[i]
    BY <2>1, JoinedEntries
  <2> QED BY <1>13, <2>2
<1>15. CASE k \in 1..Len(front) /\ merged[k] = front[k]
  BY <1>9, <1>11, <1>15
<1>16. CASE \E m \in 1..Len(back) : merged[k] = back[m]
  BY <1>10, <1>12, <1>16
<1> QED BY <1>14, <1>15, <1>16

\* So the report shows the rows at hand.
LEMMA MergedShows ==
  ASSUME NEW lines \in Seq(Line), NEW fresh \in SUBSET Row, IsFiniteSet(fresh),
         NEW root \in Repositories \cup {NoRoot}, NEW time \in Nat,
         Fits(lines, fresh, root, time)
  PROVE  fresh \subseteq Reported(MergeMirror(lines, fresh, root))
<1> DEFINE merged == MergeMirror(lines, fresh, root)
<1>1. merged \in Seq(Line) /\ \A x \in fresh : Shows(merged, x)
  BY MergeKeeps
<1>2. \A x \in fresh : \A k \in 1..Len(merged) : IsRow(merged[k]) /\ merged[k].run = x.run => merged[k] = x
  BY MergedRun
<1> HIDE DEF merged
<1>3. Timed(merged)
  <2>1. \A i \in 1..Len(merged) : merged[i] \in Line
    BY <1>1, ElementOfSeq
  <2> QED BY <2>1, RowsAreRows DEF Timed, Line
<1>4. ASSUME NEW x \in fresh PROVE x \in Reported(merged)
  <2>1. PICK i \in 1..Len(merged) : IsRow(merged[i]) /\ merged[i].run = x.run
    BY <1>1 DEF Shows
  <2>2. PICK y \in Reported(merged) : y.run = merged[i].run
    BY <1>1, <1>3, <2>1, ReportShows
  <2>3. PICK j \in ReportedLines(merged) : y = merged[j]
    BY DEF Reported
  <2>4. j \in 1..Len(merged) /\ IsRow(merged[j])
    BY <1>1, <1>3, ReportShows
  <2> QED BY <1>2, <2>1, <2>2, <2>3, <2>4
<1> QED BY <1>4 DEF merged

-----------------------------------------------------------------------------
(* How a sync stays undisturbed.                                            *)

\* The command of a slot has rows of its own.
LEMMA OwnedHere ==
  ASSUME Inv, Sound, NEW s \in Slot
  PROVE  /\ command[s] \in Command /\ Good(command[s], mirror.lines) /\ Owned(command[s], clock)
         /\ mirror.lines \in Seq(Line) /\ OwnLines(mirror.lines, clock) /\ clock \in Time
         /\ Clear(command[s]) => Joining(command[s], LackingRuns, hosted, mirror.lines)
<1>1. command[s] \in Command /\ Good(command[s], mirror.lines)
  BY CommandHere
<1>2. Owned(command[s], clock) /\ OwnLines(mirror.lines, clock)
  BY DEF Sound, OwnInv
<1>3. mirror.lines \in Seq(Line) /\ clock \in Time
  BY DEF Inv, MirrorContents, Contents
<1>4. Clear(command[s]) => Joining(command[s], LackingRuns, hosted, mirror.lines)
  BY DEF Sound, SyncOK
<1> QED BY <1>1, <1>2, <1>3, <1>4

\* A command goes on: a sync that was alone stays alone, and no step of another
\* one makes it so.
LEMMA SoundStep ==
  ASSUME Inv, Sound, UNCHANGED clock, NEW s \in Slot, NEW c, Becomes(s, c), command[s] # Idle,
         Owned(c, clock), OwnLines(mirror'.lines, clock),
         Clear(c) => Clear(command[s]) /\ Joining(c, LackingRuns', hosted', mirror'.lines)
  PROVE  Sound'
<1>1. command' = [command EXCEPT ![s] = c] /\ command \in [Slot -> Command]
  BY DEF Becomes, Inv, Commands
<1>2. command'[s] = c /\ \A t \in Slot \ {s} : command'[t] = command[t]
  BY <1>1
<1>3. OwnInv'
  <2>1. ASSUME NEW t \in Slot PROVE Owned(command'[t], clock')
    <3>1. CASE t = s
      BY <1>2, <3>1
    <3>2. CASE t # s
      BY <1>2, <3>2 DEF Sound, OwnInv
    <3> QED BY <3>1, <3>2
  <2>2. OwnLines(mirror'.lines, clock')
    OBVIOUS
  <2> QED BY <2>1, <2>2 DEF OwnInv
<1>4. SyncOK'
  <2> SUFFICES ASSUME NEW t \in Slot, Clear(command'[t])
               PROVE  /\ Joining(command'[t], LackingRuns', hosted', mirror'.lines)
                      /\ \A u \in Slot \ {t} : command'[u] = Idle
    BY DEF SyncOK
  <2>1. CASE t = s
    <3>1. Clear(command[s]) /\ Joining(c, LackingRuns', hosted', mirror'.lines)
      BY <1>2, <2>1
    <3>2. \A u \in Slot \ {s} : command[u] = Idle
      BY <3>1 DEF Sound, SyncOK
    <3> QED BY <1>2, <2>1, <3>1, <3>2
  <2>2. CASE t # s
    <3>1. Clear(command[t])
      BY <1>2, <2>2
    <3>2. command[s] = Idle
      BY <2>2, <3>1 DEF Sound, SyncOK
    <3> QED BY <3>2
  <2> QED BY <2>1, <2>2
<1> QED BY <1>3, <1>4 DEF Sound

\* A command ends.
LEMMA SoundEnd ==
  ASSUME Inv, Sound, UNCHANGED clock, NEW s \in Slot, Becomes(s, Idle), command[s] # Idle,
         OwnLines(mirror'.lines, clock)
  PROVE  Sound'
<1>1. Idle.rows = {} /\ Idle.at = "idle" /\ Idle.kind = "idle" /\ Idle.time = 0
  BY DEF Idle
<1>2. clock \in Time
  BY DEF Inv, Contents
<1>3. 0 <= clock
  BY <1>2 DEF Time
<1>4. Owned(Idle, clock)
  BY <1>1, <1>3 DEF Owned
<1>5. ~Clear(Idle)
  BY <1>1 DEF Clear
<1> HIDE DEF Idle
<1> QED BY <1>4, <1>5, SoundStep

\* A command begins; those under way are no longer alone.
LEMMA SoundStart ==
  ASSUME Inv, Sound, UNCHANGED <<clock, mirror>>, NEW s \in Slot, NEW c, Begins(s, c),
         Owned(c, clock),
         Clear(c) => Undisturbed(s) /\ Joining(c, LackingRuns', hosted', mirror.lines)
  PROVE  Sound'
<1>1. /\ command[s] = Idle /\ command \in [Slot -> Command]
      /\ command' = [t \in Slot |-> IF t = s THEN c ELSE [command[t] EXCEPT !.clean = FALSE]]
  BY DEF Begins, Inv, Commands
<1>2. command'[s] = c /\ \A t \in Slot \ {s} : command'[t] = [command[t] EXCEPT !.clean = FALSE]
  BY <1>1
<1>3. ASSUME NEW t \in Slot \ {s}
      PROVE  Owned(command'[t], clock) /\ ~Clear(command'[t])
  <2> DEFINE old == command[t]
             new == [old EXCEPT !.clean = FALSE]
  <2>1. command'[t] = new
    BY <1>2
  <2>2. old \in Command /\ Owned(old, clock)
    BY OwnedHere
  <2> HIDE DEF old
  <2>3. /\ new.at = old.at /\ new.kind = old.kind /\ new.rows = old.rows /\ new.row = old.row
        /\ new.time = old.time /\ new.lines = old.lines /\ new.root = old.root
        /\ new.todo = old.todo /\ new.again = old.again /\ new.clean = FALSE
    <3>1. new.at = old.at /\ new.kind = old.kind /\ new.rows = old.rows /\ new.row = old.row
      BY <2>2 DEF Command
    <3>2. new.time = old.time /\ new.lines = old.lines /\ new.root = old.root
      BY <2>2 DEF Command
    <3>3. new.todo = old.todo /\ new.again = old.again /\ new.clean = FALSE
      BY <2>2 DEF Command
    <3> QED BY <3>1, <3>2, <3>3
  <2> HIDE DEF new
  <2> QED BY <2>1, <2>2, <2>3 DEF Owned, Clear
<1>4. OwnInv'
  <2>1. \A t \in Slot : Owned(command'[t], clock')
    BY <1>2, <1>3
  <2> QED BY <2>1 DEF Sound, OwnInv
<1>5. SyncOK'
  <2> SUFFICES ASSUME NEW t \in Slot, Clear(command'[t])
               PROVE  /\ Joining(command'[t], LackingRuns', hosted', mirror'.lines)
                      /\ \A u \in Slot \ {t} : command'[u] = Idle
    BY DEF SyncOK
  <2>1. t = s /\ Clear(c)
    BY <1>2, <1>3
  <2>2. [Idle EXCEPT !.clean = FALSE] = Idle
    <3>1. Idle.clean = FALSE
      BY DEF Idle
    <3> HIDE DEF Idle
    <3> QED BY <3>1, IdleIsGood DEF Command
  <2>3. \A u \in Slot \ {s} : command'[u] = Idle
    <3> HIDE DEF Idle
    <3> QED BY <1>2, <2>1, <2>2 DEF Undisturbed
  <2> QED BY <1>2, <2>1, <2>3
<1> QED BY <1>4, <1>5 DEF Sound

\* Nobody's record, outcome or summary changes, so neither does what is lacking.
LEMMA SameLacking ==
  ASSUME UNCHANGED <<ended, hosted, summary>>
  PROVE  LackingRuns' = LackingRuns
BY DEF LackingRuns, FetchedInSummary

\* A command at a step is not the idle one.
LEMMA NotIdle ==
  ASSUME NEW c, c.at # "idle"
  PROVE  c # Idle
BY DEF Idle

\* One line more that is of its own repository, or of none.
LEMMA OwnAppend ==
  ASSUME NEW lines \in Seq(Line), NEW x \in Line, NEW now, OwnLines(lines, now), OwnLine(x, now)
  PROVE  OwnLines(Append(lines, x), now)
<1>1. /\ Len(lines) \in Nat /\ Len(Append(lines, x)) = Len(lines) + 1
      /\ \A i \in 1..Len(lines) : Append(lines, x)[i] = lines[i]
      /\ Append(lines, x)[Len(lines) + 1] = x
  BY AppendEntries
<1>2. ASSUME NEW i \in 1..Len(Append(lines, x)) PROVE OwnLine(Append(lines, x)[i], now)
  <2>1. CASE i \in 1..Len(lines)
    BY <1>1, <2>1 DEF OwnLines
  <2>2. CASE i \notin 1..Len(lines)
    <3>1. i = Len(lines) + 1
      BY <1>1, <2>2
    <3> QED BY <1>1, <3>1
  <2> QED BY <2>1, <2>2
<1> QED BY <1>2 DEF OwnLines

\* A torn line is no row.
LEMMA TornIsOwn ==
  ASSUME NEW now
  PROVE  Torn \in Line /\ OwnLine(Torn, now)
BY DEF Line, OwnLine, Torn, IsRow

\* A rewrite has no line that was not in the mirror or at hand.
LEMMA OwnMerged ==
  ASSUME NEW lines \in Seq(Line), NEW fresh \in SUBSET Row, IsFiniteSet(fresh),
         NEW root \in Repositories \cup {NoRoot}, NEW now,
         OwnLines(lines, now), \A x \in fresh : Own(x, now)
  PROVE  OwnLines(MergeMirror(lines, fresh, root), now)
<1>1. PICK added \in Seq(Row), all \in Seq(Line), taken \in SUBSET Int :
           Parts(lines, fresh, root, added, all, taken)
  BY MergeParts
<1> DEFINE rest == (1..Len(lines)) \ taken
           place == [i \in 1..Len(all) |-> i]
           kept == NewestOfRuns(all, taken, place)
           front == Picked(all, rest)
           back == Picked(all, kept)
<1>2. MergeMirror(lines, fresh, root) = front \o back
  BY <1>1 DEF Parts
<1>3. front \in Seq(Line) /\ \A m \in 1..Len(front) : \E i \in 1..Len(all) : i \in rest /\ front[m] = all[i]
  <2> HIDE DEF rest
  <2>1. Picked(all, rest) \in Seq(Line)
    BY PickedType
  <2>2. \A m \in 1..Len(Picked(all, rest)) :
          \E n \in 1..Len(all) : n \in rest /\ Picked(all, rest)[m] = all[n]
    BY PickedFrom
  <2> QED BY <2>1, <2>2
<1>4. back \in Seq(Line) /\ \A m \in 1..Len(back) : \E i \in 1..Len(all) : i \in kept /\ back[m] = all[i]
  <2> HIDE DEF kept
  <2>1. Picked(all, kept) \in Seq(Line)
    BY PickedType
  <2>2. \A m \in 1..Len(Picked(all, kept)) :
          \E n \in 1..Len(all) : n \in kept /\ Picked(all, kept)[m] = all[n]
    BY PickedFrom
  <2> QED BY <2>1, <2>2
<1>5. ASSUME NEW i \in 1..Len(all) PROVE OwnLine(all[i], now)
  <2>0. added \in Seq(Line)
    <3>1. Row \subseteq Line
      BY DEF Line
    <3> QED BY <3>1, SeqMonotonic
  <2>1. /\ Len(all) = Len(lines) + Len(added)
        /\ Len(lines) \in Nat /\ Len(added) \in Nat
        /\ \A n \in 1..(Len(lines) + Len(added)) :
             all[n] = IF n <= Len(lines) THEN lines[n] ELSE added[n - Len(lines)]
    BY <1>1, <2>0, ConcatProperties, LenProperties DEF Parts
  <2>2. CASE i <= Len(lines)
    BY <2>1, <2>2 DEF OwnLines
  <2>3. CASE ~(i <= Len(lines))
    <3>1. i - Len(lines) \in 1..Len(added)
      BY <2>1, <2>3
    <3>2. all[i] \in fresh
      BY <1>1, <2>1, <2>3, <3>1 DEF Parts
    <3> QED BY <3>2 DEF OwnLine
  <2> QED BY <2>2, <2>3
<1> HIDE DEF front, back, rest, kept
<1>6. ASSUME NEW k \in 1..Len(front \o back) PROVE OwnLine((front \o back)[k], now)
  <2>1. \A m \in 1..Len(front \o back) :
          \/ m \in 1..Len(front) /\ (front \o back)[m] = front[m]
          \/ \E i \in 1..Len(back) : (front \o back)[m] = back[i]
    <3>1. front \in Seq(Line) /\ back \in Seq(Line)
      BY <1>3, <1>4
    <3> QED BY <3>1, JoinedEntries
  <2> DEFINE merged == front \o back
  <2>2. merged[k] = (front \o back)[k] /\ k \in 1..Len(merged)
    OBVIOUS
  <2>3. \/ k \in 1..Len(front) /\ merged[k] = front[k]
        \/ \E m \in 1..Len(back) : merged[k] = back[m]
    BY <2>1
  <2> HIDE DEF merged
  <2>4. CASE k \in 1..Len(front) /\ merged[k] = front[k]
    <3>1. \E i \in 1..Len(all) : front[k] = all[i]
      BY <1>3, <2>4
    <3> QED BY <1>5, <2>2, <2>4, <3>1
  <2>5. CASE \E m \in 1..Len(back) : merged[k] = back[m]
    <3>1. PICK m \in 1..Len(back) : merged[k] = back[m]
      BY <2>5
    <3>2. \E i \in 1..Len(all) : back[m] = all[i]
      BY <1>4
    <3> QED BY <1>5, <2>2, <3>1, <3>2
  <2> QED BY <2>3, <2>4, <2>5
<1> QED BY <1>2, <1>6 DEF OwnLines

\* record_run_end: the row says where the run was.
LEMMA SummarizeSound ==
  ASSUME Inv, Sound, NEW s \in Slot, Summarize(s)
  PROVE  Sound'
<1> DEFINE old == command[s]
<1>0. old \in Command /\ Owned(old, clock) /\ old.kind = "end" /\ old.at = "summarize" /\ clock \in Time
  BY OwnedHere DEF Summarize, Active
<1>1a. PICK r \in old.todo : \E root \in Roots(Home[r]) :
        Becomes(s, [old EXCEPT !.at = "store", !.row = Summary(r, root, clock, 0), !.todo = {}])
  BY DEF Summarize
<1>1. PICK root \in Roots(Home[r]) :
        Becomes(s, [old EXCEPT !.at = "store", !.row = Summary(r, root, clock, 0), !.todo = {}])
  BY <1>1a
<1> DEFINE row == Summary(r, root, clock, 0)
           c == [old EXCEPT !.at = "store", !.row = row, !.todo = {}]
<1>2. row.run = r /\ row.source = Home[r] /\ row.root = root /\ row.written = clock
  BY DEF Summary
<1> HIDE DEF row
<1>3. c.at = "store" /\ c.kind = "end" /\ c.rows = old.rows /\ c.row = row /\ c.time = old.time
  <2> HIDE DEF old
  <2> QED BY <1>0 DEF Command
<1>4. Own(row, clock)
  BY <1>0, <1>2 DEF Own, Time
<1>5. old # Idle
  <2> HIDE DEF old
  <2> QED BY <1>0, NotIdle
<1>6. Becomes(s, c) /\ UNCHANGED <<clock, mirror>>
  BY <1>1 DEF Summarize, row
<1> HIDE DEF c
<1>7. Owned(c, clock)
  <2> HIDE DEF old
  <2> QED BY <1>0, <1>3, <1>4 DEF Owned
<1>8. ~Clear(c)
  BY <1>3 DEF Clear
<1>9. OwnLines(mirror'.lines, clock)
  BY <1>6, OwnedHere
<1> QED BY <1>5, <1>6, <1>7, <1>8, <1>9, SoundStep

\* fetch notes the time of its question; the run is still to do.
LEMMA FetchSound ==
  ASSUME Inv, Sound, NEW s \in Slot, Fetch(s)
  PROVE  Sound'
<1> DEFINE old == command[s]
<1>0. old \in Command /\ Owned(old, clock) /\ old.kind = "sync" /\ old.at = "fetch"
      /\ (Clear(old) => Joining(old, LackingRuns, hosted, mirror.lines))
  BY OwnedHere DEF Fetch, Active
<1>1. PICK r \in old.todo :
        Becomes(s, [old EXCEPT !.at = "answer", !.row = Summary(r, NoRoot, clock, 0)])
  BY DEF Fetch
<1> DEFINE row == Summary(r, NoRoot, clock, 0)
           c == [old EXCEPT !.at = "answer", !.row = row]
<1>2. row.run = r
  BY DEF Summary
<1> HIDE DEF row
<1>3. /\ c.at = "answer" /\ c.kind = old.kind /\ c.rows = old.rows /\ c.row = row /\ c.time = old.time
      /\ c.todo = old.todo /\ c.again = old.again /\ c.clone = old.clone /\ c.root = old.root
      /\ c.clean = old.clean
  <2> HIDE DEF old
  <2>1. c.at = "answer" /\ c.kind = old.kind /\ c.rows = old.rows /\ c.row = row /\ c.time = old.time
    BY <1>0 DEF Command
  <2>2. c.todo = old.todo /\ c.again = old.again /\ c.clone = old.clone /\ c.root = old.root
    BY <1>0 DEF Command
  <2>3. c.clean = old.clean
    BY <1>0 DEF Command
  <2> QED BY <2>1, <2>2, <2>3
<1>4. Becomes(s, c) /\ UNCHANGED <<clock, mirror, ended, hosted, summary>>
  BY <1>1 DEF Fetch, row
<1>5. LackingRuns' = LackingRuns
  BY <1>4, SameLacking
<1> HIDE DEF c
<1>6. old # Idle
  <2> HIDE DEF old
  <2> QED BY <1>0, NotIdle
<1>7. Owned(c, clock)
  <2> HIDE DEF old
  <2> QED BY <1>0, <1>2, <1>3 DEF Owned
<1>8. Clear(c) => Clear(old) /\ Joining(c, LackingRuns, hosted, mirror.lines)
  <2> HIDE DEF old
  <2> QED BY <1>0, <1>2, <1>3 DEF Clear, Joining, Planned
<1>9. OwnLines(mirror'.lines, clock)
  BY <1>4, OwnedHere
<1> QED BY <1>4, <1>5, <1>6, <1>7, <1>8, <1>9, SoundStep

\* _fetch_all: a stored outcome is to be summarized.
LEMMA AnswerSound ==
  ASSUME Inv, Sound, NEW s \in Slot, Answer(s)
  PROVE  Sound'
<1> DEFINE old == command[s]
           r == old.row.run
           next == [old EXCEPT !.at = "fetch", !.row = NoSummary, !.todo = @ \ {r}]
<1>0. old \in Command /\ Owned(old, clock) /\ old.kind = "sync" /\ old.at = "answer"
      /\ (Clear(old) => Joining(old, LackingRuns, hosted, mirror.lines))
  BY OwnedHere DEF Answer, Active
<1>1. /\ next \in Command /\ next.at = "fetch" /\ next.kind = "sync" /\ next.rows = old.rows
      /\ next.time = old.time /\ next.todo = old.todo \ {r} /\ next.again = old.again
      /\ next.clone = old.clone /\ next.root = old.root /\ next.clean = old.clean
  <2> HIDE DEF old, r
  <2>1. next \in Command
    BY <1>0 DEF Command, Steps
  <2>2. next.at = "fetch" /\ next.kind = "sync" /\ next.rows = old.rows /\ next.time = old.time
    BY <1>0 DEF Command
  <2>3. next.todo = old.todo \ {r} /\ next.again = old.again /\ next.clone = old.clone
    BY <1>0 DEF Command
  <2>4. next.root = old.root /\ next.clean = old.clean
    BY <1>0 DEF Command
  <2> QED BY <2>1, <2>2, <2>3, <2>4
<1>2. old # Idle
  <2> HIDE DEF old
  <2> QED BY <1>0, NotIdle
<1>3. OwnLines(mirror'.lines, clock) /\ UNCHANGED <<clock, mirror, ended, summary>>
  BY OwnedHere DEF Answer
<1>4. CASE /\ hosted' = [hosted EXCEPT ![r] = old.row.written]
           /\ Becomes(s, [next EXCEPT !.again = @ \cup {r}])
  <2> DEFINE c == [next EXCEPT !.again = @ \cup {r}]
  <2>1. /\ c.at = "fetch" /\ c.kind = "sync" /\ c.rows = old.rows /\ c.time = old.time
        /\ c.todo = old.todo \ {r} /\ c.again = old.again \cup {r}
        /\ c.clone = old.clone /\ c.root = old.root /\ c.clean = old.clean
    <3> HIDE DEF next, r, old
    <3>1. c.at = "fetch" /\ c.kind = "sync" /\ c.rows = old.rows /\ c.time = old.time
      BY <1>1 DEF Command
    <3>2. c.todo = old.todo \ {r} /\ c.again = old.again \cup {r} /\ c.clone = old.clone
      BY <1>1 DEF Command
    <3>3. c.root = old.root /\ c.clean = old.clean
      BY <1>1 DEF Command
    <3> QED BY <3>1, <3>2, <3>3
  <2>2. Becomes(s, c)
    BY <1>4
  <2> HIDE DEF c
  <2>3. Owned(c, clock)
    <3> HIDE DEF next, r, old
    <3>1. old.root \in Roots(Home[r])
      BY <1>0 DEF Owned, r
    <3> QED BY <1>0, <2>1, <3>1 DEF Owned
  <2>4. LackingRuns' \subseteq LackingRuns \cup {r}
    <3> HIDE DEF next, r, old
    <3>1. \A n \in Run \ {r} : hosted'[n] = hosted[n]
      BY <1>4 DEF Inv, Contents
    <3> QED BY <1>3, <3>1 DEF LackingRuns, FetchedInSummary
  <2>5. Clear(c) => Clear(old) /\ Joining(c, LackingRuns', hosted', mirror.lines)
    <3> SUFFICES ASSUME Clear(c) PROVE Clear(old) /\ Joining(c, LackingRuns', hosted', mirror.lines)
      OBVIOUS
    <3>1. Clear(old) /\ Joining(old, LackingRuns, hosted, mirror.lines) /\ r \in old.todo
      BY <1>0, <2>1 DEF Clear, Joining
    <3> HIDE DEF next, r, old
    <3>2. \A n \in LackingRuns' \cap RunsOf(c.clone) : Planned(c, n)
      BY <1>0, <2>1, <2>4, <3>1 DEF Joining, Planned
    <3>3. c.todo \cup c.again \subseteq RunsOf(c.clone)
      BY <2>1, <3>1 DEF Joining
    <3> QED BY <1>0, <2>1, <3>1, <3>2, <3>3 DEF Joining
  <2> HIDE DEF next, r
  <2> QED BY <1>2, <1>3, <2>2, <2>3, <2>5, SoundStep
<1>5. CASE /\ \E left \in {{}, next.todo} : Becomes(s, [next EXCEPT !.todo = left, !.clean = FALSE])
           /\ UNCHANGED hosted
  <2>1. PICK left \in {{}, next.todo} : Becomes(s, [next EXCEPT !.todo = left, !.clean = FALSE])
    BY <1>5
  <2> DEFINE c == [next EXCEPT !.todo = left, !.clean = FALSE]
  <2>2. /\ c.at = "fetch" /\ c.kind = "sync" /\ c.rows = old.rows /\ c.time = old.time
        /\ c.todo \subseteq old.todo /\ c.again = old.again /\ c.root = old.root /\ c.clean = FALSE
    <3> HIDE DEF next, r, old
    <3>1. c.at = "fetch" /\ c.kind = "sync" /\ c.rows = old.rows /\ c.time = old.time
      BY <1>1 DEF Command
    <3>2. c.todo \subseteq old.todo /\ c.again = old.again
      BY <1>1 DEF Command
    <3>3. c.root = old.root /\ c.clean = FALSE
      BY <1>1 DEF Command
    <3> QED BY <3>1, <3>2, <3>3
  <2>3. Becomes(s, c)
    BY <2>1
  <2> HIDE DEF c
  <2>4. Owned(c, clock)
    <3> HIDE DEF next, r, old
    <3> QED BY <1>0, <2>2 DEF Owned
  <2>5. ~Clear(c)
    BY <2>2 DEF Clear
  <2> HIDE DEF next, r
  <2> QED BY <1>2, <1>3, <2>3, <2>4, <2>5, SoundStep
<1> QED BY <1>4, <1>5 DEF Answer

\* resummarize notes the time of all its rows; nothing in the mirror is newer.
LEMMA ResummarizeSound ==
  ASSUME Inv, Sound, NEW s \in Slot, Resummarize(s)
  PROVE  Sound'
<1> DEFINE old == command[s]
           c == [old EXCEPT !.at = "read", !.todo = old.again, !.time = clock]
<1>0. old \in Command /\ Owned(old, clock) /\ old.kind = "sync" /\ old.at = "fetch" /\ old.todo = {}
      /\ (Clear(old) => Joining(old, LackingRuns, hosted, mirror.lines))
      /\ OwnLines(mirror.lines, clock) /\ clock \in Time
  BY OwnedHere DEF Resummarize, Active
<1>1. /\ c.at = "read" /\ c.kind = "sync" /\ c.rows = old.rows /\ c.time = clock
      /\ c.todo = old.again /\ c.again = old.again /\ c.clone = old.clone /\ c.root = old.root
      /\ c.clean = old.clean
  <2> HIDE DEF old
  <2>1. c.at = "read" /\ c.kind = "sync" /\ c.rows = old.rows /\ c.time = clock
    BY <1>0 DEF Command
  <2>2. c.todo = old.again /\ c.again = old.again /\ c.clone = old.clone /\ c.root = old.root
    BY <1>0 DEF Command
  <2>3. c.clean = old.clean
    BY <1>0 DEF Command
  <2> QED BY <2>1, <2>2, <2>3
<1>2. old # Idle
  <2> HIDE DEF old
  <2> QED BY <1>0, NotIdle
<1>3. Becomes(s, c) /\ UNCHANGED <<clock, mirror, ended, hosted, summary>>
  BY DEF Resummarize
<1>4. LackingRuns' = LackingRuns
  BY <1>3, SameLacking
<1> HIDE DEF c
<1>5. Owned(c, clock)
  <2>1. clock <= clock
    BY <1>0 DEF Time
  <2> HIDE DEF old
  <2> QED BY <1>0, <1>1, <2>1 DEF Owned
<1>6. Clear(c) => Clear(old) /\ Joining(c, LackingRuns, hosted, mirror.lines)
  <2> HIDE DEF old
  <2> SUFFICES ASSUME Clear(c) PROVE Clear(old) /\ Joining(c, LackingRuns, hosted, mirror.lines)
    OBVIOUS
  <2>1. Clear(old) /\ Joining(old, LackingRuns, hosted, mirror.lines)
    BY <1>0, <1>1 DEF Clear
  <2>2. c.rows = {}
    BY <1>0, <1>1, <2>1 DEF Joining
  <2>3. Fresh(c, c.rows, mirror.lines)
    BY <1>0, <1>1, <2>2 DEF Fresh, OwnLines, OwnLine, Own
  <2>4. \A r \in LackingRuns \cap RunsOf(c.clone) : Planned(c, r)
    BY <1>0, <1>1, <2>1 DEF Joining, Planned
  <2> QED BY <1>1, <2>1, <2>3, <2>4 DEF Joining
<1>7. OwnLines(mirror'.lines, clock)
  BY <1>3, OwnedHere
<1> QED BY <1>2, <1>3, <1>4, <1>5, <1>6, <1>7, SoundStep

\* _summarize_stored_run_safely: the row has the outcome; a run that is left out
\* and still open lacks nothing.
LEMMA ReadSound ==
  ASSUME Inv, Sound, NEW s \in Slot, Read(s)
  PROVE  Sound'
<1> DEFINE old == command[s]
<1>0. old \in Command /\ Owned(old, clock) /\ old.kind \in {"rebuild", "sync"} /\ old.at = "read"
      /\ (Clear(old) => Joining(old, LackingRuns, hosted, mirror.lines))
  BY OwnedHere DEF Read, Good, StepOfKind
<1>1. PICK r \in old.todo :
        LET next == [old EXCEPT !.todo = @ \ {r}] IN
       \/ /\ ended[r] # "no"
          /\ Becomes(s, [next EXCEPT !.at = "store", !.row = Summary(r, next.root, next.time, hosted[r])])
       \/ Becomes(s, [next EXCEPT !.clean = @ /\ ended[r] = "no"])
  BY DEF Read
<1> DEFINE next == [old EXCEPT !.todo = @ \ {r}]
<1>2. /\ next \in Command /\ next.at = "read" /\ next.kind = old.kind /\ next.rows = old.rows
      /\ next.time = old.time /\ next.todo = old.todo \ {r} /\ next.again = old.again
      /\ next.clone = old.clone /\ next.root = old.root /\ next.clean = old.clean
  <2> HIDE DEF old
  <2>1. next \in Command
    BY <1>0 DEF Command
  <2>2. next.at = "read" /\ next.kind = old.kind /\ next.rows = old.rows /\ next.time = old.time
    BY <1>0 DEF Command
  <2>3. next.todo = old.todo \ {r} /\ next.again = old.again /\ next.clone = old.clone
    BY <1>0 DEF Command
  <2>4. next.root = old.root /\ next.clean = old.clean
    BY <1>0 DEF Command
  <2> QED BY <2>1, <2>2, <2>3, <2>4
<1>3. old # Idle
  <2> HIDE DEF old
  <2> QED BY <1>0, NotIdle
<1>4. OwnLines(mirror'.lines, clock) /\ UNCHANGED <<clock, mirror, ended, hosted, summary>>
  BY OwnedHere DEF Read
<1>5. LackingRuns' = LackingRuns
  BY <1>4, SameLacking
<1>6. CASE Becomes(s, [next EXCEPT !.at = "store", !.row = Summary(r, next.root, next.time, hosted[r])])
  <2> DEFINE row == Summary(r, next.root, next.time, hosted[r])
             c == [next EXCEPT !.at = "store", !.row = row]
  <2>1. /\ row.run = r /\ row.source = Home[r] /\ row.root = next.root /\ row.written = next.time
        /\ row.hosted = hosted[r]
    BY DEF Summary
  <2>2. Becomes(s, c)
    BY <1>6
  <2> HIDE DEF row, next
  <2>3. /\ c.at = "store" /\ c.kind = old.kind /\ c.rows = old.rows /\ c.time = old.time
        /\ c.todo = old.todo \ {r} /\ c.again = old.again
        /\ c.clone = old.clone /\ c.root = old.root /\ c.clean = old.clean /\ c.row = row
    <3> HIDE DEF old
    <3>1. c.at = "store" /\ c.kind = old.kind /\ c.rows = old.rows /\ c.time = old.time
      BY <1>2 DEF Command
    <3>2. c.todo = old.todo \ {r} /\ c.again = old.again /\ c.clone = old.clone
      BY <1>2 DEF Command
    <3>3. c.root = old.root /\ c.clean = old.clean /\ c.row = row
      BY <1>2 DEF Command
    <3> QED BY <3>1, <3>2, <3>3
  <2> HIDE DEF c
  <2>4. Owned(c, clock)
    <3> HIDE DEF old
    <3>1. Own(row, clock)
      BY <1>0, <1>1, <1>2, <2>1 DEF Owned, Own
    <3> QED BY <1>0, <2>3, <3>1 DEF Owned
  <2>5. Clear(c) => Clear(old) /\ Joining(c, LackingRuns, hosted, mirror.lines)
    <3> HIDE DEF old
    <3> SUFFICES ASSUME Clear(c) PROVE Clear(old) /\ Joining(c, LackingRuns, hosted, mirror.lines)
      OBVIOUS
    <3>1. Clear(old) /\ Joining(old, LackingRuns, hosted, mirror.lines)
      BY <1>0, <2>3 DEF Clear
    <3>2. Fresh(old, old.rows, mirror.lines) /\ r \in RunsOf(old.clone)
      BY <1>0, <1>1, <3>1 DEF Joining
    <3>3. Fresh(c, c.rows \cup {row}, mirror.lines)
      <4>1. \A x \in c.rows \cup {row} : x.written = c.time /\ x.root = c.root
                                         /\ x.run \in RunsOf(c.clone) \ c.todo
        BY <1>2, <2>1, <2>3, <3>2 DEF Fresh
      <4>2. \A x, y \in c.rows \cup {row} : x.run = y.run => x = y
        <5>1. \A x \in c.rows : x.run # row.run
          BY <1>1, <2>1, <2>3, <3>2 DEF Fresh
        <5> QED BY <2>3, <3>2, <5>1 DEF Fresh
      <4>3. \A i \in 1..Len(mirror.lines) :
              IsRow(mirror.lines[i]) /\ mirror.lines[i].run \in Run => mirror.lines[i].written <= c.time
        BY <2>3, <3>2 DEF Fresh
      <4> QED BY <4>1, <4>2, <4>3 DEF Fresh
    <3>4. \A n \in LackingRuns \cap RunsOf(c.clone) : Planned(c, n)
      BY <1>0, <2>1, <2>3, <3>1 DEF Joining, Planned
    <3>5. c.todo \cup c.again \subseteq RunsOf(c.clone) /\ c.clone \in Clone /\ c.root \in Roots(c.clone)
      BY <2>3, <3>1 DEF Joining
    <3> QED BY <2>1, <2>3, <3>1, <3>3, <3>4, <3>5 DEF Joining
  <2> QED BY <1>3, <1>4, <1>5, <2>2, <2>4, <2>5, SoundStep
<1>7. CASE Becomes(s, [next EXCEPT !.clean = @ /\ ended[r] = "no"])
  <2> DEFINE clean == next.clean /\ ended[r] = "no"
             c == [next EXCEPT !.clean = clean]
  <2>1. Becomes(s, c)
    BY <1>7
  <2>2. /\ c.at = "read" /\ c.kind = old.kind /\ c.rows = old.rows /\ c.time = old.time
        /\ c.todo = old.todo \ {r} /\ c.again = old.again
        /\ c.clone = old.clone /\ c.root = old.root /\ c.clean = clean
    <3> HIDE DEF old, next, clean
    <3>1. c.at = "read" /\ c.kind = old.kind /\ c.rows = old.rows /\ c.time = old.time
      BY <1>2 DEF Command
    <3>2. c.todo = old.todo \ {r} /\ c.again = old.again /\ c.clone = old.clone
      BY <1>2 DEF Command
    <3>3. c.root = old.root /\ c.clean = clean
      BY <1>2 DEF Command
    <3> QED BY <3>1, <3>2, <3>3
  <2>3. clean <=> old.clean /\ ended[r] = "no"
    <3> HIDE DEF old, next
    <3> QED BY <1>2
  <2> HIDE DEF c, next, clean
  <2>4. Owned(c, clock)
    <3> HIDE DEF old
    <3> QED BY <1>0, <2>2 DEF Owned
  <2>5. Clear(c) => Clear(old) /\ Joining(c, LackingRuns, hosted, mirror.lines)
    <3> HIDE DEF old
    <3> SUFFICES ASSUME Clear(c) PROVE Clear(old) /\ Joining(c, LackingRuns, hosted, mirror.lines)
      OBVIOUS
    <3>1. Clear(old) /\ Joining(old, LackingRuns, hosted, mirror.lines) /\ ended[r] = "no"
      BY <1>0, <2>2, <2>3 DEF Clear
    <3>2. r \notin LackingRuns
      BY <3>1 DEF LackingRuns
    <3>3. Fresh(c, c.rows, mirror.lines)
      BY <1>0, <2>2, <3>1 DEF Joining, Fresh
    <3>4. \A n \in LackingRuns \cap RunsOf(c.clone) : Planned(c, n)
      BY <1>0, <2>2, <3>1, <3>2 DEF Joining, Planned
    <3>5. c.todo \cup c.again \subseteq RunsOf(c.clone) /\ c.clone \in Clone /\ c.root \in Roots(c.clone)
      BY <2>2, <3>1 DEF Joining
    <3> QED BY <2>2, <3>1, <3>3, <3>4, <3>5 DEF Joining
  <2> QED BY <1>3, <1>4, <1>5, <2>1, <2>4, <2>5, SoundStep
<1> QED BY <1>1, <1>6, <1>7

\* A stored summary has its outcome, and the row is one for the mirror.
LEMMA StoreSound ==
  ASSUME Inv, Sound, NEW s \in Slot, Store(s)
  PROVE  Sound'
<1> DEFINE old == command[s]
           row == old.row
           step == IF old.kind = "end" THEN "mirror" ELSE "read"
           next == [old EXCEPT !.row = NoSummary, !.rows = @ \cup {row}, !.at = step]
<1>0. old \in Command /\ Owned(old, clock) /\ old.at = "store" /\ row \in Row
      /\ (Clear(old) => Joining(old, LackingRuns, hosted, mirror.lines))
  BY OwnedHere DEF Store, Good
<1>1. /\ next \in Command /\ next.at = step /\ next.kind = old.kind /\ next.rows = old.rows \cup {row}
      /\ next.time = old.time /\ next.todo = old.todo /\ next.again = old.again
      /\ next.clone = old.clone /\ next.root = old.root /\ next.clean = old.clean
  <2>1. step \in Steps /\ old.rows \cup {row} \in SUBSET Row
    BY <1>0 DEF Steps, Command
  <2> HIDE DEF old, row, step
  <2>2. next \in Command
    BY <1>0, <2>1 DEF Command
  <2>3. next.at = step /\ next.kind = old.kind /\ next.rows = old.rows \cup {row}
    BY <1>0 DEF Command
  <2>4. next.time = old.time /\ next.todo = old.todo /\ next.again = old.again
    BY <1>0 DEF Command
  <2>5. next.clone = old.clone /\ next.root = old.root /\ next.clean = old.clean
    BY <1>0 DEF Command
  <2> QED BY <2>2, <2>3, <2>4, <2>5
<1>2. old # Idle
  <2> HIDE DEF old
  <2> QED BY <1>0, NotIdle
<1>3. OwnLines(mirror'.lines, clock) /\ UNCHANGED <<clock, mirror, ended, hosted>>
  BY OwnedHere DEF Store
<1>4. step \in {"read", "mirror"} /\ (old.kind = "sync" => step = "read")
  OBVIOUS
<1>5. \A x \in old.rows \cup {row} : Own(x, clock)
  BY <1>0 DEF Owned
<1>6. CASE summary' = [summary EXCEPT ![row.run] = row] /\ Becomes(s, next)
  <2>1. LackingRuns' = LackingRuns \ {row.run} \/ row.hosted # hosted[row.run]
    <3> HIDE DEF old, row
    <3>1. row.run \in Run /\ IsRow(row)
      BY <1>0, RowsAreRows
    <3>2. summary'[row.run] = row /\ \A n \in Run \ {row.run} : summary'[n] = summary[n]
      BY <1>6, <3>1 DEF Inv, Contents
    <3> QED BY <1>3, <3>1, <3>2 DEF LackingRuns, FetchedInSummary
  <2> HIDE DEF next, step
  <2>2. Owned(next, clock)
    <3> HIDE DEF old, row
    <3> QED BY <1>0, <1>1, <1>4, <1>5 DEF Owned
  <2>3. Clear(next) => Clear(old) /\ Joining(next, LackingRuns', hosted, mirror.lines)
    <3> SUFFICES ASSUME Clear(next) PROVE Clear(old) /\ Joining(next, LackingRuns', hosted, mirror.lines)
      OBVIOUS
    <3>1. Clear(old) /\ Joining(old, LackingRuns, hosted, mirror.lines) /\ next.at = "read"
      BY <1>0, <1>1, <1>4 DEF Clear
    <3> HIDE DEF old
    <3>2. Fresh(old, old.rows \cup {row}, mirror.lines) /\ row.hosted = hosted[row.run]
      BY <1>0, <3>1 DEF Joining
    <3>3. Fresh(next, next.rows, mirror.lines)
      BY <1>1, <3>2 DEF Fresh
    <3>4. \A n \in LackingRuns' \cap RunsOf(next.clone) : Planned(next, n)
      BY <1>0, <1>1, <2>1, <3>1, <3>2 DEF Joining, Planned
    <3>5. next.todo \cup next.again \subseteq RunsOf(next.clone) /\ next.clone \in Clone
          /\ next.root \in Roots(next.clone)
      BY <1>1, <3>1 DEF Joining
    <3> QED BY <3>1, <3>3, <3>4, <3>5 DEF Joining
  <2> QED BY <1>2, <1>3, <1>6, <2>2, <2>3, SoundStep
<1>7. CASE Becomes(s, [next EXCEPT !.clean = FALSE]) /\ UNCHANGED summary
  <2> DEFINE c == [next EXCEPT !.clean = FALSE]
  <2>1. Becomes(s, c)
    BY <1>7
  <2> HIDE DEF next, step
  <2>2. /\ c.at = step /\ c.kind = old.kind /\ c.rows = old.rows \cup {row} /\ c.time = old.time
        /\ c.todo = old.todo /\ c.again = old.again /\ c.root = old.root /\ c.clean = FALSE
    <3> HIDE DEF old, row
    <3>1. c.at = step /\ c.kind = old.kind /\ c.rows = old.rows \cup {row} /\ c.time = old.time
      BY <1>1 DEF Command
    <3>2. c.todo = old.todo /\ c.again = old.again /\ c.root = old.root /\ c.clean = FALSE
      BY <1>1 DEF Command
    <3> QED BY <3>1, <3>2
  <2> HIDE DEF c
  <2>3. Owned(c, clock)
    <3> HIDE DEF old, row
    <3> QED BY <1>0, <1>4, <1>5, <2>2 DEF Owned
  <2>4. ~Clear(c)
    BY <2>2 DEF Clear
  <2> QED BY <1>2, <1>3, <2>1, <2>3, <2>4, SoundStep
<1> QED BY <1>6, <1>7 DEF Store

\* A command that only takes a step: what it has at hand stays, and a sync at it
\* has nothing to read any more.
LEMMA GoesSound ==
  ASSUME Inv, Sound, UNCHANGED <<clock, mirror, ended, hosted, summary>>,
         NEW s \in Slot, NEW step \in {"lock", "append", "merge", "poll", "write"}, Goes(s, step),
         command[s].at # "idle",
         command[s].kind = "sync" =>
           step \in {"lock", "merge"} /\ command[s].at \in {"read", "lock"}
           /\ (command[s].at = "read" => command[s].todo = {})
  PROVE  Sound'
<1> DEFINE old == command[s]
           c == [old EXCEPT !.at = step]
<1>0. old \in Command /\ Owned(old, clock)
      /\ (Clear(old) => Joining(old, LackingRuns, hosted, mirror.lines))
  BY OwnedHere
<1>1. /\ c.at = step /\ c.kind = old.kind /\ c.rows = old.rows /\ c.time = old.time
      /\ c.todo = old.todo /\ c.again = old.again /\ c.clone = old.clone /\ c.root = old.root
      /\ c.clean = old.clean
  <2> HIDE DEF old
  <2>1. c.at = step /\ c.kind = old.kind /\ c.rows = old.rows /\ c.time = old.time
    BY <1>0 DEF Command
  <2>2. c.todo = old.todo /\ c.again = old.again /\ c.clone = old.clone /\ c.root = old.root
    BY <1>0 DEF Command
  <2>3. c.clean = old.clean
    BY <1>0 DEF Command
  <2> QED BY <2>1, <2>2, <2>3
<1>2. old # Idle
  <2> HIDE DEF old
  <2> QED BY NotIdle DEF old
<1>3. Becomes(s, c)
  BY DEF Goes
<1> HIDE DEF c
<1>4. Owned(c, clock)
  <2> HIDE DEF old
  <2> QED BY <1>0, <1>1 DEF Owned
<1>5. Clear(c) => Clear(old) /\ Joining(c, LackingRuns, hosted, mirror.lines)
  <2> SUFFICES ASSUME Clear(c) PROVE Clear(old) /\ Joining(c, LackingRuns, hosted, mirror.lines)
    OBVIOUS
  <2>1. /\ Clear(old) /\ Joining(old, LackingRuns, hosted, mirror.lines)
        /\ step \in {"lock", "merge"} /\ old.at \in {"read", "lock"}
        /\ old.at = "read" => old.todo = {}
    BY <1>0, <1>1 DEF Clear
  <2> HIDE DEF old
  <2>2. Fresh(c, c.rows, mirror.lines)
    BY <1>1, <2>1 DEF Joining, Fresh
  <2>3. \A n \in LackingRuns \cap RunsOf(c.clone) : Planned(c, n)
    BY <1>1, <2>1 DEF Joining, Planned
  <2>4. c.todo \cup c.again \subseteq RunsOf(c.clone) /\ c.clone \in Clone /\ c.root \in Roots(c.clone)
    BY <1>1, <2>1 DEF Joining
  <2> QED BY <1>1, <2>1, <2>2, <2>3, <2>4 DEF Joining
<1>6. LackingRuns' = LackingRuns
  BY SameLacking
<1>7. OwnLines(mirror'.lines, clock)
  BY OwnedHere
<1> HIDE DEF old
<1> QED BY <1>2, <1>3, <1>4, <1>5, <1>6, <1>7, SoundStep DEF old

\* A command with its rows asks for the mirror, or is done.
LEMMA ToMirrorSound ==
  ASSUME Inv, Sound, NEW s \in Slot, ToMirror(s)
  PROVE  Sound'
<1>1. /\ command[s].at \in {"mirror", "read"} /\ command[s].todo = {}
      /\ command[s].kind = "sync" => command[s].at = "read"
      /\ UNCHANGED <<clock, mirror, ended, hosted, summary>>
      /\ Goes(s, "lock") \/ Becomes(s, Idle)
  BY CommandHere DEF ToMirror, Good, StepOfKind
<1>2. command[s] # Idle /\ command[s].at # "idle" /\ OwnLines(mirror'.lines, clock)
  BY <1>1, NotIdle, OwnedHere
<1>3. CASE Goes(s, "lock")
  BY <1>1, <1>2, <1>3, GoesSound
<1>4. CASE Becomes(s, Idle)
  BY <1>1, <1>2, <1>4, SoundEnd
<1> QED BY <1>1, <1>3, <1>4

\* The mirror is locked.
LEMMA LockMirrorSound ==
  ASSUME Inv, Sound, NEW s \in Slot, LockMirror(s)
  PROVE  Sound'
<1> DEFINE step == IF command[s].kind = "end" THEN "append" ELSE "merge"
<1>1. /\ command[s].at = "lock" /\ Goes(s, step)
      /\ UNCHANGED <<clock, mirror, ended, hosted, summary>>
  BY DEF LockMirror
<1>2. step \in {"append", "merge"} /\ (command[s].kind = "sync" => step = "merge")
  OBVIOUS
<1> HIDE DEF step
<1> QED BY <1>1, <1>2, GoesSound

\* The hook has decided, or has the lock of its log.
LEMMA HookGoesSound ==
  ASSUME Inv, Sound, NEW s \in Slot, Decide(s) \/ LockLog(s)
  PROVE  Sound'
<1>1. /\ command[s].kind = "hook" /\ command[s].at \in {"evaluate", "poll"}
      /\ Goes(s, "poll") \/ Goes(s, "write")
      /\ UNCHANGED <<clock, mirror, ended, hosted, summary>>
  BY DEF Decide, LockLog, Active
<1> QED BY <1>1, GoesSound

\* Commands that end without touching the mirror.
LEMMA QuietEndSound ==
  ASSUME Inv, Sound, NEW s \in Slot, NothingToDo(s) \/ AppendDecision(s) \/ Expire(s)
  PROVE  Sound'
<1>1. /\ command[s].at \in {"fetch", "write", "poll"} /\ Becomes(s, Idle) /\ UNCHANGED <<clock, mirror>>
  BY DEF NothingToDo, AppendDecision, Expire, Active
<1>2. command[s] # Idle /\ OwnLines(mirror'.lines, clock)
  BY <1>1, NotIdle, OwnedHere
<1> QED BY <1>1, <1>2, SoundEnd

\* _append_row: the row is of its own repository.
LEMMA AppendRowSound ==
  ASSUME Inv, Sound, NEW s \in Slot, AppendRow(s)
  PROVE  Sound'
<1>1. command[s].at = "append" /\ Becomes(s, Idle) /\ UNCHANGED clock
  BY DEF AppendRow
<1>2. PICK row \in command[s].rows : mirror' = Written(mirror, row)
  BY DEF AppendRow
<1>3. row \in Line /\ OwnLine(row, clock) /\ mirror.lines \in Seq(Line) /\ OwnLines(mirror.lines, clock)
  BY OwnedHere DEF Command, Line, Owned, OwnLine
<1>4. mirror'.lines = Append(mirror.lines, row)
  BY <1>2 DEF Written, AllEnded
<1>5. OwnLines(mirror'.lines, clock)
  BY <1>3, <1>4, OwnAppend
<1>6. command[s] # Idle
  BY <1>1, NotIdle
<1> QED BY <1>1, <1>5, <1>6, SoundEnd

\* _rewrite_mirror reads and merges.
LEMMA MergeSound ==
  ASSUME Inv, Sound, NEW s \in Slot, Merge(s)
  PROVE  Sound'
<1> DEFINE old == command[s]
           merged == MergeMirror(mirror.lines, old.rows, old.root)
           c == [old EXCEPT !.at = "replace", !.lines = merged]
<1>0. old \in Command /\ Good(old, mirror.lines) /\ Owned(old, clock) /\ old.at = "merge"
      /\ (Clear(old) => Joining(old, LackingRuns, hosted, mirror.lines))
      /\ mirror.lines \in Seq(Line) /\ OwnLines(mirror.lines, clock)
  BY OwnedHere DEF Merge
<1>1. OwnLines(merged, clock)
  <2>1. old.rows \in SUBSET Row /\ IsFiniteSet(old.rows) /\ old.root \in Repositories \cup {NoRoot}
        /\ \A x \in old.rows : Own(x, clock)
    BY <1>0 DEF Command, Good, Owned
  <2> HIDE DEF old
  <2> QED BY <1>0, <2>1, OwnMerged
<1>2. Becomes(s, c) /\ UNCHANGED <<clock, mirror, ended, hosted, summary>>
  BY DEF Merge
<1> HIDE DEF merged
<1>3. /\ c.at = "replace" /\ c.kind = old.kind /\ c.rows = old.rows /\ c.time = old.time
      /\ c.todo = old.todo /\ c.again = old.again /\ c.clone = old.clone /\ c.root = old.root
      /\ c.clean = old.clean /\ c.lines = merged
  <2> HIDE DEF old
  <2>1. c.at = "replace" /\ c.kind = old.kind /\ c.rows = old.rows /\ c.time = old.time
    BY <1>0 DEF Command
  <2>2. c.todo = old.todo /\ c.again = old.again /\ c.clone = old.clone /\ c.root = old.root
    BY <1>0 DEF Command
  <2>3. c.clean = old.clean /\ c.lines = merged
    BY <1>0 DEF Command
  <2> QED BY <2>1, <2>2, <2>3
<1> HIDE DEF c
<1>4. old # Idle
  <2> HIDE DEF old
  <2> QED BY <1>0, NotIdle
<1>5. Owned(c, clock)
  <2> HIDE DEF old
  <2> QED BY <1>0, <1>1, <1>3 DEF Owned
<1>6. Clear(c) => Clear(old) /\ Joining(c, LackingRuns, hosted, mirror.lines)
  <2> HIDE DEF old
  <2> SUFFICES ASSUME Clear(c) PROVE Clear(old) /\ Joining(c, LackingRuns, hosted, mirror.lines)
    OBVIOUS
  <2>1. Clear(old) /\ Joining(old, LackingRuns, hosted, mirror.lines)
    BY <1>0, <1>3 DEF Clear
  <2>2. Fresh(c, c.rows, mirror.lines)
    BY <1>0, <1>3, <2>1 DEF Joining, Fresh
  <2>3. \A n \in LackingRuns \cap RunsOf(c.clone) : Planned(c, n)
    BY <1>0, <1>3, <2>1 DEF Joining, Planned
  <2>4. c.todo \cup c.again \subseteq RunsOf(c.clone) /\ c.clone \in Clone /\ c.root \in Roots(c.clone)
    BY <1>3, <2>1 DEF Joining
  <2> QED BY <1>3, <2>1, <2>2, <2>3, <2>4 DEF Joining
<1>7. LackingRuns' = LackingRuns
  BY <1>2, SameLacking
<1>8. OwnLines(mirror'.lines, clock)
  BY <1>0, <1>2
<1> QED BY <1>2, <1>4, <1>5, <1>6, <1>7, <1>8, SoundStep

\* _rewrite_mirror replaces the file.
LEMMA ReplaceSound ==
  ASSUME Inv, Sound, NEW s \in Slot, Replace(s)
  PROVE  Sound'
<1>1. command[s].at = "replace" /\ Becomes(s, Idle) /\ UNCHANGED clock
      /\ mirror'.lines = command[s].lines
  BY DEF Replace, AllEnded
<1>2. OwnLines(mirror'.lines, clock)
  BY <1>1, OwnedHere DEF Owned
<1>3. command[s] # Idle
  BY <1>1, NotIdle
<1> QED BY <1>1, <1>2, <1>3, SoundEnd

\* A command is killed; a piece of its row may be in the mirror.
LEMMA InterruptSound ==
  ASSUME Inv, Sound, NEW s \in Slot, Interrupt(s)
  PROVE  Sound'
<1>1. command[s] # Idle /\ Becomes(s, Idle) /\ UNCHANGED clock
  BY DEF Interrupt
<1>2. PICK line \in (IF command[s].at = "append" THEN command[s].rows ELSE {command[s].row}) :
        mirror' \in LeftBy(s, "append", mirror, line)
  BY DEF Interrupt
<1>3. mirror.lines \in Seq(Line) /\ OwnLines(mirror.lines, clock)
  BY OwnedHere
<1>4. CASE mirror' = mirror
  BY <1>1, <1>3, <1>4, SoundEnd
<1>5. CASE mirror' # mirror
  <2>1. command[s].at = "append" /\ mirror' \in Interrupted(mirror, line)
    BY <1>2, <1>5 DEF LeftBy
  <2>2. line \in Line /\ OwnLine(line, clock)
    BY <1>2, <2>1, OwnedHere DEF Command, Line, Owned, OwnLine
  <2>3. mirror'.lines = mirror.lines \/ \E piece \in {line, Torn} : mirror'.lines = Append(mirror.lines, piece)
    BY <2>1 DEF Interrupted, AllEnded
  <2>4. OwnLines(mirror'.lines, clock)
    BY <1>3, <2>2, <2>3, OwnAppend, TornIsOwn
  <2> QED BY <1>1, <2>4, SoundEnd
<1> QED BY <1>4, <1>5

\* A command of another kind begins.
LEMMA OthersBegin ==
  ASSUME Inv, Sound, NEW s \in Slot, BeginHook(s) \/ \E r \in Run : EndRun(s, r)
  PROVE  Sound'
<1>2. clock \in Time /\ 0 <= clock
  BY OwnedHere DEF Time
<1>3. ASSUME NEW r \in Run, EndRun(s, r) PROVE Sound'
  <2> DEFINE c == [Idle EXCEPT !.kind = "end", !.at = "summarize", !.todo = {r}]
  <2>1. c.kind = "end" /\ c.at = "summarize" /\ c.rows = {} /\ c.time = 0
    BY DEF Idle
  <2>2. Begins(s, c) /\ UNCHANGED <<clock, mirror>>
    BY <1>3 DEF EndRun
  <2> HIDE DEF c
  <2>3. Owned(c, clock) /\ ~Clear(c)
    BY <1>2, <2>1 DEF Owned, Clear
  <2> QED BY <2>2, <2>3, SoundStart
<1>4. CASE BeginHook(s)
  <2> DEFINE c == [Idle EXCEPT !.kind = "hook", !.at = "evaluate", !.row = [hook |-> begun]]
  <2>1. c.kind = "hook" /\ c.at = "evaluate" /\ c.rows = {} /\ c.time = 0
    BY DEF Idle
  <2>2. Begins(s, c) /\ UNCHANGED <<clock, mirror>>
    BY <1>4 DEF BeginHook
  <2> HIDE DEF c
  <2>3. Owned(c, clock) /\ ~Clear(c)
    BY <1>2, <2>1 DEF Owned, Clear
  <2> QED BY <2>2, <2>3, SoundStart
<1> QED BY <1>3, <1>4

\* rebuild begins with the root that Git names, or none.
LEMMA RebuildSound ==
  ASSUME Inv, Sound, NEW s \in Slot, NEW clone \in Clone, Rebuild(s, clone)
  PROVE  Sound'
<1>1. PICK root \in Roots(clone) :
        Begins(s, [Idle EXCEPT !.kind = "rebuild", !.at = "read", !.todo = RunsOf(clone),
                               !.root = root, !.time = clock])
  BY DEF Rebuild
<1> DEFINE c == [Idle EXCEPT !.kind = "rebuild", !.at = "read", !.todo = RunsOf(clone),
                               !.root = root, !.time = clock]
<1>2. /\ c.kind = "rebuild" /\ c.at = "read" /\ c.rows = {} /\ c.time = clock /\ c.root = root
      /\ c.todo = RunsOf(clone) /\ c.again = {}
  BY DEF Idle
<1>3. Begins(s, c) /\ UNCHANGED <<clock, mirror>>
  BY <1>1 DEF Rebuild
<1> HIDE DEF c
<1>4. clock <= clock
  BY OwnedHere DEF Time
<1>5. Owned(c, clock) /\ ~Clear(c)
  BY <1>2, <1>4 DEF Owned, Clear, RunsOf
<1> QED BY <1>3, <1>5, SoundStart

\* A sync takes on every run that lacks its outcome.
LEMMA SyncSound ==
  ASSUME Inv, Sound, NEW s \in Slot, NEW clone \in Clone, Sync(s, clone)
  PROVE  Sound'
<1>1a. PICK root \in Roots(clone) : \E refresh \in BOOLEAN :
       LET pending == {r \in RunsOf(clone) : ended[r] = "done" /\ (refresh \/ hosted[r] = 0)} IN
       Begins(s, [Idle EXCEPT !.kind = "sync", !.clone = clone, !.at = "fetch", !.todo = pending, !.root = root,
                              !.again = Stale(clone) \ pending, !.clean = Undisturbed(s)])
  BY DEF Sync
<1>1. PICK refresh \in BOOLEAN :
       LET pending == {r \in RunsOf(clone) : ended[r] = "done" /\ (refresh \/ hosted[r] = 0)} IN
       Begins(s, [Idle EXCEPT !.kind = "sync", !.clone = clone, !.at = "fetch", !.todo = pending, !.root = root,
                              !.again = Stale(clone) \ pending, !.clean = Undisturbed(s)])
  BY <1>1a
<1> DEFINE pending == {r \in RunsOf(clone) : ended[r] = "done" /\ (refresh \/ hosted[r] = 0)}
           c == [Idle EXCEPT !.kind = "sync", !.clone = clone, !.at = "fetch", !.todo = pending, !.root = root,
                              !.again = Stale(clone) \ pending, !.clean = Undisturbed(s)]
<1>2. Begins(s, c) /\ UNCHANGED <<clock, mirror, ended, hosted, summary>>
  BY <1>1 DEF Sync
<1>3. pending \subseteq RunsOf(clone) /\ Stale(clone) = LackingRuns \cap RunsOf(clone)
  BY DEF Stale, LackingRuns, RunsOf
<1> HIDE DEF pending
<1>4. /\ c.kind = "sync" /\ c.at = "fetch" /\ c.rows = {} /\ c.time = 0 /\ c.root = root
      /\ c.todo = pending /\ c.again = Stale(clone) \ pending /\ c.clone = clone
      /\ c.clean = Undisturbed(s)
  <2>1. c.kind = "sync" /\ c.at = "fetch" /\ c.rows = {} /\ c.time = 0 /\ c.root = root
    BY DEF Idle
  <2>2. c.todo = pending /\ c.again = Stale(clone) \ pending /\ c.clone = clone
    BY DEF Idle
  <2>3. c.clean = Undisturbed(s)
    BY DEF Idle
  <2> QED BY <2>1, <2>2, <2>3
<1> HIDE DEF c
<1>5. 0 <= clock
  BY OwnedHere DEF Time
<1>6. c.todo \cup c.again \subseteq RunsOf(clone)
  BY <1>3, <1>4
<1>7. Owned(c, clock)
  BY <1>4, <1>5, <1>6 DEF Owned, RunsOf
<1>8. Joining(c, LackingRuns, hosted, mirror.lines)
  <2>1. \A r \in LackingRuns \cap RunsOf(c.clone) : Planned(c, r)
    BY <1>3, <1>4 DEF Planned
  <2> QED BY <1>4, <1>6, <2>1 DEF Joining
<1>9. LackingRuns' = LackingRuns /\ hosted' = hosted
  BY <1>2, SameLacking
<1>10. Clear(c) => Undisturbed(s)
  BY <1>4 DEF Clear
<1> QED BY <1>2, <1>7, <1>8, <1>9, <1>10, SoundStart

\* Time passes.
LEMMA TickSound ==
  ASSUME Inv, Sound, Tick
  PROVE  Sound'
<1>1. UNCHANGED <<ended, hosted, summary, mirror, command>> /\ clock' = clock + 1 /\ clock \in Nat
  BY DEF Tick, Inv, Contents, Time
<1>2. \A x : Own(x, clock) /\ x.written \in Nat => Own(x, clock')
  BY <1>1 DEF Own
<1>3. ASSUME NEW lines \in Seq(Line), OwnLines(lines, clock) PROVE OwnLines(lines, clock')
  <2> SUFFICES ASSUME NEW i \in 1..Len(lines), IsRow(lines[i]), lines[i].run \in Run
               PROVE  Own(lines[i], clock')
    BY DEF OwnLines, OwnLine
  <2>1. Own(lines[i], clock)
    BY <1>3 DEF OwnLines, OwnLine
  <2>2. lines[i].written \in Nat
    BY ElementOfSeq, RowsAreRows DEF Line
  <2> QED BY <1>2, <2>1, <2>2
<1>4. OwnLines(mirror'.lines, clock')
  BY <1>1, <1>3 DEF Inv, MirrorContents, Sound, OwnInv
<1>5. ASSUME NEW s \in Slot PROVE Owned(command'[s], clock')
  <2> DEFINE old == command[s]
  <2>1. old \in Command /\ Good(old, mirror.lines) /\ Owned(old, clock) /\ command'[s] = old
    BY <1>1, OwnedHere
  <2> HIDE DEF old
  <2>2. \A x \in old.rows : Own(x, clock')
    BY <1>2, <2>1, RowsAreRows DEF Owned, Command
  <2>3. old.at = "store" => Own(old.row, clock')
    BY <1>2, <2>1, RowsAreRows DEF Owned, Good
  <2>4. old.time <= clock'
    <3>1. old.time \in Nat /\ old.time <= clock
      BY <2>1 DEF Command, Owned, Time
    <3> QED BY <1>1, <3>1
  <2>5. old.at = "replace" => OwnLines(old.lines, clock')
    BY <1>3, <2>1 DEF Owned, Command
  <2> QED BY <2>1, <2>2, <2>3, <2>4, <2>5 DEF Owned
<1>6. OwnInv'
  BY <1>4, <1>5 DEF OwnInv
<1>7. SyncOK'
  BY <1>1, SameLacking DEF Sound, SyncOK
<1> QED BY <1>6, <1>7 DEF Sound

\* At first there are the rows of others and no command.
LEMMA InitSound ==
  Init => Sound
<1> SUFFICES ASSUME Init PROVE Sound
  OBVIOUS
<1>1. mirror.lines = Others /\ command = [s \in Slot |-> Idle] /\ clock = 1
  BY DEF Init, AllEnded
<1>2. OwnLines(mirror.lines, clock)
  <2> SUFFICES ASSUME NEW i \in 1..Len(Others), IsRow(Others[i]), Others[i].run \in Run PROVE FALSE
    BY <1>1 DEF OwnLines, OwnLine
  <2>1. Others[i] \in OtherRows
    BY DEF OtherRows
  <2> QED BY <2>1, TelemetryConstants
<1>3. Owned(Idle, clock) /\ ~Clear(Idle)
  BY <1>1 DEF Idle, Owned, Clear
<1> HIDE DEF Idle
<1> QED BY <1>1, <1>2, <1>3 DEF Sound, OwnInv, SyncOK

\* Inv and Sound are inductive together.
LEMMA NextSound ==
  Inv /\ Sound /\ [Next]_vars => Sound'
<1> SUFFICES ASSUME Inv, Sound, [Next]_vars PROVE Sound'
  OBVIOUS
<1>1. CASE UNCHANGED vars
  <2>1. UNCHANGED <<clock, ended, hosted, summary, mirror, command>>
    BY <1>1 DEF vars
  <2> QED BY <2>1, SameLacking DEF Sound, OwnInv, SyncOK
<1>2. CASE Tick
  BY <1>2, TickSound
<1>3. ASSUME NEW s \in Slot, Step(s) PROVE Sound'
  BY <1>3, SummarizeSound, FetchSound, AnswerSound, ResummarizeSound, ReadSound, StoreSound,
     ToMirrorSound, LockMirrorSound, AppendRowSound, MergeSound, ReplaceSound, HookGoesSound,
     QuietEndSound DEF Step
<1>4. ASSUME NEW s \in Slot, Interrupt(s) PROVE Sound'
  BY <1>4, InterruptSound
<1>5. ASSUME NEW s \in Slot, BeginHook(s) \/ \E r \in Run : EndRun(s, r) PROVE Sound'
  BY <1>5, OthersBegin
<1>6. ASSUME NEW s \in Slot, NEW c \in Clone, Rebuild(s, c) \/ Sync(s, c) PROVE Sound'
  BY <1>6, RebuildSound, SyncSound
<1> QED BY <1>1, <1>2, <1>3, <1>4, <1>5, <1>6 DEF Next

\* Both hold in every state.
LEMMA AlwaysSound ==
  Spec => [](Inv /\ Sound)
<1>1. Init => Inv /\ Sound
  BY InitInv, InitSound
<1>2. Inv /\ Sound /\ [Next]_vars => Inv' /\ Sound'
  BY NextInv, NextSound
<1> QED BY <1>1, <1>2, PTL DEF Spec

\* resummarize and replace_mirror_rows, at the end of a sync that was alone: no
\* pushed run of the clone lacks its outcome, and the report shows its rows.
THEOREM SyncsJoin ==
  Spec => SyncJoins
<1> DEFINE Joins ==
      \A s \in Slot : command[s].kind = "sync" /\ command[s].clean =>
       /\ NothingToDo(s) \/ (ToMirror(s) /\ command'[s] = Idle) \/ Replace(s)
          => \A r \in RunsOf(command[s].clone) :
               ended[r] = "done" /\ hosted[r] # 0 => FetchedInSummary(r)' = hosted[r]
       /\ Replace(s) => command[s].rows \subseteq Reported(mirror'.lines)
<1>1. Inv /\ Sound /\ [Next]_vars => [Joins]_vars
  <2> SUFFICES ASSUME Inv, Sound, NEW s \in Slot, command[s].kind = "sync" /\ command[s].clean
               PROVE  /\ NothingToDo(s) \/ (ToMirror(s) /\ command'[s] = Idle) \/ Replace(s)
                         => \A r \in RunsOf(command[s].clone) :
                              ended[r] = "done" /\ hosted[r] # 0 => FetchedInSummary(r)' = hosted[r]
                      /\ Replace(s) => command[s].rows \subseteq Reported(mirror'.lines)
    OBVIOUS
  <2> DEFINE c == command[s]
  <2>1. /\ c \in Command /\ Good(c, mirror.lines) /\ Owned(c, clock)
        /\ Joining(c, LackingRuns, hosted, mirror.lines) /\ c.kind = "sync"
        /\ mirror.lines \in Seq(Line) /\ OwnLines(mirror.lines, clock)
    BY OwnedHere DEF Clear
  <2>2. ASSUME NothingToDo(s) \/ (ToMirror(s) /\ command'[s] = Idle) \/ Replace(s),
               NEW r \in RunsOf(c.clone), ended[r] = "done", hosted[r] # 0
        PROVE  FetchedInSummary(r)' = hosted[r]
    <3>1. /\ UNCHANGED summary
          /\ c.at \in {"mirror", "read", "replace"} \/ (c.at = "fetch" /\ c.again = {})
          /\ c.at # "replace" => c.todo = {}
      BY <2>2 DEF NothingToDo, ToMirror, Replace, Active
    <3> HIDE DEF c
    <3>2. ~Planned(c, r)
      BY <3>1 DEF Planned
    <3>3. r \in Run /\ r \notin LackingRuns
      BY <2>1, <3>2 DEF Joining, RunsOf
    <3>4. FetchedInSummary(r) = hosted[r]
      BY <2>2, <3>3 DEF LackingRuns
    <3> QED BY <3>1, <3>4 DEF FetchedInSummary
  <2>3. ASSUME Replace(s) PROVE c.rows \subseteq Reported(mirror'.lines)
    <3>1. c.at = "replace" /\ mirror'.lines = c.lines
      BY <2>3 DEF Replace, AllEnded
    <3> HIDE DEF c
    <3>2. c.lines = MergeMirror(mirror.lines, c.rows, c.root)
      BY <2>1, <3>1 DEF Good
    <3>3. c.rows \in SUBSET Row /\ IsFiniteSet(c.rows) /\ c.root \in Repositories \cup {NoRoot}
          /\ c.time \in Nat
      BY <2>1 DEF Command, Good, Time
    <3>4. Fresh(c, c.rows, mirror.lines)
      BY <2>1, <3>1 DEF Joining
    <3>5. Fits(mirror.lines, c.rows, c.root, c.time)
      <4>1. \A x \in c.rows : x.written = c.time /\ x.root = c.root /\ x.source = Home[x.run]
                              /\ c.root \in Roots(Home[x.run])
        BY <2>1, <3>4 DEF Fresh, Owned, Own
      <4>2. \A x, y \in c.rows : x.run = y.run => x = y
        BY <3>4 DEF Fresh
      <4>3. ASSUME NEW i \in 1..Len(mirror.lines), IsRow(mirror.lines[i]), mirror.lines[i].run \in Run
            PROVE  /\ mirror.lines[i].written <= c.time
                   /\ mirror.lines[i].source = Home[mirror.lines[i].run]
                   /\ mirror.lines[i].root \in Roots(Home[mirror.lines[i].run])
        BY <2>1, <3>4, <4>3 DEF Fresh, OwnLines, OwnLine, Own
      <4> QED BY <4>1, <4>2, <4>3 DEF Fits
    <3>6. c.rows \subseteq Reported(MergeMirror(mirror.lines, c.rows, c.root))
      BY <2>1, <3>3, <3>5, MergedShows
    <3> QED BY <3>1, <3>2, <3>6
  <2> QED BY <2>2, <2>3
<1> QED BY <1>1, AlwaysSound, PTL DEF Spec, SyncJoins
=============================================================================
