---------------------------- MODULE InductionLemmas ----------------------------
(***************************************************************************)
(* Induction over the naturals and over finite sets, stated with a set in  *)
(* the place of the predicate, the maximum of a finite set of numbers, and *)
(* tables of what a loop computes: what the proofs about stamps, retries,  *)
(* counters and scanners of this project use.                              *)
(***************************************************************************)
EXTENDS Integers, FiniteSetTheorems, WellFoundedInduction, TLAPS

\* A set that holds 0 and every successor of its members holds every natural.
LEMMA NatSetInduction ==
  ASSUME NEW F, 0 \in F, \A n \in Nat : n \in F => n + 1 \in F
  PROVE  Nat \subseteq F
<1> SUFFICES ASSUME Nat \ F # {} PROVE FALSE
  OBVIOUS
<1>1. PICK n \in Nat \ F : \A m \in Nat \ F : ~ (<<m, n>> \in OpToRel(<, Nat))
  BY NatLessThanWellFounded, WFMin
<1>2. \A m \in Nat \ F : ~ (m < n)
  BY <1>1 DEF OpToRel
<1>3. n # 0 /\ n - 1 \in Nat /\ n - 1 < n
  OBVIOUS
<1>4. n - 1 \in F
  BY <1>2, <1>3
<1> QED BY <1>3, <1>4

\* A collection that holds {} and every extension of its members by an element
\* of a finite set holds that set.
LEMMA FiniteSetInduction ==
  ASSUME NEW S, IsFiniteSet(S), NEW F, {} \in F,
         \A T \in SUBSET S, x \in S : T \in F => T \cup {x} \in F
  PROVE  S \in F
<1> SUFFICES ASSUME S \notin F PROVE FALSE
  OBVIOUS
<1> DEFINE Bad == {T \in SUBSET S : T \notin F}
<1>1. IsWellFoundedOn(StrictSubsetOrdering(S), SUBSET S)
  BY FS_StrictSubsetOrderingWellFounded, FS_FiniteSubsetsOfFinite
<1>2. Bad \subseteq SUBSET S /\ Bad # {}
  OBVIOUS
<1>3. PICK T \in Bad : \A U \in Bad : ~ (<<U, T>> \in StrictSubsetOrdering(S))
  <2> HIDE DEF Bad
  <2> QED BY <1>1, <1>2, WFMin
<1>4. PICK x \in T : TRUE
  OBVIOUS
<1>5. T \ {x} \in F
  <2>1. <<T \ {x}, T>> \in StrictSubsetOrdering(S)
    BY <1>4 DEF StrictSubsetOrdering
  <2> QED BY <1>3, <2>1
<1>6. (T \ {x}) \cup {x} = T
  BY <1>4
<1> QED BY <1>5, <1>6

\* A finite set of numbers that is not empty has a largest member.
LEMMA FiniteMax ==
  ASSUME NEW S \in SUBSET Int, IsFiniteSet(S), S # {}
  PROVE  \E m \in S : \A n \in S : n <= m
<1> DEFINE F == {T \in SUBSET S : T # {} => \E m \in T : \A n \in T : n <= m}
<1>1. {} \in F
  OBVIOUS
<1>2. ASSUME NEW T \in SUBSET S, NEW x \in S, T \in F PROVE T \cup {x} \in F
  <2>1. CASE T = {}
    BY <2>1
  <2>2. CASE T # {}
    <3>1. PICK m \in T : \A n \in T : n <= m
      BY <1>2, <2>2
    <3>2. CASE x <= m
      <4>1. m \in T \cup {x} /\ \A n \in T \cup {x} : n <= m
        BY <3>1, <3>2
      <4> QED BY <4>1
    <3>3. CASE m <= x
      <4>1. x \in T \cup {x} /\ \A n \in T \cup {x} : n <= x
        BY <3>1, <3>3
      <4> QED BY <4>1
    <3> QED BY <3>2, <3>3
  <2> QED BY <2>1, <2>2
<1>3. S \in F
  <2> HIDE DEF F
  <2> QED BY <1>1, <1>2, FiniteSetInduction
<1> QED BY <1>3

\* The table of what starts somewhere and goes on by n steps.
StepsOn(n, S) == [1..n -> [S -> S]]
IsTable(f, n, S, start, step) ==
  f \in [0..n -> S] /\ f[0] = start /\ \A i \in 1..n : f[i] = step[i][f[i - 1]]

\* There is one.
LEMMA TableExists ==
  ASSUME NEW n \in Nat, NEW S, NEW start \in S, NEW step \in StepsOn(n, S)
  PROVE  \E f : IsTable(f, n, S, start, step)
<1> USE DEF StepsOn
<1> DEFINE Table(f, m) == f[0] = start /\ \A i \in 1..m : f[i] = step[i][f[i - 1]]
           F == {m \in Nat : m <= n => \E f \in [0..m -> S] : Table(f, m)}
<1>1. 0 \in F
  <2> DEFINE f == [i \in 0..0 |-> start]
  <2>1. f \in [0..0 -> S] /\ Table(f, 0)
    OBVIOUS
  <2> HIDE DEF Table, f
  <2> QED BY <2>1
<1>2. ASSUME NEW m \in Nat, m \in F PROVE m + 1 \in F
  <2> SUFFICES ASSUME m + 1 <= n PROVE \E f \in [0..(m + 1) -> S] : Table(f, m + 1)
    OBVIOUS
  <2>1. PICK f \in [0..m -> S] : Table(f, m)
    BY <1>2
  <2> DEFINE last == step[m + 1][f[m]]
             g == [i \in 0..(m + 1) |-> IF i = m + 1 THEN last ELSE f[i]]
  <2>2. last \in S
    <3>1. m + 1 \in 1..n /\ f[m] \in S
      OBVIOUS
    <3> QED BY <3>1
  <2>3. g[m + 1] = last /\ \A i \in 0..m : g[i] = f[i]
    <3> HIDE DEF last
    <3> QED OBVIOUS
  <2>4. g \in [0..(m + 1) -> S]
    <3> HIDE DEF last
    <3> QED BY <2>2
  <2> HIDE DEF g
  <2>5. ASSUME NEW i \in 1..(m + 1) PROVE g[i] = step[i][g[i - 1]]
    <3>1. CASE i = m + 1
      <4>1. i - 1 = m /\ g[m] = f[m]
        BY <2>3, <3>1
      <4> QED BY <2>3, <3>1, <4>1
    <3>2. CASE i # m + 1
      <4>1. i \in 1..m /\ i \in 0..m /\ i - 1 \in 0..m
        BY <3>2
      <4> HIDE DEF last
      <4> QED BY <2>1, <2>3, <4>1
    <3> QED BY <3>1, <3>2
  <2>6. Table(g, m + 1)
    <3>1. g[0] = start
      BY <2>1, <2>3
    <3> QED BY <2>5, <3>1
  <2> HIDE DEF Table
  <2> QED BY <2>4, <2>6
<1>3. n \in F
  <2> HIDE DEF F
  <2> QED BY <1>1, <1>2, NatSetInduction
<1> QED BY <1>3 DEF IsTable

\* What holds at the start of a table and from one entry to the next holds of
\* every entry: G holds the places where it does.
LEMMA TableInduction ==
  ASSUME NEW n \in Nat, NEW G, 0 \in G, \A i \in 0..(n - 1) : i \in G => i + 1 \in G
  PROVE  0..n \subseteq G
<1> DEFINE F == {m \in Nat : m <= n => m \in G}
<1>1. 0 \in F
  OBVIOUS
<1>2. ASSUME NEW m \in Nat, m \in F PROVE m + 1 \in F
  <2> SUFFICES ASSUME m + 1 <= n PROVE m + 1 \in G
    OBVIOUS
  <2>1. m \in 0..(n - 1) /\ m \in G
    BY <1>2
  <2> QED BY <2>1
<1>3. Nat \subseteq F
  <2> HIDE DEF F
  <2> QED BY <1>1, <1>2, NatSetInduction
<1> QED BY <1>3
=============================================================================
