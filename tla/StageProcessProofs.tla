-------------------------- MODULE StageProcessProofs --------------------------
(***************************************************************************)
(* One configured command, for every command, every content of the copied  *)
(* file and every behaviour of its processes.  The invariant has three     *)
(* parts.  Untouched: while nobody has written the copied file since the   *)
(* guard was created, what it ever held is the value that was captured,    *)
(* and what was read before the guard stopped is that value or other text. *)
(* Quiet: a command that passed has no leader and holds no pipe, and when  *)
(* it left no process nothing changes any more.  Killed: a tree that was   *)
(* killed as a whole has no member of its group and cannot get one.        *)
(*                                                                         *)
(* The larger part is about the planner: that a command it splits is run   *)
(* with the arguments a shell would have given it, whatever its length.    *)
(* The planner's scan, the lexer and the shell's reading go through the    *)
(* same characters, and agree position by position when nothing was found; *)
(* the words the lexer holds at a position are then the words a shell has  *)
(* kept up to it.                                                          *)
(***************************************************************************)
EXTENDS StageProcess, InductionLemmas

-----------------------------------------------------------------------------
(* Positions in order.                                                     *)

Increases(q) == \A i, j \in DOMAIN q : i < j => q[i] < q[j]

\* Two increasing sequences with the same members are the same.
LEMMA IncreasingUnique ==
  ASSUME NEW m \in Nat, NEW S \in SUBSET Nat,
         NEW q \in [1..m -> S], NEW r \in [1..m -> S], Increases(q), Increases(r),
         \A x \in S : \E i \in 1..m : q[i] = x,
         \A x \in S : \E i \in 1..m : r[i] = x
  PROVE  q = r
<1> DEFINE F == {k \in Nat : \A i \in 1..m : i <= k => q[i] = r[i]}
<1>0. DOMAIN q = 1..m /\ DOMAIN r = 1..m
  OBVIOUS
<1>1. 0 \in F
  OBVIOUS
<1>2. ASSUME NEW k \in Nat, k \in F PROVE k + 1 \in F
  <2>0. \A i \in 1..m : i <= k => q[i] = r[i]
    BY <1>2
  <2> SUFFICES ASSUME k + 1 \in 1..m PROVE q[k + 1] = r[k + 1]
    BY <2>0
  <2>1. \A i \in 1..k : q[i] = r[i]
    BY <2>0
  <2>2. PICK i \in 1..m : q[i] = r[k + 1]
    OBVIOUS
  <2>3. PICK j \in 1..m : r[j] = q[k + 1]
    OBVIOUS
  <2>4. \A x \in 1..m : q[x] \in Nat /\ r[x] \in Nat
    OBVIOUS
  <2>5. i >= k + 1
    <3> SUFFICES ASSUME i < k + 1 PROVE FALSE
      OBVIOUS
    <3>1. q[i] = r[i] /\ r[i] < r[k + 1]
      BY <1>0, <2>1 DEF Increases
    <3> QED BY <2>2, <2>4, <3>1
  <2>6. j >= k + 1
    <3> SUFFICES ASSUME j < k + 1 PROVE FALSE
      OBVIOUS
    <3>1. q[j] = r[j] /\ q[j] < q[k + 1]
      BY <1>0, <2>1 DEF Increases
    <3> QED BY <2>3, <2>4, <3>1
  <2>7. q[k + 1] <= q[i] /\ r[k + 1] <= r[j]
    <3>1. k + 1 < i => q[k + 1] < q[i]
      BY <1>0 DEF Increases
    <3>2. k + 1 < j => r[k + 1] < r[j]
      BY <1>0 DEF Increases
    <3>3. q[i] \in Nat /\ r[j] \in Nat /\ q[k + 1] \in Nat /\ r[k + 1] \in Nat
      BY <2>4
    <3>4. i = k + 1 \/ k + 1 < i
      BY <2>5
    <3>5. j = k + 1 \/ k + 1 < j
      BY <2>6
    <3> QED BY <3>1, <3>2, <3>3, <3>4, <3>5
  <2> QED BY <2>2, <2>3, <2>4, <2>7
<1>3. m \in F
  <2> HIDE DEF F
  <2> QED BY <1>1, <1>2, NatSetInduction
<1> QED BY <1>3

\* An increasing sequence is the enumeration of its members.
LEMMA AscendingIs ==
  ASSUME NEW m \in Nat, NEW S \in SUBSET Nat, NEW q \in [1..m -> S], Increases(q),
         \A x \in S : \E i \in 1..m : q[i] = x
  PROVE  Cardinality(S) = m /\ Ascending(S) = q
<1>0. DOMAIN q = 1..m
  OBVIOUS
<1>1. q \in Bijection(1..m, S)
  <2>1. \A i, j \in 1..m : q[i] = q[j] => i = j
    <3> SUFFICES ASSUME NEW i \in 1..m, NEW j \in 1..m, q[i] = q[j], i # j PROVE FALSE
      OBVIOUS
    <3>1. q[i] \in Nat
      OBVIOUS
    <3>2. i < j \/ j < i
      OBVIOUS
    <3>3. i < j => q[i] < q[j]
      BY <1>0 DEF Increases
    <3>4. j < i => q[j] < q[i]
      BY <1>0 DEF Increases
    <3> QED BY <3>1, <3>2, <3>3, <3>4
  <2> QED BY <2>1 DEF Bijection, Injection, Surjection, IsInjective
<1>2. Cardinality(S) = m
  <2>1. Cardinality(1..m) = m /\ IsFiniteSet(1..m)
    BY FS_Interval
  <2> QED BY <1>1, <2>1, FS_Bijection DEF ExistsBijection
<1> DEFINE r == CHOOSE r \in [1..m -> S] : Increases(r)
<1>3. r \in [1..m -> S] /\ Increases(r)
  <2>1. \E x \in [1..m -> S] : Increases(x)
    OBVIOUS
  <2> QED BY <2>1
<1> HIDE DEF r
<1>4. \A x \in S : \E i \in 1..m : r[i] = x
  <2>1. \A i, j \in 1..m : r[i] = r[j] => i = j
    <3> SUFFICES ASSUME NEW i \in 1..m, NEW j \in 1..m, r[i] = r[j], i # j PROVE FALSE
      OBVIOUS
    <3>0. DOMAIN r = 1..m
      BY <1>3
    <3>1. r[i] \in Nat
      BY <1>3
    <3>2. i < j \/ j < i
      OBVIOUS
    <3>3. i < j => r[i] < r[j]
      BY <1>3, <3>0 DEF Increases
    <3>4. j < i => r[j] < r[i]
      BY <1>3, <3>0 DEF Increases
    <3> QED BY <3>1, <3>2, <3>3, <3>4
  <2>2. r \in Injection(1..m, S)
    BY <1>3, <2>1 DEF Injection, IsInjective
  <2>3. IsFiniteSet(1..m) /\ Cardinality(1..m) = m
    BY FS_Interval
  <2>4. IsFiniteSet(S)
    BY <1>1, <2>3, FS_Bijection DEF ExistsBijection
  <2>5. r \in Surjection(1..m, S)
    BY <1>2, <2>2, <2>3, <2>4, FS_Injection
  <2> QED BY <2>5 DEF Surjection
<1>5. r = q
  BY <1>3, <1>4, IncreasingUnique
<1> QED BY <1>2, <1>5 DEF r, Ascending, Increases

\* Every set of positions has such a sequence.
LEMMA AscendingExists ==
  ASSUME NEW n \in Nat, NEW S \in SUBSET (1..n)
  PROVE  \E m \in Nat : \E q \in [1..m -> S] : Increases(q) /\ \A x \in S : \E i \in 1..m : q[i] = x
<1> DEFINE Listable(T) ==
             \E m \in Nat : \E q \in [1..m -> T] : Increases(q) /\ \A x \in T : \E i \in 1..m : q[i] = x
           F == {k \in Nat : \A T \in SUBSET (1..k) : Listable(T)}
<1>1. 0 \in F
  <2> SUFFICES ASSUME NEW T \in SUBSET (1..0) PROVE Listable(T)
    OBVIOUS
  <2>1. T = {}
    OBVIOUS
  <2> DEFINE q == [i \in 1..0 |-> 0]
  <2>2. q \in [1..0 -> T] /\ Increases(q)
    BY DEF Increases
  <2> QED BY <2>1, <2>2
<1>2. ASSUME NEW k \in Nat, k \in F PROVE k + 1 \in F
  <2> SUFFICES ASSUME NEW T \in SUBSET (1..(k + 1)) PROVE Listable(T)
    OBVIOUS
  <2>1. CASE k + 1 \notin T
    <3>1. T \in SUBSET (1..k)
      BY <2>1
    <3> HIDE DEF Listable
    <3> QED BY <1>2, <3>1
  <2>2. CASE k + 1 \in T
    <3> DEFINE U == T \ {k + 1}
    <3>1. U \in SUBSET (1..k)
      OBVIOUS
    <3>2. Listable(U)
      <4> HIDE DEF Listable, U
      <4> QED BY <1>2, <3>1
    <3>10. PICK m \in Nat : \E q \in [1..m -> U] : Increases(q) /\ \A x \in U : \E i \in 1..m : q[i] = x
      BY <3>2
    <3>3. PICK q \in [1..m -> U] : Increases(q) /\ \A x \in U : \E i \in 1..m : q[i] = x
      BY <3>10
    <3> DEFINE r == [i \in 1..(m + 1) |-> IF i = m + 1 THEN k + 1 ELSE q[i]]
    <3>4. r[m + 1] = k + 1 /\ \A i \in 1..m : r[i] = q[i]
      OBVIOUS
    <3>5. r \in [1..(m + 1) -> T]
      <4>1. \A i \in 1..m : q[i] \in T
        OBVIOUS
      <4> QED BY <2>2, <4>1
    <3>6. Increases(r)
      <4> SUFFICES ASSUME NEW i \in 1..(m + 1), NEW j \in 1..(m + 1), i < j PROVE r[i] < r[j]
        BY DEF Increases
      <4>0. i \in 1..m
        OBVIOUS
      <4>1. i \in 1..m /\ q[i] \in 1..k
        <5> HIDE DEF U, r
        <5> QED BY <3>1, <4>0
      <4>2. CASE j = m + 1
        BY <3>4, <4>1, <4>2
      <4>3. CASE j # m + 1
        <5>1. j \in 1..m /\ DOMAIN q = 1..m
          BY <4>3
        <5>2. q[i] < q[j]
          BY <3>3, <4>1, <5>1 DEF Increases
        <5> QED BY <3>4, <4>1, <5>1, <5>2
      <4> QED BY <4>2, <4>3
    <3>7. ASSUME NEW x \in T PROVE \E i \in 1..(m + 1) : r[i] = x
      <4>1. CASE x = k + 1
        <5>1. m + 1 \in 1..(m + 1)
          OBVIOUS
        <5> QED BY <3>4, <4>1, <5>1
      <4>2. CASE x # k + 1
        <5>1. PICK i \in 1..m : q[i] = x
          BY <3>3, <4>2
        <5>2. i \in 1..(m + 1) /\ r[i] = x
          BY <3>4, <5>1
        <5> QED BY <5>2
      <4> QED BY <4>1, <4>2
    <3> HIDE DEF r
    <3>8. m + 1 \in Nat
      OBVIOUS
    <3> QED BY <3>5, <3>6, <3>7, <3>8
  <2> QED BY <2>1, <2>2
<1>3. n \in F
  <2> HIDE DEF F
  <2> QED BY <1>1, <1>2, NatSetInduction
<1> HIDE DEF Listable
<1>4. Listable(S)
  BY <1>3
<1> QED BY <1>4 DEF Listable

\* What is at these positions, in their order.
Listed(S, v) == [i \in 1..Len(Ascending(S)) |-> v[Ascending(S)[i]]]

\* Nothing at no position.
LEMMA ListedEmpty == ASSUME NEW v PROVE Listed({}, v) = <<>>
<1> DEFINE q == [i \in 1..0 |-> 0]
<1>1. q \in [1..0 -> {}] /\ Increases(q)
  BY DEF Increases
<1>2. Ascending({}) = q
  <2>1. {} \in SUBSET Nat /\ 0 \in Nat
    OBVIOUS
  <2> HIDE DEF q
  <2> QED BY <1>1, <2>1, AscendingIs
<1>3. Len(q) = 0
  OBVIOUS
<1> QED BY <1>2, <1>3 DEF Listed

\* A later position adds what is at it.
LEMMA ListedAppend ==
  ASSUME NEW k \in Nat, NEW S \in SUBSET (1..k), NEW v
  PROVE  Listed(S \cup {k + 1}, v) = Append(Listed(S, v), v[k + 1])
<1>0. PICK m \in Nat : \E q \in [1..m -> S] : Increases(q) /\ \A x \in S : \E i \in 1..m : q[i] = x
  BY AscendingExists
<1>1. PICK q \in [1..m -> S] : Increases(q) /\ \A x \in S : \E i \in 1..m : q[i] = x
  BY <1>0
<1> DEFINE T == S \cup {k + 1}
           r == [i \in 1..(m + 1) |-> IF i = m + 1 THEN k + 1 ELSE q[i]]
<1>2. r[m + 1] = k + 1 /\ \A i \in 1..m : r[i] = q[i] /\ q[i] \in 1..k
  <2>1. \A i \in 1..m : q[i] \in 1..k
    OBVIOUS
  <2>2. \A i \in 1..m : r[i] = q[i]
    OBVIOUS
  <2>3. r[m + 1] = k + 1
    OBVIOUS
  <2> QED BY <2>1, <2>2, <2>3
<1>3. r \in [1..(m + 1) -> T]
  OBVIOUS
<1>4. Increases(r)
  <2> SUFFICES ASSUME NEW i \in 1..(m + 1), NEW j \in 1..(m + 1), i < j PROVE r[i] < r[j]
    BY DEF Increases
  <2>0. i \in 1..m
    OBVIOUS
  <2>1. i \in 1..m /\ q[i] \in 1..k
    BY <1>2, <2>0
  <2>2. CASE j = m + 1
    BY <1>2, <2>1, <2>2
  <2>3. CASE j # m + 1
    <3>1. j \in 1..m /\ DOMAIN q = 1..m
      BY <2>3
    <3>2. q[i] < q[j]
      BY <1>1, <2>1, <3>1 DEF Increases
    <3> QED BY <1>2, <2>1, <3>1, <3>2
  <2> QED BY <2>2, <2>3
<1>5. ASSUME NEW x \in T PROVE \E i \in 1..(m + 1) : r[i] = x
  <2>1. CASE x = k + 1
    <3>1. m + 1 \in 1..(m + 1)
      OBVIOUS
    <3> QED BY <1>2, <2>1, <3>1
  <2>2. CASE x # k + 1
    <3>1. PICK i \in 1..m : q[i] = x
      BY <1>1, <2>2
    <3>2. i \in 1..(m + 1) /\ r[i] = x
      BY <1>2, <3>1
    <3> QED BY <3>2
  <2> QED BY <2>1, <2>2
<1>6. S \in SUBSET Nat /\ T \in SUBSET Nat /\ m + 1 \in Nat
  OBVIOUS
<1> HIDE DEF r, T
<1>7. Ascending(S) = q
  BY <1>1, <1>6, AscendingIs
<1>8. Ascending(T) = r
  BY <1>3, <1>4, <1>5, <1>6, AscendingIs
<1>9. Len(q) = m /\ Len(r) = m + 1
  BY <1>3, <1>6
<1>10. Listed(S, v) = [i \in 1..m |-> v[q[i]]] /\ Listed(T, v) = [i \in 1..(m + 1) |-> v[r[i]]]
  BY <1>7, <1>8, <1>9 DEF Listed
<1> DEFINE a == [i \in 1..m |-> v[q[i]]]
           b == [i \in 1..(m + 1) |-> v[r[i]]]
<1>11. b = Append(a, v[k + 1])
  <2>1. b[m + 1] = v[k + 1]
    BY <1>2
  <2>2. \A i \in 1..m : b[i] = a[i]
    BY <1>2
  <2>3. Len(a) = m /\ Append(a, v[k + 1]) = [i \in 1..(Len(a) + 1) |-> IF i = Len(a) + 1 THEN v[k + 1] ELSE a[i]]
    OBVIOUS
  <2>4. b = [i \in 1..(m + 1) |-> b[i]] /\ \A i \in 1..(m + 1) : i # m + 1 => i \in 1..m
    OBVIOUS
  <2> HIDE DEF a, b
  <2> QED BY <2>1, <2>2, <2>3, <2>4
<1> QED BY <1>10, <1>11 DEF T

\* Only what is at the positions matters.
LEMMA ListedSame ==
  ASSUME NEW n \in Nat, NEW S \in SUBSET (1..n), NEW v, NEW w, \A x \in S : v[x] = w[x]
  PROVE  Listed(S, v) = Listed(S, w)
<1>0. PICK m \in Nat : \E q \in [1..m -> S] : Increases(q) /\ \A x \in S : \E i \in 1..m : q[i] = x
  BY AscendingExists
<1>1. PICK q \in [1..m -> S] : Increases(q) /\ \A x \in S : \E i \in 1..m : q[i] = x
  BY <1>0
<1>2. S \in SUBSET Nat
  OBVIOUS
<1>3. Ascending(S) = q /\ Len(q) = m
  BY <1>1, <1>2, AscendingIs
<1> QED BY <1>3 DEF Listed

-----------------------------------------------------------------------------
(* The three scanners, character by character.                             *)

Modes == {None} \cup Quotes
Readings == [quote : Modes, escaped : BOOLEAN, next : Modes]

\* How a shell goes on.
ReadingStep(c, e, before, i) ==
  LET quote == before.next
      escaped == /\ e /\ i > 1 /\ c[i - 1] = "backslash" /\ ~before.escaped
                 /\ quote = None \/ (quote = "double" /\ c[i] \in Escaped)
  IN [quote |-> quote, escaped |-> escaped,
      next |-> CASE ~escaped /\ quote = None /\ c[i] \in Quotes -> c[i]
                 [] ~escaped /\ quote = c[i] -> None
                 [] OTHER -> quote]

\* The reading of a command has an entry for every position.
LEMMA ReadingTable ==
  ASSUME NEW c \in Seq(Characters), NEW e \in BOOLEAN
  PROVE  LET at == Reading(c, e) IN
         /\ at \in [0..Len(c) -> Readings]
         /\ at[0] = [quote |-> None, escaped |-> FALSE, next |-> None]
         /\ \A i \in 1..Len(c) : at[i] = ReadingStep(c, e, at[i - 1], i)
<1> DEFINE n == Len(c)
           start == [quote |-> None, escaped |-> FALSE, next |-> None]
           step == [i \in 1..n |-> [s \in Readings |-> ReadingStep(c, e, s, i)]]
           Holds(f) == f = [i \in 0..n |-> IF i = 0 THEN start ELSE ReadingStep(c, e, f[i - 1], i)]
           table == CHOOSE f : Holds(f)
<1>1. n \in Nat /\ start \in Readings
  BY DEF Readings, Modes
<1>2. ASSUME NEW i \in 1..n, NEW s \in Readings PROVE ReadingStep(c, e, s, i) \in Readings
  <2> DEFINE escaped == /\ e /\ i > 1 /\ c[i - 1] = "backslash" /\ ~s.escaped
                        /\ s.next = None \/ (s.next = "double" /\ c[i] \in Escaped)
             next == CASE ~escaped /\ s.next = None /\ c[i] \in Quotes -> c[i]
                       [] ~escaped /\ s.next = c[i] -> None
                       [] OTHER -> s.next
  <2>1. escaped \in BOOLEAN /\ s.next \in Modes
    BY DEF Readings
  <2>2. next \in Modes
    <3> HIDE DEF escaped
    <3> QED BY <2>1 DEF Modes
  <2>3. ReadingStep(c, e, s, i) = [quote |-> s.next, escaped |-> escaped, next |-> next]
    BY DEF ReadingStep
  <2> HIDE DEF escaped, next
  <2> QED BY <2>1, <2>2, <2>3 DEF Readings
<1>3. step \in [1..n -> [Readings -> Readings]]
  BY <1>2
<1>4. \E f : Holds(f)
  <2> HIDE DEF step, start
  <2>0. PICK f : IsTable(f, n, Readings, start, step)
    <3>1. step \in StepsOn(n, Readings)
      BY <1>3 DEF StepsOn
    <3> QED BY <1>1, <3>1, TableExists
  <2>1. f \in [0..n -> Readings] /\ f[0] = start /\ \A i \in 1..n : f[i] = step[i][f[i - 1]]
    BY <2>0 DEF IsTable
  <2>2. ASSUME NEW i \in 1..n PROVE f[i] = ReadingStep(c, e, f[i - 1], i)
    <3>1. i - 1 \in 0..n
      BY <1>1
    <3>2. f[i - 1] \in Readings
      BY <2>1, <3>1
    <3> QED BY <2>1, <3>2 DEF step
  <2>3. \A i \in 0..n : f[i] = IF i = 0 THEN start ELSE ReadingStep(c, e, f[i - 1], i)
    <3>1. \A i \in 0..n : i # 0 => i \in 1..n
      BY <1>1
    <3> QED BY <2>1, <2>2, <3>1
  <2>4. Holds(f)
    BY <2>1, <2>3
  <2> QED BY <2>4
<1>5. Holds(table)
  <2> HIDE DEF Holds
  <2> QED BY <1>4
<1>6. Reading(c, e) = table
  BY DEF Reading, ReadingStep
<1> HIDE DEF table
<1>7. table[0] = start /\ \A i \in 1..n : table[i] = ReadingStep(c, e, table[i - 1], i)
  <2> HIDE DEF start
  <2> QED BY <1>1, <1>5
<1>8. \A i \in 0..n : table[i] \in Readings
  <2> DEFINE G == {i \in 0..n : table[i] \in Readings}
  <2>1. 0 \in G
    BY <1>1, <1>7
  <2>2. ASSUME NEW i \in 0..(n - 1), i \in G PROVE i + 1 \in G
    <3>1. i + 1 \in 1..n /\ (i + 1) - 1 = i
      BY <1>1
    <3>2. table[i + 1] = ReadingStep(c, e, table[i], i + 1)
      BY <1>7, <3>1
    <3>3. table[i] \in Readings
      BY <2>2
    <3> QED BY <1>1, <1>2, <3>1, <3>2, <3>3
  <2>3. 0..n \subseteq G
    <3> HIDE DEF G
    <3> QED BY <1>1, <2>1, <2>2, TableInduction
  <2> QED BY <2>3
<1>9. table \in [0..n -> Readings]
  <2>1. DOMAIN table = 0..n /\ table = [i \in 0..n |-> table[i]]
    BY <1>5
  <2> HIDE DEF Holds
  <2> QED BY <1>8, <2>1
<1> QED BY <1>6, <1>7, <1>9

Scans == [quote : Modes, skip : BOOLEAN, found : {None} \cup Characters]
Lexes ==
  [mode : Modes \cup {"word"}, escaping : BOOLEAN, word : Seq(Characters), quoted : BOOLEAN,
   words : Seq(Seq(Characters))]

\* first_metacharacter looks at one character after the other.
LEMMA ScanTable ==
  ASSUME NEW c \in Seq(Characters), NEW e \in BOOLEAN
  PROVE  \E f \in [0..Len(c) -> Scans] :
           /\ f[0] = [quote |-> None, skip |-> FALSE, found |-> None]
           /\ \A i \in 1..Len(c) : f[i] = Scan(c, e, f[i - 1], i)
           /\ FirstMetacharacter(c, e) = f[Len(c)].found
<1> DEFINE n == Len(c)
           start == [quote |-> None, skip |-> FALSE, found |-> None]
           step == [i \in 1..n |-> [s \in Scans |-> Scan(c, e, s, i)]]
           Holds(f) == f = [i \in 0..n |-> IF i = 0 THEN start ELSE Scan(c, e, f[i - 1], i)]
           table == CHOOSE f : Holds(f)
<1>1. n \in Nat /\ start \in Scans
  BY DEF Scans, Modes
<1>2. ASSUME NEW i \in 1..n, NEW s \in Scans PROVE Scan(c, e, s, i) \in Scans
  <2>1. c[i] \in Characters /\ None \notin Characters
    BY DEF Characters, None
  <2>2. /\ [s EXCEPT !.skip = FALSE] \in Scans /\ [s EXCEPT !.skip = TRUE] \in Scans
        /\ [s EXCEPT !.found = c[i]] \in Scans /\ [s EXCEPT !.quote = None] \in Scans
        /\ c[i] \in Quotes => [s EXCEPT !.quote = c[i]] \in Scans
    BY <2>1 DEF Scans, Modes
  <2> QED BY <2>2 DEF Scan
<1>3. step \in StepsOn(n, Scans)
  BY <1>2 DEF StepsOn
<1>4. \E f : Holds(f)
  <2> HIDE DEF step, start
  <2>1. PICK f : IsTable(f, n, Scans, start, step)
    BY <1>1, <1>3, TableExists
  <2>2. f \in [0..n -> Scans] /\ f[0] = start /\ \A i \in 1..n : f[i] = step[i][f[i - 1]]
    BY <2>1 DEF IsTable
  <2>3. ASSUME NEW i \in 1..n PROVE f[i] = Scan(c, e, f[i - 1], i)
    <3>1. i - 1 \in 0..n
      BY <1>1
    <3>2. f[i - 1] \in Scans
      BY <2>2, <3>1
    <3> QED BY <2>2, <3>2 DEF step
  <2>4. \A i \in 0..n : f[i] = IF i = 0 THEN start ELSE Scan(c, e, f[i - 1], i)
    <3>1. \A i \in 0..n : i # 0 => i \in 1..n
      BY <1>1
    <3> QED BY <2>2, <2>3, <3>1
  <2>5. Holds(f)
    BY <2>2, <2>4
  <2> QED BY <2>5
<1>5. Holds(table)
  <2> HIDE DEF Holds
  <2> QED BY <1>4
<1>6. FirstMetacharacter(c, e) = table[n].found
  BY DEF FirstMetacharacter
<1> HIDE DEF table
<1>7. table[0] = start /\ \A i \in 1..n : table[i] = Scan(c, e, table[i - 1], i)
  <2> HIDE DEF start
  <2> QED BY <1>1, <1>5
<1>8. \A i \in 0..n : table[i] \in Scans
  <2> DEFINE G == {i \in 0..n : table[i] \in Scans}
  <2>1. 0 \in G
    BY <1>1, <1>7
  <2>2. ASSUME NEW i \in 0..(n - 1), i \in G PROVE i + 1 \in G
    <3>1. i + 1 \in 1..n /\ (i + 1) - 1 = i
      BY <1>1
    <3>2. table[i + 1] = Scan(c, e, table[i], i + 1)
      BY <1>7, <3>1
    <3>3. table[i] \in Scans
      BY <2>2
    <3> QED BY <1>1, <1>2, <3>1, <3>2, <3>3
  <2>3. 0..n \subseteq G
    <3> HIDE DEF G
    <3> QED BY <1>1, <2>1, <2>2, TableInduction
  <2> QED BY <2>3
<1>9. table \in [0..n -> Scans]
  <2>1. DOMAIN table = 0..n /\ table = [i \in 0..n |-> table[i]]
    BY <1>5
  <2> HIDE DEF Holds
  <2> QED BY <1>8, <2>1
<1> QED BY <1>6, <1>7, <1>9

\* The lexer reads one character after the other.
LEMMA LexTable ==
  ASSUME NEW c \in Seq(Characters), NEW e \in BOOLEAN
  PROVE  \E f \in [0..Len(c) -> Lexes] :
           /\ f[0] = [mode |-> None, escaping |-> FALSE, word |-> <<>>, quoted |-> FALSE, words |-> <<>>]
           /\ \A i \in 1..Len(c) : f[i] = Read(e, f[i - 1], c[i])
           /\ Lexed(c, e) = [ok |-> ~f[Len(c)].escaping /\ f[Len(c)].mode \notin Quotes,
                             words |-> Close(f[Len(c)]).words]
<1> DEFINE n == Len(c)
           start == [mode |-> None, escaping |-> FALSE, word |-> <<>>, quoted |-> FALSE, words |-> <<>>]
           step == [i \in 1..n |-> [s \in Lexes |-> Read(e, s, c[i])]]
           Holds(f) == f = [i \in 0..n |-> IF i = 0 THEN start ELSE Read(e, f[i - 1], c[i])]
           table == CHOOSE f : Holds(f)
<1>1. n \in Nat /\ start \in Lexes
  BY DEF Lexes, Modes
<1>2. ASSUME NEW i \in 1..n, NEW s \in Lexes PROVE Read(e, s, c[i]) \in Lexes
  <2>1. c[i] \in Characters
    OBVIOUS
  <2> HIDE DEF n, start, step, Holds, table
  <2>2. /\ s.mode \in Modes \cup {"word"} /\ s.escaping \in BOOLEAN /\ s.quoted \in BOOLEAN
        /\ s.word \in Seq(Characters) /\ s.words \in Seq(Seq(Characters))
    BY DEF Lexes
  <2>3. ASSUME NEW chars \in Seq(Characters)
        PROVE  Add(s, chars) \in Lexes /\ [Add(s, chars) EXCEPT !.mode = "word"] \in Lexes
    <3>1. s.word \o chars \in Seq(Characters)
      BY <2>2
    <3> QED BY <3>1 DEF Add, Lexes
  <2>4. Close(s) \in Lexes
    <3>1. Append(s.words, s.word) \in Seq(Seq(Characters)) /\ <<>> \in Seq(Characters)
      BY <2>2
    <3>2. [s EXCEPT !.mode = None, !.word = <<>>, !.quoted = FALSE, !.words = Append(@, s.word)] \in Lexes
      BY <3>1 DEF Lexes, Modes
    <3>3. [s EXCEPT !.mode = None] \in Lexes
      BY DEF Lexes, Modes
    <3> QED BY <3>2, <3>3 DEF Close
  <2>5. <<c[i]>> \in Seq(Characters) /\ <<"backslash", c[i]>> \in Seq(Characters)
    BY <2>1 DEF Characters
  <2>6. /\ [s EXCEPT !.mode = "word", !.quoted = TRUE] \in Lexes
        /\ [s EXCEPT !.escaping = TRUE] \in Lexes
        /\ [s EXCEPT !.mode = "word", !.escaping = TRUE] \in Lexes
        /\ c[i] \in Quotes => [s EXCEPT !.mode = c[i]] \in Lexes
    BY DEF Lexes, Modes
  <2>7. /\ Add(s, <<c[i]>>) \in Lexes /\ Add(s, <<"backslash", c[i]>>) \in Lexes
        /\ [Add(s, <<c[i]>>) EXCEPT !.mode = "word"] \in Lexes
    BY <2>3, <2>5
  <2> QED BY <2>4, <2>6, <2>7 DEF Read
<1>3. step \in StepsOn(n, Lexes)
  BY <1>2 DEF StepsOn
<1>4. \E f : Holds(f)
  <2> HIDE DEF step, start
  <2>1. PICK f : IsTable(f, n, Lexes, start, step)
    BY <1>1, <1>3, TableExists
  <2>2. f \in [0..n -> Lexes] /\ f[0] = start /\ \A i \in 1..n : f[i] = step[i][f[i - 1]]
    BY <2>1 DEF IsTable
  <2>3. ASSUME NEW i \in 1..n PROVE f[i] = Read(e, f[i - 1], c[i])
    <3>1. i - 1 \in 0..n
      BY <1>1
    <3>2. f[i - 1] \in Lexes
      BY <2>2, <3>1
    <3> QED BY <2>2, <3>2 DEF step
  <2>4. \A i \in 0..n : f[i] = IF i = 0 THEN start ELSE Read(e, f[i - 1], c[i])
    <3>1. \A i \in 0..n : i # 0 => i \in 1..n
      BY <1>1
    <3> QED BY <2>2, <2>3, <3>1
  <2>5. Holds(f)
    BY <2>2, <2>4
  <2> QED BY <2>5
<1>5. Holds(table)
  <2> HIDE DEF Holds
  <2> QED BY <1>4
<1>6. Lexed(c, e) = [ok |-> ~table[n].escaping /\ table[n].mode \notin Quotes, words |-> Close(table[n]).words]
  BY DEF Lexed
<1> HIDE DEF table
<1>7. table[0] = start /\ \A i \in 1..n : table[i] = Read(e, table[i - 1], c[i])
  <2> HIDE DEF start
  <2> QED BY <1>1, <1>5
<1>8. \A i \in 0..n : table[i] \in Lexes
  <2> DEFINE G == {i \in 0..n : table[i] \in Lexes}
  <2>1. 0 \in G
    BY <1>1, <1>7
  <2>2. ASSUME NEW i \in 0..(n - 1), i \in G PROVE i + 1 \in G
    <3>1. i + 1 \in 1..n /\ (i + 1) - 1 = i
      BY <1>1
    <3>2. table[i + 1] = Read(e, table[i], c[i + 1])
      BY <1>7, <3>1
    <3>3. table[i] \in Lexes
      BY <2>2
    <3> QED BY <1>1, <1>2, <3>1, <3>2, <3>3
  <2>3. 0..n \subseteq G
    <3> HIDE DEF G
    <3> QED BY <1>1, <2>1, <2>2, TableInduction
  <2> QED BY <2>3
<1>9. table \in [0..n -> Lexes]
  <2>1. DOMAIN table = 0..n /\ table = [i \in 0..n |-> table[i]]
    BY <1>5
  <2> HIDE DEF Holds
  <2> QED BY <1>8, <2>1
<1> QED BY <1>6, <1>7, <1>9

-----------------------------------------------------------------------------
(* A command without metacharacters is read alike by all three.            *)

\* Whether the character after i is one that a backslash at i escapes, when
\* only unquoted backslashes do.
Escapes(c, e, at, i) ==
  i > 0 /\ e /\ c[i] = "backslash" /\ ~at[i].escaped /\ at[i].next = None

\* What the reading says of a position, by the one before it.
Follows(c, e, at, i) ==
  /\ at[i].quote = at[i - 1].next
  /\ at[i].escaped = (/\ e /\ i > 1 /\ c[i - 1] = "backslash" /\ ~at[i - 1].escaped
                      /\ at[i].quote = None \/ (at[i].quote = "double" /\ c[i] \in Escaped))
  /\ at[i].next = CASE ~at[i].escaped /\ at[i].quote = None /\ c[i] \in Quotes -> c[i]
                    [] ~at[i].escaped /\ at[i].quote = c[i] -> None
                    [] OTHER -> at[i].quote

LEMMA ReadingFollows ==
  ASSUME NEW c \in Seq(Characters), NEW e \in BOOLEAN
  PROVE  LET at == Reading(c, e) IN
         /\ at \in [0..Len(c) -> Readings]
         /\ at[0] = [quote |-> None, escaped |-> FALSE, next |-> None]
         /\ \A i \in 1..Len(c) : Follows(c, e, at, i)
<1> DEFINE n == Len(c)
           at == Reading(c, e)
<1>1. /\ at \in [0..n -> Readings]
      /\ at[0] = [quote |-> None, escaped |-> FALSE, next |-> None]
      /\ \A i \in 1..n : at[i] = ReadingStep(c, e, at[i - 1], i)
  BY ReadingTable
<1> HIDE DEF at, n
<1>2. ASSUME NEW i \in 1..n PROVE Follows(c, e, at, i)
  <2> DEFINE before == at[i - 1]
             r == at[i]
             quote == before.next
             escaped == /\ e /\ i > 1 /\ c[i - 1] = "backslash" /\ ~before.escaped
                        /\ quote = None \/ (quote = "double" /\ c[i] \in Escaped)
             next == CASE ~escaped /\ quote = None /\ c[i] \in Quotes -> c[i]
                       [] ~escaped /\ quote = c[i] -> None
                       [] OTHER -> quote
  <2>1. r = [quote |-> quote, escaped |-> escaped, next |-> next]
    <3>1. r = ReadingStep(c, e, before, i)
      BY <1>1
    <3> HIDE DEF r, before
    <3> QED BY <3>1 DEF ReadingStep
  <2>2. r.quote = quote /\ r.escaped = escaped /\ r.next = next
    <3> HIDE DEF r, quote, escaped, next
    <3> QED BY <2>1
  <2> QED BY <2>2 DEF Follows
<1> QED BY <1>1, <1>2 DEF at, n

\* first_metacharacter finds nothing: no character acts, and no backslash stands
\* in double quotes.
LEMMA NothingFound ==
  ASSUME NEW c \in Seq(Characters), NEW e \in BOOLEAN, FirstMetacharacter(c, e) = None
  PROVE  LET at == Reading(c, e) IN
         \A i \in 1..Len(c) :
           /\ at[i].escaped => at[i].quote = None
           /\ ~at[i].escaped /\ at[i].quote = "double" /\ e => c[i] # "backslash"
           /\ ~Acts(c, at, i)
           /\ i < Len(c) => (at[i + 1].escaped <=> Escapes(c, e, at, i))
<1> DEFINE n == Len(c)
           at == Reading(c, e)
<1>1. PICK f \in [0..n -> Scans] :
        /\ f[0] = [quote |-> None, skip |-> FALSE, found |-> None]
        /\ \A i \in 1..n : f[i] = Scan(c, e, f[i - 1], i)
        /\ FirstMetacharacter(c, e) = f[n].found
  BY ScanTable
<1>2. /\ at \in [0..n -> Readings]
      /\ at[0] = [quote |-> None, escaped |-> FALSE, next |-> None]
      /\ \A i \in 1..n : Follows(c, e, at, i)
  BY ReadingFollows
<1>3. n \in Nat
  OBVIOUS
<1> HIDE DEF at, n
<1>4. ASSUME NEW i \in 0..n PROVE f[i] \in Scans /\ at[i] \in Readings
  BY <1>1, <1>2
<1>5. ASSUME NEW i \in 0..(n - 1)
      PROVE  /\ i \in 0..n /\ i + 1 \in 1..n /\ i + 1 \in 0..n /\ (i + 1) - 1 = i
             /\ f[i + 1] = Scan(c, e, f[i], i + 1) /\ Follows(c, e, at, i + 1)
             /\ c[i + 1] \in Characters
  <2>1. i \in 0..n /\ i + 1 \in 1..n /\ i + 1 \in 0..n /\ (i + 1) - 1 = i
    BY <1>3
  <2>2. c[i + 1] \in Characters
    BY <2>1 DEF n
  <2> QED BY <1>1, <1>2, <2>1, <2>2
<1>6. \A i \in 0..n : f[i].found = None
  <2> DEFINE G == {i \in 0..n : f[n - i].found = None}
  <2>1. 0 \in G
    BY <1>1, <1>3
  <2>2. ASSUME NEW i \in 0..(n - 1), i \in G PROVE i + 1 \in G
    <3> DEFINE k == n - (i + 1)
    <3>1. k \in 0..(n - 1) /\ k + 1 = n - i /\ i + 1 \in 0..n
      BY <1>3
    <3>2. f[k + 1] = Scan(c, e, f[k], k + 1) /\ f[k + 1].found = None
      BY <1>5, <2>2, <3>1
    <3>3. f[k].found # None => f[k + 1] = f[k]
      BY <3>2 DEF Scan
    <3> QED BY <3>1, <3>2, <3>3
  <2>3. 0..n \subseteq G
    <3> HIDE DEF G
    <3> QED BY <1>3, <2>1, <2>2, TableInduction
  <2>4. ASSUME NEW i \in 0..n PROVE f[i].found = None
    <3>1. n - i \in 0..n /\ n - (n - i) = i
      BY <1>3
    <3>2. n - i \in G
      <4> HIDE DEF G
      <4> QED BY <2>3, <3>1
    <3> QED BY <3>1, <3>2
  <2> QED BY <2>4
<1>7. ASSUME NEW i \in 1..n PROVE c[i] \in Characters /\ c[i] # None
  <2>1. c[i] \in Characters
    BY DEF n
  <2> QED BY <2>1 DEF Characters, None
<1> DEFINE Agrees(i) ==
             /\ f[i].quote = at[i].next
             /\ f[i].skip => f[i].quote = None
             /\ f[i].skip <=> (i < n /\ Escapes(c, e, at, i))
             /\ i < n => (f[i].skip <=> at[i + 1].escaped)
<1>8. Agrees(0)
  <2>0. f[0].quote = None /\ ~f[0].skip
    BY <1>1
  <2>1. at[0].next = None /\ ~Escapes(c, e, at, 0)
    <3>1. at[0].next = None
      BY <1>2
    <3> QED BY <3>1 DEF Escapes
  <2>2. 0 < n => ~at[1].escaped
    <3> SUFFICES ASSUME 0 < n PROVE ~at[1].escaped
      OBVIOUS
    <3>1. 0 \in 0..(n - 1) /\ 0 + 1 = 1 /\ ~(1 > 1)
      BY <1>3
    <3>2. Follows(c, e, at, 1)
      BY <1>5, <3>1
    <3> QED BY <3>1, <3>2 DEF Follows
  <2> QED BY <2>0, <2>1, <2>2
<1>9. ASSUME NEW i \in 0..(n - 1), Agrees(i)
      PROVE  /\ Agrees(i + 1)
             /\ at[i + 1].escaped => at[i + 1].quote = None
             /\ ~at[i + 1].escaped /\ at[i + 1].quote = "double" /\ e => c[i + 1] # "backslash"
             /\ ~Acts(c, at, i + 1)
  <2> DEFINE q == f[i].quote
             ch == c[i + 1]
             esc == f[i].skip
  <2>1. q \in Modes /\ ch \in Characters /\ esc \in BOOLEAN /\ f[i] \in Scans /\ f[i].quote = q /\ f[i].skip = esc
    BY <1>4, <1>5 DEF Scans
  <2>2. f[i].found = None /\ f[i + 1].found = None
    BY <1>5, <1>6
  <2>3. i < n
    BY <1>3
  <2>4. at[i + 1].quote = q /\ at[i + 1].escaped = esc
    <3>1. at[i + 1].quote = at[i].next
      BY <1>5 DEF Follows
    <3>2. at[i + 1].escaped \in BOOLEAN
      BY <1>4, <1>5 DEF Readings
    <3> QED BY <1>9, <2>1, <2>3, <3>1, <3>2
  <2>5. at[i + 1].next = CASE ~esc /\ q = None /\ ch \in Quotes -> ch
                           [] ~esc /\ q = ch -> None
                           [] OTHER -> q
    <3>1. Follows(c, e, at, i + 1)
      BY <1>5
    <3> HIDE DEF q, ch, esc
    <3> QED BY <2>4, <3>1 DEF Follows, ch
  <2>6. f[i + 1] = CASE esc -> [f[i] EXCEPT !.skip = FALSE]
             [] ~esc -> (CASE e /\ ch = "backslash" /\ q = "double" -> [f[i] EXCEPT !.found = ch]
                           [] e /\ ch = "backslash" /\ q = None /\ i + 1 < n -> [f[i] EXCEPT !.skip = TRUE]
                           [] q = None /\ ch \in Quotes -> [f[i] EXCEPT !.quote = ch]
                           [] q = ch -> [f[i] EXCEPT !.quote = None]
                           [] ch \in Significant(q) -> [f[i] EXCEPT !.found = ch]
                           [] OTHER -> f[i])
    BY <1>5, <2>1, <2>2 DEF Scan, n
  <2>7. i + 1 < n /\ e /\ c[i + 1] = "backslash" /\ ~at[i + 1].escaped /\ at[i + 1].next = None
        => at[i + 2].escaped
    <3> SUFFICES ASSUME i + 1 < n, e, c[i + 1] = "backslash", ~at[i + 1].escaped, at[i + 1].next = None
                 PROVE  at[i + 2].escaped
      OBVIOUS
    <3>1. i + 1 \in 0..(n - 1) /\ (i + 1) + 1 = i + 2 /\ (i + 2) - 1 = i + 1 /\ i + 2 > 1
      BY <1>3
    <3>2. Follows(c, e, at, i + 2)
      BY <1>5, <3>1
    <3> QED BY <3>1, <3>2 DEF Follows
  <2>8. i + 1 < n /\ at[i + 2].escaped =>
          e /\ c[i + 1] = "backslash" /\ ~at[i + 1].escaped /\ at[i + 1].next \in {None, "double"}
    <3> SUFFICES ASSUME i + 1 < n, at[i + 2].escaped
                 PROVE  e /\ c[i + 1] = "backslash" /\ ~at[i + 1].escaped /\ at[i + 1].next \in {None, "double"}
      OBVIOUS
    <3>1. i + 1 \in 0..(n - 1) /\ (i + 1) + 1 = i + 2 /\ (i + 2) - 1 = i + 1
      BY <1>3
    <3>2. Follows(c, e, at, i + 2)
      BY <1>5, <3>1
    <3> QED BY <3>1, <3>2 DEF Follows
  <2>9. i + 1 > 0 /\ (i + 1) + 1 = i + 2
    BY <1>3
  <2>10. f[i + 1].skip \in BOOLEAN
    BY <1>4, <1>5 DEF Scans
  <2> HIDE DEF q, ch, esc
  <2> HIDE DEF Agrees
  <2>11. ~esc /\ e /\ ch = "backslash" => q # "double"
    BY <2>1, <2>2, <2>6 DEF Scans, None
  <2>12. f[i + 1].quote = at[i + 1].next
    <3>1. CASE esc
      <4>1. f[i + 1] = [f[i] EXCEPT !.skip = FALSE]
        BY <2>6, <3>1
      <4>2. at[i + 1].next = q
        BY <2>5, <3>1
      <4> QED BY <2>1, <4>1, <4>2 DEF Scans
    <3>2. CASE ~esc /\ q = None /\ ch \in Quotes
      <4>1. f[i + 1] = [f[i] EXCEPT !.quote = ch]
        BY <2>1, <2>6, <3>2 DEF Quotes, Characters, None, Significant, Metacharacters
      <4> QED BY <2>1, <2>5, <3>2, <4>1 DEF Scans
    <3>3. CASE ~esc /\ q = ch
      <4>1. q # None /\ ch # "backslash" /\ ch \in Quotes
        BY <2>1, <3>3 DEF Modes, Quotes, Characters, None
      <4>2. f[i + 1] = [f[i] EXCEPT !.quote = None]
        BY <2>1, <2>6, <3>3, <4>1 DEF Modes, Quotes, Characters, None, Significant, ExpandInDoubleQuotes
      <4> QED BY <2>1, <2>5, <3>3, <4>1, <4>2 DEF Scans
    <3>4. CASE ~esc /\ q # ch /\ ~(q = None /\ ch \in Quotes)
      <4>1. f[i + 1] = f[i] \/ f[i + 1] = [f[i] EXCEPT !.found = ch] \/ f[i + 1] = [f[i] EXCEPT !.skip = TRUE]
        BY <2>6, <3>4
      <4>2. f[i + 1].quote = q
        BY <2>1, <4>1 DEF Scans
      <4>3. at[i + 1].next = q
        BY <2>5, <3>4
      <4> QED BY <4>2, <4>3
    <3> QED BY <3>1, <3>2, <3>3, <3>4
  <2>13. f[i + 1].skip <=> ~esc /\ e /\ ch = "backslash" /\ q = None /\ i + 1 < n
    BY <2>1, <2>2, <2>5, <2>6, <2>11 DEF Scans, Modes, Quotes, Characters, None
  <2>14. e /\ ch = "backslash" /\ ~esc /\ q = None => at[i + 1].next = None
    BY <2>5 DEF Quotes, None
  <2>15. e /\ ch = "backslash" /\ ~esc /\ q # None => at[i + 1].next = "single"
    BY <2>1, <2>5, <2>11 DEF Modes, Quotes, None
  <2>16. Escapes(c, e, at, i + 1) <=> e /\ ch = "backslash" /\ ~esc /\ at[i + 1].next = None
    BY <2>4, <2>9 DEF Escapes, ch
  <2>17. Escapes(c, e, at, i + 1) <=> e /\ ch = "backslash" /\ ~esc /\ q = None
    BY <2>14, <2>15, <2>16 DEF None
  <2>18. i + 1 < n => (at[i + 2].escaped <=> e /\ ch = "backslash" /\ ~esc /\ q = None)
    <3>1. i + 1 < n /\ at[i + 2].escaped => e /\ ch = "backslash" /\ ~esc /\ q = None
      BY <2>4, <2>8, <2>15 DEF ch, None
    <3> QED BY <2>4, <2>7, <2>14, <3>1 DEF ch
  <2>19. Agrees(i + 1)
    <3>1. f[i + 1].skip => f[i + 1].quote = None
      BY <2>12, <2>13, <2>14
    <3>2. i + 1 < n => (f[i + 1].skip <=> at[(i + 1) + 1].escaped)
      BY <2>9, <2>13, <2>18
    <3> QED BY <2>9, <2>12, <2>13, <2>17, <3>1, <3>2 DEF Agrees
  <2>20. at[i + 1].escaped => at[i + 1].quote = None
    BY <1>9, <2>4 DEF Agrees, q, esc
  <2>21. ~at[i + 1].escaped /\ at[i + 1].quote = "double" /\ e => c[i + 1] # "backslash"
    BY <2>4, <2>11 DEF ch
  <2>22. ~Acts(c, at, i + 1)
    <3>1. ~esc => ~(q = None /\ ch \in Metacharacters)
      BY <2>1, <2>2, <2>6 DEF Scans, None, Metacharacters, Quotes, Significant
    <3>2. ~esc => ~(q = "double" /\ ch \in ExpandInDoubleQuotes)
      BY <2>1, <2>2, <2>6 DEF Scans, None, ExpandInDoubleQuotes, Quotes, Significant
    <3> QED BY <2>4, <3>1, <3>2 DEF Acts, ch
  <2> QED BY <2>19, <2>20, <2>21, <2>22
<1>10. \A i \in 0..n : Agrees(i)
  <2> DEFINE G == {i \in 0..n : Agrees(i)}
  <2> HIDE DEF Agrees
  <2>1. 0 \in G
    BY <1>3, <1>8
  <2>2. ASSUME NEW i \in 0..(n - 1), i \in G PROVE i + 1 \in G
    BY <1>5, <1>9, <2>2
  <2>3. 0..n \subseteq G
    <3> HIDE DEF G
    <3> QED BY <1>3, <2>1, <2>2, TableInduction
  <2> QED BY <2>3
<1>11. ASSUME NEW i \in 1..n
       PROVE  /\ at[i].escaped => at[i].quote = None
              /\ ~at[i].escaped /\ at[i].quote = "double" /\ e => c[i] # "backslash"
              /\ ~Acts(c, at, i)
              /\ i < n => (at[i + 1].escaped <=> Escapes(c, e, at, i))
  <2>1. i - 1 \in 0..(n - 1) /\ (i - 1) + 1 = i /\ i \in 0..n /\ i - 1 \in 0..n
    BY <1>3
  <2>2. Agrees(i - 1) /\ Agrees(i)
    <3> HIDE DEF Agrees
    <3> QED BY <1>10, <2>1
  <2>3. i < n => (at[i + 1].escaped <=> Escapes(c, e, at, i))
    BY <2>2
  <2>4. /\ at[i].escaped => at[i].quote = None
        /\ ~at[i].escaped /\ at[i].quote = "double" /\ e => c[i] # "backslash"
        /\ ~Acts(c, at, i)
    <3> HIDE DEF Agrees
    <3> QED BY <1>9, <2>1, <2>2
  <2> QED BY <2>3, <2>4
<1> QED BY <1>11 DEF at, n

\* The lexer in a state reads a character that stands in a quote, or that a
\* backslash escapes when the lexer says so.
LEMMA LexerStep ==
  ASSUME NEW e \in BOOLEAN, NEW s \in Lexes, NEW ch \in Characters, NEW q \in Modes, NEW next, NEW t,
         next = CASE ~s.escaping /\ q = None /\ ch \in Quotes -> ch
                  [] ~s.escaping /\ q = ch -> None
                  [] OTHER -> q,
         s.mode \in Quotes => q = s.mode, s.mode \notin Quotes => q = None,
         s.escaping => s.mode = "word",
         e /\ ~s.escaping /\ q = "double" => ch # "backslash",
         s.mode = None => s.word = <<>> /\ ~s.quoted,
         s.mode = "word" /\ ~s.escaping => s.word # <<>> \/ s.quoted,
         t = Read(e, s, ch)
  PROVE  LET breaks == ~s.escaping /\ q = None /\ ch \in Blanks
             escapes == e /\ ch = "backslash" /\ ~s.escaping /\ next = None
         IN /\ IF t.mode \in Quotes THEN next = t.mode ELSE next = None
            /\ t.mode = None <=> breaks
            /\ t.escaping <=> escapes
            /\ t.escaping => t.mode = "word"
            /\ t.mode = None => t.word = <<>> /\ ~t.quoted
            /\ t.mode = "word" /\ ~t.escaping => t.word # <<>> \/ t.quoted
            /\ breaks => s.mode \notin Quotes /\ t = Close(s)
            /\ ~breaks => /\ t.words = s.words
                          /\ t.word = IF ~escapes /\ (s.escaping \/ next = q) THEN Append(s.word, ch) ELSE s.word
<1> DEFINE breaks == ~s.escaping /\ q = None /\ ch \in Blanks
           escapes == e /\ ch = "backslash" /\ ~s.escaping /\ next = None
<1>1. /\ s.mode \in Modes \cup {"word"} /\ s.escaping \in BOOLEAN /\ s.quoted \in BOOLEAN
      /\ s.word \in Seq(Characters)
      /\ s = [mode |-> s.mode, escaping |-> s.escaping, word |-> s.word, quoted |-> s.quoted, words |-> s.words]
  BY DEF Lexes
<1>2. s.word \o <<ch>> = Append(s.word, ch) /\ Append(s.word, ch) # <<>>
  BY <1>1
<1>3. /\ "word" \notin Quotes /\ None \notin Quotes /\ "word" # None /\ None \notin Characters
      /\ Quotes \subseteq Characters /\ "backslash" \notin Quotes /\ "backslash" \notin Blanks
      /\ \A x \in Blanks : x \notin Quotes
  BY DEF Quotes, None, Characters, Blanks
<1> DEFINE Added == Add(s, <<ch>>)
           Begun == [Added EXCEPT !.mode = "word"]
<1>4. /\ Added.mode = s.mode /\ Added.escaping = FALSE /\ Added.word = Append(s.word, ch)
      /\ Added.quoted = s.quoted /\ Added.words = s.words
      /\ Begun.mode = "word" /\ Begun.escaping = FALSE /\ Begun.word = Append(s.word, ch)
      /\ Begun.quoted = s.quoted /\ Begun.words = s.words
  <2>1. Added = [s EXCEPT !.word = Append(s.word, ch), !.escaping = FALSE]
    BY <1>2 DEF Add
  <2>2. /\ Added.mode = s.mode /\ Added.escaping = FALSE /\ Added.word = Append(s.word, ch)
        /\ Added.quoted = s.quoted /\ Added.words = s.words
        /\ DOMAIN Added = {"mode", "escaping", "word", "quoted", "words"}
    BY <2>1 DEF Lexes
  <2> HIDE DEF Added
  <2> QED BY <2>2
<1> HIDE DEF Added, Begun
<1>5. CASE s.escaping
  <2>1. t = Added
    <3>1. t = Add(s, IF s.mode \in Quotes /\ ch \notin {"backslash", s.mode}
                     THEN <<"backslash", ch>> ELSE <<ch>>)
      BY <1>5 DEF Read
    <3> QED BY <1>3, <1>5, <3>1 DEF Added
  <2>2. next = q /\ q = None /\ s.mode = "word"
    BY <1>3, <1>5
  <2> QED BY <1>2, <1>3, <1>4, <1>5, <2>1, <2>2
<1>6. CASE ~s.escaping /\ s.mode \in Quotes
  <2>1. q = s.mode /\ ~breaks
    BY <1>3, <1>6
  <2>2. CASE ch = s.mode
    <3>1. t = [s EXCEPT !.mode = "word", !.quoted = TRUE]
      BY <1>3, <1>6, <2>2 DEF Read
    <3>2. next = None
      BY <1>3, <1>6, <2>1, <2>2
    <3>3. t.mode = "word" /\ t.quoted = TRUE /\ t.word = s.word /\ t.words = s.words /\ ~t.escaping
      BY <1>1, <1>6, <3>1
    <3> QED BY <1>3, <1>6, <2>1, <2>2, <3>2, <3>3
  <2>3. CASE ch # s.mode
    <3>1. ~(ch = "backslash" /\ e /\ s.mode = "double")
      BY <1>6, <2>1
    <3>2. t = Added
      BY <1>6, <2>3, <3>1 DEF Read, Added
    <3>3. next = q /\ q \in Quotes
      BY <1>3, <1>6, <2>1, <2>3
    <3> QED BY <1>2, <1>3, <1>4, <1>6, <2>1, <3>2, <3>3
  <2> QED BY <2>2, <2>3
<1>7. CASE ~s.escaping /\ s.mode \notin Quotes
  <2>1. q = None
    BY <1>7
  <2>2. CASE ch \in Blanks
    <3>1. t = Close(s)
      BY <1>3, <1>7, <2>2 DEF Read
    <3>2. next = None
      BY <1>3, <2>1, <2>2
    <3>3. t.mode = None /\ t.word = <<>> /\ ~t.quoted /\ ~t.escaping
      BY <1>1, <1>7, <3>1 DEF Close
    <3> QED BY <1>3, <1>7, <2>1, <2>2, <3>1, <3>2, <3>3
  <2>3. CASE ch \in Quotes
    <3>1. t = [s EXCEPT !.mode = ch]
      BY <1>3, <1>7, <2>3 DEF Read
    <3>2. next = ch
      BY <1>3, <1>7, <2>1, <2>3
    <3>3. t.mode = ch /\ t.word = s.word /\ t.words = s.words /\ ~t.escaping
      BY <1>1, <1>7, <3>1
    <3> QED BY <1>3, <1>7, <2>1, <2>3, <3>2, <3>3
  <2>4. CASE ch \notin Blanks /\ ch \notin Quotes
    <3>1. next = None
      BY <1>3, <2>1, <2>4
    <3>2. CASE ch = "backslash" /\ e
      <4>1. t = [s EXCEPT !.mode = "word", !.escaping = TRUE]
        BY <1>7, <2>4, <3>2 DEF Read
      <4>2. t.mode = "word" /\ t.word = s.word /\ t.words = s.words /\ t.escaping = TRUE
        BY <1>1, <4>1
      <4> QED BY <1>3, <1>7, <2>1, <2>4, <3>1, <3>2, <4>2
    <3>3. CASE ~(ch = "backslash" /\ e)
      <4>1. t = Begun
        BY <1>7, <2>4, <3>3 DEF Read, Added, Begun
      <4>2. t.mode = "word" /\ t.word = Append(s.word, ch) /\ t.words = s.words /\ t.escaping = FALSE
        BY <1>4, <4>1
      <4> QED BY <1>2, <1>3, <1>7, <2>1, <2>4, <3>1, <3>3, <4>2
    <3> QED BY <3>2, <3>3
  <2> QED BY <2>2, <2>3, <2>4
<1> QED BY <1>1, <1>5, <1>6, <1>7

\* What the state of the lexer after i characters says about the reading.
LexAt(c, e, at, s, i) ==
  /\ IF s.mode \in Quotes THEN at[i].next = s.mode ELSE at[i].next = None
  /\ s.mode = None <=> i = 0 \/ Breaks(c, at, i)
  /\ s.escaping <=> Escapes(c, e, at, i)
  /\ s.escaping => s.mode = "word"
  /\ s.mode = None => s.word = <<>> /\ ~s.quoted
  /\ s.mode = "word" /\ ~s.escaping => s.word # <<>> \/ s.quoted

\* The character is part of the word it stands in.
Keeps(c, e, at, i) == ~Escapes(c, e, at, i) /\ (at[i].escaped \/ at[i].next = at[i].quote)

\* What the lexer makes of the character i.
LexMoves(c, e, at, s, t, i) ==
  /\ Breaks(c, at, i) => s.mode \notin Quotes /\ ~s.escaping /\ t = Close(s)
  /\ ~Breaks(c, at, i) =>
       /\ t.mode # None /\ t.words = s.words
       /\ t.word = IF Keeps(c, e, at, i) THEN Append(s.word, c[i]) ELSE s.word

\* The lexer and the shell read a command without metacharacters alike.
LEMMA LexerReads ==
  ASSUME NEW c \in Seq(Characters), NEW e \in BOOLEAN, FirstMetacharacter(c, e) = None,
         NEW f \in [0..Len(c) -> Lexes],
         f[0] = [mode |-> None, escaping |-> FALSE, word |-> <<>>, quoted |-> FALSE, words |-> <<>>],
         \A i \in 1..Len(c) : f[i] = Read(e, f[i - 1], c[i])
  PROVE  LET at == Reading(c, e) IN
         /\ \A i \in 0..Len(c) : LexAt(c, e, at, f[i], i)
         /\ \A i \in 1..Len(c) : LexMoves(c, e, at, f[i - 1], f[i], i)
<1> DEFINE n == Len(c)
           at == Reading(c, e)
<1>1. /\ at \in [0..n -> Readings]
      /\ at[0] = [quote |-> None, escaped |-> FALSE, next |-> None]
      /\ \A i \in 1..n : Follows(c, e, at, i)
  BY ReadingFollows
<1>2. \A i \in 1..n :
           /\ at[i].escaped => at[i].quote = None
           /\ ~at[i].escaped /\ at[i].quote = "double" /\ e => c[i] # "backslash"
           /\ i < n => (at[i + 1].escaped <=> Escapes(c, e, at, i))
  BY NothingFound
<1>3. n \in Nat
  OBVIOUS
<1> HIDE DEF at, n
<1>4. LexAt(c, e, at, f[0], 0)
  <2>1. at[0].next = None
    BY <1>1
  <2>2. f[0].mode = None /\ f[0].escaping = FALSE /\ f[0].word = <<>> /\ f[0].quoted = FALSE
    OBVIOUS
  <2>3. ~Escapes(c, e, at, 0)
    BY DEF Escapes
  <2> QED BY <2>1, <2>2, <2>3 DEF LexAt, Quotes, None
<1>5. ASSUME NEW i \in 0..(n - 1), LexAt(c, e, at, f[i], i)
      PROVE  LexAt(c, e, at, f[i + 1], i + 1) /\ LexMoves(c, e, at, f[i], f[i + 1], i + 1)
  <2> DEFINE k == i + 1
             s == f[i]
             t == f[k]
             q == at[k].quote
             ch == c[k]
             next == at[k].next
  <2>1. k \in 1..n /\ k - 1 = i /\ k \in 0..n /\ i \in 0..n
    BY <1>3
  <2>2. s \in Lexes /\ ch \in Characters /\ at[k] \in Readings
    BY <1>1, <2>1 DEF n
  <2>3. t = Read(e, s, ch)
    BY <2>1 DEF n
  <2>4. Follows(c, e, at, k) /\ at[k].quote = at[i].next
    <3>1. Follows(c, e, at, k)
      BY <1>1, <2>1
    <3> QED BY <2>1, <3>1 DEF Follows
  <2>5. at[k].escaped <=> s.escaping
    <3>1. CASE i = 0
      <4>1. ~(k > 1)
        BY <2>1, <3>1
      <4>2. ~at[k].escaped
        BY <2>4, <4>1 DEF Follows
      <4>3. ~Escapes(c, e, at, i)
        BY <3>1 DEF Escapes
      <4> QED BY <1>5, <4>2, <4>3 DEF LexAt
    <3>2. CASE i # 0
      <4>1. i \in 1..n /\ i < n
        BY <1>3, <3>2
      <4> QED BY <1>2, <1>5, <4>1 DEF LexAt
    <3> QED BY <3>1, <3>2
  <2>6. at[k].escaped \in BOOLEAN /\ s.escaping \in BOOLEAN /\ q \in Modes
    BY <2>2 DEF Readings, Lexes
  <2>7. at[k].escaped = s.escaping
    BY <2>5, <2>6
  <2>8. next = CASE ~s.escaping /\ q = None /\ ch \in Quotes -> ch
                 [] ~s.escaping /\ q = ch -> None
                 [] OTHER -> q
    BY <2>4, <2>7 DEF Follows
  <2>9. IF s.mode \in Quotes THEN q = s.mode ELSE q = None
    BY <1>5, <2>4 DEF LexAt
  <2>10. e /\ ~s.escaping /\ q = "double" => ch # "backslash"
    BY <1>2, <2>1, <2>5
  <2>11. /\ s.escaping => s.mode = "word"
         /\ s.mode = None => s.word = <<>> /\ ~s.quoted
         /\ s.mode = "word" /\ ~s.escaping => s.word # <<>> \/ s.quoted
    BY <1>5 DEF LexAt
  <2> DEFINE breaks == ~s.escaping /\ q = None /\ ch \in Blanks
             escapes == e /\ ch = "backslash" /\ ~s.escaping /\ next = None
  <2>12. /\ IF t.mode \in Quotes THEN next = t.mode ELSE next = None
         /\ t.mode = None <=> breaks
         /\ t.escaping <=> escapes
         /\ t.escaping => t.mode = "word"
         /\ t.mode = None => t.word = <<>> /\ ~t.quoted
         /\ t.mode = "word" /\ ~t.escaping => t.word # <<>> \/ t.quoted
         /\ breaks => s.mode \notin Quotes /\ t = Close(s)
         /\ ~breaks => /\ t.words = s.words
                       /\ t.word = IF ~escapes /\ (s.escaping \/ next = q) THEN Append(s.word, ch) ELSE s.word
    <3> HIDE DEF s, t, q, ch, next
    <3> QED BY <2>2, <2>3, <2>6, <2>8, <2>9, <2>10, <2>11, LexerStep
  <2>13. breaks <=> Breaks(c, at, k)
    BY <2>5 DEF Breaks
  <2>14. escapes <=> Escapes(c, e, at, k)
    <3>1. k > 0
      BY <1>3
    <3> QED BY <2>5, <3>1 DEF Escapes
  <2>15. ~escapes /\ (s.escaping \/ next = q) <=> Keeps(c, e, at, k)
    BY <2>5, <2>14 DEF Keeps
  <2>16. k # 0
    BY <1>3
  <2> HIDE DEF s, t, breaks, escapes
  <2>17. LexAt(c, e, at, t, k)
    BY <2>12, <2>13, <2>14, <2>16 DEF LexAt
  <2>18. LexMoves(c, e, at, s, t, k)
    <3>1. Breaks(c, at, k) => ~s.escaping
      BY <2>5 DEF Breaks
    <3> QED BY <2>12, <2>13, <2>15, <3>1 DEF LexMoves
  <2> QED BY <2>17, <2>18 DEF s, t
<1>6. \A i \in 0..n : LexAt(c, e, at, f[i], i)
  <2> DEFINE G == {i \in 0..n : LexAt(c, e, at, f[i], i)}
  <2>1. 0 \in G
    BY <1>3, <1>4
  <2>2. ASSUME NEW i \in 0..(n - 1), i \in G PROVE i + 1 \in G
    BY <1>3, <1>5, <2>2
  <2>3. 0..n \subseteq G
    <3> HIDE DEF G
    <3> QED BY <1>3, <2>1, <2>2, TableInduction
  <2> QED BY <2>3
<1>7. ASSUME NEW i \in 1..n PROVE LexMoves(c, e, at, f[i - 1], f[i], i)
  <2>1. i - 1 \in 0..(n - 1) /\ i - 1 \in 0..n /\ (i - 1) + 1 = i
    BY <1>3
  <2> QED BY <1>5, <1>6, <2>1
<1> QED BY <1>6, <1>7 DEF at, n

-----------------------------------------------------------------------------
(* The words.                                                              *)

\* Where a word starts.
Starts(c, at, i) == ~Breaks(c, at, i) /\ (i = 1 \/ Breaks(c, at, i - 1))
Begun(c, at, i) == {x \in 1..i : Starts(c, at, x)}
Over(c, at, i) == {x \in Begun(c, at, i) : \E b \in x..i : Breaks(c, at, b)}
Unbroken(c, at, i, j) == \A k \in i..j : ~Breaks(c, at, k)
KeptIn(c, e, at, i, j) == {k \in i..j : Keeps(c, e, at, k)}

\* The word that starts at each position.
WordsAt(c, e, at) ==
  [i \in 1..Len(c) |->
     Listed({j \in i..Len(c) : Unbroken(c, at, i, j) /\ Keeps(c, e, at, j)}, c)]

\* What the lexer holds after i characters: the words that ended, and the one it
\* is in.
HoldsWords(c, e, at, s, i) ==
  /\ s.words = Listed(Over(c, at, i), WordsAt(c, e, at))
  /\ IF s.mode = None THEN Over(c, at, i) = Begun(c, at, i)
     ELSE \E m \in 1..i : /\ Starts(c, at, m) /\ Unbroken(c, at, m, i)
                          /\ s.word = Listed(KeptIn(c, e, at, m, i), c)

\* Only the last word that has begun is not ended.
LEMMA LastIsOpen ==
  ASSUME NEW c, NEW at, NEW i \in Nat, NEW m \in 1..i, Starts(c, at, m), Unbroken(c, at, m, i)
  PROVE  /\ Begun(c, at, i) = Over(c, at, i) \cup {m}
         /\ Over(c, at, i) \in SUBSET (1..(m - 1))
<1>1. ASSUME NEW x \in Over(c, at, i) PROVE x \in 1..(m - 1)
  <2>1. PICK b \in x..i : Breaks(c, at, b)
    BY DEF Over
  <2>2. x \in 1..i
    BY DEF Over, Begun
  <2>3. b \notin m..i
    BY <2>1 DEF Unbroken
  <2> QED BY <2>2, <2>3
<1>2. ASSUME NEW x \in Begun(c, at, i), x # m PROVE x \in Over(c, at, i)
  <2>1. x \in 1..i /\ Starts(c, at, x)
    BY DEF Begun
  <2>2. CASE x < m
    <3>1. m # 1 /\ m - 1 \in x..i
      BY <2>1, <2>2
    <3>2. Breaks(c, at, m - 1)
      BY <3>1 DEF Starts
    <3> QED BY <3>1, <3>2 DEF Over
  <2>3. CASE x > m
    <3>1. x # 1 /\ x - 1 \in m..i
      BY <2>1, <2>3
    <3>2. Breaks(c, at, x - 1)
      BY <2>1, <3>1 DEF Starts
    <3> QED BY <3>1, <3>2 DEF Unbroken
  <2> QED BY <1>2, <2>1, <2>2, <2>3
<1>3. m \in Begun(c, at, i)
  BY DEF Begun
<1>4. Over(c, at, i) \subseteq Begun(c, at, i)
  BY DEF Over
<1> QED BY <1>1, <1>2, <1>3, <1>4

\* The lexer closes the word it is in, if any, where it breaks or the command ends.
LEMMA ClosesWord ==
  ASSUME NEW c \in Seq(Characters), NEW e, NEW at, NEW s \in Lexes, NEW i \in 0..Len(c),
         LexAt(c, e, at, s, i), HoldsWords(c, e, at, s, i), s.mode \notin Quotes, ~s.escaping,
         i = Len(c) \/ Breaks(c, at, i + 1)
  PROVE  Close(s).words = Listed(Begun(c, at, i), WordsAt(c, e, at))
<1>1. s.mode \in Modes \cup {"word"} /\ i \in Nat /\ Len(c) \in Nat
  BY DEF Lexes
<1>2. CASE s.mode = None
  <2>1. Close(s).words = s.words
    BY <1>2 DEF LexAt, Close, Lexes
  <2> QED BY <1>2, <2>1 DEF HoldsWords
<1>3. CASE s.mode # None
  <2>1. PICK m \in 1..i : /\ Starts(c, at, m) /\ Unbroken(c, at, m, i)
                          /\ s.word = Listed(KeptIn(c, e, at, m, i), c)
    BY <1>3 DEF HoldsWords
  <2>2. Close(s).words = Append(s.words, s.word)
    <3>1. s.word # <<>> \/ s.quoted
      BY <1>1, <1>3 DEF LexAt, Modes
    <3> QED BY <3>1 DEF Close, Lexes
  <2>3. /\ Begun(c, at, i) = Over(c, at, i) \cup {m}
        /\ Over(c, at, i) \in SUBSET (1..(m - 1))
    BY <1>1, <2>1, LastIsOpen
  <2>4. WordsAt(c, e, at)[m] = Listed(KeptIn(c, e, at, m, i), c)
    <3> DEFINE S == {j \in m..Len(c) : Unbroken(c, at, m, j) /\ Keeps(c, e, at, j)}
    <3>1. m \in 1..Len(c)
      BY <1>1
    <3>2. WordsAt(c, e, at)[m] = Listed(S, c)
      BY <3>1 DEF WordsAt
    <3>3. ASSUME NEW j \in m..Len(c) PROVE Unbroken(c, at, m, j) <=> j <= i
      <4>1. j <= i => m..j \subseteq m..i
        BY <1>1
      <4>2. j <= i => Unbroken(c, at, m, j)
        BY <2>1, <4>1 DEF Unbroken
      <4>3. ~(j <= i) => i # Len(c) /\ i + 1 \in m..j
        BY <1>1
      <4> QED BY <4>2, <4>3 DEF Unbroken
    <3>4. S = KeptIn(c, e, at, m, i)
      <4>1. m..i \subseteq m..Len(c) /\ \A j \in m..Len(c) : j <= i <=> j \in m..i
        BY <1>1
      <4> QED BY <3>3, <4>1 DEF KeptIn
    <3> QED BY <3>2, <3>4
  <2>5. m - 1 \in Nat /\ (m - 1) + 1 = m
    BY <1>1
  <2>6. Listed(Over(c, at, i) \cup {m}, WordsAt(c, e, at))
        = Append(Listed(Over(c, at, i), WordsAt(c, e, at)), WordsAt(c, e, at)[m])
    <3> DEFINE k == m - 1
               E == Over(c, at, i)
    <3>1. k \in Nat /\ k + 1 = m /\ E \in SUBSET (1..k)
      BY <2>3, <2>5
    <3> HIDE DEF k, E
    <3>2. Listed(E \cup {k + 1}, WordsAt(c, e, at)) = Append(Listed(E, WordsAt(c, e, at)), WordsAt(c, e, at)[k + 1])
      BY <3>1, ListedAppend
    <3> QED BY <3>1, <3>2 DEF E
  <2> QED BY <2>1, <2>2, <2>3, <2>4, <2>6 DEF HoldsWords
<1> QED BY <1>2, <1>3

\* Where nothing breaks, no word ends.
LEMMA NoneEnds ==
  ASSUME NEW c, NEW at, NEW i \in Nat, ~Breaks(c, at, i + 1)
  PROVE  Over(c, at, i + 1) = Over(c, at, i)
<1>1. ASSUME NEW x \in Over(c, at, i + 1) PROVE x \in Over(c, at, i)
  <2>1. PICK b \in x..(i + 1) : Breaks(c, at, b)
    BY DEF Over
  <2>2. x \in 1..(i + 1) /\ Starts(c, at, x)
    BY DEF Over, Begun
  <2>3. b # i + 1
    BY <2>1
  <2>4. b \in x..i /\ x \in 1..i
    BY <2>2, <2>3
  <2> QED BY <2>1, <2>2, <2>4 DEF Over, Begun
<1>2. ASSUME NEW x \in Over(c, at, i) PROVE x \in Over(c, at, i + 1)
  <2>1. PICK b \in x..i : Breaks(c, at, b)
    BY DEF Over
  <2>2. x \in 1..i /\ Starts(c, at, x)
    BY DEF Over, Begun
  <2>3. b \in x..(i + 1) /\ x \in 1..(i + 1)
    BY <2>2
  <2> QED BY <2>1, <2>2, <2>3 DEF Over, Begun
<1> QED BY <1>1, <1>2

\* Where it breaks, all end.
LEMMA AllEnd ==
  ASSUME NEW c, NEW at, NEW i \in Nat, Breaks(c, at, i + 1)
  PROVE  /\ Over(c, at, i + 1) = Begun(c, at, i)
         /\ Begun(c, at, i + 1) = Begun(c, at, i)
<1>1. ASSUME NEW x \in Begun(c, at, i + 1) PROVE x \in Begun(c, at, i)
  <2>1. x \in 1..(i + 1) /\ Starts(c, at, x)
    BY DEF Begun
  <2>2. x # i + 1
    BY <2>1 DEF Starts
  <2>3. x \in 1..i
    BY <2>1, <2>2
  <2> QED BY <2>1, <2>3 DEF Begun
<1>2. ASSUME NEW x \in Begun(c, at, i) PROVE x \in Over(c, at, i + 1)
  <2>1. x \in 1..i /\ Starts(c, at, x)
    BY DEF Begun
  <2>2. i + 1 \in x..(i + 1) /\ x \in 1..(i + 1)
    BY <2>1
  <2> QED BY <2>1, <2>2 DEF Over, Begun
<1>3. Over(c, at, i + 1) \subseteq Begun(c, at, i + 1)
  BY DEF Over
<1> QED BY <1>1, <1>2, <1>3

\* One more position is one more character, if it is kept.
LEMMA KeepsOne ==
  ASSUME NEW c, NEW e, NEW at, NEW i \in Nat, NEW m \in 1..(i + 1)
  PROVE  Listed(KeptIn(c, e, at, m, i + 1), c)
         = IF Keeps(c, e, at, i + 1) THEN Append(Listed(KeptIn(c, e, at, m, i), c), c[i + 1])
           ELSE Listed(KeptIn(c, e, at, m, i), c)
<1> DEFINE S == KeptIn(c, e, at, m, i)
           T == KeptIn(c, e, at, m, i + 1)
<1>1. m..(i + 1) = (m..i) \cup {i + 1} /\ m..i \subseteq 1..i
  OBVIOUS
<1>2. T = IF Keeps(c, e, at, i + 1) THEN S \cup {i + 1} ELSE S
  BY <1>1 DEF KeptIn
<1>3. S \in SUBSET (1..i)
  BY <1>1 DEF KeptIn
<1> HIDE DEF S, T
<1>4. Listed(S \cup {i + 1}, c) = Append(Listed(S, c), c[i + 1])
  BY <1>3, ListedAppend
<1> QED BY <1>2, <1>4 DEF S, T

\* The lexer holds the words of what it has read.
LEMMA LexerHolds ==
  ASSUME NEW c \in Seq(Characters), NEW e \in BOOLEAN, NEW at,
         NEW f \in [0..Len(c) -> Lexes],
         f[0] = [mode |-> None, escaping |-> FALSE, word |-> <<>>, quoted |-> FALSE, words |-> <<>>],
         \A i \in 0..Len(c) : LexAt(c, e, at, f[i], i),
         \A i \in 1..Len(c) : LexMoves(c, e, at, f[i - 1], f[i], i)
  PROVE  \A i \in 0..Len(c) : HoldsWords(c, e, at, f[i], i)
<1> DEFINE n == Len(c)
           G == {i \in 0..n : HoldsWords(c, e, at, f[i], i)}
<1>1. n \in Nat
  OBVIOUS
<1>2. 0 \in G
  <2>1. f[0].words = <<>> /\ f[0].mode = None
    OBVIOUS
  <2>2. Begun(c, at, 0) = {} /\ Over(c, at, 0) = {}
    BY DEF Begun, Over
  <2>3. Listed({}, WordsAt(c, e, at)) = <<>>
    BY ListedEmpty
  <2>4. HoldsWords(c, e, at, f[0], 0)
    BY <2>1, <2>2, <2>3 DEF HoldsWords
  <2>5. 0 \in 0..n
    BY <1>1
  <2> QED BY <2>4, <2>5
<1>3. ASSUME NEW i \in 0..(n - 1), i \in G PROVE i + 1 \in G
  <2> DEFINE s == f[i]
             t == f[i + 1]
  <2>1. i \in Nat /\ i \in 0..n /\ i + 1 \in 1..n /\ i + 1 \in 0..n /\ (i + 1) - 1 = i /\ i + 1 # 0
    BY <1>1
  <2>2. HoldsWords(c, e, at, s, i)
    BY <1>3
  <2>3. LexMoves(c, e, at, s, t, i + 1)
    <3>1. LexMoves(c, e, at, f[(i + 1) - 1], f[i + 1], i + 1)
      BY <2>1
    <3> QED BY <2>1, <3>1
  <2>4. LexAt(c, e, at, s, i) /\ LexAt(c, e, at, t, i + 1)
    BY <2>1
  <2>5. s \in Lexes /\ t \in Lexes
    BY <2>1
  <2> HIDE DEF s, t, n
  <2>6. CASE Breaks(c, at, i + 1)
    <3>1. s.mode \notin Quotes /\ ~s.escaping /\ t = Close(s)
      BY <2>3, <2>6 DEF LexMoves
    <3>2. t.words = Listed(Begun(c, at, i), WordsAt(c, e, at))
      BY <2>1, <2>2, <2>4, <2>5, <2>6, <3>1, ClosesWord DEF n
    <3>3. t.mode = None
      BY <2>4, <2>6 DEF LexAt
    <3>4. Over(c, at, i + 1) = Begun(c, at, i) /\ Begun(c, at, i + 1) = Begun(c, at, i)
      BY <2>1, <2>6, AllEnd
    <3> QED BY <2>1, <3>2, <3>3, <3>4 DEF HoldsWords, t, n
  <2>7. CASE ~Breaks(c, at, i + 1)
    <3>1. /\ t.mode # None /\ t.words = s.words
          /\ t.word = IF Keeps(c, e, at, i + 1) THEN Append(s.word, c[i + 1]) ELSE s.word
      BY <2>3, <2>7 DEF LexMoves
    <3>2. Over(c, at, i + 1) = Over(c, at, i)
      BY <2>1, <2>7, NoneEnds
    <3>3. t.words = Listed(Over(c, at, i + 1), WordsAt(c, e, at))
      BY <2>2, <3>1, <3>2 DEF HoldsWords
    <3>4. \E m \in 1..(i + 1) : /\ Starts(c, at, m) /\ Unbroken(c, at, m, i + 1)
                                /\ s.word = Listed(KeptIn(c, e, at, m, i), c)
      <4>1. CASE s.mode = None
        <5>1. i = 0 \/ Breaks(c, at, i)
          BY <2>4, <4>1 DEF LexAt
        <5>2. Starts(c, at, i + 1)
          BY <2>1, <2>7, <5>1 DEF Starts
        <5>3. Unbroken(c, at, i + 1, i + 1)
          <6>1. \A k \in (i + 1)..(i + 1) : k = i + 1
            BY <2>1
          <6> QED BY <2>7, <6>1 DEF Unbroken
        <5>4. KeptIn(c, e, at, i + 1, i) = {}
          <6>1. (i + 1)..i = {}
            BY <2>1
          <6> QED BY <6>1 DEF KeptIn
        <5>5. s.word = <<>>
          BY <2>4, <4>1 DEF LexAt
        <5>6. i + 1 \in 1..(i + 1)
          BY <2>1
        <5>7. Listed({}, c) = <<>>
          BY ListedEmpty
        <5> QED BY <5>2, <5>3, <5>4, <5>5, <5>6, <5>7
      <4>2. CASE s.mode # None
        <5>1. PICK m \in 1..i : /\ Starts(c, at, m) /\ Unbroken(c, at, m, i)
                                /\ s.word = Listed(KeptIn(c, e, at, m, i), c)
          BY <2>2, <4>2 DEF HoldsWords
        <5>2. m \in 1..(i + 1) /\ \A k \in m..(i + 1) : k = i + 1 \/ k \in m..i
          BY <2>1
        <5>3. Unbroken(c, at, m, i + 1)
          BY <2>7, <5>1, <5>2 DEF Unbroken
        <5> QED BY <5>1, <5>2, <5>3
      <4> QED BY <4>1, <4>2
    <3>5. PICK m \in 1..(i + 1) : /\ Starts(c, at, m) /\ Unbroken(c, at, m, i + 1)
                                  /\ s.word = Listed(KeptIn(c, e, at, m, i), c)
      BY <3>4
    <3>6. t.word = Listed(KeptIn(c, e, at, m, i + 1), c)
      BY <2>1, <3>1, <3>5, KeepsOne
    <3>7. HoldsWords(c, e, at, t, i + 1)
      BY <3>1, <3>3, <3>5, <3>6 DEF HoldsWords
    <3> QED BY <2>1, <3>7 DEF t, n
  <2> QED BY <2>6, <2>7
<1>4. 0..n \subseteq G
  <2> HIDE DEF G, n
  <2> QED BY <1>1, <1>2, <1>3, TableInduction
<1> QED BY <1>4

\* What the lexer returns is what the shell would make of the command, if
\* no line is continued.
LEMMA WordsAreTheShells ==
  ASSUME NEW c \in Seq(Characters), NEW e \in BOOLEAN, FirstMetacharacter(c, e) = None,
         Lexed(c, e).ok, ~ContinuesLine(c, e)
  PROVE  LET at == Reading(c, e) IN
         /\ at[Len(c)].next = None
         /\ Lexed(c, e).words = ShellWords(c, at)
<1> DEFINE n == Len(c)
           at == Reading(c, e)
<1>1. PICK f \in [0..n -> Lexes] :
        /\ f[0] = [mode |-> None, escaping |-> FALSE, word |-> <<>>, quoted |-> FALSE, words |-> <<>>]
        /\ \A i \in 1..n : f[i] = Read(e, f[i - 1], c[i])
        /\ Lexed(c, e) = [ok |-> ~f[n].escaping /\ f[n].mode \notin Quotes, words |-> Close(f[n]).words]
  BY LexTable
<1>2. /\ \A i \in 0..n : LexAt(c, e, at, f[i], i)
      /\ \A i \in 1..n : LexMoves(c, e, at, f[i - 1], f[i], i)
  BY <1>1, LexerReads
<1>3. \A i \in 1..n : i < n => (at[i + 1].escaped <=> Escapes(c, e, at, i))
  BY NothingFound
<1>4. \A i \in 1..n : ~(at[i].escaped /\ c[i] = "newline")
  BY DEF ContinuesLine
<1> HIDE DEF at
<1>5. \A i \in 0..n : HoldsWords(c, e, at, f[i], i)
  BY <1>1, <1>2, LexerHolds
<1>6. n \in Nat /\ n \in 0..n
  OBVIOUS
<1>7. ~f[n].escaping /\ f[n].mode \notin Quotes /\ Lexed(c, e).words = Close(f[n]).words
  <2> DEFINE ok == ~f[n].escaping /\ f[n].mode \notin Quotes
             words == Close(f[n]).words
  <2>1. Lexed(c, e) = [ok |-> ok, words |-> words]
    BY <1>1
  <2> HIDE DEF ok, words
  <2>2. Lexed(c, e).ok = ok /\ Lexed(c, e).words = words
    BY <2>1
  <2>3. ok /\ Lexed(c, e).words = words
    BY <2>2
  <2> QED BY <2>3 DEF ok, words
<1>8. LexAt(c, e, at, f[n], n) /\ HoldsWords(c, e, at, f[n], n) /\ f[n] \in Lexes
  BY <1>2, <1>5, <1>6
<1> HIDE DEF n
<1>9. at[n].next = None
  BY <1>7, <1>8 DEF LexAt
<1>10. Lexed(c, e).words = Listed(Begun(c, at, n), WordsAt(c, e, at))
  BY <1>6, <1>7, <1>8, ClosesWord DEF n
<1>11. ~Escapes(c, e, at, n)
  BY <1>7, <1>8 DEF LexAt
<1>12. ASSUME NEW j \in 1..n PROVE (Kept(c, at, j) <=> Keeps(c, e, at, j)) /\ ~Continues(c, at, j)
  <2>1. Escaping(c, at, j) <=> Escapes(c, e, at, j)
    <3>1. j < n \/ j = n
      BY <1>6
    <3>2. j = n => ~Escaping(c, at, j)
      BY <1>6 DEF Escaping, n
    <3> QED BY <1>3, <1>6, <1>11, <3>1, <3>2 DEF Escaping, n
  <2>2. ~Continues(c, at, j)
    <3>1. Escaping(c, at, j) => j + 1 \in 1..n /\ at[j + 1].escaped
      BY <1>6 DEF Escaping, n
    <3> QED BY <1>4, <3>1 DEF Continues
  <2> QED BY <2>1, <2>2 DEF Kept, Keeps
<1> DEFINE Parts(i) == {j \in i..n : \A k \in i..j : ~Breaks(c, at, k)}
           starts == {i \in 1..n : /\ ~Breaks(c, at, i)
                                   /\ i = 1 \/ Breaks(c, at, i - 1)
                                   /\ \E j \in Parts(i) : ~Continues(c, at, j)}
           Word(i) == LET kept == Ascending({j \in Parts(i) : Kept(c, at, j)})
                      IN [k \in 1..Len(kept) |-> c[kept[k]]]
           first == Ascending(starts)
<1>13. ShellWords(c, at) = [k \in 1..Len(first) |-> Word(first[k])]
  BY DEF ShellWords, n
<1>14. starts = Begun(c, at, n)
  <2>1. ASSUME NEW i \in 1..n, Starts(c, at, i) PROVE \E j \in Parts(i) : ~Continues(c, at, j)
    <3>1. i \in i..n /\ \A k \in i..i : k = i
      BY <1>6
    <3>2. i \in Parts(i)
      BY <2>1, <3>1 DEF Starts
    <3> HIDE DEF Parts
    <3> QED BY <1>12, <3>2
  <2> HIDE DEF Parts
  <2> QED BY <2>1 DEF Starts, Begun
<1>15. ASSUME NEW i \in 1..n PROVE Word(i) = WordsAt(c, e, at)[i]
  <2> DEFINE S == {j \in Parts(i) : Kept(c, at, j)}
             T == {j \in i..n : Unbroken(c, at, i, j) /\ Keeps(c, e, at, j)}
  <2>1. S = T
    <3>1. \A j \in i..n : j \in 1..n
      BY <1>6
    <3> QED BY <1>12, <3>1 DEF Unbroken
  <2>2. WordsAt(c, e, at)[i] = Listed(T, c)
    BY DEF WordsAt, n
  <2>3. Word(i) = Listed(S, c)
    <3> HIDE DEF Parts
    <3> QED BY DEF Listed
  <2> HIDE DEF S, T, Word
  <2> QED BY <2>1, <2>2, <2>3
<1> HIDE DEF starts, Word, Parts
<1>16. first = Ascending(Begun(c, at, n))
  BY <1>14
<1>17. \A k \in 1..Len(first) : first[k] \in 1..n
  <2> DEFINE B == Begun(c, at, n)
  <2>1. B \in SUBSET (1..n)
    BY DEF Begun
  <2> HIDE DEF B
  <2>2. PICK m \in Nat : \E q \in [1..m -> B] : Increases(q) /\ \A x \in B : \E i \in 1..m : q[i] = x
    BY <1>6, <2>1, AscendingExists
  <2>3. PICK q \in [1..m -> B] : Increases(q) /\ \A x \in B : \E i \in 1..m : q[i] = x
    BY <2>2
  <2>4. B \in SUBSET Nat
    BY <2>1
  <2>5. Ascending(B) = q
    BY <2>3, <2>4, AscendingIs
  <2>6. first = q
    BY <1>16, <2>5 DEF B
  <2> HIDE DEF first
  <2>7. Len(q) = m /\ \A k \in 1..m : q[k] \in B
    OBVIOUS
  <2> QED BY <2>1, <2>6, <2>7
<1>18. ShellWords(c, at) = Listed(Begun(c, at, n), WordsAt(c, e, at))
  <2>1. Listed(Begun(c, at, n), WordsAt(c, e, at)) = [k \in 1..Len(first) |-> WordsAt(c, e, at)[first[k]]]
    BY <1>16 DEF Listed
  <2>2. \A k \in 1..Len(first) : Word(first[k]) = WordsAt(c, e, at)[first[k]]
    BY <1>15, <1>17
  <2> HIDE DEF first
  <2> QED BY <1>13, <2>1, <2>2
<1> QED BY <1>9, <1>10, <1>18 DEF at, n

\* A word begins with what stands at the positions from i to j.
Spells(w, c, i, j) == w \in Seq(Characters) /\ Len(w) >= j - i + 1 /\ \A x \in 1..(j - i + 1) : w[x] = c[i + x - 1]

\* It is the first word of the lexer, or the first the lexer is in.
Leads(s, c, i, j) ==
  \/ s.words = <<>> /\ s.mode # None /\ Spells(s.word, c, i, j)
  \/ s.words # <<>> /\ Spells(s.words[1], c, i, j)

\* Nothing is taken from a word that was read: it is closed, or added to.
Adds(s, t) ==
  \/ t = Close(s)
  \/ /\ t.words = s.words /\ (t.mode # None \/ t.mode = s.mode)
     /\ \E chars \in Seq(Characters) : t.word = s.word \o chars

LEMMA ReadAdds ==
  ASSUME NEW e \in BOOLEAN, NEW s \in Lexes, NEW ch \in Characters
  PROVE  Adds(s, Read(e, s, ch))
<1> DEFINE t == Read(e, s, ch)
<1>1. s.word \in Seq(Characters) /\ s.word = s.word \o <<>> /\ <<>> \in Seq(Characters)
  BY DEF Lexes
<1>2. ASSUME NEW chars \in Seq(Characters)
      PROVE  /\ Add(s, chars).words = s.words /\ Add(s, chars).mode = s.mode
             /\ Add(s, chars).word = s.word \o chars
             /\ [Add(s, chars) EXCEPT !.mode = "word"].words = s.words
             /\ [Add(s, chars) EXCEPT !.mode = "word"].mode = "word"
             /\ [Add(s, chars) EXCEPT !.mode = "word"].word = s.word \o chars
  <2> DEFINE a == Add(s, chars)
             w == s.word \o chars
  <2>1. a = [s EXCEPT !.word = w, !.escaping = FALSE]
    BY DEF Add
  <2> HIDE DEF a, w
  <2>2. a.words = s.words /\ a.mode = s.mode /\ a.word = w /\ DOMAIN a = {"mode", "escaping", "word", "quoted", "words"}
    BY <2>1 DEF Lexes
  <2>3. /\ [a EXCEPT !.mode = "word"].words = s.words /\ [a EXCEPT !.mode = "word"].mode = "word"
        /\ [a EXCEPT !.mode = "word"].word = w
    BY <2>2
  <2> QED BY <2>2, <2>3 DEF a, w
<1>3. <<ch>> \in Seq(Characters) /\ <<"backslash", ch>> \in Seq(Characters)
  BY DEF Characters
<1>4. "word" # None /\ None \notin Quotes
  BY DEF None, Quotes
<1>5. /\ \A m : [s EXCEPT !.mode = m].words = s.words /\ [s EXCEPT !.mode = m].word = s.word
                /\ [s EXCEPT !.mode = m].mode = m
      /\ [s EXCEPT !.escaping = TRUE].words = s.words /\ [s EXCEPT !.escaping = TRUE].word = s.word
      /\ [s EXCEPT !.escaping = TRUE].mode = s.mode
  BY DEF Lexes
<1>6. \/ t = Add(s, <<ch>>) \/ t = Add(s, <<"backslash", ch>>) \/ t = [Add(s, <<ch>>) EXCEPT !.mode = "word"]
      \/ t = [s EXCEPT !.mode = "word", !.quoted = TRUE] \/ t = [s EXCEPT !.escaping = TRUE]
      \/ t = [s EXCEPT !.mode = "word", !.escaping = TRUE] \/ t = Close(s)
      \/ ch \in Quotes /\ t = [s EXCEPT !.mode = ch]
  BY DEF Read
<1> HIDE DEF t
<1> SUFFICES Adds(s, t)
  BY DEF t
<1>7. ASSUME NEW chars \in Seq(Characters), t.words = s.words, t.mode # None \/ t.mode = s.mode,
             t.word = s.word \o chars
      PROVE  Adds(s, t)
  BY <1>7 DEF Adds
<1>8. ASSUME t.words = s.words, t.mode # None \/ t.mode = s.mode, t.word = s.word
      PROVE  Adds(s, t)
  BY <1>1, <1>7, <1>8
<1>9. CASE t = Add(s, <<ch>>) \/ t = [Add(s, <<ch>>) EXCEPT !.mode = "word"]
  <2> DEFINE chars == <<ch>>
  <2>0. chars \in Seq(Characters) /\ (t = Add(s, chars) \/ t = [Add(s, chars) EXCEPT !.mode = "word"])
    BY <1>3, <1>9
  <2> HIDE DEF chars
  <2>1. t.words = s.words /\ (t.mode # None \/ t.mode = s.mode) /\ t.word = s.word \o chars
    BY <1>2, <1>4, <2>0
  <2> QED BY <1>7, <2>0, <2>1
<1>10. CASE t = Add(s, <<"backslash", ch>>)
  <2> DEFINE chars == <<"backslash", ch>>
  <2>0. chars \in Seq(Characters) /\ t = Add(s, chars)
    BY <1>3, <1>10
  <2> HIDE DEF chars
  <2>1. t.words = s.words /\ t.mode = s.mode /\ t.word = s.word \o chars
    BY <1>2, <2>0
  <2> QED BY <1>7, <2>0, <2>1
<1>11. CASE t = [s EXCEPT !.mode = "word", !.quoted = TRUE] \/ t = [s EXCEPT !.mode = "word", !.escaping = TRUE]
  <2>1. t.words = s.words /\ t.mode = "word" /\ t.word = s.word
    BY <1>11 DEF Lexes
  <2> QED BY <1>4, <1>8, <2>1
<1>12. CASE t = [s EXCEPT !.escaping = TRUE]
  <2>1. t.words = s.words /\ t.mode = s.mode /\ t.word = s.word
    BY <1>5, <1>12
  <2> QED BY <1>8, <2>1
<1>13. CASE ch \in Quotes /\ t = [s EXCEPT !.mode = ch]
  <2>1. t.words = s.words /\ t.mode = ch /\ t.word = s.word
    BY <1>5, <1>13
  <2> QED BY <1>4, <1>8, <1>13, <2>1
<1>14. CASE t = Close(s)
  BY <1>14 DEF Adds
<1> QED BY <1>6, <1>9, <1>10, <1>11, <1>12, <1>13, <1>14

\* A word that was begun stays the first.
LEMMA StillLeads ==
  ASSUME NEW c \in Seq(Characters), NEW i \in 1..Len(c), NEW j \in 1..Len(c), i < j,
         NEW s \in Lexes, Leads(s, c, i, j)
  PROVE  /\ Close(s).words # <<>> /\ Spells(Close(s).words[1], c, i, j)
         /\ Leads(Close(s), c, i, j)
         /\ \A e \in BOOLEAN, ch \in Characters : Leads(Read(e, s, ch), c, i, j)
<1>1. s.words \in Seq(Seq(Characters)) /\ s.word \in Seq(Characters)
  BY DEF Lexes
<1>2. Close(s).words = s.words \/ Close(s).words = Append(s.words, s.word)
  BY DEF Close, Lexes
<1>3. s.word # <<>> => Close(s).words = Append(s.words, s.word)
  BY DEF Close, Lexes
<1>4. Close(s).words # <<>> /\ Spells(Close(s).words[1], c, i, j)
  <2>1. CASE s.words = <<>> /\ Spells(s.word, c, i, j)
    <3>1. s.word # <<>>
      BY <2>1 DEF Spells
    <3>2. Append(s.words, s.word) # <<>> /\ Append(s.words, s.word)[1] = s.word
      BY <1>1, <2>1
    <3> QED BY <1>3, <2>1, <3>1, <3>2
  <2>2. CASE s.words # <<>> /\ Spells(s.words[1], c, i, j)
    <3> DEFINE ws == s.words
               w == s.word
    <3>1. ws \in Seq(Seq(Characters)) /\ w \in Seq(Characters) /\ ws # <<>>
      BY <1>1, <2>2
    <3> HIDE DEF ws, w
    <3>2. Len(ws) >= 1
      BY <3>1
    <3>3. Append(ws, w) # <<>> /\ Append(ws, w)[1] = ws[1]
      BY <3>1, <3>2
    <3> QED BY <1>2, <2>2, <3>1, <3>3 DEF ws, w
  <2> QED BY <2>1, <2>2 DEF Leads
<1>5. Leads(Close(s), c, i, j)
  BY <1>4 DEF Leads
<1>6. ASSUME NEW e \in BOOLEAN, NEW ch \in Characters PROVE Leads(Read(e, s, ch), c, i, j)
  <2> DEFINE t == Read(e, s, ch)
  <2>1. \/ t = Close(s)
        \/ /\ t.words = s.words /\ (t.mode # None \/ t.mode = s.mode)
           /\ \E chars \in Seq(Characters) : t.word = s.word \o chars
    BY ReadAdds DEF Adds
  <2> HIDE DEF t
  <2>2. CASE t = Close(s)
    BY <1>5, <2>2 DEF t
  <2>3. CASE /\ t.words = s.words /\ (t.mode # None \/ t.mode = s.mode)
             /\ \E chars \in Seq(Characters) : t.word = s.word \o chars
    <3>1. CASE s.words = <<>> /\ s.mode # None /\ Spells(s.word, c, i, j)
      <4>1. PICK chars \in Seq(Characters) : t.word = s.word \o chars
        BY <2>3
      <4>2. Spells(t.word, c, i, j)
        <5>1. t.word \in Seq(Characters) /\ Len(t.word) = Len(s.word) + Len(chars)
          BY <1>1, <4>1
        <5>2. \A x \in 1..Len(s.word) : t.word[x] = s.word[x]
          BY <1>1, <4>1
        <5>3. Len(s.word) \in Nat /\ Len(chars) \in Nat /\ j - i + 1 <= Len(s.word)
          BY <1>1, <3>1 DEF Spells
        <5>4. \A x \in 1..(j - i + 1) : x \in 1..Len(s.word)
          BY <5>3
        <5> QED BY <3>1, <5>1, <5>2, <5>3, <5>4 DEF Spells
      <4> QED BY <2>3, <3>1, <4>2 DEF Leads, t
    <3>2. CASE s.words # <<>> /\ Spells(s.words[1], c, i, j)
      BY <2>3, <3>2 DEF Leads, t
    <3> QED BY <3>1, <3>2 DEF Leads
  <2> QED BY <2>1, <2>2, <2>3
<1> QED BY <1>4, <1>5, <1>6

\* What a shell takes for an assignment is the first word of the lexer.
LEMMA AssignmentLeads ==
  ASSUME NEW c \in Seq(Characters), NEW e \in BOOLEAN,
         NEW i \in 1..Len(c), NEW j \in 1..Len(c), i < j, c[j] = "equals",
         \A k \in 1..(j - 1) : c[k] = IF k < i THEN "blank" ELSE "letter"
  PROVE  LeadingAssignment(Lexed(c, e).words[1])
<1> DEFINE n == Len(c)
<1>1. PICK f \in [0..n -> Lexes] :
        /\ f[0] = [mode |-> None, escaping |-> FALSE, word |-> <<>>, quoted |-> FALSE, words |-> <<>>]
        /\ \A k \in 1..n : f[k] = Read(e, f[k - 1], c[k])
        /\ Lexed(c, e) = [ok |-> ~f[n].escaping /\ f[n].mode \notin Quotes, words |-> Close(f[n]).words]
  BY LexTable
<1>2. n \in Nat /\ i \in 1..n /\ j \in 1..n /\ i < j
  OBVIOUS
<1>3. ASSUME NEW k \in 0..(n - 1)
      PROVE  /\ k \in 0..n /\ k + 1 \in 0..n /\ k + 1 \in 1..n /\ f[k + 1] = Read(e, f[k], c[k + 1])
             /\ f[k] \in Lexes /\ f[k + 1] \in Lexes /\ c[k + 1] \in Characters
  <2>1. k \in 0..n /\ k + 1 \in 0..n /\ k + 1 \in 1..n /\ (k + 1) - 1 = k
    BY <1>2
  <2>2. c[k + 1] \in Characters
    BY <2>1
  <2> HIDE DEF n
  <2> QED BY <1>1, <2>1, <2>2
<1> HIDE DEF n
<1> DEFINE Blank(s) == s.mode = None /\ ~s.escaping /\ s.word = <<>> /\ ~s.quoted /\ s.words = <<>>
           Name(s, k) == /\ s.mode = "word" /\ ~s.escaping /\ s.words = <<>> /\ Len(s.word) = k - i + 1
                         /\ \A x \in 1..(k - i + 1) : s.word[x] = c[i + x - 1]
           At(k) == /\ k < i => Blank(f[k])
                    /\ k >= i /\ k <= j => Name(f[k], k)
                    /\ k >= j => Leads(f[k], c, i, j)
           G == {k \in 0..n : At(k)}
<1>4. 0 \in G
  <2>1. Blank(f[0])
    BY <1>1
  <2> HIDE DEF Blank
  <2> QED BY <1>2, <2>1
<1>5. ASSUME NEW k \in 0..(n - 1), k \in G PROVE k + 1 \in G
  <2> DEFINE s == f[k]
             t == f[k + 1]
             ch == c[k + 1]
  <2>1. /\ k + 1 \in 0..n /\ t = Read(e, s, ch) /\ s \in Lexes /\ t \in Lexes /\ ch \in Characters
        /\ At(k) /\ k \in Nat
    BY <1>2, <1>3, <1>5
  <2>2. s.word \in Seq(Characters) /\ s.escaping \in BOOLEAN /\ s.quoted \in BOOLEAN
    BY <2>1 DEF Lexes
  <2> HIDE DEF s, t, ch
  <2>3. CASE k + 1 < i
    <3>1. ch = "blank" /\ Blank(s)
      BY <1>2, <2>1, <2>3 DEF ch, s
    <3>2. t = [s EXCEPT !.mode = None]
      <4>1. t = Close(s)
        BY <2>1, <3>1 DEF Read, Blanks, Quotes, None
      <4> QED BY <3>1, <4>1 DEF Close
    <3>3. Blank(t)
      BY <2>1, <3>1, <3>2 DEF Lexes
    <3> HIDE DEF Blank
    <3> QED BY <1>2, <2>1, <2>3, <3>3 DEF t
  <2>4. CASE k + 1 >= i /\ k + 1 <= j
    <3>1. ch \in {"letter", "equals"} /\ s.mode \in {None, "word"} /\ ~s.escaping /\ s.words = <<>>
      <4>1. k < i => Blank(s)
        BY <2>1 DEF s
      <4>2. k >= i => Name(s, k)
        BY <1>2, <2>1, <2>4 DEF s
      <4>3. k < i \/ k >= i
        BY <1>2, <2>1
      <4>4. ch \in {"letter", "equals"}
        BY <1>2, <2>1, <2>4 DEF ch
      <4> QED BY <4>1, <4>2, <4>3, <4>4
    <3>2. t = [Add(s, <<ch>>) EXCEPT !.mode = "word"]
      BY <2>1, <3>1 DEF Read, Blanks, Quotes, None
    <3>3. t.mode = "word" /\ ~t.escaping /\ t.words = s.words /\ t.word = Append(s.word, ch)
      <4> DEFINE w == s.word \o <<ch>>
                 a == Add(s, <<ch>>)
      <4>1. a = [s EXCEPT !.word = w, !.escaping = FALSE]
        BY DEF Add
      <4> HIDE DEF a, w
      <4>2. a.words = s.words /\ a.escaping = FALSE /\ a.word = w
            /\ DOMAIN a = {"mode", "escaping", "word", "quoted", "words"}
        BY <2>1, <4>1 DEF Lexes
      <4>3. t = [a EXCEPT !.mode = "word"]
        BY <3>2 DEF a
      <4>4. w = Append(s.word, ch)
        BY <2>2 DEF w
      <4> QED BY <4>2, <4>3, <4>4
    <3>4. Len(s.word) = k - i + 1 /\ \A x \in 1..(k - i + 1) : s.word[x] = c[i + x - 1]
      <4>1. CASE k < i
        <5>1. k - i + 1 = 0 /\ s.word = <<>>
          BY <1>2, <2>1, <2>4, <4>1 DEF s
        <5> QED BY <5>1
      <4>2. CASE k >= i
        BY <1>2, <2>1, <2>4, <4>2 DEF s
      <4> QED BY <1>2, <2>1, <4>1, <4>2
    <3>5. Len(t.word) = (k + 1) - i + 1 /\ \A x \in 1..((k + 1) - i + 1) : t.word[x] = c[i + x - 1]
      <4> DEFINE l == Len(s.word)
      <4>1. Len(t.word) = l + 1 /\ t.word[l + 1] = ch /\ \A x \in 1..l : t.word[x] = s.word[x]
        BY <2>2, <3>3
      <4>0. l \in Nat /\ l = k - i + 1
        BY <2>2, <3>4
      <4> HIDE DEF l
      <4>2. i + (l + 1) - 1 = k + 1 /\ (k + 1) - i + 1 = l + 1
        BY <1>2, <2>1, <4>0
      <4>3. \A x \in 1..(l + 1) : x = l + 1 \/ x \in 1..l
        BY <4>0
      <4>4. c[i + (l + 1) - 1] = ch
        BY <4>2 DEF ch
      <4>5. \A x \in 1..l : s.word[x] = c[i + x - 1]
        BY <3>4, <4>0
      <4> QED BY <4>0, <4>1, <4>2, <4>3, <4>4, <4>5
    <3>6. Name(t, k + 1)
      BY <3>1, <3>3, <3>5
    <3>7. k + 1 >= j => Leads(t, c, i, j)
      <4> SUFFICES ASSUME k + 1 >= j PROVE Leads(t, c, i, j)
        OBVIOUS
      <4>1. k + 1 = j
        BY <1>2, <2>1, <2>4
      <4>2. t.word \in Seq(Characters)
        BY <2>1 DEF Lexes
      <4>3. Spells(t.word, c, i, j)
        <5>1. (k + 1) - i + 1 = j - i + 1 /\ j - i + 1 \in Nat
          BY <1>2, <4>1
        <5> QED BY <3>5, <4>2, <5>1 DEF Spells
      <4> QED BY <3>1, <3>3, <4>3 DEF Leads, None
    <3> HIDE DEF Name, Blank
    <3> QED BY <1>2, <2>1, <2>4, <3>6, <3>7 DEF t
  <2>5. CASE k + 1 > j
    <3>1. k >= j /\ ~(k + 1 < i) /\ ~(k + 1 <= j)
      BY <1>2, <2>1, <2>5
    <3>2. Leads(s, c, i, j)
      <4> HIDE DEF Name, Blank
      <4> QED BY <2>1, <3>1 DEF s
    <3>3. Leads(t, c, i, j)
      BY <2>1, <3>2, StillLeads
    <3> HIDE DEF Name, Blank
    <3> QED BY <2>1, <3>1, <3>3 DEF t
  <2> QED BY <1>2, <2>1, <2>3, <2>4, <2>5
<1>6. 0..n \subseteq G
  <2> HIDE DEF G
  <2> QED BY <1>2, <1>4, <1>5, TableInduction
<1>7. Leads(f[n], c, i, j) /\ f[n] \in Lexes
  <2>1. n \in 0..n /\ n >= j
    BY <1>2
  <2> HIDE DEF Name, Blank
  <2> QED BY <1>1, <1>6, <2>1
<1>8. Spells(Close(f[n]).words[1], c, i, j)
  BY <1>7, StillLeads
<1>9. Lexed(c, e).words = Close(f[n]).words
  <2> DEFINE ok == ~f[n].escaping /\ f[n].mode \notin Quotes
             words == Close(f[n]).words
  <2>1. Lexed(c, e) = [ok |-> ok, words |-> words]
    BY <1>1
  <2> HIDE DEF ok, words
  <2> QED BY <2>1 DEF words
<1> DEFINE w == Lexed(c, e).words[1]
<1>10. Spells(w, c, i, j)
  BY <1>8, <1>9
<1> HIDE DEF w
<1>11. j - i + 1 \in 2..Len(w) /\ w[j - i + 1] = "equals" /\ \A x \in 1..((j - i + 1) - 1) : w[x] = "letter"
  <2>1. Len(w) \in Nat /\ Len(w) >= j - i + 1 /\ \A x \in 1..(j - i + 1) : w[x] = c[i + x - 1]
    BY <1>10 DEF Spells
  <2>2. j - i + 1 \in 2..Len(w) /\ i + (j - i + 1) - 1 = j /\ j - i + 1 \in 1..(j - i + 1)
    BY <1>2, <2>1
  <2>3. w[j - i + 1] = c[j]
    BY <2>1, <2>2
  <2>4. ASSUME NEW x \in 1..((j - i + 1) - 1) PROVE w[x] = "letter"
    <3>1. x \in 1..(j - i + 1) /\ i + x - 1 \in 1..(j - 1) /\ ~(i + x - 1 < i)
      BY <1>2
    <3> QED BY <2>1, <3>1
  <2> QED BY <2>2, <2>3, <2>4
<1>12. LeadingAssignment(w)
  BY <1>11 DEF LeadingAssignment
<1> QED BY <1>12 DEF w

\* plan hands a command to the operating system without a shell only if a shell
\* would have run the same program with the same arguments.
LEMMA SplitsOnly ==
  ASSUME NEW c \in Seq(Characters), NEW e \in BOOLEAN, Splits(c, e), ~ContinuesLine(c, e)
  PROVE  OnlySplits(c, e, Lexed(c, e).words)
<1> DEFINE n == Len(c)
           at == Reading(c, e)
<1>1. FirstMetacharacter(c, e) = None /\ Lexed(c, e).ok /\ ~LeadingAssignment(Lexed(c, e).words[1])
  BY DEF Splits
<1>2. at[n].next = None /\ Lexed(c, e).words = ShellWords(c, at)
  BY <1>1, WordsAreTheShells
<1>3. \A i \in 1..n : ~Acts(c, at, i)
  BY <1>1, NothingFound
<1>4. ASSUME NEW i \in 1..n, NEW j \in 1..n, i < j, c[j] = "equals",
             \A k \in 1..j - 1 : c[k] = IF k < i THEN "blank" ELSE "letter"
      PROVE  FALSE
  BY <1>1, <1>4, AssignmentLeads
<1> HIDE DEF n, at
<1> QED BY <1>2, <1>3, <1>4 DEF OnlySplits, n, at

-----------------------------------------------------------------------------
(* The invariant.                                                          *)

Results ==
  [code : {"none", "zero", "failure", "timeout", "unrunnable"}, timed_out : BOOLEAN,
   truncated : BOOLEAN, changed : BOOLEAN, output : SUBSET (Values \cup {"text"})]

Typed ==
  /\ posix \in BOOLEAN /\ setup \in BOOLEAN /\ touched \in BOOLEAN /\ dirty \in BOOLEAN
  /\ outlived \in BOOLEAN /\ pc \in Steps \cup Ended
  /\ alive \subseteq Processes /\ holding \subseteq alive
  /\ exit \in {"none", "zero", "failure", "killed"}
  /\ file \in Values \cup {"unreadable"}
  /\ printed \subseteq exposed \cup {"text"} /\ exposed \subseteq Values
  /\ captured \subseteq Values /\ result \in Results

Before == {"capture", "plan", "spawn"}

\* Nothing runs before the command is spawned, and only a command that could
\* not be captured ends without having captured the file.
Prepared ==
  /\ pc \in Before => alive = {} /\ ~touched /\ ~dirty /\ printed = {} /\ result = NoResult
  /\ captured = {Original} \/ (captured = {} /\ result.output = {} /\ alive = {} /\ pc \in {"capture", "done"})
  /\ pc = "capture" => captured = {}

Untouched ==
  /\ ~touched => IF file = "unreadable" THEN exposed = {} /\ captured = {} /\ printed = {}
                 ELSE file = Original /\ exposed = {Original}
  /\ result.output \subseteq printed
  /\ pc \in {"check", "finish"} /\ ~result.changed => result.output \subseteq {Original, "text"}
  /\ log \subseteq {"text", "withheld"}

Quiet ==
  /\ result.code = "zero" => pc \in {"stopped", "check", "finish", "done", "dead"}
  /\ result.code = "zero" =>
       /\ exit = "zero" /\ holding = {} /\ "leader" \notin alive /\ ~result.timed_out
       /\ ~outlived => alive = {}
       /\ pc \in {"check", "finish"} /\ ~outlived /\ ~result.changed => ~touched
       /\ pc = "done" /\ ~outlived => ~touched /\ file = Original
       /\ pc \in {"finish", "done"} /\ ~outlived => setup \/ ~dirty

Killed ==
  /\ pc \in Before \cup {"starting", "waiting", "signalled"} => ~result.timed_out
  /\ GroupIsGone

Inv == Typed /\ Prepared /\ Untouched /\ Quiet /\ Killed

\* A StageResult of a command that never ran.
LEMMA NoResultTyped ==
  NoResult \in Results /\ [NoResult EXCEPT !.code = "unrunnable"] \in Results
BY DEF NoResult, Results

\* Nothing has been read or started.
LEMMA InitHolds == Init => Inv
<1> SUFFICES ASSUME Init PROVE Inv
  OBVIOUS
<1> USE OriginalIsAValue, ValuesAreNoMarks, NoResultTyped DEF Init
<1>1. Typed
  BY DEF Typed, Steps
<1>2. Prepared /\ Untouched
  BY DEF Prepared, Untouched, Before, NoResult
<1>3. Quiet /\ Killed
  BY DEF Quiet, Killed, GroupIsGone, NoResult
<1> QED BY <1>1, <1>2, <1>3 DEF Inv

\* OutputProtection.capture.
LEMMA CaptureKeeps == Inv /\ Capture => Inv'
<1> SUFFICES ASSUME Inv, Capture PROVE Inv'
  OBVIOUS
<1> USE OriginalIsAValue, ValuesAreNoMarks DEF Inv, Capture, Goto, tree, worktree
<1>1. Typed'
  <2>1. result' \in Results /\ captured' \subseteq Values /\ pc' \in Steps \cup Ended
    BY NoResultTyped DEF Typed, Steps, Ended
  <2> QED BY <2>1 DEF Typed
<1>2. Prepared'
  BY DEF Typed, Prepared, Untouched, Before, NoResult
<1>3. Untouched'
  BY DEF Typed, Prepared, Untouched, Before, NoResult
<1>4. Quiet'
  BY DEF Quiet, NoResult
<1>5. Killed'
  BY DEF Killed, GroupIsGone, Prepared, Before, NoResult
<1> QED BY <1>1, <1>2, <1>3, <1>4, <1>5

\* The planner, whichever programs and shells it finds.
LEMMA PlanKeeps == Inv /\ PlanCommand => Inv'
<1> SUFFICES ASSUME Inv, PlanCommand PROVE Inv'
  OBVIOUS
<1>1. /\ pc = "plan"
      /\ \/ pc' = "spawn" /\ result' = result
         \/ pc' = "check" /\ result' = [NoResult EXCEPT !.code = "unrunnable"]
      /\ UNCHANGED <<posix, setup, tree, worktree, captured, log, outlived, abandoned>>
  BY DEF PlanCommand, Goto
<1> USE <1>1 DEF Inv, tree, worktree
<1>2. Typed'
  BY DEF Typed, Results, NoResult, Steps
<1>3. Prepared'
  BY DEF Typed, Prepared, Before, NoResult
<1>4. Untouched'
  BY DEF Untouched, NoResult, Prepared, Before
<1>5. Quiet'
  BY DEF Quiet, NoResult
<1>6. Killed'
  BY DEF Killed, GroupIsGone, NoResult, Before
<1> QED BY <1>2, <1>3, <1>4, <1>5, <1>6

\* The guard is created and the process started.
LEMMA SpawnKeeps == Inv /\ (Spawn \/ Handle) => Inv'
<1> SUFFICES ASSUME Inv, Spawn \/ Handle PROVE Inv'
  OBVIOUS
<1> USE ValuesAreNoMarks DEF Inv, tree, worktree, Goto, Spawn, Handle
<1>1. Typed'
  BY DEF Typed, Results, NoResult, Steps, Waiting, Processes
<1>2. Prepared'
  BY DEF Typed, Prepared, Before, NoResult
<1>3. Untouched'
  BY DEF Typed, Untouched, NoResult, Prepared, Before
<1>4. Quiet'
  BY DEF Quiet, NoResult
<1>5. Killed'
  BY DEF Killed, GroupIsGone, NoResult, Before
<1> QED BY <1>1, <1>2, <1>3, <1>4, <1>5

\* The output ends, or the time is up.
LEMMA CommunicateKeeps == Inv /\ (Communicate \/ TimeOut) => Inv'
<1> SUFFICES ASSUME Inv, Communicate \/ TimeOut PROVE Inv'
  OBVIOUS
<1> USE ValuesAreNoMarks DEF Inv, tree, worktree, Goto, Communicate, TimeOut
<1>1. Typed'
  <2>1. printed \subseteq Values \cup {"text"}
    BY DEF Typed
  <2>2. result' \in Results
    BY <2>1 DEF Results, NoResult
  <2>3. pc' \in Steps \cup Ended
    BY DEF Steps, Waiting
  <2> QED BY <2>2, <2>3 DEF Typed
<1>2. Prepared'
  BY DEF Typed, Prepared, Before, NoResult
<1>3. Untouched'
  BY DEF Typed, Untouched, NoResult
<1>4. Quiet'
  BY DEF Typed, Quiet, NoResult, Returns
<1>5. Killed'
  BY DEF Killed, GroupIsGone, NoResult, Before
<1> QED BY <1>1, <1>2, <1>3, <1>4, <1>5

\* Killing takes processes away, and nothing else.
LEMMA KillTakes ==
  ASSUME Typed, KillTree
  PROVE  /\ alive' \subseteq alive /\ holding' \subseteq holding /\ holding' \subseteq alive'
         /\ exit' \in {"none", "zero", "failure", "killed"} /\ ("leader" \notin alive => exit' = exit)
         /\ abandoned' = "no" => alive' \cap Group = {}
<1>1. PICK kill \in Kills : Dies(kill.victims) /\ abandoned' = kill.why
  BY DEF KillTree
<1>2. kill.why = "no" => kill.victims = Group
  <2>1. \/ kill = [victims |-> Group, why |-> "no"]
        \/ kill = [victims |-> {"leader"}, why |-> "denied"]
        \/ kill = [victims |-> {"leader"}, why |-> "no tree"]
        \/ kill = [victims |-> {}, why |-> "no tree"]
    <3>1. CASE posix
      BY <3>1 DEF Kills
    <3>2. CASE ~posix /\ "leader" \in alive
      BY <3>2 DEF Kills
    <3>3. CASE ~posix /\ "leader" \notin alive
      BY <3>3 DEF Kills
    <3> QED BY <3>1, <3>2, <3>3
  <2>2. CASE kill = [victims |-> Group, why |-> "no"]
    BY <2>2
  <2>3. CASE kill = [victims |-> {"leader"}, why |-> "denied"]
    BY <2>3
  <2>4. CASE kill = [victims |-> {"leader"}, why |-> "no tree"]
    BY <2>4
  <2>5. CASE kill = [victims |-> {}, why |-> "no tree"]
    BY <2>5
  <2> QED BY <2>1, <2>2, <2>3, <2>4, <2>5
<1> QED BY <1>1, <1>2 DEF Typed, Dies

\* The tree is killed after the time or by a signal handler, or not at all.
LEMMA KillKeeps == Inv /\ (KillAfterTimeout \/ Signal) => Inv'
<1> SUFFICES ASSUME Inv, KillAfterTimeout \/ Signal PROVE Inv'
  OBVIOUS
<1>1. /\ alive' \subseteq alive /\ holding' \subseteq holding /\ holding' \subseteq alive'
      /\ exit' \in {"none", "zero", "failure", "killed"} /\ ("leader" \notin alive => exit' = exit)
      /\ abandoned' = "no" => alive' \cap Group = {}
      /\ UNCHANGED <<posix, setup, worktree, captured, result, log, outlived>>
  BY KillTakes DEF Inv, Typed, KillAfterTimeout, Signal, tree
<1>2. \/ pc = "killing" /\ pc' = "draining"
      \/ pc = "waiting" /\ pc' = "signalled"
      \/ pc \in Steps \ {"capture", "plan"} /\ pc' = "dead" /\ abandoned' = "unhandled"
  BY DEF KillAfterTimeout, Signal, Goto
<1> USE <1>1, <1>2 DEF Inv, tree, worktree
<1>3. Typed'
  BY DEF Typed, Steps, Ended, Waiting
<1>4. Prepared'
  <2>1. pc # "done" /\ pc # "capture"
    BY DEF Steps, Waiting
  <2>2. pc' \notin Before
    BY DEF Before
  <2> QED BY <2>1, <2>2 DEF Prepared, Before
<1>5. Untouched'
  BY DEF Untouched
<1>6. Quiet'
  BY DEF Quiet
<1>7. Killed'
  BY DEF Killed, GroupIsGone, Before
<1> QED BY <1>3, <1>4, <1>5, <1>6, <1>7

\* The second reading of the output, the wait for the leader, and the end of a handler.
LEMMA DrainKeeps == Inv /\ (Drain \/ Reap \/ Die) => Inv'
<1> SUFFICES ASSUME Inv, Drain \/ Reap \/ Die PROVE Inv'
  OBVIOUS
<1> USE ValuesAreNoMarks DEF Inv, tree, worktree, Goto, Drain, Reap, Die
<1>1. Typed'
  <2>1. result' \in Results /\ pc' \in Steps \cup Ended
    BY DEF Typed, Results, Steps, Waiting, Ended
  <2> QED BY <2>1 DEF Typed
<1>2. Prepared'
  BY DEF Typed, Prepared, Before, Results
<1>3. Untouched'
  BY DEF Typed, Untouched, Results
<1>4. Quiet'
  BY DEF Typed, Quiet, Results
<1>5. Killed'
  BY DEF Typed, Killed, GroupIsGone, Before, Results
<1> QED BY <1>1, <1>2, <1>3, <1>4, <1>5

\* The guard is stopped and the worktree looked at.
LEMMA GuardKeeps == Inv /\ (StopGuard \/ CheckClean) => Inv'
<1> SUFFICES ASSUME Inv, StopGuard \/ CheckClean PROVE Inv'
  OBVIOUS
<1> USE ValuesAreNoMarks DEF Inv, tree, worktree, Goto, StopGuard, CheckClean
<1>1. Typed'
  <2>1. result' \in Results /\ pc' \in Steps \cup Ended
    BY DEF Typed, Results, Steps, Changed, Failing
  <2> QED BY <2>1 DEF Typed
<1>2. Prepared'
  BY DEF Typed, Prepared, Before, Results
<1>3. Untouched'
  BY DEF Typed, Untouched, Results, Changed
<1>4. Quiet'
  BY DEF Typed, Quiet, Results, Changed, Failing
<1>5. Killed'
  BY DEF Typed, Killed, GroupIsGone, Before, Results
<1> QED BY <1>1, <1>2, <1>3, <1>4, <1>5

\* OutputProtection.finish.
LEMMA FinishKeeps == Inv /\ Finish => Inv'
<1> SUFFICES ASSUME Inv, Finish PROVE Inv'
  OBVIOUS
<1> USE ValuesAreNoMarks DEF Inv, tree, worktree, Goto, Finish
<1>1. Typed'
  <2>1. result' \in Results /\ pc' \in Steps \cup Ended
    BY DEF Typed, Results, Ended, Failing
  <2> QED BY <2>1 DEF Typed
<1>2. Prepared'
  BY DEF Typed, Prepared, Before, Results
<1>3. Untouched'
  BY DEF Typed, Untouched, Prepared, Results
<1>4. Quiet'
  BY DEF Typed, Quiet, Results, Failing, Prepared, Untouched
<1>5. Killed'
  BY DEF Typed, Killed, GroupIsGone, Before, Results
<1> QED BY <1>1, <1>2, <1>3, <1>4, <1>5

\* The processes of the command: only those that live and hold the pipe act.
LEMMA ProcessMoves ==
  ASSUME Typed, NEW p \in Processes, Runs(p)
  PROVE  /\ p \in alive /\ UNCHANGED <<posix, setup, command, pc, captured, result, log, outlived, abandoned>>
         /\ alive' \subseteq Processes /\ holding' \subseteq alive' /\ (holding = {} => holding' = {})
         /\ "leader" \notin alive => "leader" \notin alive' /\ exit' = exit
         /\ alive \cap Group = {} => alive' \cap Group = {}
         /\ exit' \in {"none", "zero", "failure", "killed"}
         /\ touched' \in BOOLEAN /\ dirty' \in BOOLEAN /\ (touched => touched')
         /\ file' \in Values \cup {"unreadable"} /\ exposed \subseteq exposed' /\ exposed' \subseteq Values
         /\ printed \subseteq printed' /\ printed' \subseteq exposed' \cup {"text"}
         /\ ~touched' => file' = file /\ exposed' = exposed
<1>0. UNCHANGED <<posix, setup, command, pc, captured, result, log, outlived, abandoned>>
  BY DEF Runs
<1> USE DEF tree, worktree, Typed
<1>1. CASE Fork(p)
  BY <1>0, <1>1 DEF Fork, Group, Processes
<1>2. CASE Exit(p)
  BY <1>0, <1>2 DEF Exit
<1>3. CASE CloseOutput(p)
  BY <1>0, <1>3 DEF CloseOutput
<1>4. CASE WriteOutput(p)
  BY <1>0, <1>4 DEF WriteOutput
<1>5. CASE WriteFile(p)
  BY <1>0, <1>5 DEF WriteFile
<1>6. CASE ChangeWorktree(p)
  BY <1>0, <1>6 DEF ChangeWorktree
<1> QED BY <1>1, <1>2, <1>3, <1>4, <1>5, <1>6 DEF Runs

\* Nothing the command does breaks the invariant.
LEMMA RunsKeep ==
  ASSUME Inv, NEW p \in Processes, pc \notin Ended, Runs(p)
  PROVE  Inv'
<1> USE ProcessMoves DEF Inv
<1>1. Typed'
  BY DEF Typed
<1>2. Prepared'
  BY DEF Prepared, Ended
<1>3. Untouched'
  BY DEF Untouched, Prepared, Ended
<1>4. Quiet'
  BY DEF Quiet, Ended
<1>5. Killed'
  BY DEF Killed, GroupIsGone
<1> QED BY <1>1, <1>2, <1>3, <1>4, <1>5

\* Every step keeps the invariant.
LEMMA NextKeeps == Inv /\ [Next]_vars => Inv'
<1>1. Inv /\ UNCHANGED vars => Inv'
  BY DEF vars, tree, worktree, Inv, Typed, Prepared, Untouched, Quiet, Killed, GroupIsGone
<1> QED
  BY <1>1, CaptureKeeps, PlanKeeps, SpawnKeeps, CommunicateKeeps, KillKeeps, DrainKeeps, GuardKeeps, FinishKeeps, RunsKeep
  DEF Next, Protected

\* The invariant holds in every state.
LEMMA InvHolds == Spec => []Inv
BY InitHolds, NextKeeps, PTL DEF Spec

\* Every variable has its type, and what was printed the file once held.
THEOREM TypeCorrect == Spec => []TypeOK
<1>1. Inv => TypeOK
  BY DEF Inv, Typed, TypeOK, Results, Untouched
<1> QED BY <1>1, InvHolds, PTL

\* No value the copied file held at any time appears in the log
\* (OutputProtection and _CopiedFileMutationGuard).
THEOREM SecretsAreKept == Spec => []SecretsStayOut
<1>1. Inv => SecretsStayOut
  BY ValuesAreNoMarks DEF Inv, Typed, Untouched, SecretsStayOut
<1> QED BY <1>1, InvHolds, PTL

\* A command that passed did so by itself and as a whole (run_stage).
THEOREM PassIsWhole == Spec => []PassedIsWhole
<1>1. Inv => PassedIsWhole
  BY DEF Inv, Quiet, PassedIsWhole
<1> QED BY <1>1, InvHolds, PTL

\* A process group that was killed as a whole is gone (_kill_process_tree).
THEOREM KilledIsGone == Spec => []GroupIsGone
<1>1. Inv => GroupIsGone
  BY DEF Inv, Killed
<1> QED BY <1>1, InvHolds, PTL

\* The command is a sequence of characters, until it is planned and dropped.
Written == command \in Seq(Characters)

LEMMA WrittenHolds == Spec => []Written
<1>1. Init => Written
  BY CommandsAssumption DEF Init, Written
<1>2. Written /\ [Next]_vars => Written'
  <2> SUFFICES ASSUME Written, [Next]_vars PROVE Written'
    OBVIOUS
  <2>1. CASE PlanCommand
    BY <2>1 DEF PlanCommand, Written
  <2>2. CASE Signal \/ UNCHANGED vars
    BY <2>2 DEF Signal, vars, Written
  <2>3. CASE \E p \in Processes : pc \notin Ended /\ Runs(p)
    BY <2>3 DEF Runs, Written
  <2>4. CASE Protected /\ ~PlanCommand
    BY <2>4 DEF Protected, Capture, Spawn, Handle, Communicate, TimeOut, KillAfterTimeout, Drain, Reap,
              StopGuard, CheckClean, Finish, Die, Written
  <2> QED BY <2>1, <2>2, <2>3, <2>4 DEF Next
<1> QED BY <1>1, <1>2, PTL DEF Spec

\* A command that is handed to the operating system without a shell runs the
\* program and the arguments a shell would have run, however long it is and
\* whichever characters it has (command.plan).
THEOREM DirectRunsTheSame == Spec => []DirectIsTheSame
<1>1. Inv /\ Written => DirectIsTheSame
  BY SplitsOnly DEF Inv, Typed, Written, DirectIsTheSame
<1> QED BY <1>1, InvHolds, WrittenHolds, PTL
=============================================================================
