--------------------- MODULE TransformEvaluationProofs ---------------------
(***************************************************************************)
(* Planning and evaluation proved for every forest, every order freezing   *)
(* may produce, any workspaces, plan handles, requests and generation      *)
(* width: plans are exact, stale ones are refused, evaluation implements   *)
(* SceneTransforms, and what SceneTransforms promises is coherent.         *)
(***************************************************************************)
EXTENDS TransformEvaluation, FiniteSetTheorems, WellFoundedInduction, SequenceTheorems, TLAPS

-----------------------------------------------------------------------------
(* Induction and recursion up to a bound                                   *)

(* A nonempty set of naturals has a least member.                          *)
LEMMA Least ==
  ASSUME NEW T, T \subseteq Nat, T # {}
  PROVE  \E x \in T : \A y \in T : x <= y
<1> DEFINE R == {p \in Nat \X Nat : p[1] < p[2]}
<1>1. IsWellFoundedOn(R, Nat)
  BY NatLessThanWellFounded DEF OpToRel
<1>2. \E x \in T : \A y \in T : ~ (<<y, x>> \in R)
  <2> HIDE DEF R
  <2> QED BY <1>1, WFMin, Zenon
<1>3. PICK x \in T : \A y \in T : ~ (<<y, x>> \in R)
  BY <1>2
<1>4. ASSUME NEW y \in T PROVE x <= y
  <2>1. <<y, x>> \in Nat \X Nat BY Zenon
  <2>2. ~ (y < x) BY <1>3, <2>1
  <2> QED BY <2>2
<1> QED BY <1>4

(* Induction up to a bound, about a set instead of a formula.              *)
LEMMA UpTo ==
  ASSUME NEW n \in Nat, NEW S, 0 \in S, \A i \in 1 .. n : i - 1 \in S => i \in S
  PROVE  0 .. n \subseteq S
<1> DEFINE T == {i \in 0 .. n : i \notin S}
<1>1. CASE T # {}
  <2>1. T \subseteq Nat OBVIOUS
  <2>2. PICK x \in T : \A y \in T : x <= y BY <1>1, <2>1, Least
  <2>3. x \in 1 .. n /\ x - 1 \in 0 .. n /\ x \notin S BY <2>2
  <2>4. x - 1 \notin T BY <2>2, <2>3
  <2> QED BY <2>3, <2>4
<1> QED BY <1>1

(* f takes n steps from base.                                              *)
Iterated(f, V, n, base, step) ==
  f \in [0 .. n -> V] /\ f[0] = base /\ \A i \in 1 .. n : f[i] = step[i][f[i - 1]]

(* A function with the values of a recursion exists.                       *)
LEMMA Iterates ==
  ASSUME NEW V, NEW n \in Nat, NEW base \in V, NEW step \in [1 .. n -> [V -> V]]
  PROVE  \E f : Iterated(f, V, n, base, step)
<1> DEFINE Solves(f, m) == f[0] = base /\ \A i \in 1 .. m : f[i] = step[i][f[i - 1]]
           S == {m \in 0 .. n : \E f \in [0 .. m -> V] : Solves(f, m)}
<1>1. 0 \in S
  <2>1. [i \in 0 .. 0 |-> base] \in [0 .. 0 -> V] /\ Solves([i \in 0 .. 0 |-> base], 0)
    OBVIOUS
  <2> HIDE DEF Solves
  <2> QED BY <2>1
<1>2. ASSUME NEW m \in 1 .. n, m - 1 \in S PROVE m \in S
  <2>1. PICK f \in [0 .. (m - 1) -> V] : Solves(f, m - 1) BY <1>2
  <2> DEFINE g == [i \in 0 .. m |-> IF i = m THEN step[m][f[m - 1]] ELSE f[i]]
  <2>2. f[m - 1] \in V /\ step[m] \in [V -> V]
    OBVIOUS
  <2>3. g \in [0 .. m -> V]
    BY <2>2
  <2>4. ASSUME NEW i \in 0 .. (m - 1) PROVE g[i] = f[i] /\ i \in 0 .. m
    OBVIOUS
  <2>5. g[m] = step[m][f[m - 1]]
    OBVIOUS
  <2> HIDE DEF g
  <2>6. g[0] = base
    BY <2>1, <2>4
  <2>7. ASSUME NEW i \in 1 .. m PROVE g[i] = step[i][g[i - 1]]
    <3>1. CASE i = m BY <3>1, <2>4, <2>5, m - 1 \in 0 .. (m - 1)
    <3>2. CASE i # m
      <4>1. i \in 1 .. (m - 1) /\ i - 1 \in 0 .. (m - 1) /\ i \in 0 .. (m - 1)
        BY <3>2
      <4> QED BY <4>1, <2>1, <2>4
    <3> QED BY <3>1, <3>2
  <2>8. Solves(g, m)
    BY <2>6, <2>7
  <2> HIDE DEF Solves
  <2> QED BY <2>3, <2>8
<1>3. n \in S
  <2> HIDE DEF S
  <2>1. \A i \in 1 .. n : i - 1 \in S => i \in S BY <1>2
  <2>2. 0 .. n \subseteq S BY <1>1, <2>1, UpTo
  <2> QED BY <2>2
<1>4. PICK f \in [0 .. n -> V] : Solves(f, n) BY <1>3
<1> QED BY <1>4 DEF Iterated

-----------------------------------------------------------------------------
(* Filtered and ascending sequences                                        *)

FilterSteps(f, X, q, S) ==
  /\ f \in [0 .. Len(q) -> Seq(X)] /\ f[0] = <<>> /\ Filter(q, S) = f[Len(q)]
  /\ \A i \in 1 .. Len(q) : f[i] = IF q[i] \in S THEN Append(f[i - 1], q[i]) ELSE f[i - 1]

(* The recursion of Filter has a solution, and its last value is Filter's. *)
LEMMA FilterRecursion ==
  ASSUME NEW X, NEW q \in Seq(X), NEW S
  PROVE  \E f : FilterSteps(f, X, q, S)
<1> DEFINE n == Len(q)
           step == [i \in 1 .. n |-> [p \in Seq(X) |-> IF q[i] \in S THEN Append(p, q[i]) ELSE p]]
           Solution(f) == f = [i \in 0 .. n |->
                                 IF i = 0 THEN <<>>
                                 ELSE IF q[i] \in S THEN Append(f[i - 1], q[i]) ELSE f[i - 1]]
<1>1. n \in Nat OBVIOUS
<1>2. step \in [1 .. n -> [Seq(X) -> Seq(X)]] OBVIOUS
<1>3. PICK f : Iterated(f, Seq(X), n, <<>>, step)
  <2> HIDE DEF n, step
  <2>1. <<>> \in Seq(X) OBVIOUS
  <2> QED BY <1>1, <1>2, <2>1, Iterates
<1>4. /\ f \in [0 .. n -> Seq(X)] /\ f[0] = <<>>
      /\ \A i \in 1 .. n : f[i] = step[i][f[i - 1]]
  <2> HIDE DEF n, step
  <2> QED BY <1>3 DEF Iterated
<1>5. ASSUME NEW i \in 1 .. n
      PROVE  f[i] = IF q[i] \in S THEN Append(f[i - 1], q[i]) ELSE f[i - 1]
  <2>1. f[i - 1] \in Seq(X) BY <1>1, <1>4
  <2> QED BY <1>4, <2>1
<1> HIDE DEF step
<1>6. Solution(f)
  <2>1. f = [i \in 0 .. n |-> f[i]] BY <1>4
  <2>2. ASSUME NEW i \in 0 .. n
        PROVE  f[i] = IF i = 0 THEN <<>>
                      ELSE IF q[i] \in S THEN Append(f[i - 1], q[i]) ELSE f[i - 1]
    <3>1. i # 0 => i \in 1 .. n BY <1>1
    <3> QED BY <1>4, <1>5, <3>1
  <2> QED BY <2>1, <2>2, Zenon
<1> DEFINE g == CHOOSE h : Solution(h)
<1>7. Solution(g)
  <2> HIDE DEF Solution
  <2> QED BY <1>6
<1>8. Filter(q, S) = g[n] BY DEF Filter
<1> HIDE DEF g, n
<1>9. g = f
  <2> DEFINE T == {i \in 0 .. n : g[i] = f[i]}
  <2>1. \A i \in 0 .. n : g[i] = IF i = 0 THEN <<>>
                                ELSE IF q[i] \in S THEN Append(g[i - 1], q[i]) ELSE g[i - 1]
    BY <1>7, Zenon
  <2>2. g = [i \in 0 .. n |-> g[i]] /\ f = [i \in 0 .. n |-> f[i]]
    BY <1>4, <1>7
  <2> HIDE DEF Solution
  <2>3. 0 \in T BY <1>1, <1>4, <2>1
  <2>4. ASSUME NEW i \in 1 .. n, i - 1 \in T PROVE i \in T
    <3>1. i \in 0 .. n /\ i # 0 BY <1>1
    <3>2. g[i] = IF q[i] \in S THEN Append(g[i - 1], q[i]) ELSE g[i - 1] BY <2>1, <3>1
    <3>3. g[i - 1] = f[i - 1] BY <2>4
    <3>4. g[i] = f[i] BY <1>5, <3>2, <3>3
    <3> QED BY <3>1, <3>4
  <2>5. 0 .. n \subseteq T
    <3> HIDE DEF T
    <3> QED BY <1>1, <2>3, <2>4, UpTo
  <2>6. \A i \in 0 .. n : g[i] = f[i] BY <2>5
  <2> QED BY <2>2, <2>6, Zenon
<1> QED BY <1>4, <1>5, <1>8, <1>9 DEF n, FilterSteps

(* Filter keeps the members in S, in their order.                          *)
LEMMA Filtered ==
  ASSUME NEW X, NEW q \in Seq(X), NEW S
  PROVE  /\ Filter(q, S) \in Seq(X)
         /\ \A x : x \in ToSet(Filter(q, S)) <=> x \in ToSet(q) /\ x \in S
         /\ \A i, j \in 1 .. Len(Filter(q, S)) : i < j =>
              \E k, l \in 1 .. Len(q) :
                k < l /\ Filter(q, S)[i] = q[k] /\ Filter(q, S)[j] = q[l]
<1> DEFINE n == Len(q)
<1>a. PICK f : FilterSteps(f, X, q, S) BY FilterRecursion
<1>1. /\ f \in [0 .. n -> Seq(X)] /\ f[0] = <<>> /\ Filter(q, S) = f[n]
      /\ \A i \in 1 .. n : f[i] = IF q[i] \in S THEN Append(f[i - 1], q[i]) ELSE f[i - 1]
  BY <1>a DEF FilterSteps
<1> DEFINE Sound(i) == \A m \in 1 .. Len(f[i]) : f[i][m] \in S /\ \E k \in 1 .. i : f[i][m] = q[k]
           Full(i) == \A k \in 1 .. i : q[k] \in S => \E m \in 1 .. Len(f[i]) : f[i][m] = q[k]
           Kept(i) == \A a, b \in 1 .. Len(f[i]) : a < b =>
                        \E k, l \in 1 .. i : k < l /\ f[i][a] = q[k] /\ f[i][b] = q[l]
           T == {i \in 0 .. n : Sound(i) /\ Full(i) /\ Kept(i)}
<1>0. n \in Nat OBVIOUS
<1>2. 0 \in T BY <1>0, <1>1
<1>3. ASSUME NEW i \in 1 .. n, i - 1 \in T PROVE i \in T
  <2>1. Sound(i - 1) /\ Full(i - 1) /\ Kept(i - 1) BY <1>3
  <2>2. i \in Nat /\ i >= 1 /\ f[i - 1] \in Seq(X) /\ q[i] \in X
    <3>1. i \in Nat /\ i >= 1 /\ i - 1 \in 0 .. n BY <1>0
    <3> QED BY <1>1, <3>1
  <2> DEFINE p == f[i - 1]
  <2>3. CASE q[i] \notin S
    <3>1. f[i] = p BY <1>1, <2>3
    <3>2. 1 .. i = (1 .. i - 1) \union {i} BY <2>2
    <3>3. Sound(i) BY <2>1, <3>1, <3>2
    <3>4. Full(i) BY <2>1, <2>3, <3>1, <3>2
    <3>5. Kept(i) BY <2>1, <3>1, <3>2
    <3> QED BY <1>0, <3>3, <3>4, <3>5
  <2>4. CASE q[i] \in S
    <3>1. f[i] = Append(p, q[i]) BY <1>1, <2>4
    <3>2. /\ Len(f[i]) = Len(p) + 1 /\ f[i][Len(p) + 1] = q[i] /\ Len(p) \in Nat
          /\ \A m \in 1 .. Len(p) : f[i][m] = p[m]
      BY <2>2, <3>1
    <3>a. 1 .. i = (1 .. i - 1) \union {i} BY <2>2
    <3>b. 1 .. Len(f[i]) = (1 .. Len(p)) \union {Len(p) + 1}
      <4>1. \A k \in Nat : 1 .. k + 1 = (1 .. k) \union {k + 1} OBVIOUS
      <4> HIDE DEF p
      <4> QED BY <3>2, <4>1
    <3>3. /\ 1 .. i = (1 .. i - 1) \union {i}
          /\ 1 .. Len(f[i]) = (1 .. Len(p)) \union {Len(p) + 1}
      BY <3>a, <3>b
    <3>4. Sound(i)
      <4> SUFFICES ASSUME NEW m \in 1 .. Len(f[i])
                   PROVE  f[i][m] \in S /\ \E k \in 1 .. i : f[i][m] = q[k]
        OBVIOUS
      <4>1. CASE m = Len(p) + 1 BY <2>4, <3>2, <3>3, <4>1
      <4>2. CASE m \in 1 .. Len(p)
        <5>1. p[m] \in S /\ \E k \in 1 .. i - 1 : p[m] = q[k] BY <2>1, <4>2
        <5> QED BY <3>2, <3>a, <4>2, <5>1
      <4> QED BY <3>3, <4>1, <4>2
    <3>5. Full(i)
      <4> SUFFICES ASSUME NEW k \in 1 .. i, q[k] \in S
                   PROVE  \E m \in 1 .. Len(f[i]) : f[i][m] = q[k]
        OBVIOUS
      <4>1. CASE k = i BY <3>2, <3>3, <4>1
      <4>2. CASE k \in 1 .. i - 1
        <5>1. PICK m \in 1 .. Len(p) : p[m] = q[k] BY <2>1, <4>2
        <5> QED BY <3>2, <3>3, <5>1
      <4> QED BY <3>3, <4>1, <4>2
    <3>6. Kept(i)
      <4> SUFFICES ASSUME NEW a \in 1 .. Len(f[i]), NEW b \in 1 .. Len(f[i]), a < b
                   PROVE  \E k, l \in 1 .. i : k < l /\ f[i][a] = q[k] /\ f[i][b] = q[l]
        OBVIOUS
      <4>1. a \in 1 .. Len(p) BY <3>2
      <4>2. CASE b = Len(p) + 1
        <5>1. PICK k \in 1 .. i - 1 : p[a] = q[k] BY <2>1, <4>1
        <5>2. k \in 1 .. i /\ i \in 1 .. i /\ k < i BY <2>2
        <5>3. f[i][a] = q[k] /\ f[i][b] = q[i] BY <3>2, <4>1, <4>2, <5>1
        <5> QED BY <5>2, <5>3
      <4>3. CASE b \in 1 .. Len(p)
        <5>1. PICK k \in 1 .. i - 1, l \in 1 .. i - 1 : k < l /\ p[a] = q[k] /\ p[b] = q[l]
          BY <2>1, <4>1, <4>3
        <5>2. k \in 1 .. i /\ l \in 1 .. i BY <3>3
        <5>3. f[i][a] = q[k] /\ f[i][b] = q[l] BY <3>2, <4>1, <4>3, <5>1
        <5> QED BY <5>1, <5>2, <5>3
      <4> QED BY <3>3, <4>2, <4>3
    <3> QED BY <1>0, <3>4, <3>5, <3>6
  <2> QED BY <2>3, <2>4
<1>4. n \in T
  <2> HIDE DEF T, n
  <2>1. 0 .. n \subseteq T BY <1>0, <1>2, <1>3, UpTo
  <2> QED BY <1>0, <2>1
<1>5. Sound(n) /\ Full(n) /\ Kept(n) BY <1>4
<1>6. f[n] \in Seq(X)
  <2>1. n \in 0 .. n BY <1>0
  <2> QED BY <1>1, <2>1
<1>7. ToSet(f[n]) = {f[n][m] : m \in 1 .. Len(f[n])} /\ ToSet(q) = {q[k] : k \in 1 .. n}
  BY <1>6 DEF ToSet
<1>8. ASSUME NEW x PROVE x \in ToSet(f[n]) <=> x \in ToSet(q) /\ x \in S
  <2>1. ASSUME x \in ToSet(f[n]) PROVE x \in ToSet(q) /\ x \in S
    <3>1. PICK m \in 1 .. Len(f[n]) : x = f[n][m] BY <1>7, <2>1
    <3>2. PICK k \in 1 .. n : f[n][m] = q[k] BY <1>5
    <3> QED BY <1>5, <1>7, <3>1, <3>2
  <2>2. ASSUME x \in ToSet(q), x \in S PROVE x \in ToSet(f[n])
    <3>1. PICK k \in 1 .. n : x = q[k] BY <1>7, <2>2
    <3>2. PICK m \in 1 .. Len(f[n]) : f[n][m] = q[k] BY <1>5, <2>2, <3>1
    <3> QED BY <1>7, <3>1, <3>2
  <2> QED BY <2>1, <2>2
<1> QED BY <1>1, <1>5, <1>6, <1>8

(* The members of q come by increasing key.                                *)
Ascending(q, key) == \A i, j \in 1 .. Len(q) : i < j => key[q[i]] < key[q[j]]

(* An ascending sequence has no member twice.                              *)
LEMMA AscendingOnce ==
  ASSUME NEW X, NEW key \in [X -> Int], NEW q \in Seq(X), Ascending(q, key)
  PROVE  \A i, j \in 1 .. Len(q) : q[i] = q[j] => i = j
<1> SUFFICES ASSUME NEW i \in 1 .. Len(q), NEW j \in 1 .. Len(q), q[i] = q[j] PROVE i = j
  OBVIOUS
<1>1. key[q[i]] \in Int OBVIOUS
<1>2. ~ (i < j) BY <1>1 DEF Ascending
<1>3. ~ (j < i) BY <1>1 DEF Ascending
<1> QED BY <1>2, <1>3

(* The common part of two ascending sequences with the same members.       *)
LEMMA AscendingPrefix ==
  ASSUME NEW X, NEW key \in [X -> Int], NEW p \in Seq(X), NEW q \in Seq(X),
         Ascending(p, key), Ascending(q, key), ToSet(p) = ToSet(q)
  PROVE  Len(p) <= Len(q) /\ \A i \in 1 .. Len(p) : p[i] = q[i]
<1> DEFINE Bad == {i \in 1 .. Len(p) : ~ (i <= Len(q) /\ p[i] = q[i])}
<1>0. Len(p) \in Nat /\ Len(q) \in Nat OBVIOUS
<1>1. ToSet(p) = {p[k] : k \in 1 .. Len(p)} /\ ToSet(q) = {q[k] : k \in 1 .. Len(q)}
  BY DEF ToSet
<1>2. CASE Bad # {}
  <2>1. Bad \subseteq Nat OBVIOUS
  <2>2. PICK i \in Bad : \A k \in Bad : i <= k
    <3> HIDE DEF Bad
    <3> QED BY <1>2, <2>1, Least
  <2>3. ASSUME NEW k \in 1 .. Len(p), k < i PROVE k <= Len(q) /\ p[k] = q[k]
    BY <2>2, <2>3
  <2>4. PICK j \in 1 .. Len(q) : p[i] = q[j]
    <3>1. p[i] \in ToSet(q) BY <1>1
    <3> QED BY <1>1, <3>1
  <2>5. ~ (j < i)
    <3>1. SUFFICES ASSUME j < i PROVE FALSE OBVIOUS
    <3>2. j \in 1 .. Len(p) BY <1>0, <3>1
    <3>3. p[j] = p[i] BY <2>3, <2>4, <3>1, <3>2
    <3> QED BY <3>1, <3>2, <3>3, AscendingOnce
  <2>6. i < j BY <2>4, <2>5
  <2>7. i \in 1 .. Len(q) BY <1>0, <2>6
  <2>8. PICK m \in 1 .. Len(p) : q[i] = p[m]
    <3>1. q[i] \in ToSet(p) BY <1>1, <2>7
    <3> QED BY <1>1, <3>1
  <2>9. ~ (m < i)
    <3>1. SUFFICES ASSUME m < i PROVE FALSE OBVIOUS
    <3>2. q[m] = q[i] /\ m \in 1 .. Len(q) BY <1>0, <2>3, <2>8, <3>1
    <3> QED BY <2>7, <3>1, <3>2, AscendingOnce
  <2>10. m # i BY <2>7, <2>8
  <2>11. i < m BY <2>9, <2>10
  <2>12. key[p[i]] < key[p[m]] BY <2>11 DEF Ascending
  <2>13. key[q[i]] < key[q[j]] BY <2>6, <2>7 DEF Ascending
  <2>14. key[p[i]] \in Int /\ key[q[i]] \in Int BY <2>7
  <2> QED BY <2>4, <2>8, <2>12, <2>13, <2>14
<1>3. CASE Bad = {}
  <2>1. \A i \in 1 .. Len(p) : i <= Len(q) /\ p[i] = q[i] BY <1>3
  <2>2. CASE Len(p) = 0 BY <1>0, <2>2
  <2>3. CASE Len(p) # 0 BY <1>0, <2>1, <2>3
  <2> QED BY <2>1, <2>2, <2>3
<1> QED BY <1>2, <1>3

(* They are equal.                                                         *)
LEMMA AscendingEqual ==
  ASSUME NEW X, NEW key \in [X -> Int], NEW p \in Seq(X), NEW q \in Seq(X),
         Ascending(p, key), Ascending(q, key), ToSet(p) = ToSet(q)
  PROVE  p = q
<1>1. Len(p) <= Len(q) /\ \A i \in 1 .. Len(p) : p[i] = q[i] BY AscendingPrefix
<1>2. Len(q) <= Len(p) BY AscendingPrefix
<1>3. Len(p) = Len(q) /\ Len(p) \in Nat BY <1>1, <1>2
<1> QED BY <1>1, <1>3, SeqEqual

(* What is filtered from an ascending sequence is ascending.               *)
LEMMA FilterAscending ==
  ASSUME NEW X, NEW key \in [X -> Int], NEW q \in Seq(X), NEW S, Ascending(q, key)
  PROVE  Ascending(Filter(q, S), key)
<1> DEFINE p == Filter(q, S)
<1> SUFFICES ASSUME NEW i \in 1 .. Len(p), NEW j \in 1 .. Len(p), i < j
             PROVE  key[p[i]] < key[p[j]]
  BY DEF Ascending
<1>1. PICK k \in 1 .. Len(q), l \in 1 .. Len(q) : k < l /\ p[i] = q[k] /\ p[j] = q[l]
  BY Filtered
<1> HIDE DEF p
<1> QED BY <1>1 DEF Ascending

Before(S, T, key) == \A x \in S, y \in T : key[x] < key[y]

(* A sequence extended by members with larger keys is ascending.           *)
LEMMA AscendingConcat ==
  ASSUME NEW X, NEW key \in [X -> Int], NEW p \in Seq(X), NEW q \in Seq(X),
         Ascending(p, key), Ascending(q, key),
         Before(ToSet(p), ToSet(q), key)
  PROVE  Ascending(p \o q, key) /\ ToSet(p \o q) = ToSet(p) \union ToSet(q) /\ p \o q \in Seq(X)
<1> DEFINE m == Len(p)
           n == Len(q)
<1>1. /\ p \o q \in Seq(X) /\ Len(p \o q) = m + n /\ m \in Nat /\ n \in Nat
      /\ \A i \in 1 .. m + n : (p \o q)[i] = IF i <= m THEN p[i] ELSE q[i - m]
  BY ConcatProperties
<1>2. /\ ToSet(p) = {p[k] : k \in 1 .. m} /\ ToSet(q) = {q[k] : k \in 1 .. n}
      /\ ToSet(p \o q) = {(p \o q)[k] : k \in 1 .. m + n}
  <2>1. DOMAIN (p \o q) = 1 .. m + n /\ DOMAIN p = 1 .. m /\ DOMAIN q = 1 .. n
    <3>1. DOMAIN (p \o q) = 1 .. Len(p \o q) BY <1>1, LenProperties
    <3>2. Len(p \o q) = m + n BY <1>1
    <3> HIDE DEF m, n
    <3>3. DOMAIN (p \o q) = 1 .. m + n BY <3>1, <3>2
    <3> QED BY <3>3 DEF m, n
  <2> HIDE DEF m, n
  <2> QED BY <2>1 DEF ToSet
<1> HIDE DEF m, n
<1>3. ASSUME NEW i \in 1 .. m + n, NEW j \in 1 .. m + n, i < j
      PROVE  key[(p \o q)[i]] < key[(p \o q)[j]]
  <2>1. CASE j <= m
    <3>1. i \in 1 .. m /\ j \in 1 .. m BY <1>1, <1>3, <2>1
    <3> QED BY <1>1, <1>3, <2>1, <3>1 DEF Ascending, m
  <2>2. CASE i > m
    <3>1. i - m \in 1 .. n /\ j - m \in 1 .. n /\ i - m < j - m BY <1>1, <1>3, <2>2
    <3>2. (p \o q)[i] = q[i - m] /\ (p \o q)[j] = q[j - m]
      BY <1>1, <1>3, <2>2, ~(i <= m), ~(j <= m)
    <3> QED BY <3>1, <3>2 DEF Ascending, n
  <2>3. CASE i <= m /\ j > m
    <3>1. i \in 1 .. m /\ j - m \in 1 .. n BY <1>1, <2>3
    <3>2. (p \o q)[i] = p[i] /\ (p \o q)[j] = q[j - m] BY <1>1, <2>3
    <3> QED BY <1>2, <3>1, <3>2 DEF Before
  <2>4. i \in Int /\ j \in Int /\ m \in Int /\ (j <= m \/ i > m \/ (i <= m /\ j > m))
    BY <1>1, <1>3
  <2> QED BY <2>1, <2>2, <2>3, <2>4
<1>4. ToSet(p \o q) = ToSet(p) \union ToSet(q)
  <2>1. ASSUME NEW k \in 1 .. m PROVE p[k] \in ToSet(p \o q)
    <3>1. k \in 1 .. m + n /\ (p \o q)[k] = p[k] BY <1>1
    <3> QED BY <1>2, <3>1
  <2>2. ASSUME NEW k \in 1 .. n PROVE q[k] \in ToSet(p \o q)
    <3>1. k + m \in 1 .. m + n /\ ~ (k + m <= m) /\ (k + m) - m = k BY <1>1
    <3>2. (p \o q)[k + m] = q[k] BY <1>1, <3>1
    <3> QED BY <1>2, <3>1, <3>2
  <2>3. ASSUME NEW k \in 1 .. m + n PROVE (p \o q)[k] \in ToSet(p) \union ToSet(q)
    <3>1. CASE k <= m
      <4>1. k \in 1 .. m BY <1>1, <3>1
      <4> QED BY <1>1, <1>2, <3>1, <4>1
    <3>2. CASE k > m
      <4>1. k - m \in 1 .. n /\ ~ (k <= m) BY <1>1, <3>2
      <4>2. (p \o q)[k] = q[k - m] BY <1>1, <4>1
      <4> QED BY <1>2, <4>1, <4>2
    <3> QED BY <1>1, <3>1, <3>2
  <2> QED BY <1>2, <2>1, <2>2, <2>3
<1> QED BY <1>1, <1>3, <1>4 DEF Ascending

(* One member more.                                                        *)
LEMMA Appended ==
  ASSUME NEW X, NEW q \in Seq(X), NEW x \in X
  PROVE  /\ Append(q, x) \in Seq(X) /\ ToSet(Append(q, x)) = ToSet(q) \union {x}
         /\ \A key \in [X -> Int] :
              (Ascending(q, key) /\ \A y \in ToSet(q) : key[y] < key[x]) =>
                Ascending(Append(q, x), key)
<1>1. /\ Append(q, x) \in Seq(X) /\ Len(Append(q, x)) = Len(q) + 1 /\ Len(q) \in Nat
      /\ \A i \in 1 .. Len(q) : Append(q, x)[i] = q[i]
      /\ Append(q, x)[Len(q) + 1] = x
  OBVIOUS
<1>2. 1 .. Len(q) + 1 = (1 .. Len(q)) \union {Len(q) + 1} BY <1>1
<1>3. /\ ToSet(q) = {q[i] : i \in 1 .. Len(q)}
      /\ ToSet(Append(q, x)) = {Append(q, x)[i] : i \in 1 .. Len(q) + 1}
  BY <1>1 DEF ToSet
<1>4. ToSet(Append(q, x)) = ToSet(q) \union {x}
  BY <1>1, <1>2, <1>3
<1>5. ASSUME NEW key \in [X -> Int], Ascending(q, key), \A y \in ToSet(q) : key[y] < key[x]
      PROVE  Ascending(Append(q, x), key)
  <2> SUFFICES ASSUME NEW i \in 1 .. Len(q) + 1, NEW j \in 1 .. Len(q) + 1, i < j
               PROVE  key[Append(q, x)[i]] < key[Append(q, x)[j]]
    BY <1>1 DEF Ascending
  <2>1. i \in 1 .. Len(q) BY <1>1
  <2>2. CASE j = Len(q) + 1 BY <1>1, <1>3, <1>5, <2>1, <2>2
  <2>3. CASE j \in 1 .. Len(q) BY <1>1, <1>5, <2>1, <2>3 DEF Ascending
  <2> QED BY <1>2, <2>2, <2>3
<1> QED BY <1>1, <1>4, <1>5

-----------------------------------------------------------------------------
(* The topological order and the forest                                    *)

(* Ranks are the positions of the order, and parents come first.           *)
LEMMA OrderFacts ==
  ASSUME order \in Orders
  PROVE  /\ order \in Seq(Node) /\ Len(order) \in Nat /\ ToSet(order) = Node
         /\ rank \in [Node -> Int]
         /\ \A n \in Node : rank[n] \in 0 .. Len(order) - 1 /\ order[rank[n] + 1] = n
         /\ \A i \in 1 .. Len(order) : order[i] \in Node /\ rank[order[i]] = i - 1
         /\ \A m, n \in Node : rank[m] = rank[n] => m = n
         /\ \A n \in Node : Parent[n] # NoNode =>
              Parent[n] \in Node /\ rank[Parent[n]] < rank[n]
         /\ Ascending(order, rank)
<1>1. /\ order \in Seq(Node) /\ ToSet(order) = Node /\ Len(order) \in Nat
      /\ \A i, j \in DOMAIN order : order[i] = order[j] => i = j
      /\ \A i, j \in DOMAIN order : Parent[order[j]] = order[i] => i < j
  BY OrderAssumption DEF IsInjective
<1>2. DOMAIN order = 1 .. Len(order) BY <1>1
<1>3. \A n \in Node : \E i \in 1 .. Len(order) : order[i] = n
  BY <1>1, <1>2 DEF ToSet
<1> DEFINE pos == [n \in Node |-> CHOOSE i \in DOMAIN order : order[i] = n]
<1>4. ASSUME NEW n \in Node PROVE pos[n] \in 1 .. Len(order) /\ order[pos[n]] = n
  <2>1. \E i \in DOMAIN order : order[i] = n BY <1>2, <1>3
  <2> DEFINE i == CHOOSE i \in DOMAIN order : order[i] = n
  <2>2. i \in DOMAIN order /\ order[i] = n BY <2>1
  <2>3. pos[n] = i OBVIOUS
  <2> HIDE DEF i, pos
  <2> QED BY <1>2, <2>2, <2>3
<1>5. ASSUME NEW n \in Node PROVE rank[n] = pos[n] - 1 BY DEF rank, RankIn
<1>6. rank = [n \in Node |-> rank[n]] BY DEF rank, RankIn
<1> HIDE DEF pos
<1>7. rank \in [Node -> Int]
  <2>1. ASSUME NEW n \in Node PROVE rank[n] \in Int
    <3>1. pos[n] \in Int BY <1>1, <1>4
    <3> QED BY <1>5, <3>1
  <2> QED BY <1>6, <2>1
<1>8. ASSUME NEW n \in Node
      PROVE  rank[n] \in 0 .. Len(order) - 1 /\ order[rank[n] + 1] = n
  <2>1. pos[n] \in 1 .. Len(order) /\ order[pos[n]] = n /\ rank[n] = pos[n] - 1
    BY <1>4, <1>5
  <2>2. rank[n] + 1 = pos[n] BY <1>1, <2>1
  <2> QED BY <1>1, <2>1, <2>2
<1>9. \A i \in 1 .. Len(order) : order[i] \in Node /\ rank[order[i]] = i - 1
  <2> TAKE i \in 1 .. Len(order)
  <2>1. order[i] \in Node BY <1>1
  <2>2. pos[order[i]] = i BY <1>1, <1>2, <1>4, <2>1
  <2> QED BY <1>5, <2>1, <2>2
<1>10. \A m, n \in Node : rank[m] = rank[n] => m = n
  BY <1>8
<1>11. ASSUME NEW n \in Node, Parent[n] # NoNode
       PROVE  Parent[n] \in Node /\ rank[Parent[n]] < rank[n]
  <2>1. Parent[n] \in Node BY <1>11, ParentAssumption
  <2>2. pos[Parent[n]] < pos[n] BY <1>1, <1>2, <1>4, <2>1
  <2>3. rank[n] = pos[n] - 1 /\ rank[Parent[n]] = pos[Parent[n]] - 1 BY <1>5, <2>1
  <2>4. pos[n] \in Int /\ pos[Parent[n]] \in Int BY <1>1, <1>4, <2>1
  <2> QED BY <2>1, <2>2, <2>3, <2>4
<1>12. Ascending(order, rank)
  BY <1>1, <1>9 DEF Ascending
<1> QED BY <1>1, <1>7, <1>8, <1>9, <1>10, <1>11, <1>12

(* A set of nodes has one that comes first.                                *)
LEMMA FirstNode ==
  ASSUME order \in Orders, NEW D, D \subseteq Node, D # {}
  PROVE  \E n \in D : \A m \in D : rank[n] <= rank[m]
<1> DEFINE R == {rank[n] : n \in D}
<1>1. R \subseteq Nat /\ R # {} BY OrderFacts
<1>2. PICK k \in R : \A l \in R : k <= l
  <2> HIDE DEF R
  <2> QED BY <1>1, Least
<1>3. PICK n \in D : rank[n] = k OBVIOUS
<1> QED BY <1>2, <1>3

(* Ancestors come before their descendants.                                *)
LEMMA AncestorsFirst ==
  ASSUME order \in Orders
  PROVE  \A n \in Node : \A m \in Above[n] : m \in Node /\ (m # n => rank[m] < rank[n])
<1> DEFINE D == {n \in Node : \E m \in Above[n] : m # n /\ ~ (rank[m] < rank[n])}
<1>1. SUFFICES ASSUME D # {} PROVE FALSE
  <2> HIDE DEF D
  <2>1. \A n \in Node : Above[n] \subseteq Node
    <3>1. Above \in [Node -> SUBSET Node] BY AboveAssumption
    <3> QED BY <3>1
  <2> USE DEF D
  <2> QED BY <2>1
<1>2. PICK n \in D : \A k \in D : rank[n] <= rank[k]
  <2>1. D \subseteq Node OBVIOUS
  <2> HIDE DEF D
  <2> QED BY <1>1, <2>1, FirstNode
<1>3. PICK m \in Above[n] : m # n /\ ~ (rank[m] < rank[n]) OBVIOUS
<1>4. n \in Node /\ m \in Node BY AboveAssumption
<1>5. Parent[n] # NoNode /\ m \in Above[Parent[n]] BY <1>3, <1>4, AboveAssumption
<1>6. Parent[n] \in Node /\ rank[Parent[n]] < rank[n] BY <1>4, <1>5, OrderFacts
<1>7. rank[n] \in Int /\ rank[m] \in Int /\ rank[Parent[n]] \in Int
  BY <1>4, <1>6, OrderFacts
<1>8. m # Parent[n] BY <1>3, <1>6
<1>9. ~ (rank[m] < rank[Parent[n]]) BY <1>3, <1>6, <1>7
<1>10. Parent[n] \in D BY <1>5, <1>6, <1>8, <1>9
<1>11. rank[n] <= rank[Parent[n]] BY <1>2, <1>10
<1> QED BY <1>6, <1>7, <1>11

(* The ancestors of a node form a chain.                                   *)
LEMMA AncestorsChain ==
  ASSUME order \in Orders
  PROVE  \A n \in Node : \A a, b \in Above[n] : a \in Above[b] \/ b \in Above[a]
<1> DEFINE D == {n \in Node : \E a, b \in Above[n] : a \notin Above[b] /\ b \notin Above[a]}
<1>1. SUFFICES ASSUME D # {} PROVE FALSE OBVIOUS
<1>2. PICK n \in D : \A k \in D : rank[n] <= rank[k]
  <2>1. D \subseteq Node OBVIOUS
  <2> HIDE DEF D
  <2> QED BY <1>1, <2>1, FirstNode
<1>3. PICK a \in Above[n], b \in Above[n] : a \notin Above[b] /\ b \notin Above[a] OBVIOUS
<1>4. n \in Node /\ a # n /\ b # n BY <1>3
<1>5. Parent[n] # NoNode /\ a \in Above[Parent[n]] /\ b \in Above[Parent[n]]
  BY <1>4, AboveAssumption
<1>6. Parent[n] \in Node /\ rank[Parent[n]] < rank[n] BY <1>4, <1>5, OrderFacts
<1>7. Parent[n] \in D BY <1>3, <1>5, <1>6
<1>8. rank[n] \in Int /\ rank[Parent[n]] \in Int BY <1>4, <1>6, OrderFacts
<1> QED BY <1>2, <1>6, <1>7, <1>8

Topmost(D) == {n \in D : Above[n] \intersect D = {n}}
Under(D) == {n \in Node : Above[n] \intersect D # {}}

(* Above every node below D is one topmost node of D, which is the only.   *)
LEMMA TopmostAbove ==
  ASSUME order \in Orders, NEW D, D \subseteq Node
  PROVE  /\ \A n \in Under(D) : \E t \in Topmost(D) : t \in Above[n]
         /\ \A n \in Node : \A s, t \in Topmost(D) : s \in Above[n] /\ t \in Above[n] => s = t
         /\ Under(Topmost(D)) = Under(D)
         /\ D \subseteq Under(D) /\ Topmost(D) \subseteq D
<1>1. ASSUME NEW n \in Under(D) PROVE \E t \in Topmost(D) : t \in Above[n]
  <2> DEFINE E == Above[n] \intersect D
  <2>1. n \in Node /\ E \subseteq Node /\ E # {} BY <1>1 DEF Under
  <2>2. PICK t \in E : \A u \in E : rank[t] <= rank[u]
    <3> HIDE DEF E
    <3> QED BY <2>1, FirstNode
  <2>3. t \in Node /\ t \in Above[t] /\ Above[t] \subseteq Above[n]
    BY <2>1, AboveAssumption
  <2>4. ASSUME NEW u \in Above[t] \intersect D, u # t PROVE FALSE
    <3>1. u \in E BY <2>3, <2>4
    <3>2. rank[t] <= rank[u] /\ rank[u] < rank[t] BY <2>2, <2>3, <2>4, <3>1, AncestorsFirst
    <3>3. u \in Node BY <3>1
    <3> QED BY <2>3, <3>2, <3>3, OrderFacts
  <2>5. Above[t] \intersect D = {t} BY <2>3, <2>4
  <2> QED BY <2>5 DEF Topmost
<1>2. ASSUME NEW n \in Node, NEW s \in Topmost(D), NEW t \in Topmost(D),
             s \in Above[n], t \in Above[n]
      PROVE  s = t
  <2>1. s \in Above[t] \/ t \in Above[s] BY <1>2, AncestorsChain
  <2> QED BY <2>1 DEF Topmost
<1>3. Topmost(D) \subseteq D BY DEF Topmost
<1>4. Under(Topmost(D)) = Under(D)
  <2>1. ASSUME NEW n \in Under(D) PROVE n \in Under(Topmost(D))
    BY <1>1 DEF Under
  <2>2. ASSUME NEW n \in Under(Topmost(D)) PROVE n \in Under(D)
    BY <1>3 DEF Under
  <2> QED BY <2>1, <2>2
<1>5. D \subseteq Under(D) BY AboveAssumption DEF Under
<1> QED BY <1>1, <1>2, <1>3, <1>4, <1>5

(* The order keeps nodes below D in the order of their ranks.              *)
LEMMA BelowIsOrdered ==
  ASSUME order \in Orders, NEW D
  PROVE  /\ Below(D) \in Seq(Node) /\ ToSet(Below(D)) = Under(D)
         /\ Ascending(Below(D), rank)
<1>1. Below(D) = Filter(order, Under(D)) BY DEF Below, Under
<1>2. order \in Seq(Node) /\ ToSet(order) = Node /\ rank \in [Node -> Int]
      /\ Ascending(order, rank)
  BY OrderFacts
<1>3. /\ Filter(order, Under(D)) \in Seq(Node)
      /\ \A n : n \in ToSet(Filter(order, Under(D))) <=> n \in Node /\ n \in Under(D)
  BY <1>2, Filtered
<1>4. Ascending(Filter(order, Under(D)), rank) BY <1>2, FilterAscending
<1>5. Under(D) \subseteq Node BY DEF Under
<1> QED BY <1>1, <1>3, <1>4, <1>5

(* What lists the nodes below D by rank is Below(D).                       *)
LEMMA BelowUnique ==
  ASSUME order \in Orders, NEW D, NEW q \in Seq(Node), Ascending(q, rank),
         ToSet(q) = Under(D)
  PROVE  q = Below(D)
<1>1. rank \in [Node -> Int] BY OrderFacts
<1>2. Below(D) \in Seq(Node) /\ ToSet(Below(D)) = Under(D) /\ Ascending(Below(D), rank)
  BY BelowIsOrdered
<1> HIDE DEF Below
<1> QED BY <1>1, <1>2, AscendingEqual

-----------------------------------------------------------------------------
(* Subtrees and what accumulates over the reversed order                   *)

Subtree(n) == {m \in Node : n \in Above[m]}

(* A sequence without duplicates has as many members as entries.           *)
LEMMA MembersCounted ==
  ASSUME NEW X, NEW q \in Seq(X), \A i, j \in 1 .. Len(q) : q[i] = q[j] => i = j
  PROVE  IsFiniteSet(ToSet(q)) /\ Cardinality(ToSet(q)) = Len(q)
<1> DEFINE f == [i \in 1 .. Len(q) |-> q[i]]
           T == {q[i] : i \in 1 .. Len(q)}
<1>1. f \in Surjection(1 .. Len(q), T) BY DEF Surjection
<1>2. f \in Injection(1 .. Len(q), T) BY DEF Injection, IsInjective
<1>3. IsFiniteSet(1 .. Len(q)) /\ Cardinality(1 .. Len(q)) = Len(q)
  <2>1. 1 \in Int /\ Len(q) \in Int /\ Len(q) >= 0 OBVIOUS
  <2>2. IsFiniteSet(1 .. Len(q)) /\ Cardinality(1 .. Len(q)) = IF 1 > Len(q) THEN 0 ELSE Len(q) - 1 + 1
    BY <2>1, FS_Interval
  <2> QED BY <2>1, <2>2
<1> HIDE DEF f
<1>4. IsFiniteSet(T) /\ Cardinality(T) = Cardinality(1 .. Len(q))
  <2> HIDE DEF T
  <2> QED BY <1>1, <1>2, <1>3, FS_Surjection
<1>5. T = ToSet(q) BY DEF ToSet
<1> QED BY <1>3, <1>4, <1>5

(* There are finitely many nodes, as many as the order lists.              *)
LEMMA NodeCount ==
  ASSUME order \in Orders
  PROVE  IsFiniteSet(Node) /\ Cardinality(Node) = Len(order)
<1>1. /\ order \in Seq(Node) /\ ToSet(order) = Node
      /\ rank \in [Node -> Int] /\ Ascending(order, rank)
  BY OrderFacts
<1>2. \A i, j \in 1 .. Len(order) : order[i] = order[j] => i = j
  BY <1>1, AscendingOnce
<1> QED BY <1>1, <1>2, MembersCounted

(* Between a node and a descendant is a child of the node.                 *)
LEMMA ChildBetween ==
  ASSUME order \in Orders, NEW m \in Node, NEW n \in Above[m], m # n
  PROVE  \E c \in Node : Parent[c] = n /\ c \in Above[m]
<1> DEFINE D == {d \in Above[m] : n \in Above[d] /\ d # n}
<1>1. D \subseteq Node /\ m \in D BY AboveAssumption, AncestorsFirst
<1>2. PICK d \in D : \A k \in D : rank[d] <= rank[k]
  <2> HIDE DEF D
  <2> QED BY <1>1, FirstNode
<1>3. d \in Node /\ d \in Above[m] /\ n \in Above[d] /\ d # n BY <1>1, <1>2
<1>4. Parent[d] # NoNode /\ n \in Above[Parent[d]] BY <1>3, AboveAssumption
<1>5. Parent[d] \in Node /\ rank[Parent[d]] < rank[d] BY <1>3, <1>4, OrderFacts
<1>6. Parent[d] \in Above[m] BY <1>3, <1>4, <1>5, AboveAssumption
<1>7. rank[d] \in Int /\ rank[Parent[d]] \in Int BY <1>3, <1>5, OrderFacts
<1>8. Parent[d] = n
  <2>1. SUFFICES ASSUME Parent[d] # n PROVE FALSE OBVIOUS
  <2>2. Parent[d] \in D BY <1>4, <1>6, <2>1
  <2> HIDE DEF D
  <2>3. rank[d] <= rank[Parent[d]] BY <1>2, <2>2
  <2> QED BY <1>5, <1>7, <2>3
<1> QED BY <1>3, <1>8

(* The children of a node have disjoint subtrees without their parent.     *)
LEMMA ChildrenDisjoint ==
  ASSUME order \in Orders, NEW c \in Node, Parent[c] # NoNode
  PROVE  /\ Parent[c] \notin Subtree(c)
         /\ \A d \in Node : d # c /\ Parent[d] = Parent[c] => Subtree(c) \intersect Subtree(d) = {}
<1>1. Parent[c] \notin Subtree(c) BY AboveAssumption DEF Subtree
<1>2. ASSUME NEW d \in Node, d # c, Parent[d] = Parent[c],
             NEW m \in Subtree(c), m \in Subtree(d)
      PROVE  FALSE
  <2>1. m \in Node /\ c \in Above[m] /\ d \in Above[m] BY <1>2 DEF Subtree
  <2>2. c \in Above[d] \/ d \in Above[c] BY <2>1, AncestorsChain
  <2>3. c \notin Above[Parent[c]] /\ d \notin Above[Parent[c]] BY <1>2, AboveAssumption
  <2>4. Above[d] = {d} \union Above[Parent[c]] /\ Above[c] = {c} \union Above[Parent[c]]
    BY <1>2, AboveAssumption
  <2> QED BY <1>2, <2>2, <2>3, <2>4
<1> QED BY <1>1, <1>2

SubtreeTables == [end : [Node -> Int], size : [Node -> Int]]
SubtreeSteps(f) ==
  /\ f[0] = [end |-> [n \in Node |-> rank[n] + 1], size |-> [n \in Node |-> 1]]
  /\ \A i \in 1 .. Len(order) : f[i] = AccumulateSubtree(f[i - 1], order[Len(order) - i + 1])
  /\ SubtreesIn[order] = f[Len(order)]

(* One node added to its parent's extent and count.                        *)
LEMMA AccumulateType ==
  ASSUME NEW v \in SubtreeTables, NEW n \in Node
  PROVE  /\ AccumulateSubtree(v, n) \in SubtreeTables
         /\ Parent[n] = NoNode => AccumulateSubtree(v, n) = v
         /\ Parent[n] # NoNode => \A x \in Node :
              /\ AccumulateSubtree(v, n).end[x] =
                   IF x = Parent[n] /\ v.end[x] < v.end[n] THEN v.end[n] ELSE v.end[x]
              /\ AccumulateSubtree(v, n).size[x] =
                   IF x = Parent[n] THEN v.size[x] + v.size[n] ELSE v.size[x]
<1>1. CASE Parent[n] = NoNode BY <1>1 DEF AccumulateSubtree
<1>2. CASE Parent[n] # NoNode
  <2>1. Parent[n] \in Node BY <1>2, ParentAssumption
  <2>2. /\ v.end \in [Node -> Int] /\ v.size \in [Node -> Int]
        /\ v.end[n] \in Int /\ v.end[Parent[n]] \in Int
    BY <2>1 DEF SubtreeTables
  <2>3. Max({v.end[Parent[n]], v.end[n]}) =
          IF v.end[Parent[n]] < v.end[n] THEN v.end[n] ELSE v.end[Parent[n]]
    <3>1. \A a, b \in Int : Max({a, b}) = IF a < b THEN b ELSE a
      BY DEF Max
    <3> QED BY <2>2, <3>1
  <2>4. AccumulateSubtree(v, n) =
          [end |-> [v.end EXCEPT ![Parent[n]] = Max({v.end[Parent[n]], v.end[n]})],
           size |-> [v.size EXCEPT ![Parent[n]] = v.size[Parent[n]] + v.size[n]]]
    BY <1>2, Zenon DEF AccumulateSubtree
  <2> QED BY <1>2, <2>1, <2>2, <2>3, <2>4 DEF SubtreeTables
<1> QED BY <1>1, <1>2

(* The recursion of SubtreesIn has a solution.                             *)
LEMMA SubtreeRecursion ==
  ASSUME order \in Orders
  PROVE  \E f : SubtreeSteps(f)
<1> DEFINE n == Len(order)
           base == [end |-> [m \in Node |-> RankIn[order][m] + 1], size |-> [m \in Node |-> 1]]
           step == [i \in 1 .. n |-> [v \in SubtreeTables |->
                      AccumulateSubtree(v, order[n - i + 1])]]
           Solution(f) == f = [k \in 0 .. n |->
             IF k = 0 THEN base ELSE AccumulateSubtree(f[k - 1], order[n - k + 1])]
           g == CHOOSE f : Solution(f)
<1>1. n \in Nat /\ \A i \in 1 .. n : order[n - i + 1] \in Node
  BY OrderFacts
<1>2. base \in SubtreeTables
  BY OrderFacts DEF SubtreeTables, rank
<1>3. step \in [1 .. n -> [SubtreeTables -> SubtreeTables]]
  <2>1. \A i \in 1 .. n : \A v \in SubtreeTables :
          AccumulateSubtree(v, order[n - i + 1]) \in SubtreeTables
    BY <1>1, AccumulateType
  <2> HIDE DEF n, SubtreeTables
  <2> QED BY <2>1
<1>4. PICK f : Iterated(f, SubtreeTables, n, base, step)
  <2> HIDE DEF n, base, step
  <2> QED BY <1>1, <1>2, <1>3, Iterates
<1>5. Solution(f)
  <2>1. f \in [0 .. n -> SubtreeTables] /\ f[0] = base /\ \A i \in 1 .. n : f[i] = step[i][f[i - 1]]
    <3> HIDE DEF n, base, step
    <3> QED BY <1>4 DEF Iterated
  <2>2. ASSUME NEW k \in 0 .. n
        PROVE  f[k] = IF k = 0 THEN base ELSE AccumulateSubtree(f[k - 1], order[n - k + 1])
    <3>1. CASE k = 0 BY <2>1, <3>1
    <3>2. CASE k # 0
      <4>1. k \in 1 .. n /\ k - 1 \in 0 .. n BY <1>1, <3>2
      <4>2. f[k - 1] \in SubtreeTables BY <2>1, <4>1
      <4> HIDE DEF base, n
      <4> QED BY <2>1, <3>2, <4>1, <4>2
    <3> QED BY <3>1, <3>2
  <2>3. f = [k \in 0 .. n |-> f[k]] BY <2>1
  <2> HIDE DEF base, n, step
  <2> QED BY <2>2, <2>3, Zenon
<1>6. Solution(g)
  <2> HIDE DEF Solution
  <2> QED BY <1>5
<1>7. SubtreesIn[order] = g[n] BY DEF SubtreesIn
<1>8. /\ g[0] = base
      /\ \A i \in 1 .. n : g[i] = AccumulateSubtree(g[i - 1], order[n - i + 1])
  <2> HIDE DEF g, base, n
  <2>1. ASSUME NEW k \in 0 .. n
        PROVE  g[k] = IF k = 0 THEN base ELSE AccumulateSubtree(g[k - 1], order[n - k + 1])
    BY <1>6, Zenon
  <2>2. \A i \in 1 .. n : i \in 0 .. n /\ i # 0 BY <1>1
  <2>3. 0 \in 0 .. n BY <1>1
  <2> HIDE DEF Solution
  <2> QED BY <2>1, <2>2, <2>3
<1> HIDE DEF g
<1>9. SubtreeSteps(g)
  BY <1>7, <1>8 DEF SubtreeSteps, rank
<1> QED BY <1>9

(* The nodes n has collected after the last k nodes of the order: itself   *)
(* and the subtrees of the children among them.                            *)
Collected(k, n) ==
  {n} \union {m \in Node : \E c \in Node : /\ Parent[c] = n /\ rank[c] >= Len(order) - k
                                           /\ c \in Above[m]}

(* Before the first, and once all children were added.                     *)
LEMMA CollectedAll ==
  ASSUME order \in Orders, NEW k \in 0 .. Len(order), NEW n \in Node,
         \A c \in Node : Parent[c] = n => rank[c] >= Len(order) - k
  PROVE  Collected(k, n) = Subtree(n)
<1>1. ASSUME NEW m \in Collected(k, n) PROVE m \in Subtree(n)
  <2>1. CASE m = n BY <2>1, AboveAssumption DEF Subtree
  <2>2. CASE m # n
    <3>1. PICK c \in Node : Parent[c] = n /\ c \in Above[m] /\ m \in Node
      BY <1>1, <2>2 DEF Collected
    <3>2. n # NoNode /\ n \in Above[c] BY <3>1, AboveAssumption, ParentAssumption
    <3> QED BY <3>1, <3>2, AboveAssumption DEF Subtree
  <2> QED BY <2>1, <2>2
<1>2. ASSUME NEW m \in Subtree(n) PROVE m \in Collected(k, n)
  <2>1. m \in Node /\ n \in Above[m] BY <1>2 DEF Subtree
  <2>2. CASE m = n BY <2>2 DEF Collected
  <2>3. CASE m # n
    <3>1. PICK c \in Node : Parent[c] = n /\ c \in Above[m]
      BY <2>1, <2>3, ChildBetween
    <3> QED BY <2>1, <3>1 DEF Collected
  <2> QED BY <2>2, <2>3
<1> QED BY <1>1, <1>2

(* What the k-th node of the reversed order adds to its parent.            *)
LEMMA CollectedStep ==
  ASSUME order \in Orders, NEW k \in 1 .. Len(order), NEW n \in Node,
         n = order[Len(order) - k + 1]
  PROVE  /\ Collected(k - 1, n) = Subtree(n)
         /\ \A x \in Node : x # Parent[n] => Collected(k, x) = Collected(k - 1, x)
         /\ Parent[n] # NoNode =>
              /\ Collected(k, Parent[n]) = Collected(k - 1, Parent[n]) \union Subtree(n)
              /\ Collected(k - 1, Parent[n]) \intersect Subtree(n) = {}
<1> DEFINE L == Len(order)
<1>0. L \in Nat /\ k \in Int /\ k >= 1 /\ k <= L /\ rank \in [Node -> Int] BY OrderFacts
<1>1. rank[n] = L - k
  <2> DEFINE i == L - k + 1
  <2>1. i \in 1 .. L BY <1>0
  <2> HIDE DEF i, L
  <2>2. \A j \in 1 .. L : rank[order[j]] = j - 1 BY OrderFacts DEF L
  <2>3. rank[n] = i - 1 BY <2>1, <2>2 DEF i, L
  <2> QED BY <1>0, <2>3 DEF i
<1>2. ASSUME NEW m \in Node
      PROVE  rank[m] >= L - k <=> m = n \/ rank[m] >= L - (k - 1)
  <2>1. rank[m] = rank[n] <=> m = n BY OrderFacts
  <2>2. rank[m] \in Int BY <1>0
  <2> HIDE DEF L
  <2> QED BY <1>0, <1>1, <2>1, <2>2
<1>3. Collected(k - 1, n) = Subtree(n)
  <2>1. ASSUME NEW c \in Node, Parent[c] = n PROVE rank[c] >= L - (k - 1)
    <3>1. n # NoNode BY ParentAssumption
    <3>2. rank[n] < rank[c] BY <2>1, <3>1, OrderFacts
    <3> QED BY <1>0, <1>1, <3>2
  <2>2. k - 1 \in 0 .. L BY <1>0
  <2> QED BY <2>1, <2>2, CollectedAll
<1>4. ASSUME NEW x \in Node, x # Parent[n] PROVE Collected(k, x) = Collected(k - 1, x)
  BY <1>2, <1>4 DEF Collected
<1>5. ASSUME Parent[n] # NoNode
      PROVE  Collected(k, Parent[n]) = Collected(k - 1, Parent[n]) \union Subtree(n)
  BY <1>2, <1>5 DEF Collected, Subtree
<1>6. ASSUME Parent[n] # NoNode, NEW m \in Collected(k - 1, Parent[n]), m \in Subtree(n)
      PROVE  FALSE
  <2>1. m # Parent[n] BY <1>6, ChildrenDisjoint
  <2>2. PICK c \in Node : Parent[c] = Parent[n] /\ rank[c] >= L - (k - 1) /\ c \in Above[m] /\ m \in Node
    BY <1>6, <2>1 DEF Collected
  <2>3. c # n BY <1>0, <1>1, <2>2
  <2>4. m \in Subtree(c) BY <2>2 DEF Subtree
  <2> QED BY <1>6, <2>2, <2>3, <2>4, ChildrenDisjoint
<1> QED BY <1>3, <1>4, <1>5, <1>6

(* An accumulated table bounds and counts what was collected.              *)
Accumulated(v, k) ==
  /\ v \in SubtreeTables
  /\ \A n \in Node : /\ rank[n] < v.end[n] /\ v.end[n] <= Len(order)
                     /\ \A m \in Collected(k, n) : rank[m] < v.end[n]
                     /\ v.size[n] = Cardinality(Collected(k, n))

(* Each step keeps it.                                                     *)
LEMMA AccumulatedStep ==
  ASSUME order \in Orders, NEW k \in 1 .. Len(order), NEW v, Accumulated(v, k - 1)
  PROVE  Accumulated(AccumulateSubtree(v, order[Len(order) - k + 1]), k)
<1> DEFINE n == order[Len(order) - k + 1]
           w == AccumulateSubtree(v, n)
<1>0. Len(order) \in Nat /\ k \in Int /\ n \in Node /\ rank \in [Node -> Int]
  BY OrderFacts
<1>1. /\ Collected(k - 1, n) = Subtree(n)
      /\ \A x \in Node : x # Parent[n] => Collected(k, x) = Collected(k - 1, x)
      /\ Parent[n] # NoNode =>
           /\ Collected(k, Parent[n]) = Collected(k - 1, Parent[n]) \union Subtree(n)
           /\ Collected(k - 1, Parent[n]) \intersect Subtree(n) = {}
  BY <1>0, CollectedStep
<1>2. /\ v \in SubtreeTables
      /\ \A x \in Node : /\ rank[x] < v.end[x] /\ v.end[x] <= Len(order)
                         /\ \A m \in Collected(k - 1, x) : rank[m] < v.end[x]
                         /\ v.size[x] = Cardinality(Collected(k - 1, x))
  BY DEF Accumulated
<1>3. /\ w \in SubtreeTables
      /\ Parent[n] = NoNode => w = v
      /\ Parent[n] # NoNode => \A x \in Node :
           /\ w.end[x] = IF x = Parent[n] /\ v.end[x] < v.end[n] THEN v.end[n] ELSE v.end[x]
           /\ w.size[x] = IF x = Parent[n] THEN v.size[x] + v.size[n] ELSE v.size[x]
  BY <1>0, <1>2, AccumulateType
<1> HIDE DEF n, w
<1>4. CASE Parent[n] = NoNode
  <2>1. ASSUME NEW x \in Node PROVE Collected(k, x) = Collected(k - 1, x)
    <3>1. x # Parent[n] BY <1>4, ParentAssumption
    <3> QED BY <1>1, <3>1
  <2> QED BY <1>2, <1>3, <1>4, <2>1 DEF Accumulated, w, n
<1>5. CASE Parent[n] # NoNode
  <2> DEFINE p == Parent[n]
             A == Collected(k - 1, p)
             B == Subtree(n)
  <2>1. p \in Node BY <1>0, <1>5, ParentAssumption
  <2>2. v.end \in [Node -> Int]
    BY <1>2 DEF SubtreeTables
  <2>3. Collected(k, p) = A \union B /\ A \intersect B = {} BY <1>1, <1>5
  <2>4. v.size[p] = Cardinality(A) /\ v.size[n] = Cardinality(B)
    BY <1>0, <1>1, <1>2, <2>1
  <2>5. IsFiniteSet(A) /\ IsFiniteSet(B)
    <3>1. A \subseteq Node /\ B \subseteq Node BY <2>1 DEF Collected, Subtree
    <3>2. IsFiniteSet(Node) BY NodeCount
    <3> QED BY <3>1, <3>2, FS_Subset
  <2>6. Cardinality(A \union B) = Cardinality(A) + Cardinality(B)
    <3>1. Cardinality(A \union B) = Cardinality(A) + Cardinality(B) - Cardinality({})
      BY <2>3, <2>5, FS_Union
    <3>2. Cardinality({}) = 0 /\ Cardinality(A) \in Nat /\ Cardinality(B) \in Nat
      BY <2>5, FS_EmptySet, FS_CardinalityType
    <3> QED BY <3>1, <3>2
  <2>7. \A m \in A \union B : m \in Node
    BY <2>1 DEF Collected, Subtree
  <2> HIDE DEF A, B
  <2>8. ASSUME NEW x \in Node
        PROVE  /\ rank[x] < w.end[x] /\ w.end[x] <= Len(order)
               /\ \A m \in Collected(k, x) : rank[m] < w.end[x]
               /\ w.size[x] = Cardinality(Collected(k, x))
    <3>1. CASE x # p
      BY <1>1, <1>2, <1>3, <1>5, <3>1
    <3>2. CASE x = p
      <4>1. /\ w.end[p] = IF v.end[p] < v.end[n] THEN v.end[n] ELSE v.end[p]
            /\ w.size[p] = v.size[p] + v.size[n]
        BY <1>3, <1>5, <2>1
      <4>2. \A m \in A : rank[m] < v.end[p] BY <1>2, <2>1 DEF A
      <4>3. \A m \in B : rank[m] < v.end[n] BY <1>0, <1>1, <1>2 DEF B
      <4>4. /\ rank[p] < v.end[p] /\ v.end[p] <= Len(order) /\ v.end[n] <= Len(order)
            /\ rank[p] \in Int /\ v.end[p] \in Int /\ v.end[n] \in Int
        BY <1>0, <1>2, <2>1, <2>2
      <4>5. \A m \in A \union B : rank[m] < w.end[p]
        <5> HIDE DEF p
        <5>1. ASSUME NEW m \in A \union B PROVE rank[m] < w.end[p]
          <6>1. rank[m] \in Int BY <1>0, <2>7
          <6> QED BY <4>1, <4>2, <4>3, <4>4, <6>1
        <5> QED BY <5>1
      <4>6. rank[p] < w.end[p] /\ w.end[p] <= Len(order)
        <5> HIDE DEF p
        <5> QED BY <1>0, <4>1, <4>4
      <4> HIDE DEF p
      <4> QED BY <2>3, <2>4, <2>6, <3>2, <4>1, <4>5, <4>6
    <3> QED BY <3>1, <3>2
  <2> QED BY <1>3, <2>8 DEF Accumulated, w, n
<1> QED BY <1>4, <1>5

(* subtree_end bounds the ranks of a subtree, subtree_size counts it.      *)
LEMMA SubtreeFacts ==
  ASSUME order \in Orders, NEW n \in Node
  PROVE  /\ subtree_end[n] \in Int
         /\ rank[n] < subtree_end[n] /\ subtree_end[n] <= Len(order)
         /\ \A m \in Subtree(n) : rank[m] < subtree_end[n]
         /\ SubtreesIn[order].size[n] = Cardinality(Subtree(n))
<1> DEFINE L == Len(order)
<1>0. /\ L \in Nat /\ rank \in [Node -> Int]
      /\ \A x \in Node : 0 <= rank[x] /\ rank[x] < L
  BY OrderFacts
<1>1. PICK f : SubtreeSteps(f) BY SubtreeRecursion
<1>2. /\ f[0] = [end |-> [x \in Node |-> rank[x] + 1], size |-> [x \in Node |-> 1]]
      /\ \A i \in 1 .. L : f[i] = AccumulateSubtree(f[i - 1], order[L - i + 1])
      /\ SubtreesIn[order] = f[L]
  BY <1>1 DEF SubtreeSteps
<1> DEFINE T == {i \in 0 .. L : Accumulated(f[i], i)}
<1>3. 0 \in T
  <2>1. ASSUME NEW x \in Node PROVE Collected(0, x) = {x}
    <3>1. \A c \in Node : ~ (rank[c] >= L - 0) BY <1>0
    <3> QED BY <3>1 DEF Collected
  <2>2. ASSUME NEW x \in Node PROVE f[0].end[x] = rank[x] + 1 /\ f[0].size[x] = 1
    BY <1>2
  <2>3. f[0] \in SubtreeTables BY <1>0, <1>2 DEF SubtreeTables
  <2>4. \A x \in Node : Cardinality({x}) = 1 BY FS_Singleton
  <2>5. Accumulated(f[0], 0) BY <1>0, <2>1, <2>2, <2>3, <2>4 DEF Accumulated
  <2> QED BY <1>0, <2>5
<1>4. ASSUME NEW i \in 1 .. L, i - 1 \in T PROVE i \in T
  <2>1. Accumulated(f[i - 1], i - 1) BY <1>4
  <2>2. Accumulated(f[i], i)
    <3> HIDE DEF T
    <3> QED BY <1>2, <2>1, AccumulatedStep
  <2> QED BY <1>0, <2>2
<1>5. Accumulated(f[L], L)
  <2> HIDE DEF T, L
  <2>1. 0 .. L \subseteq T BY <1>0, <1>3, <1>4, UpTo
  <2>2. L \in T BY <1>0, <2>1
  <2> QED BY <2>2 DEF T
<1>6. Collected(L, n) = Subtree(n)
  <2>1. \A c \in Node : rank[c] >= L - L /\ L \in 0 .. L BY <1>0
  <2> QED BY <2>1, CollectedAll
<1>7. subtree_end[n] = f[L].end[n] BY <1>2 DEF subtree_end
<1>8. f[L].end[n] \in Int BY <1>5 DEF Accumulated, SubtreeTables
<1> QED BY <1>2, <1>5, <1>6, <1>7, <1>8 DEF Accumulated

(* Contiguous subtrees are ranges of ranks.                                *)
LEMMA SubtreeRange ==
  ASSUME order \in Orders, subtrees_are_contiguous, NEW n \in Node
  PROVE  \A m \in Node : m \in Subtree(n) <=> rank[n] <= rank[m] /\ rank[m] < subtree_end[n]
<1> DEFINE I == {m \in Node : rank[n] <= rank[m] /\ rank[m] < subtree_end[n]}
           a == rank[n] + 1
           b == subtree_end[n]
           f == [i \in a .. b |-> order[i]]
<1>0. /\ rank[n] \in 0 .. Len(order) - 1 /\ Len(order) \in Nat
      /\ a \in Int /\ b \in Int /\ a <= b /\ b <= Len(order) /\ 1 <= a
  BY OrderFacts, SubtreeFacts
<1>1. Cardinality(Subtree(n)) = b - rank[n]
  BY SubtreeFacts DEF subtrees_are_contiguous
<1>2. Subtree(n) \subseteq I
  <2>1. ASSUME NEW m \in Subtree(n) PROVE m \in I
    <3>1. m \in Node /\ n \in Above[m] BY DEF Subtree
    <3>2. rank[n] <= rank[m]
      <4>1. n # m => rank[n] < rank[m] BY <3>1, AncestorsFirst
      <4>2. rank[n] \in Int /\ rank[m] \in Int BY <3>1, OrderFacts
      <4> QED BY <4>1, <4>2
    <3> QED BY <3>1, <3>2, SubtreeFacts
  <2> QED BY <2>1
<1>3. f \in Surjection(a .. b, I)
  <2>1. ASSUME NEW i \in a .. b PROVE order[i] \in I
    <3>1. i \in 1 .. Len(order) BY <1>0
    <3>2. order[i] \in Node /\ rank[order[i]] = i - 1 BY <3>1, OrderFacts
    <3> QED BY <1>0, <3>2
  <2>2. ASSUME NEW m \in I PROVE \E i \in a .. b : order[i] = m
    <3>1. rank[m] \in Int /\ order[rank[m] + 1] = m /\ rank[m] + 1 \in a .. b
      BY <1>0, OrderFacts
    <3> QED BY <3>1
  <2> HIDE DEF I, a, b
  <2> QED BY <2>1, <2>2 DEF Surjection
<1>4. IsFiniteSet(I) /\ Cardinality(I) <= b - rank[n]
  <2>1. IsFiniteSet(a .. b) /\ Cardinality(a .. b) = b - a + 1
    <3>1. IsFiniteSet(a .. b) /\ Cardinality(a .. b) = IF a > b THEN 0 ELSE b - a + 1
      <4> HIDE DEF a, b
      <4> QED BY <1>0, FS_Interval
    <3> QED BY <1>0, <3>1
  <2>2. IsFiniteSet(I) /\ Cardinality(I) <= Cardinality(a .. b)
    <3> HIDE DEF I, f, a, b
    <3> QED BY <1>3, <2>1, FS_Surjection
  <2> QED BY <1>0, <2>1, <2>2
<1>5. Cardinality(Subtree(n)) <= Cardinality(I) /\ Cardinality(I) \in Nat
  <2> HIDE DEF I
  <2> QED BY <1>2, <1>4, FS_Subset, FS_CardinalityType
<1>6. Cardinality(I) = Cardinality(Subtree(n)) BY <1>0, <1>1, <1>4, <1>5
<1>7. I = Subtree(n)
  <2> HIDE DEF I
  <2> QED BY <1>2, <1>4, <1>6, FS_Subset
<1> QED BY <1>7

-----------------------------------------------------------------------------
(* What make_plan claims                                                   *)

Workspaces == [generation : Nat, affected : [Node -> Nat], selected : [Node -> Nat],
               owner : [Node -> Node \union {NoNode}],
               dirty_roots : Seq(Node), affected_nodes : Seq(Node),
               selected_dirty_roots : Seq(Node), selected_nodes : Seq(Node)]

(* w has claimed the nodes N, and no others, for the roots R since v.      *)
Claims(w, v, N, R) ==
  /\ w \in Workspaces /\ w.generation = v.generation /\ w.selected = v.selected
  /\ \A n \in Node : w.affected[n] <= w.generation /\ (w.affected[n] = w.generation <=> n \in N)
  /\ \A n \in N : w.owner[n] \in R /\ w.owner[n] \in Above[n]
  /\ ToSet(w.dirty_roots) = R
  /\ ToSet(w.affected_nodes) = N /\ Ascending(w.affected_nodes, rank)

(* The part of the order that a contiguous subtree takes.                  *)
LEMMA SubtreeSlice ==
  ASSUME order \in Orders, NEW c \in Node
  PROVE  LET nodes == SubSeq(order, rank[c] + 1, subtree_end[c]) IN
         /\ nodes \in Seq(Node) /\ ToSet(nodes) \subseteq Node
         /\ Ascending(nodes, rank)
         /\ subtrees_are_contiguous => ToSet(nodes) = Subtree(c)
<1> DEFINE a == rank[c] + 1
           b == subtree_end[c]
           L == Len(order)
           nodes == SubSeq(order, a, b)
<1>0. /\ L \in Nat /\ a \in Int /\ b \in Int /\ 1 <= a /\ a <= b /\ b <= L
  BY OrderFacts, SubtreeFacts
<1>1. /\ nodes \in Seq(Node) /\ Len(nodes) = b - a + 1
      /\ \A i \in 1 .. b - a + 1 : nodes[i] = order[a + i - 1]
  <2>1. \A i \in a .. b : order[i] \in Node
    <3>1. \A i \in a .. b : i \in 1 .. L
      <4> HIDE DEF a, b, L
      <4> QED BY <1>0
    <3>2. \A i \in 1 .. L : order[i] \in Node BY OrderFacts
    <3> QED BY <3>1, <3>2
  <2> HIDE DEF a, b, L
  <2>2. /\ SubSeq(order, a, b) \in Seq(Node)
        /\ Len(SubSeq(order, a, b)) = IF a <= b THEN b - a + 1 ELSE 0
        /\ \A i \in 1 .. b - a + 1 : SubSeq(order, a, b)[i] = order[a + i - 1]
    BY <1>0, <2>1, SubSeqProperties
  <2> QED BY <1>0, <2>2
<1>2. \A i \in 1 .. L : order[i] \in Node /\ rank[order[i]] = i - 1 BY OrderFacts
<1>3. ASSUME NEW i \in 1 .. b - a + 1
      PROVE  nodes[i] \in Node /\ rank[nodes[i]] = a + i - 2
  <2> HIDE DEF a, b, L, nodes
  <2> DEFINE j == a + i - 1
  <2>1. j \in 1 .. L /\ j - 1 = a + i - 2 /\ nodes[i] = order[j] BY <1>0, <1>1
  <2> HIDE DEF j
  <2>2. order[j] \in Node /\ rank[order[j]] = j - 1 BY <1>2, <2>1
  <2> QED BY <2>1, <2>2
<1>4. ToSet(nodes) = {nodes[i] : i \in 1 .. b - a + 1}
  <2> HIDE DEF a, b, nodes
  <2>1. DOMAIN nodes = 1 .. b - a + 1 BY <1>0, <1>1, LenProperties
  <2> QED BY <2>1 DEF ToSet
<1>5. Ascending(nodes, rank)
  <2> HIDE DEF a, b, L, nodes
  <2> SUFFICES ASSUME NEW i \in 1 .. Len(nodes), NEW j \in 1 .. Len(nodes), i < j
               PROVE  rank[nodes[i]] < rank[nodes[j]]
    BY Zenon DEF Ascending
  <2>1. i \in 1 .. b - a + 1 /\ j \in 1 .. b - a + 1 BY <1>1
  <2>2. rank[nodes[i]] = a + i - 2 /\ rank[nodes[j]] = a + j - 2 BY <1>3, <2>1
  <2> QED BY <1>0, <2>1, <2>2
<1>6. ASSUME subtrees_are_contiguous PROVE ToSet(nodes) = Subtree(c)
  <2>1. ASSUME NEW m \in Node PROVE m \in Subtree(c) <=> a <= rank[m] + 1 /\ rank[m] + 1 <= b
    <3>1. m \in Subtree(c) <=> rank[c] <= rank[m] /\ rank[m] < subtree_end[c]
      BY <1>6, SubtreeRange
    <3>2. rank[m] \in Int /\ rank[c] \in Int BY OrderFacts
    <3> QED BY <1>0, <3>1, <3>2
  <2>2. ASSUME NEW i \in 1 .. b - a + 1 PROVE nodes[i] \in Subtree(c)
    <3>1. nodes[i] \in Node /\ rank[nodes[i]] = a + i - 2 BY <1>3
    <3> HIDE DEF a, b, nodes
    <3>2. a <= rank[nodes[i]] + 1 /\ rank[nodes[i]] + 1 <= b BY <1>0, <3>1
    <3> QED BY <2>1, <3>1, <3>2
  <2>3. ASSUME NEW m \in Subtree(c) PROVE \E i \in 1 .. b - a + 1 : m = nodes[i]
    <3>1. m \in Node BY DEF Subtree
    <3>2. a <= rank[m] + 1 /\ rank[m] + 1 <= b BY <2>1, <3>1
    <3> DEFINE r == rank[m] + 1
               i == r + 1 - a
    <3>3. r \in Int /\ order[r] = m /\ a <= r /\ r <= b BY <3>1, <3>2, OrderFacts
    <3> HIDE DEF a, b, nodes, r
    <3>4. i \in 1 .. b - a + 1 /\ a + i - 1 = r BY <1>0, <3>3
    <3> HIDE DEF i
    <3>5. nodes[i] = m BY <1>1, <3>3, <3>4
    <3> QED BY <3>4, <3>5
  <2>4. Subtree(c) \subseteq ToSet(nodes) BY <1>4, <2>3
  <2>5. ToSet(nodes) \subseteq Subtree(c) BY <1>4, <2>2
  <2> QED BY <2>4, <2>5
<1>7. ToSet(nodes) \subseteq Node BY <1>3, <1>4
<1> QED BY <1>1, <1>5, <1>6, <1>7

(* The fields of what ClaimSubtree returns.                                *)
LEMMA ClaimSubtreeType ==
  ASSUME order \in Orders, NEW w \in Workspaces, NEW c \in Node
  PROVE  LET nodes == SubSeq(order, rank[c] + 1, subtree_end[c])
             u == ClaimSubtree(w, c) IN
         /\ u \in Workspaces /\ u.generation = w.generation /\ u.selected = w.selected
         /\ w.affected[c] = w.generation => u = w
         /\ w.affected[c] # w.generation =>
              /\ u.dirty_roots = Append(w.dirty_roots, c)
              /\ u.affected_nodes = w.affected_nodes \o nodes
              /\ \A n \in Node :
                   /\ u.affected[n] = IF n \in ToSet(nodes) THEN w.generation ELSE w.affected[n]
                   /\ u.owner[n] = IF n \in ToSet(nodes) THEN c ELSE w.owner[n]
<1> DEFINE nodes == SubSeq(order, rank[c] + 1, subtree_end[c])
           u == ClaimSubtree(w, c)
<1>0. /\ w.generation \in Nat /\ w.affected \in [Node -> Nat] /\ w.selected \in [Node -> Nat]
      /\ w.owner \in [Node -> Node \union {NoNode}] /\ w.dirty_roots \in Seq(Node)
      /\ w.affected_nodes \in Seq(Node)
      /\ w.selected_dirty_roots \in Seq(Node) /\ w.selected_nodes \in Seq(Node)
  BY DEF Workspaces
<1>1. nodes \in Seq(Node) BY SubtreeSlice
<1>2. CASE w.affected[c] = w.generation
  BY <1>2 DEF ClaimSubtree
<1>3. CASE w.affected[c] # w.generation
  <2> DEFINE S == ToSet(nodes)
             A == [n \in Node |-> IF n \in S THEN w.generation ELSE w.affected[n]]
             O == [n \in Node |-> IF n \in S THEN c ELSE w.owner[n]]
  <2>1. u = [w EXCEPT !.dirty_roots = Append(w.dirty_roots, c), !.affected = A, !.owner = O,
                      !.affected_nodes = w.affected_nodes \o nodes]
    BY <1>3, Zenon DEF ClaimSubtree
  <2>2. A \in [Node -> Nat] /\ O \in [Node -> Node \union {NoNode}]
    <3> HIDE DEF S
    <3> QED BY <1>0
  <2>3. Append(w.dirty_roots, c) \in Seq(Node) /\ w.affected_nodes \o nodes \in Seq(Node)
    <3> HIDE DEF nodes
    <3> QED BY <1>0, <1>1, ConcatProperties
  <2>4. \A n \in Node : A[n] = (IF n \in S THEN w.generation ELSE w.affected[n])
                        /\ O[n] = (IF n \in S THEN c ELSE w.owner[n])
    OBVIOUS
  <2> HIDE DEF A, O, S, nodes, u
  <2>5. /\ u.dirty_roots = Append(w.dirty_roots, c) /\ u.affected = A /\ u.owner = O
        /\ u.affected_nodes = w.affected_nodes \o nodes
        /\ u.generation = w.generation /\ u.selected = w.selected
    BY <2>1 DEF Workspaces
  <2>6. u \in Workspaces
    BY <1>0, <2>1, <2>2, <2>3 DEF Workspaces
  <2> QED BY <1>3, <2>4, <2>5, <2>6 DEF S, nodes, u
<1> QED BY <1>2, <1>3

(* A candidate that comes after those claimed for before.                  *)
LEMMA ClaimSubtreeStep ==
  ASSUME order \in Orders, subtrees_are_contiguous, NEW v, NEW P, P \subseteq Node,
         NEW w, Claims(w, v, Under(P), Topmost(P)),
         NEW c \in Node, \A p \in P : rank[p] < rank[c]
  PROVE  Claims(ClaimSubtree(w, c), v, Under(P \union {c}), Topmost(P \union {c}))
<1> DEFINE nodes == SubSeq(order, rank[c] + 1, subtree_end[c])
           u == ClaimSubtree(w, c)
           Q == P \union {c}
<1>1. /\ w \in Workspaces /\ w.generation = v.generation /\ w.selected = v.selected
      /\ \A n \in Node : w.affected[n] <= w.generation
                         /\ (w.affected[n] = w.generation <=> n \in Under(P))
      /\ \A n \in Under(P) : w.owner[n] \in Topmost(P) /\ w.owner[n] \in Above[n]
      /\ ToSet(w.dirty_roots) = Topmost(P)
      /\ ToSet(w.affected_nodes) = Under(P) /\ Ascending(w.affected_nodes, rank)
  BY DEF Claims
<1>2. /\ nodes \in Seq(Node) /\ Ascending(nodes, rank) /\ ToSet(nodes) = Subtree(c)
  BY SubtreeSlice
<1>3. Under(Q) = Under(P) \union Subtree(c) BY DEF Under, Subtree
<1>4. \A p \in P : c \notin Above[p]
  <2>1. SUFFICES ASSUME NEW p \in P, c \in Above[p] PROVE FALSE OBVIOUS
  <2>2. rank[p] < rank[c] /\ rank[p] \in Int /\ rank[c] \in Int BY OrderFacts
  <2> QED BY <2>1, <2>2, AncestorsFirst
<1>5. \A p \in P : Above[p] \intersect Q = Above[p] \intersect P BY <1>4
<1>6. c \in Under(P) => Topmost(Q) = Topmost(P) /\ Under(Q) = Under(P)
  <2>1. ASSUME c \in Under(P) PROVE Subtree(c) \subseteq Under(P)
    <3>1. PICK p \in P : p \in Above[c] BY <2>1 DEF Under
    <3>2. ASSUME NEW m \in Subtree(c) PROVE m \in Under(P)
      <4>1. m \in Node /\ c \in Above[m] BY DEF Subtree
      <4>2. p \in Above[m] BY <3>1, <4>1, AboveAssumption
      <4> QED BY <4>1, <4>2 DEF Under
    <3> QED BY <3>2
  <2>2. ASSUME c \in Under(P) PROVE c \notin Topmost(Q)
    <3>1. PICK p \in P : p \in Above[c] BY <2>2 DEF Under
    <3>2. p # c BY OrderFacts
    <3> QED BY <3>1, <3>2 DEF Topmost
  <2>3. ASSUME c \in Under(P) PROVE Topmost(Q) = Topmost(P)
    BY <1>5, <2>2, <2>3 DEF Topmost
  <2> QED BY <1>3, <2>1, <2>3
<1>7. c \notin Under(P) => Topmost(Q) = Topmost(P) \union {c}
  <2>1. ASSUME c \notin Under(P) PROVE Above[c] \intersect Q = {c}
    BY <2>1, AboveAssumption DEF Under
  <2> QED BY <1>5, <2>1 DEF Topmost
<1>8. CASE c \in Under(P)
  <2>1. u = w BY <1>1, <1>8, ClaimSubtreeType
  <2> QED BY <1>6, <1>8, <2>1
<1>9. CASE c \notin Under(P)
  <2>1. w.affected[c] # w.generation BY <1>1, <1>9
  <2>2. /\ u \in Workspaces /\ u.generation = w.generation /\ u.selected = w.selected
        /\ u.dirty_roots = Append(w.dirty_roots, c)
        /\ u.affected_nodes = w.affected_nodes \o nodes
        /\ \A n \in Node :
             /\ u.affected[n] = IF n \in ToSet(nodes) THEN w.generation ELSE w.affected[n]
             /\ u.owner[n] = IF n \in ToSet(nodes) THEN c ELSE w.owner[n]
    BY <1>1, <2>1, ClaimSubtreeType
  <2>3. w.generation \in Nat /\ w.dirty_roots \in Seq(Node) /\ w.affected_nodes \in Seq(Node)
    BY <1>1 DEF Workspaces
  <2>4. \A x \in Under(P), y \in Subtree(c) : rank[x] < rank[y]
    <3> SUFFICES ASSUME NEW x \in Under(P), NEW y \in Subtree(c) PROVE rank[x] < rank[y]
      OBVIOUS
    <3>1. PICK p \in P : p \in Above[x] /\ x \in Node BY DEF Under
    <3>2. x \in Subtree(p) /\ c \notin Subtree(p) BY <1>9, <3>1 DEF Subtree, Under
    <3>3. rank[x] < subtree_end[p] /\ subtree_end[p] \in Int
      BY <3>1, <3>2, SubtreeFacts
    <3>4. ~ (rank[c] < subtree_end[p])
      <4>1. c \in Subtree(p) <=> rank[p] <= rank[c] /\ rank[c] < subtree_end[p]
        BY SubtreeRange
      <4>2. rank[p] < rank[c] /\ rank[p] \in Int /\ rank[c] \in Int BY OrderFacts
      <4> QED BY <3>2, <4>1, <4>2
    <3>5. y \in Node /\ (c # y => rank[c] < rank[y])
      BY AncestorsFirst DEF Subtree
    <3>6. rank[x] \in Int /\ rank[y] \in Int /\ rank[c] \in Int BY <3>1, <3>5, OrderFacts
    <3> QED BY <3>3, <3>4, <3>5, <3>6
  <2>5. /\ ToSet(u.affected_nodes) = Under(Q) /\ Ascending(u.affected_nodes, rank)
    <3>1. rank \in [Node -> Int] BY OrderFacts
    <3>2. \A x \in ToSet(w.affected_nodes), y \in ToSet(nodes) : rank[x] < rank[y]
      BY <1>1, <1>2, <2>4
    <3> DEFINE q == w.affected_nodes
    <3>3. q \in Seq(Node) /\ nodes \in Seq(Node) /\ Ascending(q, rank) /\ Ascending(nodes, rank)
      BY <1>1, <1>2, <2>3
    <3>4. Ascending(q \o nodes, rank) /\ ToSet(q \o nodes) = ToSet(q) \union ToSet(nodes)
      <4> DEFINE k == rank
      <4>1. Before(ToSet(q), ToSet(nodes), k) BY <3>2 DEF Before
      <4>2. /\ k \in [Node -> Int] /\ q \in Seq(Node) /\ nodes \in Seq(Node)
            /\ Ascending(q, k) /\ Ascending(nodes, k)
        BY <3>1, <3>3
      <4> HIDE DEF q, nodes, k
      <4>3. Ascending(q \o nodes, k) /\ ToSet(q \o nodes) = ToSet(q) \union ToSet(nodes)
        BY ONLY <4>1, <4>2, AscendingConcat
      <4> QED BY <4>3 DEF k
    <3>5. ToSet(q) = Under(P) /\ u.affected_nodes = q \o nodes BY <1>1, <2>2
    <3> HIDE DEF nodes, u, q
    <3> QED BY <1>2, <1>3, <3>4, <3>5
  <2>6. ToSet(u.dirty_roots) = Topmost(Q)
    <3> DEFINE q == w.dirty_roots
    <3>1. ToSet(q) = Topmost(P) /\ u.dirty_roots = Append(q, c) /\ q \in Seq(Node)
      BY <1>1, <2>2, <2>3
    <3>2. ToSet(Append(q, c)) = ToSet(q) \union {c}
      <4> HIDE DEF q
      <4> QED BY <3>1, Appended
    <3> HIDE DEF u, q
    <3> QED BY <1>7, <1>9, <3>1, <3>2
  <2>7. \A n \in Node : u.affected[n] <= u.generation
                        /\ (u.affected[n] = u.generation <=> n \in Under(Q))
    <3> HIDE DEF u, nodes
    <3>1. ASSUME NEW n \in Node
          PROVE  u.affected[n] <= u.generation /\ (u.affected[n] = u.generation <=> n \in Under(Q))
      <4>1. /\ w.affected[n] <= w.generation
            /\ (w.affected[n] = w.generation <=> n \in Under(P))
        BY <1>1
      <4>2. u.affected[n] = IF n \in ToSet(nodes) THEN w.generation ELSE w.affected[n]
        BY <2>2
      <4>3. u.generation = w.generation /\ w.generation \in Nat BY <2>2, <2>3
      <4>4. n \in Under(Q) <=> n \in Under(P) \/ n \in ToSet(nodes) BY <1>2, <1>3
      <4> QED BY <4>1, <4>2, <4>3, <4>4
    <3> QED BY <3>1, Zenon
  <2>8. \A n \in Under(Q) : u.owner[n] \in Topmost(Q) /\ u.owner[n] \in Above[n]
    <3>1. \A n \in Under(Q) : n \in Node BY DEF Under
    <3>2. \A n \in Subtree(c) : c \in Above[n] BY DEF Subtree
    <3> HIDE DEF u, nodes, Q
    <3>3. ASSUME NEW n \in Under(Q)
          PROVE  u.owner[n] \in Topmost(Q) /\ u.owner[n] \in Above[n]
      <4>1. u.owner[n] = IF n \in ToSet(nodes) THEN c ELSE w.owner[n] BY <2>2, <3>1
      <4>2. CASE n \in ToSet(nodes) BY <1>2, <1>7, <1>9, <3>2, <4>1, <4>2
      <4>3. CASE n \notin ToSet(nodes)
        <5>1. n \in Under(P) BY <1>2, <1>3, <4>3
        <5> QED BY <1>1, <1>7, <1>9, <4>1, <4>3, <5>1
      <4> QED BY <4>2, <4>3
    <3> QED BY <3>3
  <2> HIDE DEF u
  <2> QED BY <1>1, <2>2, <2>5, <2>6, <2>7, <2>8 DEF Claims, u
<1> QED BY <1>8, <1>9

(* A workspace in which nothing is claimed or selected yet.                *)
Prepared(w) ==
  /\ w \in Workspaces
  /\ \A n \in Node : w.affected[n] < w.generation /\ w.selected[n] < w.generation
  /\ w.dirty_roots = <<>> /\ w.affected_nodes = <<>>

(* Nothing is claimed for no roots.                                        *)
LEMMA NothingClaimed ==
  ASSUME NEW w, Prepared(w)
  PROVE  Claims(w, w, {}, {})
<1>1. w \in Workspaces /\ w.dirty_roots = <<>> /\ w.affected_nodes = <<>> BY DEF Prepared
<1>2. ToSet(w.dirty_roots) = {} /\ ToSet(w.affected_nodes) = {} /\ Ascending(w.affected_nodes, rank)
  BY <1>1 DEF ToSet, Ascending
<1>3. ASSUME NEW n \in Node
      PROVE  w.affected[n] <= w.generation /\ w.affected[n] # w.generation
  <2>1. w.affected[n] < w.generation BY DEF Prepared
  <2>2. w.affected[n] \in Nat /\ w.generation \in Nat BY <1>1 DEF Workspaces
  <2> QED BY <2>1, <2>2
<1> QED BY <1>1, <1>2, <1>3 DEF Claims

ClaimSteps(g, w, q) ==
  /\ g[0] = w /\ ClaimSubtrees(w) = g[Len(q)]
  /\ \A i \in 1 .. Len(q) : g[i] = ClaimSubtree(g[i - 1], q[i])

(* The recursion of ClaimSubtrees has a solution.                          *)
LEMMA ClaimSubtreesRecursion ==
  ASSUME order \in Orders, NEW w \in Workspaces,
         NEW q \in Seq(Node), q = Filter(order, ToSet(m_dirty_nodes))
  PROVE  \E g : ClaimSteps(g, w, q)
<1> DEFINE n == Len(q)
           step == [i \in 1 .. n |-> [v \in Workspaces |-> ClaimSubtree(v, q[i])]]
           Solution(f) == f = [i \in 0 .. n |->
             IF i = 0 THEN w ELSE ClaimSubtree(f[i - 1], q[i])]
           g == CHOOSE f : Solution(f)
<1>1. n \in Nat OBVIOUS
<1>2. step \in [1 .. n -> [Workspaces -> Workspaces]]
  <2>1. \A i \in 1 .. n : \A v \in Workspaces : ClaimSubtree(v, q[i]) \in Workspaces
    <3> SUFFICES ASSUME NEW i \in 1 .. n, NEW v \in Workspaces
                 PROVE  ClaimSubtree(v, q[i]) \in Workspaces
      OBVIOUS
    <3>1. q[i] \in Node OBVIOUS
    <3> QED BY <3>1, ClaimSubtreeType
  <2> HIDE DEF n
  <2> QED BY <2>1
<1>3. PICK f : Iterated(f, Workspaces, n, w, step)
  <2> HIDE DEF n, step
  <2> QED BY <1>1, <1>2, Iterates
<1>4. Solution(f)
  <2>1. f \in [0 .. n -> Workspaces] /\ f[0] = w /\ \A i \in 1 .. n : f[i] = step[i][f[i - 1]]
    <3> HIDE DEF n, step
    <3> QED BY <1>3 DEF Iterated
  <2>2. ASSUME NEW k \in 0 .. n
        PROVE  f[k] = IF k = 0 THEN w ELSE ClaimSubtree(f[k - 1], q[k])
    <3>1. CASE k = 0 BY <2>1, <3>1
    <3>2. CASE k # 0
      <4>1. k \in 1 .. n /\ k - 1 \in 0 .. n BY <1>1, <3>2
      <4>2. f[k - 1] \in Workspaces BY <2>1, <4>1
      <4> HIDE DEF n
      <4> QED BY <2>1, <3>2, <4>1, <4>2
    <3> QED BY <3>1, <3>2
  <2>3. f = [k \in 0 .. n |-> f[k]] BY <2>1
  <2> HIDE DEF n, step
  <2> QED BY <2>2, <2>3, Zenon
<1>5. Solution(g)
  <2> HIDE DEF Solution
  <2> QED BY <1>4
<1>6. ClaimSubtrees(w) = g[n] BY DEF ClaimSubtrees
<1>7. g[0] = w /\ \A i \in 1 .. n : g[i] = ClaimSubtree(g[i - 1], q[i])
  <2> HIDE DEF g, n
  <2>1. ASSUME NEW k \in 0 .. n
        PROVE  g[k] = IF k = 0 THEN w ELSE ClaimSubtree(g[k - 1], q[k])
    BY <1>5, Zenon
  <2>2. \A i \in 1 .. n : i \in 0 .. n /\ i # 0 BY <1>1
  <2>3. 0 \in 0 .. n BY <1>1
  <2> HIDE DEF Solution
  <2> QED BY <2>1, <2>2, <2>3
<1> HIDE DEF g
<1> QED BY <1>6, <1>7 DEF ClaimSteps

(* Contiguous subtrees: exactly what is below the dirty nodes is claimed.  *)
LEMMA ClaimSubtreesExact ==
  ASSUME order \in Orders, subtrees_are_contiguous, NEW w, Prepared(w),
         m_dirty_nodes \in Seq(Node), ToSet(m_dirty_nodes) = DirtySet
  PROVE  Claims(ClaimSubtrees(w), w, Under(DirtySet), Topmost(DirtySet))
<1> DEFINE q == Filter(order, ToSet(m_dirty_nodes))
           n == Len(q)
           P(i) == {q[j] : j \in 1 .. i}
<1>0. DirtySet \subseteq Node BY DEF DirtySet
<1>1. q \in Seq(Node) /\ ToSet(q) = DirtySet /\ Ascending(q, rank)
  <2>1. order \in Seq(Node) /\ ToSet(order) = Node /\ rank \in [Node -> Int] /\ Ascending(order, rank)
    BY OrderFacts
  <2>2. q \in Seq(Node) /\ \A x : x \in ToSet(q) <=> x \in Node /\ x \in DirtySet
    BY <2>1, Filtered
  <2>3. Ascending(q, rank) BY <2>1, FilterAscending
  <2> QED BY <1>0, <2>2, <2>3
<1>2. PICK g : ClaimSteps(g, w, q)
  <2>1. w \in Workspaces BY DEF Prepared
  <2> QED BY <1>1, <2>1, ClaimSubtreesRecursion
<1> HIDE DEF q
<1>3. /\ g[0] = w /\ ClaimSubtrees(w) = g[n]
      /\ \A i \in 1 .. n : g[i] = ClaimSubtree(g[i - 1], q[i])
  BY <1>2 DEF ClaimSteps
<1>4. n \in Nat BY <1>1
<1>5. P(n) = DirtySet BY <1>1 DEF ToSet
<1> DEFINE T == {i \in 0 .. n : Claims(g[i], w, Under(P(i)), Topmost(P(i)))}
<1>6. 0 \in T
  <2>1. Under({}) = {} /\ Topmost({}) = {} BY DEF Under, Topmost
  <2>2. P(0) = {} OBVIOUS
  <2>3. Claims(g[0], w, Under(P(0)), Topmost(P(0))) BY <1>3, <2>1, <2>2, NothingClaimed
  <2> QED BY <1>4, <2>3
<1>7. ASSUME NEW i \in 1 .. n, i - 1 \in T PROVE i \in T
  <2>1. Claims(g[i - 1], w, Under(P(i - 1)), Topmost(P(i - 1))) BY <1>7
  <2>2. P(i) = P(i - 1) \union {q[i]}
    <3>1. 1 .. i = (1 .. i - 1) \union {i} BY <1>4
    <3> QED BY <3>1
  <2>3. P(i - 1) \subseteq Node /\ q[i] \in Node
    BY <1>1, <1>4
  <2>4. \A p \in P(i - 1) : rank[p] < rank[q[i]]
    <3>1. ASSUME NEW j \in 1 .. i - 1 PROVE rank[q[j]] < rank[q[i]]
      <4>1. j \in 1 .. n /\ j < i BY <1>4
      <4> QED BY <1>1, <4>1 DEF Ascending
    <3> QED BY <3>1
  <2>5. Claims(g[i], w, Under(P(i)), Topmost(P(i)))
    <3> HIDE DEF P, T
    <3>1. g[i] = ClaimSubtree(g[i - 1], q[i]) BY <1>3
    <3> QED BY <2>1, <2>2, <2>3, <2>4, <3>1, ClaimSubtreeStep
  <2> QED BY <1>4, <2>5
<1>8. n \in T
  <2> HIDE DEF T, n
  <2>1. 0 .. n \subseteq T BY <1>4, <1>6, <1>7, UpTo
  <2> QED BY <1>4, <2>1
<1> QED BY <1>3, <1>5, <1>8

(* The fields of what ClaimNode returns.                                   *)
LEMMA ClaimNodeType ==
  ASSUME NEW w \in Workspaces, NEW n \in Node
  PROVE  LET pa == Parent[n] # NoNode /\ w.affected[Parent[n]] = w.generation
             u == ClaimNode(w, n) IN
         /\ u \in Workspaces /\ u.generation = w.generation /\ u.selected = w.selected
         /\ ~dirty[n] /\ ~pa => u = w
         /\ dirty[n] \/ pa =>
              /\ u.affected_nodes = Append(w.affected_nodes, n)
              /\ u.dirty_roots = IF pa THEN w.dirty_roots ELSE Append(w.dirty_roots, n)
              /\ u.affected[n] = w.generation
              /\ u.owner[n] = IF pa THEN w.owner[Parent[n]] ELSE n
              /\ \A m \in Node : m # n => u.affected[m] = w.affected[m] /\ u.owner[m] = w.owner[m]
<1> DEFINE pa == Parent[n] # NoNode /\ w.affected[Parent[n]] = w.generation
           u == ClaimNode(w, n)
<1>0. /\ w.generation \in Nat /\ w.affected \in [Node -> Nat] /\ w.selected \in [Node -> Nat]
      /\ w.owner \in [Node -> Node \union {NoNode}] /\ w.dirty_roots \in Seq(Node)
      /\ w.affected_nodes \in Seq(Node)
      /\ w.selected_dirty_roots \in Seq(Node) /\ w.selected_nodes \in Seq(Node)
  BY DEF Workspaces
<1>1. pa => Parent[n] \in Node BY ParentAssumption
<1>2. CASE ~dirty[n] /\ ~pa
  BY <1>2 DEF ClaimNode
<1>3. CASE dirty[n] \/ pa
  <2> DEFINE A == [w.affected EXCEPT ![n] = w.generation]
             o == IF pa THEN w.owner[Parent[n]] ELSE n
             O == [w.owner EXCEPT ![n] = o]
             R == IF pa THEN w.dirty_roots ELSE Append(w.dirty_roots, n)
             Q == Append(w.affected_nodes, n)
  <2>1. u = [w EXCEPT !.affected[n] = w.generation, !.owner[n] = o, !.affected_nodes = Q,
                      !.dirty_roots = R]
    BY <1>3, Zenon DEF ClaimNode
  <2>2. o \in Node \union {NoNode}
    <3>1. pa => w.owner[Parent[n]] \in Node \union {NoNode} BY <1>0, <1>1
    <3> HIDE DEF pa
    <3> QED BY <3>1
  <2>3. R \in Seq(Node) /\ Q \in Seq(Node)
    <3> HIDE DEF pa
    <3> QED BY <1>0
  <2> HIDE DEF o
  <2>4. A \in [Node -> Nat] /\ O \in [Node -> Node \union {NoNode}]
    BY <1>0, <2>2
  <2>5. /\ A[n] = w.generation /\ O[n] = o
        /\ \A m \in Node : m # n => A[m] = w.affected[m] /\ O[m] = w.owner[m]
    BY <1>0
  <2>6. u = [w EXCEPT !.affected = A, !.owner = O, !.affected_nodes = Q, !.dirty_roots = R]
    <3> HIDE DEF R, Q, u
    <3> QED BY <2>1, <1>0
  <2> HIDE DEF A, O, R, Q, u
  <2>7. /\ u.affected = A /\ u.owner = O /\ u.affected_nodes = Q /\ u.dirty_roots = R
        /\ u.generation = w.generation /\ u.selected = w.selected /\ u \in Workspaces
    BY <2>3, <2>4, <2>6 DEF Workspaces
  <2> QED BY <1>3, <2>5, <2>7 DEF o, R, Q, u
<1> QED BY <1>2, <1>3

(* The members of S among the first i nodes of the order.                  *)
Among(S, i) == {n \in S : rank[n] < i}

(* The i-th node is the only one to come in.                               *)
LEMMA AmongStep ==
  ASSUME order \in Orders, NEW i \in 1 .. Len(order), NEW S, S \subseteq Node
  PROVE  /\ order[i] \in Node /\ rank[order[i]] = i - 1
         /\ Among(S, i) = Among(S, i - 1) \union ({order[i]} \intersect S)
         /\ order[i] \notin Among(S, i - 1)
<1>1. order[i] \in Node /\ rank[order[i]] = i - 1 /\ rank \in [Node -> Int] BY OrderFacts
<1>2. ASSUME NEW n \in Node PROVE rank[n] < i <=> rank[n] < i - 1 \/ n = order[i]
  <2>1. rank[n] = rank[order[i]] => n = order[i] BY <1>1, OrderFacts
  <2>2. rank[n] \in Int BY <1>1
  <2> QED BY <1>1, <2>1, <2>2
<1>3. ASSUME NEW n \in S PROVE n \in Among(S, i) <=> n \in Among(S, i - 1) \/ n = order[i]
  BY <1>2, <1>3 DEF Among
<1>4. Among(S, i) \subseteq S /\ Among(S, i - 1) \subseteq S BY DEF Among
<1>5. order[i] \notin Among(S, i - 1) BY <1>1 DEF Among
<1> QED BY <1>1, <1>3, <1>4, <1>5

(* A node is below a dirty node when it is dirty or its parent is below    *)
(* one, and is topmost when only the first holds.                          *)
LEMMA AffectedByParent ==
  ASSUME NEW D, D \subseteq Node, NEW n \in Node
  PROVE  LET pa == Parent[n] # NoNode /\ Parent[n] \in Under(D) IN
         /\ n \in Under(D) <=> n \in D \/ pa
         /\ n \in Topmost(D) <=> n \in D /\ ~pa
         /\ pa => Above[Parent[n]] \subseteq Above[n]
<1>1. CASE Parent[n] = NoNode
  <2>1. Above[n] = {n} BY <1>1, AboveAssumption
  <2> QED BY <1>1, <2>1 DEF Under, Topmost
<1>2. CASE Parent[n] # NoNode
  <2>1. Parent[n] \in Node BY <1>2, ParentAssumption
  <2>2. Above[n] = {n} \union Above[Parent[n]] /\ n \notin Above[Parent[n]]
    BY <1>2, AboveAssumption
  <2> QED BY <1>2, <2>1, <2>2 DEF Under, Topmost
<1> QED BY <1>1, <1>2

(* The next node of the order.                                             *)
LEMMA ClaimNodeStep ==
  ASSUME order \in Orders, NEW v, NEW w, NEW i \in 1 .. Len(order),
         Claims(w, v, Among(Under(DirtySet), i - 1), Among(Topmost(DirtySet), i - 1))
  PROVE  Claims(ClaimNode(w, order[i]), v,
                Among(Under(DirtySet), i), Among(Topmost(DirtySet), i))
<1> DEFINE n == order[i]
           N == Among(Under(DirtySet), i - 1)
           R == Among(Topmost(DirtySet), i - 1)
           M == Among(Under(DirtySet), i)
           Q == Among(Topmost(DirtySet), i)
           pa == Parent[n] # NoNode /\ w.affected[Parent[n]] = w.generation
           u == ClaimNode(w, n)
<1>0. DirtySet \subseteq Node /\ Under(DirtySet) \subseteq Node /\ Topmost(DirtySet) \subseteq Node
  BY DEF DirtySet, Under, Topmost
<1>1. /\ n \in Node /\ rank[n] = i - 1 /\ n \notin N /\ n \notin R
      /\ M = N \union ({n} \intersect Under(DirtySet))
      /\ Q = R \union ({n} \intersect Topmost(DirtySet))
  BY <1>0, AmongStep
<1>2. /\ w \in Workspaces /\ w.generation = v.generation /\ w.selected = v.selected
      /\ \A m \in Node : w.affected[m] <= w.generation /\ (w.affected[m] = w.generation <=> m \in N)
      /\ \A m \in N : w.owner[m] \in R /\ w.owner[m] \in Above[m]
      /\ ToSet(w.dirty_roots) = R
      /\ ToSet(w.affected_nodes) = N /\ Ascending(w.affected_nodes, rank)
  BY DEF Claims
<1>3. w.generation \in Nat /\ w.dirty_roots \in Seq(Node) /\ w.affected_nodes \in Seq(Node)
  BY <1>2 DEF Workspaces
<1>4. pa <=> Parent[n] # NoNode /\ Parent[n] \in N
  BY <1>1, <1>2, ParentAssumption
<1>5. Parent[n] # NoNode => Parent[n] \in Node /\ rank[Parent[n]] < i - 1
  BY <1>1, OrderFacts
<1>6. pa <=> Parent[n] # NoNode /\ Parent[n] \in Under(DirtySet)
  BY <1>4, <1>5 DEF Among
<1>7. n \in DirtySet <=> dirty[n] BY <1>1, Zenon DEF DirtySet
<1>8. /\ n \in Under(DirtySet) <=> dirty[n] \/ pa
      /\ n \in Topmost(DirtySet) <=> dirty[n] /\ ~pa
      /\ pa => Above[Parent[n]] \subseteq Above[n]
  BY <1>0, <1>1, <1>6, <1>7, AffectedByParent
<1>9. /\ u \in Workspaces /\ u.generation = w.generation /\ u.selected = w.selected
      /\ ~dirty[n] /\ ~pa => u = w
      /\ dirty[n] \/ pa =>
           /\ u.affected_nodes = Append(w.affected_nodes, n)
           /\ u.dirty_roots = IF pa THEN w.dirty_roots ELSE Append(w.dirty_roots, n)
           /\ u.affected[n] = w.generation
           /\ u.owner[n] = IF pa THEN w.owner[Parent[n]] ELSE n
           /\ \A m \in Node : m # n => u.affected[m] = w.affected[m] /\ u.owner[m] = w.owner[m]
  BY <1>1, <1>2, ClaimNodeType
<1>10. CASE ~dirty[n] /\ ~pa
  <2>1. M = N /\ Q = R /\ u = w BY <1>1, <1>8, <1>9, <1>10
  <2> QED BY <2>1
<1>11. CASE dirty[n] \/ pa
  <2>1. M = N \union {n} /\ Q = IF pa THEN R ELSE R \union {n}
    <3> HIDE DEF pa
    <3> QED BY <1>1, <1>8, <1>11
  <2>2. ToSet(u.affected_nodes) = M /\ Ascending(u.affected_nodes, rank)
    <3> DEFINE k == rank
               a == w.affected_nodes
    <3>1. \A y \in ToSet(a) : k[y] < k[n]
      <4>1. \A y \in N : rank[y] < rank[n] BY <1>1 DEF Among
      <4> QED BY <1>2, <4>1
    <3>2. k \in [Node -> Int] /\ Ascending(a, k) /\ a \in Seq(Node) /\ n \in Node
      BY <1>1, <1>2, <1>3, OrderFacts
    <3>3. ToSet(Append(a, n)) = ToSet(a) \union {n} /\ Ascending(Append(a, n), k)
      <4> HIDE DEF k, a, n
      <4> QED BY <3>1, <3>2, Appended
    <3> QED BY <1>2, <1>9, <1>11, <2>1, <3>3
  <2>3. ToSet(u.dirty_roots) = Q
    <3> DEFINE a == w.dirty_roots
    <3>1. ToSet(Append(a, n)) = ToSet(a) \union {n}
      <4>1. a \in Seq(Node) /\ n \in Node BY <1>1, <1>3
      <4> HIDE DEF a, n
      <4> QED BY <4>1, Appended
    <3> QED BY <1>2, <1>9, <1>11, <2>1, <3>1
  <2>4. ASSUME NEW m \in Node
        PROVE  u.affected[m] <= u.generation /\ (u.affected[m] = u.generation <=> m \in M)
    <3>1. CASE m = n BY <1>3, <1>9, <1>11, <2>1, <3>1
    <3>2. CASE m # n
      <4>1. u.affected[m] = w.affected[m] /\ u.generation = w.generation
        BY <1>9, <1>11, <3>2
      <4>2. w.affected[m] <= w.generation /\ (w.affected[m] = w.generation <=> m \in N)
        BY <1>2
      <4>3. m \in M <=> m \in N BY <2>1, <3>2
      <4> QED BY <4>1, <4>2, <4>3, Zenon
    <3> QED BY <3>1, <3>2
  <2>5. ASSUME NEW m \in M PROVE u.owner[m] \in Q /\ u.owner[m] \in Above[m]
    <3>1. CASE m = n /\ pa
      <4>1. u.owner[n] = w.owner[Parent[n]] BY <1>9, <3>1
      <4>2. Parent[n] \in N /\ Above[Parent[n]] \subseteq Above[n] BY <1>4, <1>8, <3>1
      <4>3. w.owner[Parent[n]] \in R /\ w.owner[Parent[n]] \in Above[Parent[n]]
        BY <1>2, <4>2
      <4> QED BY <2>1, <3>1, <4>1, <4>2, <4>3
    <3>2. CASE m = n /\ ~pa
      <4>1. u.owner[n] = n BY <1>9, <1>11, <3>2
      <4>2. n \in Above[n] BY <1>1, AboveAssumption
      <4> QED BY <2>1, <3>2, <4>1, <4>2
    <3>3. CASE m # n
      <4>1. m \in N BY <2>1, <3>3
      <4>2. m \in Node BY <1>0, <4>1 DEF Among
      <4>3. u.owner[m] = w.owner[m] BY <1>9, <1>11, <3>3, <4>2
      <4>4. w.owner[m] \in R /\ w.owner[m] \in Above[m] BY <1>2, <4>1
      <4>5. R \subseteq Q BY <1>1
      <4> QED BY <4>3, <4>4, <4>5
    <3> QED BY <3>1, <3>2, <3>3
  <2> HIDE DEF u, M, Q, N, R, pa
  <2> QED BY <1>2, <1>9, <2>2, <2>3, <2>4, <2>5 DEF Claims, u, M, Q
<1> QED BY <1>10, <1>11

NodeSteps(g, w, q) ==
  /\ g[0] = w /\ ClaimNodes(w) = g[Len(q)]
  /\ \A i \in 1 .. Len(q) : g[i] = ClaimNode(g[i - 1], q[i])

(* The recursion of ClaimNodes has a solution.                          *)
LEMMA ClaimNodesRecursion ==
  ASSUME order \in Orders, NEW w \in Workspaces,
         NEW q \in Seq(Node), q = order
  PROVE  \E g : NodeSteps(g, w, q)
<1> DEFINE n == Len(q)
           step == [i \in 1 .. n |-> [v \in Workspaces |-> ClaimNode(v, q[i])]]
           Solution(f) == f = [i \in 0 .. n |->
             IF i = 0 THEN w ELSE ClaimNode(f[i - 1], q[i])]
           g == CHOOSE f : Solution(f)
<1>1. n \in Nat OBVIOUS
<1>2. step \in [1 .. n -> [Workspaces -> Workspaces]]
  <2>1. \A i \in 1 .. n : \A v \in Workspaces : ClaimNode(v, q[i]) \in Workspaces
    <3> SUFFICES ASSUME NEW i \in 1 .. n, NEW v \in Workspaces
                 PROVE  ClaimNode(v, q[i]) \in Workspaces
      OBVIOUS
    <3>1. q[i] \in Node OBVIOUS
    <3> QED BY <3>1, ClaimNodeType
  <2> HIDE DEF n
  <2> QED BY <2>1
<1>3. PICK f : Iterated(f, Workspaces, n, w, step)
  <2> HIDE DEF n, step
  <2> QED BY <1>1, <1>2, Iterates
<1>4. Solution(f)
  <2>1. f \in [0 .. n -> Workspaces] /\ f[0] = w /\ \A i \in 1 .. n : f[i] = step[i][f[i - 1]]
    <3> HIDE DEF n, step
    <3> QED BY <1>3 DEF Iterated
  <2>2. ASSUME NEW k \in 0 .. n
        PROVE  f[k] = IF k = 0 THEN w ELSE ClaimNode(f[k - 1], q[k])
    <3>1. CASE k = 0 BY <2>1, <3>1
    <3>2. CASE k # 0
      <4>1. k \in 1 .. n /\ k - 1 \in 0 .. n BY <1>1, <3>2
      <4>2. f[k - 1] \in Workspaces BY <2>1, <4>1
      <4> HIDE DEF n
      <4> QED BY <2>1, <3>2, <4>1, <4>2
    <3> QED BY <3>1, <3>2
  <2>3. f = [k \in 0 .. n |-> f[k]] BY <2>1
  <2> HIDE DEF n, step
  <2> QED BY <2>2, <2>3, Zenon
<1>5. Solution(g)
  <2> HIDE DEF Solution
  <2> QED BY <1>4
<1>6. ClaimNodes(w) = g[n] BY DEF ClaimNodes
<1>7. g[0] = w /\ \A i \in 1 .. n : g[i] = ClaimNode(g[i - 1], q[i])
  <2> HIDE DEF g, n
  <2>1. ASSUME NEW k \in 0 .. n
        PROVE  g[k] = IF k = 0 THEN w ELSE ClaimNode(g[k - 1], q[k])
    BY <1>5, Zenon
  <2>2. \A i \in 1 .. n : i \in 0 .. n /\ i # 0 BY <1>1
  <2>3. 0 \in 0 .. n BY <1>1
  <2> HIDE DEF Solution
  <2> QED BY <2>1, <2>2, <2>3
<1> HIDE DEF g
<1> QED BY <1>6, <1>7 DEF NodeSteps

(* Any order: exactly what is below the dirty nodes is claimed.            *)
LEMMA ClaimNodesExact ==
  ASSUME order \in Orders, NEW w, Prepared(w)
  PROVE  Claims(ClaimNodes(w), w, Under(DirtySet), Topmost(DirtySet))
<1> DEFINE n == Len(order)
           U == Under(DirtySet)
           R == Topmost(DirtySet)
<1>0. U \subseteq Node /\ R \subseteq Node BY DEF Under, Topmost, DirtySet
<1>1. order \in Seq(Node) /\ n \in Nat /\ \A m \in Node : 0 <= rank[m] /\ rank[m] < n
  BY OrderFacts
<1>2. PICK g : NodeSteps(g, w, order)
  <2>1. w \in Workspaces BY DEF Prepared
  <2> QED BY <1>1, <2>1, ClaimNodesRecursion
<1>3. /\ g[0] = w /\ ClaimNodes(w) = g[n]
      /\ \A i \in 1 .. n : g[i] = ClaimNode(g[i - 1], order[i])
  BY <1>2 DEF NodeSteps
<1> DEFINE T == {i \in 0 .. n : Claims(g[i], w, Among(U, i), Among(R, i))}
<1>4. 0 \in T
  <2>1. Among(U, 0) = {} /\ Among(R, 0) = {}
    <3>1. ASSUME NEW m \in Node PROVE ~ (rank[m] < 0)
      <4>1. 0 <= rank[m] /\ rank[m] \in Int BY <1>1, OrderFacts
      <4> QED BY <4>1
    <3> QED BY <1>0, <3>1 DEF Among
  <2>2. Claims(g[0], w, Among(U, 0), Among(R, 0)) BY <1>3, <2>1, NothingClaimed
  <2> QED BY <1>1, <2>2
<1>5. ASSUME NEW i \in 1 .. n, i - 1 \in T PROVE i \in T
  <2>1. Claims(g[i], w, Among(U, i), Among(R, i))
    <3>1. g[i] = ClaimNode(g[i - 1], order[i]) BY <1>3
    <3>2. Claims(g[i - 1], w, Among(U, i - 1), Among(R, i - 1)) BY <1>5
    <3> HIDE DEF T
    <3> QED BY <3>1, <3>2, ClaimNodeStep
  <2> QED BY <1>1, <2>1
<1>6. Claims(g[n], w, Among(U, n), Among(R, n))
  <2>1. 0 .. n \subseteq T
    <3> HIDE DEF T, n
    <3> QED BY <1>1, <1>4, <1>5, UpTo
  <2>2. n \in T BY <1>1, <2>1
  <2> QED BY <2>2
<1>7. Among(U, n) = U /\ Among(R, n) = R
  <2> HIDE DEF n, U, R
  <2> QED BY <1>0, <1>1 DEF Among
<1> QED BY <1>3, <1>6, <1>7

(* The frontier lists every dirty node once.                               *)
FrontierExact ==
  /\ m_dirty_nodes \in Seq(Node) /\ ToSet(m_dirty_nodes) = DirtySet
  /\ \A i, j \in 1 .. Len(m_dirty_nodes) : m_dirty_nodes[i] = m_dirty_nodes[j] => i = j

(* When every node is dirty, the roots and the order are what is affected. *)
LEMMA AllDirty ==
  ASSUME order \in Orders, FrontierExact, Len(m_dirty_nodes) = Cardinality(Node)
  PROVE  /\ Roots \in Seq(Node) /\ ToSet(Roots) = Topmost(DirtySet)
         /\ order = Below(Topmost(DirtySet))
<1>1. DirtySet = Node
  <2>1. Cardinality(DirtySet) = Cardinality(Node) BY MembersCounted DEF FrontierExact
  <2>2. DirtySet \subseteq Node /\ IsFiniteSet(Node) BY NodeCount DEF DirtySet
  <2> QED BY <2>1, <2>2, FS_Subset
<1>2. /\ order \in Seq(Node) /\ ToSet(order) = Node
      /\ rank \in [Node -> Int] /\ Ascending(order, rank)
  BY OrderFacts
<1>3. ASSUME NEW n \in Node PROVE n \in Topmost(Node) <=> Parent[n] = NoNode
  <2>1. CASE Parent[n] = NoNode
    <3>1. Above[n] = {n} BY <2>1, AboveAssumption
    <3> QED BY <2>1, <3>1 DEF Topmost
  <2>2. CASE Parent[n] # NoNode
    <3>1. Parent[n] \in Node /\ Parent[n] \in Above[n] /\ Parent[n] # n
      BY <2>2, AboveAssumption, ParentAssumption
    <3> QED BY <2>2, <3>1 DEF Topmost
  <2> QED BY <2>1, <2>2
<1>4. Roots \in Seq(Node) /\ ToSet(Roots) = Topmost(Node)
  <2> DEFINE S == {n \in Node : Parent[n] = NoNode}
  <2>1. /\ Filter(order, S) \in Seq(Node)
        /\ \A x : x \in ToSet(Filter(order, S)) <=> x \in Node /\ x \in S
    <3> HIDE DEF S
    <3> QED BY <1>2, Filtered
  <2>2. Topmost(Node) = S BY <1>3 DEF Topmost
  <2>3. ToSet(Filter(order, S)) = S
    <3> HIDE DEF S
    <3>1. S \subseteq Node BY DEF S
    <3> QED BY <2>1, <3>1
  <2>4. Roots = Filter(order, S) BY DEF Roots
  <2> HIDE DEF S
  <2> QED BY <2>1, <2>2, <2>3, <2>4
<1>5. Under(Topmost(Node)) = Node
  <2>1. Under(Topmost(Node)) = Under(Node) /\ Node \subseteq Under(Node) BY TopmostAbove
  <2> QED BY <2>1 DEF Under
<1>6. order = Below(Topmost(Node)) BY <1>2, <1>5, BelowUnique
<1> QED BY <1>1, <1>4, <1>6

(* Whichever way make_plan takes, it finds the topmost dirty nodes and     *)
(* what is below them in topological order; a partial plan stamps exactly  *)
(* these.                                                                  *)
LEMMA ClaimExact ==
  ASSUME order \in Orders, FrontierExact, NEW w, Prepared(w), NEW partial \in BOOLEAN
  PROVE  LET u == Claim(w, partial) IN
         /\ u \in Workspaces /\ u.generation = w.generation /\ u.selected = w.selected
         /\ \A n \in Node : u.affected[n] <= u.generation
         /\ ToSet(u.dirty_roots) = Topmost(DirtySet)
         /\ u.affected_nodes = Below(Topmost(DirtySet))
         /\ partial => Claims(u, w, Under(DirtySet), Topmost(DirtySet))
<1> DEFINE u == Claim(w, partial)
           full == ~partial /\ Len(m_dirty_nodes) = Cardinality(Node)
<1>0. m_dirty_nodes \in Seq(Node) /\ ToSet(m_dirty_nodes) = DirtySet BY DEF FrontierExact
<1>1. ASSUME Claims(u, w, Under(DirtySet), Topmost(DirtySet))
      PROVE  /\ u \in Workspaces /\ u.generation = w.generation /\ u.selected = w.selected
             /\ \A n \in Node : u.affected[n] <= u.generation
             /\ ToSet(u.dirty_roots) = Topmost(DirtySet)
             /\ u.affected_nodes = Below(Topmost(DirtySet))
  <2> HIDE DEF u
  <2>1. /\ u \in Workspaces /\ u.generation = w.generation /\ u.selected = w.selected
        /\ \A n \in Node : u.affected[n] <= u.generation
        /\ ToSet(u.dirty_roots) = Topmost(DirtySet)
        /\ ToSet(u.affected_nodes) = Under(DirtySet) /\ Ascending(u.affected_nodes, rank)
    BY <1>1 DEF Claims
  <2>2. u.affected_nodes \in Seq(Node) BY <2>1 DEF Workspaces
  <2>3. Under(Topmost(DirtySet)) = Under(DirtySet) BY TopmostAbove DEF DirtySet
  <2>4. u.affected_nodes = Below(Topmost(DirtySet)) BY <2>1, <2>2, <2>3, BelowUnique
  <2> QED BY <2>1, <2>4
<1>2. CASE m_dirty_nodes = <<>>
  <2>1. u = w BY <1>2 DEF Claim
  <2>2. DirtySet = {} BY <1>0, <1>2 DEF ToSet
  <2>3. Under({}) = {} /\ Topmost({}) = {} BY DEF Under, Topmost
  <2>4. Claims(u, w, Under(DirtySet), Topmost(DirtySet))
    BY <2>1, <2>2, <2>3, NothingClaimed
  <2> QED BY <1>1, <2>4
<1>3. CASE m_dirty_nodes # <<>> /\ full
  <2>1. u = [w EXCEPT !.dirty_roots = Roots, !.affected_nodes = order]
    BY <1>3 DEF Claim
  <2>2. /\ Roots \in Seq(Node) /\ ToSet(Roots) = Topmost(DirtySet)
        /\ order = Below(Topmost(DirtySet)) /\ order \in Seq(Node)
    BY <1>3, AllDirty, OrderFacts
  <2>3. w \in Workspaces /\ w.generation \in Nat /\ w.affected \in [Node -> Nat]
    BY DEF Prepared, Workspaces
  <2> HIDE DEF u
  <2>4. /\ u \in Workspaces /\ u.dirty_roots = Roots /\ u.affected_nodes = order
        /\ u.generation = w.generation /\ u.selected = w.selected /\ u.affected = w.affected
    BY <2>1, <2>2, <2>3 DEF Workspaces
  <2>5. ASSUME NEW n \in Node PROVE u.affected[n] <= u.generation
    <3>1. w.affected[n] < w.generation BY DEF Prepared
    <3>2. w.affected[n] \in Nat BY <2>3
    <3> QED BY <2>3, <2>4, <3>1, <3>2
  <2>6. \A n \in Node : u.affected[n] <= u.generation BY <2>5, Zenon
  <2> HIDE DEF full
  <2>7. ~partial BY <1>3 DEF full
  <2> QED BY <2>2, <2>4, <2>6, <2>7, Zenon DEF u
<1>4. CASE m_dirty_nodes # <<>> /\ ~full /\ subtrees_are_contiguous
  <2>1. u = ClaimSubtrees(w) BY <1>4, Zenon DEF Claim
  <2>2. Claims(u, w, Under(DirtySet), Topmost(DirtySet))
    <3> HIDE DEF u
    <3> QED BY <1>0, <1>4, <2>1, ClaimSubtreesExact
  <2> QED BY <1>1, <2>2
<1>5. CASE m_dirty_nodes # <<>> /\ ~full /\ ~subtrees_are_contiguous
  <2>1. u = ClaimNodes(w) BY <1>5, Zenon DEF Claim
  <2>2. Claims(u, w, Under(DirtySet), Topmost(DirtySet))
    <3> HIDE DEF u
    <3> QED BY <2>1, ClaimNodesExact
  <2> QED BY <1>1, <2>2
<1> QED BY <1>2, <1>3, <1>4, <1>5

-----------------------------------------------------------------------------
(* What prepare leaves and what a partial plan selects                     *)

(* No stamp is ahead of the workspace's generation.                        *)
Stamped(w) ==
  /\ w \in Workspaces /\ w.generation < GenerationModulus
  /\ \A n \in Node : w.affected[n] <= w.generation /\ w.selected[n] <= w.generation

(* A prepared workspace carries no stamp of its new generation, wrapped    *)
(* around or not.                                                          *)
LEMMA PrepareExact ==
  ASSUME NEW w, Stamped(w)
  PROVE  /\ Prepared(prepare(w)) /\ prepare(w).generation # w.generation
         /\ prepare(w).generation \in Nat /\ prepare(w).generation < GenerationModulus
<1> DEFINE g == NextGeneration(w)
           A == IF g = 1 THEN Unstamped ELSE w.affected
           S == IF g = 1 THEN Unstamped ELSE w.selected
           u == prepare(w)
<1>1. /\ w \in Workspaces /\ w.generation \in Nat /\ w.generation < GenerationModulus
      /\ w.affected \in [Node -> Nat] /\ w.selected \in [Node -> Nat]
      /\ \A n \in Node : w.affected[n] <= w.generation /\ w.selected[n] <= w.generation
  BY DEF Stamped, Workspaces
<1>2. /\ g \in Nat /\ g < GenerationModulus /\ g # w.generation /\ g >= 1
      /\ g # 1 => w.generation < g
  BY <1>1, ModulusAssumption DEF NextGeneration
<1>3. A \in [Node -> Nat] /\ S \in [Node -> Nat]
  BY <1>1 DEF Unstamped
<1>4. ASSUME NEW n \in Node PROVE A[n] < g /\ S[n] < g
  <2>1. CASE g = 1 BY <2>1 DEF Unstamped
  <2>2. CASE g # 1
    <3>1. w.affected[n] \in Nat /\ w.selected[n] \in Nat BY <1>1
    <3> HIDE DEF g
    <3> QED BY <1>1, <1>2, <2>2, <3>1
  <2> QED BY <2>1, <2>2
<1>5. u = [w EXCEPT !.generation = g, !.affected = A, !.selected = S,
                    !.dirty_roots = <<>>, !.affected_nodes = <<>>,
                    !.selected_dirty_roots = <<>>, !.selected_nodes = <<>>]
  BY DEF prepare
<1> HIDE DEF g, A, S, u
<1>6. /\ u \in Workspaces /\ u.generation = g /\ u.affected = A /\ u.selected = S
      /\ u.dirty_roots = <<>> /\ u.affected_nodes = <<>>
  <2> DEFINE e == <<>>
  <2>1. e \in Seq(Node) OBVIOUS
  <2>2. u = [w EXCEPT !.generation = g, !.affected = A, !.selected = S,
                      !.dirty_roots = e, !.affected_nodes = e,
                      !.selected_dirty_roots = e, !.selected_nodes = e]
    BY <1>5
  <2> HIDE DEF e
  <2>3. /\ u \in Workspaces /\ u.generation = g /\ u.affected = A /\ u.selected = S
        /\ u.dirty_roots = e /\ u.affected_nodes = e
    BY <1>1, <1>2, <1>3, <2>1, <2>2 DEF Workspaces
  <2> QED BY <2>3 DEF e
<1>7. Prepared(u) BY <1>4, <1>6, Zenon DEF Prepared
<1> QED BY <1>2, <1>6, <1>7 DEF u

Selections == [w : Workspaces, valid : BOOLEAN]

(* While the requested roots are checked, only the selection changes, and  *)
(* unless the request is refused it holds claimed nodes that own           *)
(* themselves.                                                             *)
Selecting(acc, w) ==
  /\ acc \in Selections
  /\ acc.w.generation = w.generation /\ acc.w.affected = w.affected /\ acc.w.owner = w.owner
  /\ acc.w.dirty_roots = w.dirty_roots /\ acc.w.affected_nodes = w.affected_nodes
  /\ \A n \in Node : acc.w.selected[n] <= w.generation
  /\ acc.valid => \A n \in Node : acc.w.selected[n] = w.generation =>
                    w.affected[n] = w.generation /\ w.owner[n] = n

(* The fields of what SelectRoot returns.                                  *)
LEMMA SelectRootType ==
  ASSUME NEW acc \in Selections, NEW root
  PROVE  LET u == SelectRoot(acc, root)
             refused == \/ ~acc.valid \/ root \notin Node
                        \/ acc.w.selected[root] = acc.w.generation
                        \/ acc.w.affected[root] # acc.w.generation \/ acc.w.owner[root] # root IN
         /\ u \in Selections
         /\ refused => u.w = acc.w /\ u.valid = FALSE
         /\ ~refused =>
              /\ u.w.generation = acc.w.generation /\ u.w.affected = acc.w.affected
              /\ u.w.owner = acc.w.owner /\ u.w.dirty_roots = acc.w.dirty_roots
              /\ u.w.affected_nodes = acc.w.affected_nodes
              /\ u.w.selected[root] = acc.w.generation
              /\ \A n \in Node : n # root => u.w.selected[n] = acc.w.selected[n]
<1> DEFINE u == SelectRoot(acc, root)
           refused == \/ ~acc.valid \/ root \notin Node
                      \/ acc.w.selected[root] = acc.w.generation
                      \/ acc.w.affected[root] # acc.w.generation \/ acc.w.owner[root] # root
<1>1. CASE refused
  <2>1. u = [acc EXCEPT !.valid = FALSE] BY <1>1 DEF SelectRoot
  <2> HIDE DEF u, refused
  <2>2. u \in Selections /\ u.w = acc.w /\ u.valid = FALSE BY <2>1 DEF Selections
  <2> QED BY <1>1, <2>2, Zenon DEF u, refused
<1>2. CASE ~refused
  <2>1. u = [acc EXCEPT !.w.selected[root] = acc.w.generation] BY <1>2, Zenon DEF SelectRoot
  <2>2. root \in Node BY <1>2
  <2>3. /\ acc.w \in Workspaces /\ acc.w.generation \in Nat /\ acc.w.selected \in [Node -> Nat]
    BY DEF Selections, Workspaces
  <2> DEFINE S == [acc.w.selected EXCEPT ![root] = acc.w.generation]
             v == [acc.w EXCEPT !.selected = S]
  <2>4. /\ S \in [Node -> Nat] /\ S[root] = acc.w.generation
        /\ \A n \in Node : n # root => S[n] = acc.w.selected[n]
    BY <2>2, <2>3
  <2>5. u = [acc EXCEPT !.w = v]
    <3> HIDE DEF u
    <3> QED BY <2>1 DEF Selections
  <2> HIDE DEF S
  <2>6. /\ v \in Workspaces /\ v.selected = S /\ v.generation = acc.w.generation
        /\ v.affected = acc.w.affected /\ v.owner = acc.w.owner
        /\ v.dirty_roots = acc.w.dirty_roots /\ v.affected_nodes = acc.w.affected_nodes
    BY <2>3, <2>4 DEF Workspaces
  <2> HIDE DEF v, u, refused
  <2>7. u \in Selections /\ u.w = v BY <2>5, <2>6 DEF Selections
  <2> QED BY <1>2, <2>4, <2>6, <2>7 DEF u, refused
<1> QED BY <1>1, <1>2

(* One requested root more.                                                *)
LEMMA SelectRootStep ==
  ASSUME NEW w \in Workspaces, NEW acc, Selecting(acc, w), NEW root
  PROVE  Selecting(SelectRoot(acc, root), w)
<1> DEFINE u == SelectRoot(acc, root)
           refused == \/ ~acc.valid \/ root \notin Node
                      \/ acc.w.selected[root] = acc.w.generation
                      \/ acc.w.affected[root] # acc.w.generation \/ acc.w.owner[root] # root
<1>1. /\ acc \in Selections
      /\ acc.w.generation = w.generation /\ acc.w.affected = w.affected /\ acc.w.owner = w.owner
      /\ acc.w.dirty_roots = w.dirty_roots /\ acc.w.affected_nodes = w.affected_nodes
      /\ \A n \in Node : acc.w.selected[n] <= w.generation
      /\ acc.valid => \A n \in Node : acc.w.selected[n] = w.generation =>
                        w.affected[n] = w.generation /\ w.owner[n] = n
  BY DEF Selecting
<1>2. /\ u \in Selections
      /\ refused => u.w = acc.w /\ u.valid = FALSE
      /\ ~refused =>
           /\ u.w.generation = acc.w.generation /\ u.w.affected = acc.w.affected
           /\ u.w.owner = acc.w.owner /\ u.w.dirty_roots = acc.w.dirty_roots
           /\ u.w.affected_nodes = acc.w.affected_nodes
           /\ u.w.selected[root] = acc.w.generation
           /\ \A n \in Node : n # root => u.w.selected[n] = acc.w.selected[n]
  <2>1. acc \in Selections BY <1>1
  <2> QED BY <2>1, SelectRootType, Zenon
<1>3. w.generation \in Nat BY DEF Workspaces
<1>4. CASE refused
  <2> HIDE DEF u, refused
  <2> QED BY <1>1, <1>2, <1>4, Zenon DEF Selecting, u
<1>5. CASE ~refused
  <2>1. root \in Node /\ acc.valid /\ w.affected[root] = w.generation /\ w.owner[root] = root
    BY <1>1, <1>5
  <2> HIDE DEF refused
  <2>2. ASSUME NEW n \in Node
        PROVE  /\ u.w.selected[n] <= w.generation
               /\ u.w.selected[n] = w.generation =>
                    w.affected[n] = w.generation /\ w.owner[n] = n
    <3> HIDE DEF u
    <3>1. CASE n = root BY <1>1, <1>2, <1>3, <1>5, <2>1, <3>1
    <3>2. CASE n # root
      <4>1. u.w.selected[n] = acc.w.selected[n] BY <1>2, <1>5, <3>2
      <4>2. /\ acc.w.selected[n] <= w.generation
            /\ acc.w.selected[n] = w.generation =>
                 w.affected[n] = w.generation /\ w.owner[n] = n
        BY <1>1, <2>1
      <4> QED BY <4>1, <4>2, Zenon
    <3> QED BY <3>1, <3>2
  <2>3. /\ u.w.generation = w.generation /\ u.w.affected = w.affected /\ u.w.owner = w.owner
        /\ u.w.dirty_roots = w.dirty_roots /\ u.w.affected_nodes = w.affected_nodes
    <3> HIDE DEF u
    <3> QED BY <1>1, <1>2, <1>5
  <2> HIDE DEF u
  <2> QED BY <1>2, <2>2, <2>3, Zenon DEF Selecting, u
<1> QED BY <1>4, <1>5

RootSteps(g, w, roots) ==
  /\ g[0] = [w |-> w, valid |-> TRUE] /\ SelectRoots(w, roots) = g[Len(roots)]
  /\ \A i \in 1 .. Len(roots) : g[i] = SelectRoot(g[i - 1], roots[i])

(* The recursion of SelectRoots has a solution.                            *)
LEMMA SelectRootsRecursion ==
  ASSUME NEW w \in Workspaces, NEW roots \in RootRequests
  PROVE  \E g : RootSteps(g, w, roots)
<1> DEFINE n == Len(roots)
           base == [w |-> w, valid |-> TRUE]
           step == [i \in 1 .. n |-> [v \in Selections |-> SelectRoot(v, roots[i])]]
           Solution(f) == f = [i \in 0 .. n |->
             IF i = 0 THEN base ELSE SelectRoot(f[i - 1], roots[i])]
           g == CHOOSE f : Solution(f)
<1>1. n \in Nat /\ base \in Selections BY RequestAssumption DEF Selections
<1>2. step \in [1 .. n -> [Selections -> Selections]]
  <2>1. \A i \in 1 .. n : \A v \in Selections : SelectRoot(v, roots[i]) \in Selections
    BY SelectRootType
  <2> HIDE DEF n
  <2> QED BY <2>1
<1>3. PICK f : Iterated(f, Selections, n, base, step)
  <2> HIDE DEF n, step, base
  <2> QED BY <1>1, <1>2, Iterates
<1>4. Solution(f)
  <2>1. f \in [0 .. n -> Selections] /\ f[0] = base /\ \A i \in 1 .. n : f[i] = step[i][f[i - 1]]
    <3> HIDE DEF n, step, base
    <3> QED BY <1>3 DEF Iterated
  <2>2. ASSUME NEW k \in 0 .. n
        PROVE  f[k] = IF k = 0 THEN base ELSE SelectRoot(f[k - 1], roots[k])
    <3>1. CASE k = 0 BY <2>1, <3>1
    <3>2. CASE k # 0
      <4>1. k \in 1 .. n /\ k - 1 \in 0 .. n BY <1>1, <3>2
      <4>2. f[k - 1] \in Selections BY <2>1, <4>1
      <4> HIDE DEF n, base
      <4> QED BY <2>1, <3>2, <4>1, <4>2
    <3> QED BY <3>1, <3>2
  <2>3. f = [k \in 0 .. n |-> f[k]] BY <2>1
  <2> HIDE DEF n, step, base
  <2> QED BY <2>2, <2>3, Zenon
<1>5. Solution(g)
  <2> HIDE DEF Solution
  <2> QED BY <1>4
<1>6. SelectRoots(w, roots) = g[n] BY DEF SelectRoots
<1>7. g[0] = base /\ \A i \in 1 .. n : g[i] = SelectRoot(g[i - 1], roots[i])
  <2> HIDE DEF g, n, base
  <2>1. ASSUME NEW k \in 0 .. n
        PROVE  g[k] = IF k = 0 THEN base ELSE SelectRoot(g[k - 1], roots[k])
    BY <1>5, Zenon
  <2>2. \A i \in 1 .. n : i \in 0 .. n /\ i # 0 BY <1>1
  <2>3. 0 \in 0 .. n BY <1>1
  <2> HIDE DEF Solution
  <2> QED BY <2>1, <2>2, <2>3
<1> HIDE DEF g
<1> QED BY <1>6, <1>7 DEF RootSteps

(* What checking the requested roots leaves.                               *)
LEMMA SelectRootsExact ==
  ASSUME NEW w \in Workspaces, \A n \in Node : w.selected[n] < w.generation,
         NEW roots \in RootRequests
  PROVE  Selecting(SelectRoots(w, roots), w)
<1> DEFINE n == Len(roots)
           T(g) == {i \in 0 .. n : Selecting(g[i], w)}
<1>1. n \in Nat BY RequestAssumption
<1>2. PICK g : RootSteps(g, w, roots) BY SelectRootsRecursion
<1>3. /\ g[0] = [w |-> w, valid |-> TRUE] /\ SelectRoots(w, roots) = g[n]
      /\ \A i \in 1 .. n : g[i] = SelectRoot(g[i - 1], roots[i])
  BY <1>2 DEF RootSteps
<1>4. 0 \in T(g)
  <2>1. ASSUME NEW n1 \in Node
        PROVE  w.selected[n1] <= w.generation /\ w.selected[n1] # w.generation
    <3>1. w.selected[n1] < w.generation OBVIOUS
    <3>2. w.selected[n1] \in Nat /\ w.generation \in Nat BY DEF Workspaces
    <3> QED BY <3>1, <3>2
  <2> DEFINE b == [w |-> w, valid |-> TRUE]
  <2>2. b \in Selections /\ b.w = w BY DEF Selections
  <2> HIDE DEF b
  <2>3. Selecting(b, w) BY <2>1, <2>2, Zenon DEF Selecting
  <2> QED BY <1>1, <1>3, <2>3 DEF b
<1>5. ASSUME NEW i \in 1 .. n, i - 1 \in T(g) PROVE i \in T(g)
  <2>1. Selecting(g[i - 1], w) BY <1>5
  <2>2. Selecting(g[i], w)
    <3> HIDE DEF T
    <3> QED BY <1>3, <2>1, SelectRootStep
  <2> QED BY <1>1, <2>2
<1>6. 0 .. n \subseteq T(g)
  <2> HIDE DEF T, n
  <2> QED BY <1>1, <1>4, <1>5, UpTo
<1>7. n \in T(g) BY <1>1, <1>6
<1> QED BY <1>3, <1>7

(* The fields of what SelectScope returns.                                 *)
LEMMA SelectScopeType ==
  ASSUME NEW w \in Workspaces, \A n \in Node : w.selected[n] < w.generation,
         NEW roots \in RootRequests
  PROVE  LET o == SelectScope(w, roots)
             c == SelectRoots(w, roots)
             R == {n \in Node : c.w.selected[n] = w.generation} IN
         /\ o \in Selections /\ o.valid = c.valid
         /\ o.w.generation = w.generation /\ o.w.affected = w.affected
         /\ o.w.selected = c.w.selected
         /\ o.valid => /\ o.w.selected_dirty_roots = Filter(w.dirty_roots, R)
                       /\ o.w.selected_nodes =
                            Filter(w.affected_nodes, {n \in Node : w.owner[n] \in R})
<1> DEFINE o == SelectScope(w, roots)
           c == SelectRoots(w, roots)
           R == {n \in Node : c.w.selected[n] = w.generation}
           p == Filter(w.dirty_roots, R)
           q == Filter(w.affected_nodes, {n \in Node : w.owner[n] \in R})
<1>1. c \in Selections /\ c.w.generation = w.generation /\ c.w.affected = w.affected
  <2> HIDE DEF c
  <2> QED BY SelectRootsExact DEF Selecting, c
<1>2. CASE ~c.valid
  <2>1. o = c BY <1>2, Zenon DEF SelectScope
  <2> HIDE DEF c, o, p, q
  <2>2. /\ o \in Selections /\ o.valid = c.valid /\ ~o.valid
        /\ o.w.generation = w.generation /\ o.w.affected = w.affected
        /\ o.w.selected = c.w.selected
    BY <1>1, <1>2, <2>1
  <2> QED BY <2>2, Zenon DEF o, c
<1>3. CASE c.valid
  <2>1. o = [c EXCEPT !.w.selected_dirty_roots = p, !.w.selected_nodes = q]
    BY <1>3, Zenon DEF SelectScope
  <2>2. p \in Seq(Node) /\ q \in Seq(Node)
    <3>1. w.dirty_roots \in Seq(Node) /\ w.affected_nodes \in Seq(Node) BY DEF Workspaces
    <3> QED BY <3>1, Filtered
  <2> DEFINE v == [c.w EXCEPT !.selected_dirty_roots = p, !.selected_nodes = q]
  <2> HIDE DEF c, o, p, q
  <2>3. o = [c EXCEPT !.w = v] BY <1>1, <2>1 DEF Selections, Workspaces
  <2>4. c.w \in Workspaces /\ c.valid \in BOOLEAN BY <1>1 DEF Selections
  <2>5. /\ v \in Workspaces /\ v.generation = c.w.generation /\ v.affected = c.w.affected
        /\ v.selected = c.w.selected
        /\ v.selected_dirty_roots = p /\ v.selected_nodes = q
    BY <2>2, <2>4 DEF Workspaces
  <2> HIDE DEF v
  <2>6. o \in Selections /\ o.valid = c.valid /\ o.w = v
    BY <1>1, <2>3, <2>4, <2>5 DEF Selections
  <2>7. /\ o.w.generation = w.generation /\ o.w.affected = w.affected
        /\ o.w.selected = c.w.selected
        /\ o.w.selected_dirty_roots = p /\ o.w.selected_nodes = q
    BY <1>1, <2>5, <2>6, Zenon
  <2> QED BY <2>6, <2>7, Zenon DEF o, c, p, q
<1>4. c.valid \in BOOLEAN BY <1>1 DEF Selections
<1> QED BY <1>2, <1>3

(* A request that is not refused selects topmost dirty nodes and what is   *)
(* below them, in topological order.                                       *)
LEMMA SelectScopeExact ==
  ASSUME order \in Orders, NEW w, NEW v,
         Claims(w, v, Under(DirtySet), Topmost(DirtySet)),
         \A n \in Node : w.selected[n] < w.generation, NEW roots \in RootRequests
  PROVE  LET o == SelectScope(w, roots) IN
         /\ o \in Selections /\ o.w.generation = w.generation
         /\ \A n \in Node : o.w.affected[n] <= w.generation /\ o.w.selected[n] <= w.generation
         /\ o.valid => /\ ToSet(o.w.selected_dirty_roots) \subseteq Topmost(DirtySet)
                       /\ o.w.selected_nodes = Below(ToSet(o.w.selected_dirty_roots))
<1> DEFINE o == SelectScope(w, roots)
           c == SelectRoots(w, roots)
           R == {n \in Node : c.w.selected[n] = w.generation}
           S == {n \in Node : w.owner[n] \in R}
<1>1. /\ w \in Workspaces
      /\ \A n \in Node : w.affected[n] <= w.generation
                         /\ (w.affected[n] = w.generation <=> n \in Under(DirtySet))
      /\ \A n \in Under(DirtySet) : w.owner[n] \in Topmost(DirtySet) /\ w.owner[n] \in Above[n]
      /\ ToSet(w.dirty_roots) = Topmost(DirtySet)
      /\ ToSet(w.affected_nodes) = Under(DirtySet) /\ Ascending(w.affected_nodes, rank)
  BY DEF Claims
<1>2. /\ o \in Selections /\ o.valid = c.valid
      /\ o.w.generation = w.generation /\ o.w.affected = w.affected
      /\ o.w.selected = c.w.selected
      /\ o.valid => /\ o.w.selected_dirty_roots = Filter(w.dirty_roots, R)
                    /\ o.w.selected_nodes = Filter(w.affected_nodes, S)
  <2>1. w \in Workspaces /\ \A n \in Node : w.selected[n] < w.generation BY <1>1
  <2> QED BY <2>1, SelectScopeType, Zenon
<1>3. /\ \A n \in Node : c.w.selected[n] <= w.generation
      /\ c.valid => \A n \in Node : c.w.selected[n] = w.generation =>
                      w.affected[n] = w.generation /\ w.owner[n] = n
  <2>1. Selecting(c, w) BY <1>1, SelectRootsExact, Zenon
  <2> HIDE DEF c
  <2> QED BY <2>1, Zenon DEF Selecting
<1> HIDE DEF c
<1>4. \A n \in Node : o.w.affected[n] <= w.generation /\ o.w.selected[n] <= w.generation
  <2> HIDE DEF o
  <2> QED BY <1>1, <1>2, <1>3, Zenon
<1>5. ASSUME o.valid
      PROVE  /\ ToSet(o.w.selected_dirty_roots) \subseteq Topmost(DirtySet)
             /\ o.w.selected_nodes = Below(ToSet(o.w.selected_dirty_roots))
  <2>1. w.dirty_roots \in Seq(Node) /\ w.affected_nodes \in Seq(Node)
    BY <1>1 DEF Workspaces
  <2>2. ASSUME NEW n \in R PROVE n \in Topmost(DirtySet)
    <3>1. n \in Node /\ w.affected[n] = w.generation /\ w.owner[n] = n
      BY <1>2, <1>3, <1>5
    <3>2. n \in Under(DirtySet) BY <1>1, <3>1
    <3> QED BY <1>1, <3>1, <3>2
  <2> HIDE DEF R
  <2>3. ToSet(Filter(w.dirty_roots, R)) = R
    <3>1. \A x : x \in ToSet(Filter(w.dirty_roots, R)) <=> x \in ToSet(w.dirty_roots) /\ x \in R
      BY <2>1, Filtered
    <3> QED BY <1>1, <2>2, <3>1
  <2>4. ASSUME NEW n \in Under(DirtySet) PROVE n \in S <=> n \in Under(R)
    <3>1. n \in Node BY DEF Under
    <3>2. w.owner[n] \in Topmost(DirtySet) /\ w.owner[n] \in Above[n] BY <1>1
    <3>3. ASSUME n \in Under(R) PROVE w.owner[n] \in R
      <4>1. PICK r \in R : r \in Above[n] BY <3>3 DEF Under
      <4>2. r \in Topmost(DirtySet) BY <2>2
      <4>3. r = w.owner[n] BY <3>1, <3>2, <4>1, <4>2, TopmostAbove DEF DirtySet
      <4> QED BY <4>3
    <3> QED BY <3>1, <3>2, <3>3 DEF Under
  <2>5. Under(R) \subseteq Under(DirtySet)
    BY <2>2 DEF Under, Topmost
  <2> HIDE DEF S
  <2>6. ToSet(Filter(w.affected_nodes, S)) = Under(R)
    <3>1. \A x : x \in ToSet(Filter(w.affected_nodes, S)) <=> x \in ToSet(w.affected_nodes) /\ x \in S
      BY <2>1, Filtered
    <3> QED BY <1>1, <2>4, <2>5, <3>1
  <2>7. Ascending(Filter(w.affected_nodes, S), rank) /\ Filter(w.affected_nodes, S) \in Seq(Node)
    <3>1. rank \in [Node -> Int] BY OrderFacts
    <3> QED BY <1>1, <2>1, <3>1, FilterAscending, Filtered
  <2>8. Filter(w.affected_nodes, S) = Below(R) BY <2>6, <2>7, BelowUnique
  <2> HIDE DEF o
  <2> QED BY <1>2, <1>5, <2>2, <2>3, <2>8
<1> QED BY <1>2, <1>4, <1>5

-----------------------------------------------------------------------------
(* The invariant                                                           *)

PlanRecords == [workspace : Workspace, partial : BOOLEAN, length : Nat,
                source_revision : Nat, mutation_generation : Nat,
                evaluation_generation : Nat, workspace_generation : Nat, fresh : BOOLEAN]

StateInv ==
  /\ order \in Orders /\ dirty \in [Node -> BOOLEAN] /\ world_revision \in [Node -> Nat]
  /\ m_revision \in Nat /\ m_mutation_generation \in Nat /\ m_evaluation_generation \in Nat

(* Every dirty node is in the frontier, and between evaluations nothing    *)
(* else is.                                                                *)
FrontierInv ==
  /\ m_dirty_nodes \in Seq(Node) /\ DirtySet \subseteq ToSet(m_dirty_nodes)
  /\ \A i, j \in 1 .. Len(m_dirty_nodes) : m_dirty_nodes[i] = m_dirty_nodes[j] => i = j
  /\ Idle => ToSet(m_dirty_nodes) = DirtySet

WorkspaceInv ==
  /\ ws = [k \in Workspace |-> ws[k]]
  /\ \A k \in Workspace : Stamped(ws[k])

(* An evaluation has its nodes to visit in topological order; a sequential *)
(* one has stamped and cleaned the others.                                 *)
RunInv ==
  /\ run.mode \in {"none", "sequential", "parallel"}
  /\ run.ordered \in Seq(Node) /\ run.todo \in Seq(Node)
  /\ run = [mode |-> run.mode, ordered |-> run.ordered, todo |-> run.todo]
  /\ Idle => run = NoRun
  /\ Ascending(run.todo, rank) /\ ToSet(run.todo) \subseteq ToSet(run.ordered)
  /\ run.mode = "sequential" => \A n \in ToSet(run.ordered) \ ToSet(run.todo) :
                                  world_revision[n] = m_revision /\ ~dirty[n]

(* A plan that would be accepted holds what PlanExact says.                *)
Exact(plan) ==
  /\ IF plan.partial THEN ToSet(dirty_roots(plan)) \subseteq TopmostDirty
                     ELSE ToSet(dirty_roots(plan)) = TopmostDirty
  /\ ordered_nodes(plan) = Below(ToSet(dirty_roots(plan)))

PlanInv(plan) ==
  /\ plan \in PlanRecords
  /\ plan.source_revision <= m_revision /\ plan.mutation_generation <= m_mutation_generation
  /\ plan.evaluation_generation <= m_evaluation_generation
  /\ plan.fresh <=> Current(plan)
  /\ plan.fresh => Idle /\ Exact(plan)

PlansInv ==
  /\ plans = [p \in PlanSlot |-> plans[p]]
  /\ \A p \in PlanSlot : plans[p] = NoPlan \/ PlanInv(plans[p])

PlanningInv == StateInv /\ FrontierInv /\ WorkspaceInv /\ RunInv /\ PlansInv

(* A sequence made of a set lists it.                                      *)
LEMMA SetListed ==
  ASSUME order \in Orders, NEW S, S \subseteq Node, NEW q \in SetToSeqs(S)
  PROVE  /\ q \in Seq(Node) /\ ToSet(q) = S
         /\ \A i, j \in 1 .. Len(q) : q[i] = q[j] => i = j
<1> DEFINE c == Cardinality(S)
<1>1. IsFiniteSet(S) /\ c \in Nat
  <2>1. IsFiniteSet(Node) BY NodeCount
  <2> QED BY <2>1, FS_Subset, FS_CardinalityType
<1>2. /\ q \in [1 .. c -> S]
      /\ \A i, j \in 1 .. c : i # j => q[i] # q[j]
  BY DEF SetToSeqs
<1>3. q \in Seq(Node) /\ Len(q) = c
  <2> HIDE DEF c
  <2>1. q \in [1 .. c -> Node] BY <1>2
  <2> QED BY <1>1, <2>1
<1>4. q \in Injection(1 .. c, S)
  <2> HIDE DEF c
  <2> QED BY <1>2 DEF Injection, IsInjective
<1>5. Cardinality(1 .. c) = c
  <2> HIDE DEF c
  <2>1. 1 \in Int /\ c \in Int /\ c >= 0 BY <1>1
  <2>2. Cardinality(1 .. c) = IF 1 > c THEN 0 ELSE c - 1 + 1
    BY <2>1, FS_Interval
  <2> QED BY <2>1, <2>2
<1>6. q \in Surjection(1 .. c, S)
  <2>1. Cardinality(1 .. c) = Cardinality(S) BY <1>5
  <2> HIDE DEF c
  <2> QED BY <1>1, <1>4, <2>1, FS_Injection
<1>7. ToSet(q) = S
  <2> HIDE DEF c
  <2>1. DOMAIN q = 1 .. c /\ \A t \in S : \E i \in 1 .. c : q[i] = t
    BY <1>6 DEF Surjection
  <2>2. \A i \in 1 .. c : q[i] \in S BY <1>2
  <2> QED BY <2>1, <2>2 DEF ToSet
<1> HIDE DEF c
<1> QED BY <1>2, <1>3, <1>7

(* A newly frozen scene has no plans, no stamps and no evaluation.         *)
LEMMA PlanningInit == Init => PlanningInv
<1> SUFFICES ASSUME Init PROVE PlanningInv OBVIOUS
<1>1. PICK s \in FrozenScenes :
        /\ dirty = [n \in Node |-> n \in s.dirty]
        /\ \E q \in SetToSeqs(s.dirty) : m_dirty_nodes = q
  BY DEF Init
<1>2. order \in Orders BY DEF Init
<1>3. s.dirty \subseteq Node BY FrozenAssumption
<1>4. DirtySet = s.dirty
  <2>1. ASSUME NEW n \in Node PROVE dirty[n] <=> n \in s.dirty BY <1>1, Zenon
  <2> QED BY <1>3, <2>1, Zenon DEF DirtySet
<1>5. StateInv
  BY <1>1, <1>2 DEF Init, StateInv
<1>6. FrontierInv
  BY <1>1, <1>2, <1>3, <1>4, SetListed DEF FrontierInv
<1>7. WorkspaceInv
  <2> DEFINE w0 == [generation |-> 0, affected |-> Unstamped, selected |-> Unstamped,
                    owner |-> [n \in Node |-> NoNode], dirty_roots |-> <<>>,
                    affected_nodes |-> <<>>, selected_dirty_roots |-> <<>>, selected_nodes |-> <<>>]
  <2>1. ws = [k \in Workspace |-> w0] BY DEF Init
  <2>2. w0 \in Workspaces
    <3>1. Unstamped \in [Node -> Nat] BY DEF Unstamped
    <3>2. <<>> \in Seq(Node) OBVIOUS
    <3> QED BY <3>1, <3>2 DEF Workspaces
  <2>3. Stamped(w0) BY <2>2, ModulusAssumption DEF Stamped, Unstamped
  <2> HIDE DEF w0
  <2> QED BY <2>1, <2>3 DEF WorkspaceInv
<1>8. RunInv
  <2>1. run = NoRun BY DEF Init
  <2> QED BY <2>1 DEF RunInv, NoRun, ToSet, Ascending, Idle
<1>9. PlansInv BY DEF Init, PlansInv
<1> QED BY <1>5, <1>6, <1>7, <1>8, <1>9 DEF PlanningInv

-----------------------------------------------------------------------------
(* Edits and evaluations outdate every plan                                *)

(* Once a revision or generation has moved on no earlier plan is current.  *)
LEMMA Outdated ==
  ASSUME StateInv, PlansInv, plans' = Outdate(PlanSlot),
         m_revision' \in Nat, m_mutation_generation' \in Nat, m_evaluation_generation' \in Nat,
         m_revision <= m_revision', m_mutation_generation <= m_mutation_generation',
         m_evaluation_generation <= m_evaluation_generation',
         m_revision < m_revision' \/ m_evaluation_generation < m_evaluation_generation'
  PROVE  PlansInv'
<1>1. plans' = [p \in PlanSlot |-> plans'[p]] BY DEF Outdate
<1>2. ASSUME NEW p \in PlanSlot PROVE (plans[p] = NoPlan \/ PlanInv(plans[p]))'
  <2>1. CASE plans[p] = NoPlan
    <3>1. plans'[p] = NoPlan BY <2>1 DEF Outdate
    <3> QED BY <3>1
  <2>2. CASE plans[p] # NoPlan
    <3> DEFINE v == plans[p]
               u == plans'[p]
    <3>1. u = [v EXCEPT !.fresh = FALSE] BY <2>2 DEF Outdate
    <3>2. /\ v \in PlanRecords
          /\ v.source_revision <= m_revision /\ v.mutation_generation <= m_mutation_generation
          /\ v.evaluation_generation <= m_evaluation_generation
      BY <2>2 DEF PlansInv, PlanInv
    <3> HIDE DEF u, v
    <3>3. /\ v.source_revision \in Nat /\ v.mutation_generation \in Nat
          /\ v.evaluation_generation \in Nat
      BY <3>2 DEF PlanRecords
    <3>4. /\ u \in PlanRecords /\ u.fresh = FALSE
          /\ u.source_revision = v.source_revision
          /\ u.mutation_generation = v.mutation_generation
          /\ u.evaluation_generation = v.evaluation_generation
      BY <3>1, <3>2 DEF PlanRecords
    <3>5. /\ u.source_revision <= m_revision' /\ u.mutation_generation <= m_mutation_generation'
          /\ u.evaluation_generation <= m_evaluation_generation'
          /\ ~ (u.source_revision = m_revision' /\ u.evaluation_generation = m_evaluation_generation')
      BY <3>2, <3>3, <3>4 DEF StateInv
    <3> QED BY <3>4, <3>5 DEF PlanInv, Current, u
  <2> QED BY <2>1, <2>2
<1> QED BY <1>1, <1>2 DEF PlansInv

(* An edit or a dirty mark.                                                *)
LEMMA EditKeeps ==
  ASSUME PlanningInv, UNCHANGED order, NEW n \in Node, TouchNode(n)
  PROVE  PlanningInv'
<1> USE DEF PlanningInv
<1>0. /\ order \in Orders /\ dirty \in [Node -> BOOLEAN] /\ world_revision \in [Node -> Nat]
      /\ m_revision \in Nat /\ m_mutation_generation \in Nat /\ m_evaluation_generation \in Nat
  BY DEF StateInv
<1>1. /\ Idle /\ m_dirty_nodes' = PushDirty(n) /\ m_revision' = m_revision + 1
      /\ m_mutation_generation' = m_mutation_generation + 1
      /\ dirty' = [dirty EXCEPT ![n] = TRUE] /\ plans' = Outdate(PlanSlot)
      /\ UNCHANGED <<order, world, world_revision, m_evaluation_generation, ws, run>>
  BY DEF TouchNode, observerVars, NextRevision
<1>2. StateInv'
  BY <1>0, <1>1 DEF StateInv
<1>3. DirtySet' = DirtySet \union {n}
  <2>1. ASSUME NEW m \in Node PROVE dirty'[m] <=> dirty[m] \/ m = n
    BY <1>0, <1>1
  <2> QED BY <2>1, Zenon DEF DirtySet
<1>4. FrontierInv'
  <2>1. /\ m_dirty_nodes \in Seq(Node) /\ ToSet(m_dirty_nodes) = DirtySet
        /\ \A i, j \in 1 .. Len(m_dirty_nodes) : m_dirty_nodes[i] = m_dirty_nodes[j] => i = j
    BY <1>1 DEF FrontierInv
  <2>2. n \in DirtySet <=> dirty[n] BY Zenon DEF DirtySet
  <2>3. CASE dirty[n]
    <3>1. m_dirty_nodes' = m_dirty_nodes BY <1>1, <2>3 DEF PushDirty
    <3>2. DirtySet' = DirtySet BY <1>3, <2>2, <2>3
    <3> QED BY <2>1, <3>1, <3>2, Zenon DEF FrontierInv
  <2>4. CASE ~dirty[n]
    <3> DEFINE q == m_dirty_nodes
               u == m_dirty_nodes'
    <3>1. u = Append(q, n) BY <1>1, <2>4 DEF PushDirty
    <3>2. q \in Seq(Node) /\ n \notin ToSet(q) BY <2>1, <2>2, <2>4
    <3>3. u \in Seq(Node) /\ ToSet(u) = ToSet(q) \union {n}
      <4> HIDE DEF q, u
      <4> QED BY <3>1, <3>2, Appended
    <3>4. ASSUME NEW i \in 1 .. Len(u), NEW j \in 1 .. Len(u), u[i] = u[j] PROVE i = j
      <4>1. /\ Len(u) = Len(q) + 1 /\ Len(q) \in Nat /\ u[Len(q) + 1] = n
            /\ \A k \in 1 .. Len(q) : u[k] = q[k]
        <5> HIDE DEF q, u
        <5> QED BY <3>1, <3>2
      <4>2. \A k \in 1 .. Len(q) : q[k] \in ToSet(q)
        <5> HIDE DEF q
        <5> QED BY <3>2 DEF ToSet
      <4>3. \A a, b \in 1 .. Len(q) : q[a] = q[b] => a = b BY <2>1
      <4> HIDE DEF q, u
      <4>4. CASE i \in 1 .. Len(q) /\ j \in 1 .. Len(q) BY <3>4, <4>1, <4>3, <4>4
      <4>5. CASE i = Len(q) + 1 /\ j \in 1 .. Len(q) BY <3>2, <3>4, <4>1, <4>2, <4>5
      <4>6. CASE i \in 1 .. Len(q) /\ j = Len(q) + 1 BY <3>2, <3>4, <4>1, <4>2, <4>6
      <4>7. CASE i = Len(q) + 1 /\ j = Len(q) + 1 BY <4>7
      <4> QED BY <4>1, <4>4, <4>5, <4>6, <4>7
    <3>5. ToSet(u) = DirtySet' BY <1>3, <2>1, <3>3
    <3> QED BY <3>3, <3>4, <3>5, Zenon DEF FrontierInv
  <2> QED BY <2>3, <2>4
<1>5. WorkspaceInv' BY <1>1 DEF WorkspaceInv
<1>6. RunInv'
  <2>1. run = NoRun /\ run' = run BY <1>1 DEF RunInv
  <2> QED BY <2>1 DEF RunInv, NoRun, ToSet, Ascending, Idle
<1>7. PlansInv' BY <1>0, <1>1, Outdated
<1> QED BY <1>2, <1>4, <1>5, <1>6, <1>7

-----------------------------------------------------------------------------
(* Making plans                                                            *)

(* A span as long as its vector is the vector.                             *)
LEMMA SpanAll ==
  ASSUME NEW q \in Seq(Node), NEW plan, plan.length = Len(q)
  PROVE  Span(q, plan) = q
<1>1. Len(q) \in Nat OBVIOUS
<1>2. Min({plan.length, Len(q)}) = Len(q) BY <1>1 DEF Min
<1>3. SubSeq(q, 1, Len(q)) = q BY SubSeqFull
<1> QED BY <1>2, <1>3 DEF Span

(* Workspace k is prepared anew and becomes w; nothing else moves.         *)
Reusing(k, w) ==
  /\ Stamped(w) /\ w.generation # ws[k].generation
  /\ Idle /\ ws' = [ws EXCEPT ![k] = w]
  /\ UNCHANGED <<order, stateVars, m_evaluation_generation, run, observerVars>>

(* The plans a reused workspace made are outdated, the others stay exact.  *)
LEMMA ReuseKeeps ==
  ASSUME PlanningInv, NEW k \in Workspace, NEW w, Reusing(k, w),
         NEW p \in PlanSlot, plans'[p] = AfterReuse(k, w)[p]
  PROVE  (plans[p] = NoPlan \/ PlanInv(plans[p]))'
<1> DEFINE v == plans[p]
<1>0. /\ UNCHANGED <<order, dirty, m_revision, m_mutation_generation, m_evaluation_generation, run>>
      /\ Idle /\ Idle' /\ ws = [j \in Workspace |-> ws[j]] /\ w \in Workspaces
      /\ ws' = [ws EXCEPT ![k] = w] /\ w.generation # ws[k].generation
  BY DEF Reusing, stateVars, Idle, PlanningInv, WorkspaceInv, Stamped
<1>1. /\ ws'[k] = w /\ \A j \in Workspace : j # k => ws'[j] = ws[j]
  <2>1. DOMAIN ws = Workspace BY <1>0
  <2> QED BY <1>0, <2>1
<1>2. CASE v = NoPlan
  <2>1. plans'[p] = NoPlan BY <1>2 DEF AfterReuse
  <2> QED BY <2>1
<1>3. CASE v # NoPlan /\ v.workspace # k
  <2>1. plans'[p] = plans[p] BY <1>3 DEF AfterReuse
  <2>2. PlanInv(v) BY <1>3 DEF PlanningInv, PlansInv
  <2>3. v.workspace \in Workspace /\ v \in PlanRecords BY <2>2 DEF PlanInv, PlanRecords
  <2>4. ws'[v.workspace] = ws[v.workspace] BY <1>1, <1>3, <2>3
  <2>5. Current(plans[p])' = Current(plans[p]) BY <1>0, <2>1, <2>4 DEF Current
  <2>6. /\ dirty_roots(plans[p])' = dirty_roots(plans[p])
        /\ ordered_nodes(plans[p])' = ordered_nodes(plans[p])
    BY <2>1, <2>4 DEF dirty_roots, ordered_nodes
  <2>7. TopmostDirty' = TopmostDirty BY <1>0 DEF TopmostDirty, DirtySet
  <2>8. Below(ToSet(dirty_roots(plans[p])))' = Below(ToSet(dirty_roots(plans[p])))
    BY <1>0, <2>6 DEF Below
  <2>9. Exact(plans[p])' = Exact(plans[p])
    BY <2>1, <2>6, <2>7, <2>8 DEF Exact
  <2> QED BY <1>0, <2>1, <2>2, <2>5, <2>9 DEF PlanInv
<1>4. CASE v # NoPlan /\ v.workspace = k /\ v.workspace_generation = w.generation
  <2>1. plans'[p] = NoPlan BY <1>4 DEF AfterReuse
  <2> QED BY <2>1
<1>5. CASE v # NoPlan /\ v.workspace = k /\ v.workspace_generation # w.generation
  <2> DEFINE u == plans'[p]
  <2>1. u = [v EXCEPT !.fresh = FALSE] BY <1>5 DEF AfterReuse
  <2>2. PlanInv(v) BY <1>5 DEF PlanningInv, PlansInv
  <2>3. /\ v \in PlanRecords
        /\ v.source_revision <= m_revision /\ v.mutation_generation <= m_mutation_generation
        /\ v.evaluation_generation <= m_evaluation_generation
    BY <2>2 DEF PlanInv
  <2> HIDE DEF u, v
  <2>4. /\ u \in PlanRecords /\ u.fresh = FALSE /\ u.workspace = v.workspace
        /\ u.source_revision = v.source_revision
        /\ u.mutation_generation = v.mutation_generation
        /\ u.evaluation_generation = v.evaluation_generation
        /\ u.workspace_generation = v.workspace_generation
    BY <2>1, <2>3 DEF PlanRecords
  <2>5. ws'[u.workspace].generation # u.workspace_generation BY <1>1, <1>5, <2>4
  <2> QED BY <1>0, <2>3, <2>4, <2>5 DEF PlanInv, Current, u
<1> QED BY <1>2, <1>3, <1>4, <1>5

(* A new plan is current and exact when its workspace holds the roots and  *)
(* what is below them.                                                     *)
LEMMA NewPlanExact ==
  ASSUME PlanningInv, NEW k \in Workspace, NEW w, Reusing(k, w), NEW partial \in BOOLEAN,
         ~partial => /\ ToSet(w.dirty_roots) = Topmost(DirtySet)
                     /\ w.affected_nodes = Below(ToSet(w.dirty_roots)),
         partial => /\ ToSet(w.selected_dirty_roots) \subseteq Topmost(DirtySet)
                    /\ w.selected_nodes = Below(ToSet(w.selected_dirty_roots)),
         NEW p \in PlanSlot, plans'[p] = PlanOf(k, w, partial)
  PROVE  PlanInv(plans[p])'
<1> DEFINE u == plans'[p]
           nodes == IF partial THEN w.selected_nodes ELSE w.affected_nodes
           roots == IF partial THEN w.selected_dirty_roots ELSE w.dirty_roots
<1>0. /\ UNCHANGED <<order, dirty, m_revision, m_mutation_generation, m_evaluation_generation, run>>
      /\ Idle /\ Idle' /\ ws = [j \in Workspace |-> ws[j]] /\ w \in Workspaces
      /\ ws' = [ws EXCEPT ![k] = w]
  BY DEF Reusing, stateVars, Idle, PlanningInv, WorkspaceInv, Stamped
<1>1. ws'[k] = w BY <1>0
<1>2. m_revision \in Nat /\ m_mutation_generation \in Nat /\ m_evaluation_generation \in Nat
  BY DEF PlanningInv, StateInv
<1>3. nodes \in Seq(Node) /\ w.generation \in Nat BY <1>0 DEF Workspaces
<1>4. /\ u.workspace = k /\ u.partial = partial /\ u.length = Len(nodes)
      /\ u.source_revision = m_revision /\ u.mutation_generation = m_mutation_generation
      /\ u.evaluation_generation = m_evaluation_generation
      /\ u.workspace_generation = w.generation /\ u.fresh = TRUE
  BY DEF PlanOf
<1>5. u \in PlanRecords
  <2>1. Len(nodes) \in Nat BY <1>3
  <2> QED BY <1>2, <1>3, <2>1 DEF PlanOf, PlanRecords
<1>6. Current(plans[p])' BY <1>0, <1>1, <1>4 DEF Current
<1>7. dirty_roots(plans[p])' = roots BY <1>1, <1>4 DEF dirty_roots
<1>8. ordered_nodes(plans[p])' = nodes
  <2>1. ordered_nodes(plans[p])' = Span(nodes, u)
    BY <1>1, <1>4 DEF ordered_nodes, Span
  <2> HIDE DEF nodes, u
  <2>2. Span(nodes, u) = nodes BY <1>3, <1>4, SpanAll
  <2> QED BY <2>1, <2>2
<1>9. TopmostDirty' = Topmost(DirtySet) BY <1>0 DEF TopmostDirty, DirtySet, Topmost
<1>10. Below(ToSet(dirty_roots(plans[p])))' = Below(ToSet(roots))
  BY <1>0, <1>7 DEF Below
<1>11. Exact(plans[p])'
  BY <1>4, <1>7, <1>8, <1>9, <1>10 DEF Exact
<1> QED BY <1>0, <1>2, <1>4, <1>5, <1>6, <1>11 DEF PlanInv

(* Reusing a workspace keeps everything but the plans.                     *)
LEMMA ReuseRest ==
  ASSUME PlanningInv, NEW k \in Workspace, NEW w, Reusing(k, w)
  PROVE  StateInv' /\ FrontierInv' /\ WorkspaceInv' /\ RunInv'
<1>0. /\ UNCHANGED <<order, dirty, world_revision, m_dirty_nodes, m_revision,
                     m_mutation_generation, m_evaluation_generation, run>>
      /\ ws = [j \in Workspace |-> ws[j]] /\ ws' = [ws EXCEPT ![k] = w] /\ Stamped(w)
  BY DEF Reusing, stateVars, PlanningInv, WorkspaceInv
<1>1. StateInv' BY <1>0 DEF PlanningInv, StateInv
<1>2. FrontierInv'
  <2>1. DirtySet' = DirtySet /\ Idle' = Idle BY <1>0 DEF DirtySet, Idle
  <2> QED BY <1>0, <2>1 DEF PlanningInv, FrontierInv
<1>3. WorkspaceInv'
  <2>1. \A j \in Workspace : Stamped(ws[j]) BY DEF PlanningInv, WorkspaceInv
  <2>2. \A j \in Workspace : ws'[j] = IF j = k THEN w ELSE ws[j] BY <1>0
  <2>3. ws' = [j \in Workspace |-> ws'[j]] BY <1>0
  <2> QED BY <1>0, <2>1, <2>2, <2>3, Zenon DEF WorkspaceInv, Stamped
<1>4. RunInv'
  <2>1. rank' = rank BY <1>0 DEF rank
  <2> QED BY <1>0, <2>1 DEF PlanningInv, RunInv, Idle, Ascending
<1> QED BY <1>1, <1>2, <1>3, <1>4

(* What make_plan starts from.                                             *)
LEMMA PlanningStart ==
  ASSUME PlanningInv, Idle, NEW k \in Workspace, NEW partial \in BOOLEAN
  PROVE  LET w == prepare(ws[k])
             u == Claim(w, partial) IN
         /\ order \in Orders /\ FrontierExact /\ Prepared(w)
         /\ w.generation # ws[k].generation /\ w.generation < GenerationModulus
         /\ u \in Workspaces /\ u.generation = w.generation
         /\ \A n \in Node : u.affected[n] <= u.generation
         /\ \A n \in Node : u.selected[n] < u.generation
         /\ ToSet(u.dirty_roots) = Topmost(DirtySet)
         /\ u.affected_nodes = Below(Topmost(DirtySet))
         /\ partial => Claims(u, w, Under(DirtySet), Topmost(DirtySet))
<1> DEFINE w == prepare(ws[k])
           u == Claim(w, partial)
<1>1. order \in Orders /\ FrontierExact /\ Stamped(ws[k])
  BY DEF PlanningInv, StateInv, FrontierInv, WorkspaceInv, FrontierExact
<1>2. Prepared(w) /\ w.generation # ws[k].generation /\ w.generation < GenerationModulus
  BY <1>1, PrepareExact
<1> HIDE DEF w
<1>3. /\ u \in Workspaces /\ u.generation = w.generation /\ u.selected = w.selected
      /\ \A n \in Node : u.affected[n] <= u.generation
      /\ ToSet(u.dirty_roots) = Topmost(DirtySet)
      /\ u.affected_nodes = Below(Topmost(DirtySet))
      /\ partial => Claims(u, w, Under(DirtySet), Topmost(DirtySet))
  BY <1>1, <1>2, ClaimExact
<1> HIDE DEF u
<1>4. \A n \in Node : u.selected[n] < u.generation BY <1>2, <1>3, Zenon DEF Prepared
<1> QED BY <1>1, <1>2, <1>3, <1>4, Zenon DEF u, w

(* A full plan.                                                            *)
LEMMA MakeFullKeeps ==
  ASSUME PlanningInv, UNCHANGED order, NEW p \in PlanSlot, NEW k \in Workspace,
         make_full_plan(p, k)
  PROVE  PlanningInv'
<1> DEFINE w == Claim(prepare(ws[k]), FALSE)
<1>1. /\ Idle /\ ws' = [ws EXCEPT ![k] = w]
      /\ plans' = [AfterReuse(k, w) EXCEPT ![p] = PlanOf(k, w, FALSE)]
      /\ UNCHANGED <<stateVars, m_evaluation_generation, run, observerVars>>
  BY DEF make_full_plan
<1>2. /\ w \in Workspaces /\ w.generation < GenerationModulus /\ w.generation # ws[k].generation
      /\ \A n \in Node : w.affected[n] <= w.generation
      /\ \A n \in Node : w.selected[n] < w.generation
      /\ ToSet(w.dirty_roots) = Topmost(DirtySet)
      /\ w.affected_nodes = Below(Topmost(DirtySet))
  <2>1. FALSE \in BOOLEAN OBVIOUS
  <2> DEFINE v == prepare(ws[k])
  <2>2. /\ v.generation # ws[k].generation /\ v.generation < GenerationModulus
        /\ w.generation = v.generation
        /\ w \in Workspaces /\ \A n \in Node : w.affected[n] <= w.generation
        /\ \A n \in Node : w.selected[n] < w.generation
        /\ ToSet(w.dirty_roots) = Topmost(DirtySet)
        /\ w.affected_nodes = Below(Topmost(DirtySet))
    BY <1>1, <2>1, PlanningStart, Zenon
  <2> HIDE DEF w, v
  <2> QED BY <2>2, Zenon
<1> HIDE DEF w
<1>3. Stamped(w)
  <2>1. ASSUME NEW n \in Node PROVE w.selected[n] <= w.generation
    <3>1. w.selected[n] < w.generation BY <1>2
    <3>2. w.selected[n] \in Nat /\ w.generation \in Nat BY <1>2 DEF Workspaces
    <3> QED BY <3>1, <3>2
  <2> QED BY <1>2, <2>1, Zenon DEF Stamped
<1>4. Reusing(k, w) BY <1>1, <1>2, <1>3, Zenon DEF Reusing
<1>5. StateInv' /\ FrontierInv' /\ WorkspaceInv' /\ RunInv' BY <1>4, ReuseRest
<1>6. PlansInv'
  <2>1. /\ plans' = [q \in PlanSlot |-> plans'[q]]
        /\ plans'[p] = PlanOf(k, w, FALSE)
        /\ \A q \in PlanSlot : q # p => plans'[q] = AfterReuse(k, w)[q]
    BY <1>1 DEF AfterReuse
  <2>2. ASSUME NEW q \in PlanSlot, q # p PROVE (plans[q] = NoPlan \/ PlanInv(plans[q]))'
    BY <1>4, <2>1, <2>2, ReuseKeeps
  <2>3. PlanInv(plans[p])'
    <3>1. FALSE \in BOOLEAN /\ ToSet(w.dirty_roots) = Topmost(DirtySet)
          /\ w.affected_nodes = Below(ToSet(w.dirty_roots))
      BY <1>2
    <3> QED BY <1>4, <2>1, <3>1, NewPlanExact
  <2> QED BY <2>1, <2>2, <2>3 DEF PlansInv
<1> QED BY <1>5, <1>6 DEF PlanningInv

(* A partial plan, refused or not.                                         *)
LEMMA MakePartialKeeps ==
  ASSUME PlanningInv, UNCHANGED order, NEW p \in PlanSlot, NEW k \in Workspace,
         NEW roots \in RootRequests, make_partial_plan(p, k, roots)
  PROVE  PlanningInv'
<1> DEFINE v == prepare(ws[k])
           u == Claim(v, TRUE)
           o == SelectScope(u, roots)
           w == o.w
           reused == AfterReuse(k, w)
<1>1. /\ Idle /\ ws' = [ws EXCEPT ![k] = w]
      /\ plans' = IF o.valid THEN [reused EXCEPT ![p] = PlanOf(k, w, TRUE)] ELSE reused
      /\ UNCHANGED <<stateVars, m_evaluation_generation, run, observerVars>>
  BY DEF make_partial_plan
<1>2. /\ order \in Orders /\ v.generation < GenerationModulus /\ v.generation # ws[k].generation
      /\ u \in Workspaces /\ u.generation = v.generation
      /\ \A n \in Node : u.selected[n] < u.generation
      /\ Claims(u, v, Under(DirtySet), Topmost(DirtySet))
  <2>1. TRUE \in BOOLEAN OBVIOUS
  <2> QED BY <1>1, <2>1, PlanningStart, Zenon
<1> HIDE DEF u, v
<1>3. /\ o \in Selections /\ o.w.generation = u.generation
      /\ \A n \in Node : o.w.affected[n] <= u.generation /\ o.w.selected[n] <= u.generation
      /\ o.valid => /\ ToSet(o.w.selected_dirty_roots) \subseteq Topmost(DirtySet)
                    /\ o.w.selected_nodes = Below(ToSet(o.w.selected_dirty_roots))
  BY <1>2, SelectScopeExact, Zenon
<1> HIDE DEF o
<1>4. w \in Workspaces /\ o.valid \in BOOLEAN BY <1>3 DEF Selections
<1>5. Stamped(w) /\ w.generation # ws[k].generation
  BY <1>2, <1>3, <1>4, Zenon DEF Stamped
<1>6. Reusing(k, w) BY <1>1, <1>5, Zenon DEF Reusing
<1> HIDE DEF w
<1>7. StateInv' /\ FrontierInv' /\ WorkspaceInv' /\ RunInv' BY <1>6, ReuseRest
<1>8. PlansInv'
  <2>1. CASE ~o.valid
    <3>1. plans' = AfterReuse(k, w) BY <1>1, <2>1
    <3>2. plans' = [q \in PlanSlot |-> plans'[q]] BY <3>1 DEF AfterReuse
    <3>3. ASSUME NEW q \in PlanSlot PROVE (plans[q] = NoPlan \/ PlanInv(plans[q]))'
      BY <1>6, <3>1, ReuseKeeps
    <3> QED BY <3>2, <3>3 DEF PlansInv
  <2>2. CASE o.valid
    <3>1. plans' = [AfterReuse(k, w) EXCEPT ![p] = PlanOf(k, w, TRUE)] BY <1>1, <2>2
    <3>2. /\ plans' = [q \in PlanSlot |-> plans'[q]]
          /\ plans'[p] = PlanOf(k, w, TRUE)
          /\ \A q \in PlanSlot : q # p => plans'[q] = AfterReuse(k, w)[q]
      BY <3>1 DEF AfterReuse
    <3>3. ASSUME NEW q \in PlanSlot, q # p PROVE (plans[q] = NoPlan \/ PlanInv(plans[q]))'
      BY <1>6, <3>2, <3>3, ReuseKeeps
    <3>4. PlanInv(plans[p])'
      <4>1. /\ TRUE \in BOOLEAN /\ ToSet(w.selected_dirty_roots) \subseteq Topmost(DirtySet)
            /\ w.selected_nodes = Below(ToSet(w.selected_dirty_roots))
        BY <1>3, <2>2 DEF w
      <4> QED BY <1>6, <3>2, <4>1, NewPlanExact
    <3> QED BY <3>2, <3>3, <3>4 DEF PlansInv
  <2> QED BY <1>4, <2>1, <2>2
<1> QED BY <1>7, <1>8 DEF PlanningInv

-----------------------------------------------------------------------------
(* Evaluations                                                             *)

(* An accepted plan lists what is below some topmost dirty nodes.          *)
LEMMA AcceptedPlan ==
  ASSUME PlanningInv, NEW p \in PlanSlot, plans[p] # NoPlan, Current(plans[p])
  PROVE  /\ plans[p].workspace \in Workspace
         /\ \E R \in SUBSET Topmost(DirtySet) :
              /\ ordered_nodes(plans[p]) = Below(R) /\ ToSet(ordered_nodes(plans[p])) = Under(R)
              /\ ordered_nodes(plans[p]) \in Seq(Node) /\ Ascending(ordered_nodes(plans[p]), rank)
<1> DEFINE R == ToSet(dirty_roots(plans[p]))
<1>1. PlanInv(plans[p]) /\ order \in Orders BY DEF PlanningInv, PlansInv, StateInv
<1>2. Exact(plans[p]) /\ plans[p] \in PlanRecords BY <1>1 DEF PlanInv
<1>3. TopmostDirty = Topmost(DirtySet) BY DEF TopmostDirty, Topmost
<1>4. R \subseteq Topmost(DirtySet) /\ ordered_nodes(plans[p]) = Below(R)
  BY <1>2, <1>3 DEF Exact
<1> HIDE DEF R
<1>5. /\ Below(R) \in Seq(Node) /\ ToSet(Below(R)) = Under(R) /\ Ascending(Below(R), rank)
  BY <1>1, BelowIsOrdered
<1> QED BY <1>2, <1>4, <1>5 DEF PlanRecords

(* prepare_dependency_batches stamps with the current generation only.     *)
LEMMA BatchStamps ==
  ASSUME PlanningInv, NEW k \in Workspace, NEW S,
         ws' = [ws EXCEPT ![k].affected = [n \in Node |-> IF n \in S THEN ws[k].generation ELSE @[n]]]
  PROVE  WorkspaceInv'
<1> DEFINE w == ws[k]
           A == [n \in Node |-> IF n \in S THEN w.generation ELSE w.affected[n]]
           u == [w EXCEPT !.affected = A]
<1>1. ws = [j \in Workspace |-> ws[j]] /\ \A j \in Workspace : Stamped(ws[j])
  BY DEF PlanningInv, WorkspaceInv
<1>2. Stamped(w) BY <1>1
<1>3. /\ w \in Workspaces /\ w.generation < GenerationModulus /\ w.generation \in Nat
      /\ w.affected \in [Node -> Nat]
      /\ \A n \in Node : w.affected[n] <= w.generation /\ w.selected[n] <= w.generation
  BY <1>2 DEF Stamped, Workspaces
<1>4. A \in [Node -> Nat] BY <1>3
<1>5. ws' = [ws EXCEPT ![k] = u]
  <2>1. DOMAIN ws = Workspace BY <1>1
  <2> QED BY <2>1
<1>6. ASSUME NEW n \in Node PROVE A[n] <= w.generation
  <2>1. w.affected[n] <= w.generation /\ w.affected[n] \in Nat BY <1>3
  <2> QED BY <1>3, <2>1
<1> HIDE DEF A, w
<1>7. u \in Workspaces /\ u.affected = A /\ u.generation = w.generation /\ u.selected = w.selected
  BY <1>3, <1>4 DEF Workspaces
<1> HIDE DEF u
<1>8. Stamped(u)
  <2>1. \A n \in Node : u.affected[n] <= u.generation /\ u.selected[n] <= u.generation
    BY <1>3, <1>6, <1>7, Zenon
  <2> QED BY <1>3, <1>7, <2>1, Zenon DEF Stamped
<1>9. \A j \in Workspace : ws'[j] = IF j = k THEN u ELSE ws[j] BY <1>1, <1>5
<1>10. ws' = [j \in Workspace |-> ws'[j]] BY <1>1, <1>5
<1> QED BY <1>1, <1>8, <1>9, <1>10, Zenon DEF WorkspaceInv, Stamped

(* An evaluation starts on an accepted plan.                               *)
LEMMA BeginKeeps ==
  ASSUME PlanningInv, UNCHANGED order, NEW p \in PlanSlot, plans[p] # NoPlan,
         NEW mode \in {"sequential", "parallel"}, begin_evaluation(plans[p], mode), WorkspaceInv'
  PROVE  PlanningInv'
<1> DEFINE q == ordered_nodes(plans[p])
<1>1. /\ Idle /\ Current(plans[p])
      /\ m_evaluation_generation' = m_evaluation_generation + 1
      /\ m_revision' = IF q = <<>> THEN m_revision ELSE m_revision + 1
      /\ run' = [mode |-> mode, ordered |-> q, todo |-> q]
      /\ plans' = Outdate(PlanSlot)
      /\ UNCHANGED <<order, dirty, world_revision, m_dirty_nodes, m_mutation_generation>>
  BY DEF begin_evaluation, NextRevision
<1>2. /\ order \in Orders /\ dirty \in [Node -> BOOLEAN] /\ world_revision \in [Node -> Nat]
      /\ m_revision \in Nat /\ m_mutation_generation \in Nat /\ m_evaluation_generation \in Nat
  BY DEF PlanningInv, StateInv
<1>3. q \in Seq(Node) /\ Ascending(q, rank) BY <1>1, AcceptedPlan
<1> HIDE DEF q
<1>4. StateInv' BY <1>1, <1>2 DEF StateInv
<1>5. run'.mode = mode /\ run'.ordered = q /\ run'.todo = q BY <1>1
<1>6. FrontierInv'
  <2>1. ~Idle' BY <1>5 DEF Idle
  <2>2. DirtySet' = DirtySet BY <1>1 DEF DirtySet
  <2> QED BY <1>1, <2>1, <2>2 DEF PlanningInv, FrontierInv
<1>7. RunInv'
  <2>1. ~Idle' BY <1>5 DEF Idle
  <2>2. Ascending(run.todo, rank)'
    <3>1. rank' = rank BY <1>1 DEF rank
    <3> QED BY <1>3, <1>5, <3>1 DEF Ascending
  <2>3. run' = [mode |-> run'.mode, ordered |-> run'.ordered, todo |-> run'.todo]
    BY <1>1, <1>5
  <2>4. ToSet(run'.ordered) \ ToSet(run'.todo) = {} BY <1>5
  <2> QED BY <1>3, <1>5, <2>1, <2>2, <2>3, <2>4 DEF RunInv
<1>8. PlansInv'
  <2>1. /\ m_revision' \in Nat /\ m_revision <= m_revision'
        /\ m_evaluation_generation' \in Nat /\ m_evaluation_generation < m_evaluation_generation'
        /\ m_evaluation_generation <= m_evaluation_generation'
        /\ m_mutation_generation' \in Nat /\ m_mutation_generation <= m_mutation_generation'
    BY <1>1, <1>2
  <2> QED BY <1>1, <2>1, Outdated DEF PlanningInv
<1> QED BY <1>4, <1>6, <1>7, <1>8 DEF PlanningInv

(* Either overload.                                                        *)
LEMMA EvaluateKeeps ==
  ASSUME PlanningInv, UNCHANGED order, Evaluate
  PROVE  PlanningInv'
<1>1. PICK p \in PlanSlot :
        /\ plans[p] # NoPlan
        /\ \/ evaluate_sequential(plans[p])
           \/ \E grain \in Grains : evaluate_parallel(plans[p], grain)
  BY DEF Evaluate
<1>2. CASE evaluate_sequential(plans[p])
  <2>1. begin_evaluation(plans[p], "sequential") /\ UNCHANGED ws
    BY <1>2 DEF evaluate_sequential
  <2>2. WorkspaceInv' BY <2>1 DEF PlanningInv, WorkspaceInv
  <2> QED BY <1>1, <2>1, <2>2, BeginKeeps
<1>3. CASE \E grain \in Grains : evaluate_parallel(plans[p], grain)
  <2>1. PICK grain \in Grains : evaluate_parallel(plans[p], grain) BY <1>3
  <2>2. \E mode \in {"sequential", "parallel"} : begin_evaluation(plans[p], mode)
    BY <2>1 DEF evaluate_parallel
  <2>3. PICK mode \in {"sequential", "parallel"} : begin_evaluation(plans[p], mode) BY <2>2
  <2>4. WorkspaceInv'
    <3>1. plans[p].workspace \in Workspace
      BY <1>1, <2>3, AcceptedPlan DEF begin_evaluation
    <3>2. \/ ws' = ws
          \/ \E S : ws' = [ws EXCEPT ![plans[p].workspace].affected =
               [n \in Node |-> IF n \in S THEN ws[plans[p].workspace].generation ELSE @[n]]]
      BY <2>1 DEF evaluate_parallel
    <3>3. CASE ws' = ws BY <3>3 DEF PlanningInv, WorkspaceInv
    <3>4. CASE ws' # ws BY <3>1, <3>2, <3>4, BatchStamps
    <3> QED BY <3>3, <3>4
  <2> QED BY <1>1, <2>3, <2>4, BeginKeeps
<1> QED BY <1>1, <1>2, <1>3

(* Without its first member an ascending sequence is ascending.            *)
TodoAdvanced(q) ==
  /\ Ascending(Tail(q), rank) /\ ToSet(Tail(q)) = ToSet(q) \ {Head(q)}
  /\ Head(q) \in ToSet(q) /\ \A m \in ToSet(q) : m # Head(q) => rank[Head(q)] < rank[m]

(* The first member comes before all others, and only once.                *)
LEMMA Advanced ==
  ASSUME order \in Orders, NEW q \in Seq(Node), q # <<>>, Ascending(q, rank)
  PROVE  TodoAdvanced(q)
<1>1. rank \in [Node -> Int] BY OrderFacts
<1>2. /\ Len(q) \in Nat /\ Len(q) >= 1 /\ Head(q) = q[1] /\ Len(Tail(q)) = Len(q) - 1
      /\ \A i \in 1 .. Len(q) - 1 : Tail(q)[i] = q[i + 1]
      /\ Tail(q) \in Seq(Node) /\ \A i \in 1 .. Len(q) : q[i] \in Node
  OBVIOUS
<1>3. /\ ToSet(q) = {q[i] : i \in 1 .. Len(q)}
      /\ ToSet(Tail(q)) = {Tail(q)[i] : i \in 1 .. Len(q) - 1}
  <2>1. DOMAIN q = 1 .. Len(q) BY <1>2
  <2>2. DOMAIN Tail(q) = 1 .. Len(Tail(q)) BY <1>2
  <2>3. DOMAIN Tail(q) = 1 .. Len(q) - 1 BY <1>2, <2>2
  <2> DEFINE p == Tail(q)
  <2> HIDE DEF p
  <2>4. ToSet(p) = {p[i] : i \in DOMAIN p} /\ ToSet(q) = {q[i] : i \in DOMAIN q}
    BY Zenon DEF ToSet
  <2> QED BY <2>1, <2>3, <2>4 DEF p
<1>4. ASSUME NEW i \in 1 .. Len(q), NEW j \in 1 .. Len(q), i < j
      PROVE  rank[q[i]] < rank[q[j]] /\ q[i] # q[j]
  <2>1. rank[q[i]] < rank[q[j]] BY <1>4 DEF Ascending
  <2>2. rank[q[i]] \in Int BY <1>1, <1>2
  <2> QED BY <2>1, <2>2
<1>5. ASSUME NEW i \in 1 .. Len(Tail(q)), NEW j \in 1 .. Len(Tail(q)), i < j
      PROVE  rank[Tail(q)[i]] < rank[Tail(q)[j]]
  <2>1. i + 1 \in 1 .. Len(q) /\ j + 1 \in 1 .. Len(q) /\ i + 1 < j + 1
        /\ i \in 1 .. Len(q) - 1 /\ j \in 1 .. Len(q) - 1
    BY <1>2, <1>5
  <2>2. Tail(q)[i] = q[i + 1] /\ Tail(q)[j] = q[j + 1] BY <1>2, <2>1
  <2> QED BY <1>4, <2>1, <2>2
<1>6. ASSUME NEW m \in ToSet(q), m # Head(q)
      PROVE  rank[Head(q)] < rank[m] /\ m \in ToSet(Tail(q))
  <2>1. PICK i \in 1 .. Len(q) : m = q[i] BY <1>3
  <2>2. 1 \in 1 .. Len(q) /\ 1 < i /\ i - 1 \in 1 .. Len(q) - 1 /\ (i - 1) + 1 = i
    BY <1>2, <1>6, <2>1
  <2>3. Tail(q)[i - 1] = q[(i - 1) + 1] BY <1>2, <2>2, Zenon
  <2>4. Tail(q)[i - 1] = m BY <2>1, <2>2, <2>3
  <2>5. m \in ToSet(Tail(q)) BY <1>3, <2>2, <2>4, Zenon
  <2>6. rank[q[1]] < rank[q[i]] BY <1>4, <2>2, Zenon
  <2> QED BY <1>2, <2>1, <2>5, <2>6, Zenon
<1>7. ASSUME NEW m \in ToSet(Tail(q)) PROVE m \in ToSet(q) /\ m # Head(q)
  <2>1. PICK i \in 1 .. Len(q) - 1 : m = Tail(q)[i] BY <1>3
  <2>2. i + 1 \in 1 .. Len(q) /\ 1 \in 1 .. Len(q) /\ 1 < i + 1 /\ m = q[i + 1] BY <1>2, <2>1
  <2> QED BY <1>2, <1>3, <1>4, <2>2
<1>8. Head(q) \in ToSet(q) BY <1>2, <1>3
<1>9. Ascending(Tail(q), rank) BY <1>5, Zenon DEF Ascending
<1> QED BY <1>6, <1>7, <1>8, <1>9, Zenon DEF TodoAdvanced

(* No plan is accepted while an evaluation runs, so none becomes wrong.    *)
LEMMA PlansUnmoved ==
  ASSUME PlanningInv, ~Idle,
         UNCHANGED <<ws, plans, m_revision, m_mutation_generation, m_evaluation_generation>>
  PROVE  PlansInv'
<1>1. ASSUME NEW p \in PlanSlot PROVE (plans[p] = NoPlan \/ PlanInv(plans[p]))'
  <2>1. CASE plans[p] = NoPlan BY <2>1
  <2>2. CASE plans[p] # NoPlan
    <3>1. PlanInv(plans[p]) BY <2>2 DEF PlanningInv, PlansInv
    <3>2. ~plans[p].fresh BY <3>1 DEF PlanInv
    <3>3. Current(plans[p])' = Current(plans[p]) BY DEF Current
    <3> QED BY <3>1, <3>2, <3>3 DEF PlanInv
  <2> QED BY <2>1, <2>2
<1>2. plans' = [p \in PlanSlot |-> plans'[p]] BY DEF PlanningInv, PlansInv
<1> QED BY <1>1, <1>2 DEF PlansInv

(* The sequential overload pushes the next node of its plan.               *)
LEMMA PushKeeps ==
  ASSUME PlanningInv, UNCHANGED order, push
  PROVE  PlanningInv'
<1> DEFINE n == Head(run.todo)
<1>1. /\ run.mode = "sequential" /\ run.todo # <<>>
      /\ world_revision' = [world_revision EXCEPT ![n] = m_revision]
      /\ dirty' = [dirty EXCEPT ![n] = FALSE]
      /\ run' = [run EXCEPT !.todo = Tail(@)]
      /\ UNCHANGED <<order, m_dirty_nodes, m_revision, m_mutation_generation,
                     m_evaluation_generation, ws, plans>>
  BY DEF push
<1>2. /\ order \in Orders /\ dirty \in [Node -> BOOLEAN] /\ world_revision \in [Node -> Nat]
      /\ m_revision \in Nat /\ m_mutation_generation \in Nat /\ m_evaluation_generation \in Nat
  BY DEF PlanningInv, StateInv
<1>3. /\ run.ordered \in Seq(Node) /\ run.todo \in Seq(Node)
      /\ run = [mode |-> run.mode, ordered |-> run.ordered, todo |-> run.todo]
      /\ Ascending(run.todo, rank) /\ ToSet(run.todo) \subseteq ToSet(run.ordered)
      /\ \A m \in ToSet(run.ordered) \ ToSet(run.todo) : world_revision[m] = m_revision /\ ~dirty[m]
  BY <1>1 DEF PlanningInv, RunInv
<1>4. /\ n \in Node /\ run'.mode = "sequential" /\ run'.ordered = run.ordered
      /\ run'.todo = Tail(run.todo) /\ Tail(run.todo) \in Seq(Node)
      /\ run' = [mode |-> run'.mode, ordered |-> run'.ordered, todo |-> run'.todo]
  <2> DEFINE m == run.mode
             o == run.ordered
             q == run.todo
  <2>1. run = [mode |-> m, ordered |-> o, todo |-> q] BY <1>3
  <2>2. run' = [run EXCEPT !.todo = Tail(q)] BY <1>1
  <2>3. q \in Seq(Node) /\ q # <<>> /\ m = "sequential" /\ n = Head(q) BY <1>1, <1>3
  <2> HIDE DEF m, o, q, n
  <2>4. run' = [mode |-> m, ordered |-> o, todo |-> Tail(q)] BY <2>1, <2>2
  <2>5. Tail(q) \in Seq(Node) /\ n \in Node BY <2>3
  <2>6. run'.mode = m /\ run'.ordered = o /\ run'.todo = Tail(q) BY <2>4
  <2> QED BY <2>3, <2>4, <2>5, <2>6 DEF m, o, q
<1>5. TodoAdvanced(run.todo)
  <2> DEFINE q == run.todo
  <2>1. q \in Seq(Node) /\ q # <<>> /\ Ascending(q, rank) BY <1>1, <1>3
  <2> HIDE DEF q
  <2>2. TodoAdvanced(q) BY <1>2, <2>1, Advanced
  <2> QED BY <2>2 DEF q
<1>6. /\ Ascending(Tail(run.todo), rank)
      /\ ToSet(Tail(run.todo)) = ToSet(run.todo) \ {n} /\ n \in ToSet(run.todo)
  BY <1>5 DEF TodoAdvanced
<1> HIDE DEF n
<1>7. StateInv' BY <1>1, <1>2, <1>4 DEF StateInv
<1>8. ~Idle /\ ~Idle' BY <1>1, <1>4 DEF Idle
<1>9. FrontierInv'
  <2>1. \A m \in Node : dirty'[m] => dirty[m] BY <1>1, <1>2
  <2>2. DirtySet' \subseteq DirtySet BY <2>1 DEF DirtySet
  <2> QED BY <1>1, <1>8, <2>2 DEF PlanningInv, FrontierInv
<1>10. RunInv'
  <2>1. rank' = rank BY <1>1 DEF rank
  <2>2. Ascending(run.todo, rank)' BY <1>4, <1>6, <2>1 DEF Ascending
  <2>3. ASSUME NEW m \in ToSet(run'.ordered) \ ToSet(run'.todo)
        PROVE  world_revision'[m] = m_revision' /\ ~dirty'[m]
    <3>1. m \in ToSet(run.ordered) /\ (m = n \/ m \notin ToSet(run.todo)) BY <1>4, <1>6, <2>3
    <3>2. m \in Node BY <1>3, <3>1 DEF ToSet
    <3> QED BY <1>1, <1>2, <1>3, <3>1, <3>2
  <2> QED BY <1>3, <1>4, <1>6, <1>8, <2>2, <2>3 DEF RunInv
<1>11. WorkspaceInv' BY <1>1 DEF PlanningInv, WorkspaceInv
<1>12. PlansInv' BY <1>1, <1>8, PlansUnmoved
<1> QED BY <1>7, <1>9, <1>10, <1>11, <1>12 DEF PlanningInv

(* A thread of the parallel overload visits a node of the lowest level.    *)
LEMMA ExecuteKeeps ==
  ASSUME PlanningInv, UNCHANGED order, NEW n \in Node, execute_task(n)
  PROVE  PlanningInv'
<1>1. /\ run.mode = "parallel" /\ n \in ToSet(run.todo)
      /\ run' = [run EXCEPT !.todo = Filter(@, Node \ {n})]
      /\ UNCHANGED <<order, dirty, world_revision, m_dirty_nodes, m_revision,
                     m_mutation_generation, m_evaluation_generation, ws, plans>>
  BY DEF execute_task
<1>2. /\ order \in Orders /\ run.ordered \in Seq(Node) /\ run.todo \in Seq(Node)
      /\ run = [mode |-> run.mode, ordered |-> run.ordered, todo |-> run.todo]
      /\ Ascending(run.todo, rank) /\ ToSet(run.todo) \subseteq ToSet(run.ordered)
  BY DEF PlanningInv, RunInv, StateInv
<1> DEFINE rest == Filter(run.todo, Node \ {n})
<1>3. rest \in Seq(Node) /\ Ascending(rest, rank) /\ ToSet(rest) \subseteq ToSet(run.todo)
  <2>1. rank \in [Node -> Int] BY <1>2, OrderFacts
  <2>2. rest \in Seq(Node) /\ \A x : x \in ToSet(rest) <=> x \in ToSet(run.todo) /\ x \in Node \ {n}
    BY <1>2, Filtered
  <2>3. Ascending(rest, rank) BY <1>2, <2>1, FilterAscending
  <2> HIDE DEF rest
  <2> QED BY <2>2, <2>3
<1>4. /\ run'.mode = "parallel" /\ run'.ordered = run.ordered /\ run'.todo = rest
      /\ run' = [mode |-> run'.mode, ordered |-> run'.ordered, todo |-> run'.todo]
  <2> DEFINE m == run.mode
             o == run.ordered
             q == run.todo
  <2>1. run = [mode |-> m, ordered |-> o, todo |-> q] BY <1>2
  <2>2. run' = [run EXCEPT !.todo = rest] BY <1>1
  <2>3. m = "parallel" BY <1>1
  <2> HIDE DEF rest, m, o, q
  <2>4. run' = [mode |-> m, ordered |-> o, todo |-> rest] BY <2>1, <2>2
  <2>5. run'.mode = m /\ run'.ordered = o /\ run'.todo = rest BY <2>4
  <2> QED BY <2>3, <2>4, <2>5 DEF m, o, q
<1> HIDE DEF rest
<1>5. StateInv' BY <1>1 DEF PlanningInv, StateInv
<1>6. ~Idle /\ ~Idle' BY <1>1, <1>4 DEF Idle
<1>7. FrontierInv'
  <2>1. DirtySet' = DirtySet BY <1>1 DEF DirtySet
  <2> QED BY <1>1, <1>6, <2>1 DEF PlanningInv, FrontierInv
<1>8. RunInv'
  <2>1. rank' = rank BY <1>1 DEF rank
  <2>2. Ascending(run.todo, rank)' BY <1>3, <1>4, <2>1 DEF Ascending
  <2>3. ToSet(run'.todo) \subseteq ToSet(run'.ordered) BY <1>2, <1>3, <1>4
  <2> QED BY <1>2, <1>3, <1>4, <1>6, <2>2, <2>3 DEF RunInv
<1>9. WorkspaceInv' BY <1>1 DEF PlanningInv, WorkspaceInv
<1>10. PlansInv' BY <1>1, <1>6, PlansUnmoved
<1> QED BY <1>5, <1>7, <1>8, <1>9, <1>10 DEF PlanningInv

(* What is filtered from a sequence without duplicates has none.           *)
LEMMA FilteredOnce ==
  ASSUME NEW X, NEW q \in Seq(X), NEW S, \A i, j \in 1 .. Len(q) : q[i] = q[j] => i = j
  PROVE  \A i, j \in 1 .. Len(Filter(q, S)) : Filter(q, S)[i] = Filter(q, S)[j] => i = j
<1> DEFINE p == Filter(q, S)
<1>1. /\ p \in Seq(X)
      /\ \A i, j \in 1 .. Len(p) : i < j =>
           \E k, l \in 1 .. Len(q) : k < l /\ p[i] = q[k] /\ p[j] = q[l]
  BY Filtered
<1> HIDE DEF p
<1>2. ASSUME NEW i \in 1 .. Len(p), NEW j \in 1 .. Len(p), i < j PROVE p[i] # p[j]
  <2>1. PICK k \in 1 .. Len(q), l \in 1 .. Len(q) : k < l /\ p[i] = q[k] /\ p[j] = q[l]
    BY <1>1, <1>2
  <2> QED BY <2>1
<1>3. ASSUME NEW i \in 1 .. Len(p), NEW j \in 1 .. Len(p), p[i] = p[j] PROVE i = j
  <2>1. i \in Int /\ j \in Int BY <1>1
  <2>2. ~ (i < j) /\ ~ (j < i) BY <1>2, <1>3
  <2> QED BY <2>1, <2>2
<1> QED BY <1>3 DEF p

(* The commit and the compaction of the frontier.                          *)
LEMMA FinishKeeps ==
  ASSUME PlanningInv, UNCHANGED order, finish_evaluation
  PROVE  PlanningInv'
<1> DEFINE committed == IF run.mode = "parallel" THEN ToSet(run.ordered) ELSE {}
<1>1. /\ ~Idle /\ run' = NoRun
      /\ world_revision' = [n \in Node |-> IF n \in committed THEN m_revision ELSE world_revision[n]]
      /\ dirty' = [n \in Node |-> dirty[n] /\ n \notin committed]
      /\ m_dirty_nodes' = Filter(m_dirty_nodes, {n \in Node : dirty'[n]})
      /\ UNCHANGED <<order, m_revision, m_mutation_generation, m_evaluation_generation, ws, plans>>
  BY DEF finish_evaluation
<1> HIDE DEF committed
<1>2. /\ order \in Orders /\ dirty \in [Node -> BOOLEAN] /\ world_revision \in [Node -> Nat]
      /\ m_revision \in Nat /\ m_mutation_generation \in Nat /\ m_evaluation_generation \in Nat
  BY DEF PlanningInv, StateInv
<1>3. StateInv'
  <2>1. dirty' \in [Node -> BOOLEAN] BY <1>1, <1>2
  <2>2. world_revision' \in [Node -> Nat] BY <1>1, <1>2
  <2> QED BY <1>1, <1>2, <2>1, <2>2 DEF StateInv
<1>4. FrontierInv'
  <2> DEFINE q == m_dirty_nodes
             S == DirtySet'
  <2>1. /\ q \in Seq(Node) /\ DirtySet \subseteq ToSet(q)
        /\ \A i, j \in 1 .. Len(q) : q[i] = q[j] => i = j
    BY DEF PlanningInv, FrontierInv
  <2>2. S \subseteq DirtySet
    <3>1. \A n \in Node : dirty'[n] => dirty[n] BY <1>1, Zenon
    <3> QED BY <3>1, Zenon DEF DirtySet
  <2>3. m_dirty_nodes' = Filter(q, S)
    <3>1. S = {n \in Node : dirty'[n]} BY Zenon DEF DirtySet
    <3> QED BY <1>1, <3>1, Zenon
  <2> HIDE DEF q, S
  <2>4. Filter(q, S) \in Seq(Node) /\ \A x : x \in ToSet(Filter(q, S)) <=> x \in ToSet(q) /\ x \in S
    BY <2>1, Filtered
  <2>5. ToSet(Filter(q, S)) = S BY <2>1, <2>2, <2>4
  <2>6. \A i, j \in 1 .. Len(Filter(q, S)) : Filter(q, S)[i] = Filter(q, S)[j] => i = j
    BY <2>1, FilteredOnce
  <2>7. S = DirtySet' BY DEF S
  <2> QED BY <2>3, <2>4, <2>5, <2>6, <2>7, Zenon DEF FrontierInv
<1>5. RunInv'
  BY <1>1 DEF RunInv, NoRun, ToSet, Ascending, Idle
<1>6. WorkspaceInv' BY <1>1 DEF PlanningInv, WorkspaceInv
<1>7. PlansInv' BY <1>1, PlansUnmoved
<1> QED BY <1>3, <1>4, <1>5, <1>6, <1>7 DEF PlanningInv

(* Steps that leave the records, workspaces, plans and evaluation alone.   *)
LEMMA ObserveKeeps ==
  ASSUME PlanningInv, UNCHANGED <<order, stateVars, m_evaluation_generation, ws, plans, run>>
  PROVE  PlanningInv'
<1>1. UNCHANGED <<order, dirty, world_revision, m_dirty_nodes, m_revision,
                  m_mutation_generation, m_evaluation_generation, ws, plans, run>>
  BY DEF stateVars
<1>2. StateInv' BY <1>1 DEF PlanningInv, StateInv
<1>3. DirtySet' = DirtySet /\ Idle' = Idle BY <1>1 DEF DirtySet, Idle
<1>4. FrontierInv' BY <1>1, <1>3 DEF PlanningInv, FrontierInv
<1>5. WorkspaceInv' BY <1>1 DEF PlanningInv, WorkspaceInv
<1>6. RunInv'
  <2>1. rank' = rank BY <1>1 DEF rank
  <2>2. Ascending(run.todo, rank)' BY <1>1, <2>1 DEF PlanningInv, RunInv, Ascending
  <2> QED BY <1>1, <1>3, <2>2 DEF PlanningInv, RunInv, NoRun
<1>7. PlansInv'
  <2>1. TopmostDirty' = TopmostDirty BY <1>1 DEF TopmostDirty, DirtySet
  <2>2. ASSUME NEW p \in PlanSlot PROVE (plans[p] = NoPlan \/ PlanInv(plans[p]))'
    <3>1. Current(plans[p])' = Current(plans[p]) BY <1>1 DEF Current
    <3>2. /\ dirty_roots(plans[p])' = dirty_roots(plans[p])
          /\ ordered_nodes(plans[p])' = ordered_nodes(plans[p])
      BY <1>1 DEF dirty_roots, ordered_nodes
    <3>3. Below(ToSet(dirty_roots(plans[p])))' = Below(ToSet(dirty_roots(plans[p])))
      BY <1>1, <3>2 DEF Below
    <3>4. Exact(plans[p])' = Exact(plans[p]) BY <1>1, <2>1, <3>2, <3>3 DEF Exact
    <3>5. plans[p] = NoPlan \/ PlanInv(plans[p]) BY DEF PlanningInv, PlansInv
    <3> QED BY <1>1, <1>3, <3>1, <3>4, <3>5 DEF PlanInv
  <2> QED BY <1>1, <2>2 DEF PlanningInv, PlansInv
<1> QED BY <1>2, <1>4, <1>5, <1>6, <1>7 DEF PlanningInv

-----------------------------------------------------------------------------
(* Plans are exact, and stale ones are refused                             *)

(* Every step keeps the invariant.                                         *)
LEMMA PlanningStep == PlanningInv /\ [Next]_vars => PlanningInv'
<1> SUFFICES ASSUME PlanningInv, [Next]_vars PROVE PlanningInv' OBVIOUS
<1>1. CASE UNCHANGED vars
  <2>1. UNCHANGED <<order, stateVars, m_evaluation_generation, ws, plans, run>>
    BY <1>1 DEF vars
  <2> QED BY <2>1, ObserveKeeps
<1>2. ASSUME Next PROVE PlanningInv'
  <2>1. UNCHANGED order BY <1>2 DEF Next
  <2>2. CASE Edit
    <3>1. PICK n \in Node : TouchNode(n) BY <2>2 DEF Edit, mark_dirty, set_local
    <3> QED BY <2>1, <3>1, EditKeeps
  <2>3. CASE MakePlan
    <3>1. PICK p \in PlanSlot, k \in Workspace :
            make_full_plan(p, k) \/ \E roots \in RootRequests : make_partial_plan(p, k, roots)
      BY <2>3 DEF MakePlan
    <3>2. CASE make_full_plan(p, k) BY <2>1, <3>2, MakeFullKeeps
    <3>3. CASE \E roots \in RootRequests : make_partial_plan(p, k, roots)
      <4>1. PICK roots \in RootRequests : make_partial_plan(p, k, roots) BY <3>3
      <4> QED BY <2>1, <4>1, MakePartialKeeps
    <3> QED BY <3>1, <3>2, <3>3
  <2>4. CASE Evaluate BY <2>1, <2>4, EvaluateKeeps
  <2>5. CASE push BY <2>1, <2>5, PushKeeps
  <2>6. CASE \E n \in Node : execute_task(n) BY <2>1, <2>6, ExecuteKeeps
  <2>7. CASE finish_evaluation BY <2>1, <2>7, FinishKeeps
  <2>8. CASE Synchronize
    <3>1. UNCHANGED <<order, stateVars, m_evaluation_generation, ws, plans, run>>
      BY <2>1, <2>8 DEF Synchronize
    <3> QED BY <3>1, ObserveKeeps
  <2> QED BY <1>2, <2>2, <2>3, <2>4, <2>5, <2>6, <2>7, <2>8 DEF Next
<1> QED BY <1>1, <1>2

(* The inductive invariant of edits, plans and evaluations.                *)
THEOREM PlanningInvariant == Spec => []PlanningInv
BY PlanningInit, PlanningStep, PTL DEF Spec

(* A plan evaluate_transforms would accept holds exactly the affected      *)
(* nodes, parents first, however it was built and reused (make_plan).      *)
THEOREM PlansAreExact == Spec => []PlanExact
<1>1. PlanningInv => PlanExact
  <2> SUFFICES ASSUME PlanningInv, NEW p \in PlanSlot, plans[p] # NoPlan, Current(plans[p])
               PROVE  LET roots == ToSet(dirty_roots(plans[p])) IN
                      /\ IF plans[p].partial THEN roots \subseteq TopmostDirty
                                             ELSE roots = TopmostDirty
                      /\ ordered_nodes(plans[p]) = Below(roots)
    BY Zenon DEF PlanExact
  <2>1. Exact(plans[p]) BY DEF PlanningInv, PlansInv, PlanInv
  <2> QED BY <2>1 DEF Exact
<1> QED BY <1>1, PlanningInvariant, PTL

(* The stale-plan check of evaluate_transforms refuses a plan exactly when *)
(* an edit, a mark, an evaluation or a reuse of its workspace came after.  *)
THEOREM StalePlansRefused == Spec => []AcceptedIffFresh
<1>1. PlanningInv => AcceptedIffFresh
  BY DEF PlanningInv, PlansInv, PlanInv, AcceptedIffFresh
<1> QED BY <1>1, PlanningInvariant, PTL

-----------------------------------------------------------------------------
(* Evaluation by plans implements SceneTransforms                          *)

(* A newly frozen scene is one of SceneTransforms.                         *)
LEMMA SceneInit == Init => Scene!Init
<1> SUFFICES ASSUME Init PROVE Scene!Init OBVIOUS
<1>1. PICK s \in FrozenScenes :
        local = s.local /\ world = s.world /\ dirty = [n \in Node |-> n \in s.dirty]
  BY DEF Init
<1>2. DirtySet = s.dirty
  <2>1. ASSUME NEW n \in Node PROVE dirty[n] <=> n \in s.dirty BY <1>1, Zenon
  <2>2. s.dirty \subseteq Node BY FrozenAssumption
  <2> QED BY <2>1, <2>2, Zenon DEF DirtySet
<1>3. /\ world_revision = [n \in Node |-> 0] /\ m_revision = 0
      /\ observed = world /\ synced = 0 /\ run = NoRun
  BY DEF Init
<1>4. ToSet(run.ordered) = {} /\ ToSet(run.todo) = {} /\ run.ordered = <<>>
  BY <1>3 DEF NoRun, ToSet
<1> QED BY <1>1, <1>2, <1>3, <1>4, Zenon DEF Scene!Init

(* Between evaluations none is in progress.                                *)
LEMMA SceneIdle ==
  ASSUME PlanningInv, Idle
  PROVE  run = NoRun /\ ToSet(run.ordered) = {} /\ ToSet(run.todo) = {} /\ run.ordered = <<>>
<1>1. run = NoRun BY DEF PlanningInv, RunInv
<1> QED BY <1>1 DEF NoRun, ToSet

(* An edit is an edit of SceneTransforms.                                  *)
LEMMA SceneEdit ==
  ASSUME PlanningInv, UNCHANGED order, Edit
  PROVE  Scene!Next
<1>1. PICK n \in Node : mark_dirty(n) \/ \E value \in Locals : set_local(n, value)
  BY DEF Edit
<1>2. TouchNode(n) BY <1>1 DEF mark_dirty, set_local
<1>3. /\ Idle /\ m_revision < MaxRevision /\ m_revision' = m_revision + 1
      /\ dirty' = [dirty EXCEPT ![n] = TRUE]
      /\ UNCHANGED <<world, world_revision, run, observed, synced>>
  BY <1>2 DEF TouchNode, NextRevision, revision_available, observerVars
<1>4. DirtySet' = DirtySet \union {n}
  <2>1. dirty \in [Node -> BOOLEAN] BY DEF PlanningInv, StateInv
  <2>2. ASSUME NEW m \in Node PROVE dirty'[m] <=> dirty[m] \/ m = n BY <1>3, <2>1
  <2> QED BY <2>2, Zenon DEF DirtySet
<1>5. run = NoRun /\ run.ordered = <<>> BY <1>3, SceneIdle
<1>6. UNCHANGED Scene!evalVars /\ UNCHANGED Scene!observerVars
  BY <1>3 DEF Scene!evalVars, Scene!observerVars
<1>7. CASE mark_dirty(n)
  <2>1. UNCHANGED local BY <1>7 DEF mark_dirty
  <2>2. Scene!mark_dirty(n)
    BY <1>3, <1>4, <1>5, <1>6, <2>1 DEF Scene!mark_dirty, Scene!revision_available
  <2> QED BY <2>2, Zenon DEF Scene!Next, Scene!Edit
<1>8. CASE \E value \in Locals : set_local(n, value)
  <2>1. PICK value \in Locals : set_local(n, value) BY <1>8
  <2>2. local' = [local EXCEPT ![n] = value] BY <2>1 DEF set_local
  <2>3. Scene!set_local(n, value)
    BY <1>3, <1>4, <1>5, <1>6, <2>2 DEF Scene!set_local, Scene!revision_available
  <2> QED BY <2>3, Zenon DEF Scene!Next, Scene!Edit
<1> QED BY <1>1, <1>7, <1>8

(* Making a plan changes nothing SceneTransforms knows of.                 *)
LEMMA ScenePlan ==
  ASSUME PlanningInv, UNCHANGED order, MakePlan
  PROVE  UNCHANGED Scene!vars
<1>1. UNCHANGED <<stateVars, run, observerVars>>
  BY DEF MakePlan, make_full_plan, make_partial_plan
<1>2. UNCHANGED <<local, world, dirty, world_revision, m_revision, run, observed, synced>>
  BY <1>1 DEF stateVars, observerVars
<1>3. DirtySet' = DirtySet BY <1>2 DEF DirtySet
<1> QED BY <1>2, <1>3 DEF Scene!vars

(* An accepted plan begins an evaluation of the subtrees it is about; an   *)
(* empty one does nothing.                                                 *)
LEMMA SceneBegin ==
  ASSUME PlanningInv, UNCHANGED order, Evaluate
  PROVE  Scene!Next \/ UNCHANGED Scene!vars
<1>1. PICK p \in PlanSlot :
        /\ plans[p] # NoPlan
        /\ \/ evaluate_sequential(plans[p])
           \/ \E grain \in Grains : evaluate_parallel(plans[p], grain)
  BY DEF Evaluate
<1>2. \E mode \in {"sequential", "parallel"} : begin_evaluation(plans[p], mode)
  BY <1>1 DEF evaluate_sequential, evaluate_parallel
<1>3. PICK mode \in {"sequential", "parallel"} : begin_evaluation(plans[p], mode) BY <1>2
<1> DEFINE q == ordered_nodes(plans[p])
<1>4. /\ Idle /\ Current(plans[p]) /\ (q = <<>> \/ m_revision < MaxRevision)
      /\ m_revision' = IF q = <<>> THEN m_revision ELSE m_revision + 1
      /\ run' = [mode |-> mode, ordered |-> q, todo |-> q]
      /\ UNCHANGED <<local, world, dirty, world_revision, observed, synced>>
  BY <1>3 DEF begin_evaluation, NextRevision, revision_available, observerVars
<1>5. PICK R \in SUBSET Topmost(DirtySet) : ToSet(q) = Under(R)
  BY <1>1, <1>4, AcceptedPlan
<1>6. q \in Seq(Node) BY <1>1, <1>4, AcceptedPlan
<1> HIDE DEF q
<1>7. DirtySet' = DirtySet BY <1>4 DEF DirtySet
<1>8. run.ordered = <<>> /\ ToSet(run.ordered) = {} /\ ToSet(run.todo) = {} BY <1>4, SceneIdle
<1>9. run'.ordered = q /\ run'.todo = q BY <1>4
<1>10. CASE q = <<>>
  <2>1. ToSet(q) = {} BY <1>10 DEF ToSet
  <2>2. ToSet(run'.ordered) = {} /\ ToSet(run'.todo) = {} /\ run'.ordered = <<>>
    BY <1>9, <1>10, <2>1
  <2> QED BY <1>4, <1>7, <1>8, <1>10, <2>2 DEF Scene!vars
<1>11. CASE q # <<>>
  <2>1. ToSet(q) # {}
    <3>1. 1 \in DOMAIN q BY <1>6, <1>11
    <3> QED BY <3>1 DEF ToSet
  <2>2. R # {} BY <1>5, <2>1 DEF Under
  <2>3. R \in SUBSET Scene!DirtyRoots BY DEF Scene!DirtyRoots, Topmost
  <2>4. Scene!Under(R) = Under(R) BY DEF Scene!Under, Under
  <2>5. /\ ToSet(run'.ordered) = Scene!Under(R) /\ ToSet(run'.todo) = Scene!Under(R)
        /\ run'.ordered # <<>>
    BY <1>5, <1>9, <1>11, <2>4
  <2>6. UNCHANGED Scene!observerVars BY <1>4 DEF Scene!observerVars
  <2>7. m_revision < MaxRevision /\ m_revision' = m_revision + 1 BY <1>4, <1>11
  <2>8. Scene!Begin(R)
    BY <1>4, <1>7, <1>8, <2>2, <2>5, <2>6, <2>7, Zenon DEF Scene!Begin, Scene!revision_available
  <2> QED BY <2>3, <2>8, Zenon DEF Scene!Next
<1> QED BY <1>10, <1>11

(* The next node of a sequential evaluation has no pending ancestor.       *)
LEMMA ScenePush ==
  ASSUME PlanningInv, UNCHANGED order, push
  PROVE  Scene!Next
<1> DEFINE n == Head(run.todo)
           q == run.todo
<1>1. /\ run.mode = "sequential" /\ q # <<>>
      /\ world' = [world EXCEPT ![n] = ComposedWorld(n)]
      /\ world_revision' = [world_revision EXCEPT ![n] = m_revision]
      /\ dirty' = [dirty EXCEPT ![n] = FALSE]
      /\ run' = [run EXCEPT !.todo = Tail(q)]
      /\ UNCHANGED <<local, m_revision, observed, synced>>
  BY DEF push, observerVars
<1>2. /\ order \in Orders /\ dirty \in [Node -> BOOLEAN] /\ q \in Seq(Node) /\ Ascending(q, rank)
      /\ run = [mode |-> run.mode, ordered |-> run.ordered, todo |-> q]
  BY DEF PlanningInv, StateInv, RunInv
<1>3. n = Head(q) OBVIOUS
<1>4. run'.ordered = run.ordered /\ run'.todo = Tail(q)
  <2> HIDE DEF q, n
  <2> QED BY <1>1, <1>2
<1> HIDE DEF n, q
<1>5. TodoAdvanced(q) BY <1>1, <1>2, Advanced
<1>6. /\ n \in Node /\ n \in ToSet(q) /\ ToSet(Tail(q)) = ToSet(q) \ {n}
      /\ \A m \in ToSet(q) : m # n => rank[n] < rank[m]
  BY <1>1, <1>2, <1>3, <1>5 DEF TodoAdvanced
<1>7. Above[n] \intersect ToSet(q) = {n}
  <2>1. ASSUME NEW m \in Above[n], m \in ToSet(q), m # n PROVE FALSE
    <3>1. m \in Node /\ rank[m] < rank[n] BY <1>2, <1>6, <2>1, AncestorsFirst
    <3>2. rank[n] < rank[m] BY <1>6, <2>1
    <3>3. rank[n] \in Int /\ rank[m] \in Int
      <4>1. rank \in [Node -> Int] BY <1>2, OrderFacts
      <4> QED BY <1>6, <3>1, <4>1
    <3> QED BY <3>1, <3>2, <3>3
  <2>2. n \in Above[n] BY <1>6, AboveAssumption
  <2> QED BY <1>6, <2>1, <2>2
<1>8. DirtySet' = DirtySet \ {n}
  <2>1. ASSUME NEW m \in Node PROVE dirty'[m] <=> dirty[m] /\ m # n BY <1>1, <1>2
  <2> QED BY <2>1, Zenon DEF DirtySet
<1>9. Scene!Ready(n) BY <1>6, <1>7 DEF Scene!Ready, q
<1>10. ComposedWorld(n) = Scene!ComposedWorld(n) BY DEF ComposedWorld, Scene!ComposedWorld
<1>11. UNCHANGED Scene!observerVars BY <1>1 DEF Scene!observerVars
<1>12. ToSet(run'.todo) = ToSet(run.todo) \ {n} BY <1>4, <1>6 DEF q
<1>13. ToSet(run'.ordered) = ToSet(run.ordered) /\ (run'.ordered # <<>>) = (run.ordered # <<>>)
  BY <1>4
<1>14. Scene!Evaluate(n)
  BY <1>1, <1>8, <1>9, <1>10, <1>11, <1>12, <1>13, Zenon DEF Scene!Evaluate
<1> QED BY <1>6, <1>14, Zenon DEF Scene!Next

(* A node of the lowest unfinished level has no pending ancestor.          *)
LEMMA SceneExecute ==
  ASSUME PlanningInv, UNCHANGED order, NEW n \in Node, execute_task(n)
  PROVE  Scene!Next
<1> DEFINE q == run.todo
           rest == Filter(q, Node \ {n})
<1>1. /\ n \in ToSet(q) /\ \A m \in ToSet(q) : Level(n) <= Level(m)
      /\ world' = [world EXCEPT ![n] = ComposedWorld(n)]
      /\ run' = [run EXCEPT !.todo = rest]
      /\ UNCHANGED <<local, dirty, world_revision, m_revision, observed, synced>>
  BY DEF execute_task, InBatch, observerVars
<1>2. /\ order \in Orders /\ q \in Seq(Node)
      /\ run = [mode |-> run.mode, ordered |-> run.ordered, todo |-> q]
  BY DEF PlanningInv, StateInv, RunInv
<1>3. run'.ordered = run.ordered /\ run'.todo = rest
  <2> HIDE DEF q, rest
  <2> QED BY <1>1, <1>2
<1>4. ToSet(rest) = ToSet(q) \ {n}
  <2> HIDE DEF q
  <2>1. rest \in Seq(Node) /\ \A x : x \in ToSet(rest) <=> x \in ToSet(q) /\ x \in Node \ {n}
    BY <1>2, Filtered
  <2>2. ToSet(q) \subseteq Node BY <1>2 DEF ToSet
  <2> HIDE DEF rest
  <2> QED BY <2>1, <2>2
<1> HIDE DEF q, rest
<1>5. ASSUME NEW m \in Above[n], m \in ToSet(q), m # n PROVE FALSE
  <2>1. m \in Node /\ rank[m] < rank[n] BY <1>2, <1>5, AncestorsFirst
  <2>2. rank[n] \in Int /\ rank[m] \in Int
    <3>1. rank \in [Node -> Int] BY <1>2, OrderFacts
    <3> QED BY <2>1, <3>1
  <2>3. n \notin Above[m]
    <3>1. SUFFICES ASSUME n \in Above[m] PROVE FALSE OBVIOUS
    <3>2. rank[n] < rank[m] BY <1>2, <1>5, <2>1, <3>1, AncestorsFirst
    <3> QED BY <2>1, <2>2, <3>2
  <2>4. Above[m] \subseteq Above[n] /\ n \in Above[n] /\ Above[n] \subseteq Node
    BY <1>5, <2>1, AboveAssumption
  <2>5. IsFiniteSet(Above[n]) BY <1>2, <2>4, NodeCount, FS_Subset
  <2>6. /\ Cardinality(Above[m]) \in Nat /\ Cardinality(Above[n]) \in Nat
        /\ Cardinality(Above[m]) < Cardinality(Above[n])
    <3>1. IsFiniteSet(Above[m]) /\ Cardinality(Above[m]) <= Cardinality(Above[n])
          /\ (Cardinality(Above[m]) = Cardinality(Above[n]) => Above[m] = Above[n])
      BY <2>4, <2>5, FS_Subset
    <3>2. Cardinality(Above[m]) \in Nat /\ Cardinality(Above[n]) \in Nat
      BY <2>5, <3>1, FS_CardinalityType
    <3>3. Above[m] # Above[n] BY <2>3, <2>4
    <3> QED BY <3>1, <3>2, <3>3
  <2>7. Level(n) <= Level(m) BY <1>1, <1>5
  <2> QED BY <2>6, <2>7 DEF Level
<1>6. Above[n] \intersect ToSet(q) = {n}
  <2>1. n \in Above[n] BY AboveAssumption
  <2> QED BY <1>1, <1>5, <2>1
<1>7. DirtySet' = DirtySet BY <1>1 DEF DirtySet
<1>8. Scene!Ready(n) BY <1>1, <1>6 DEF Scene!Ready, q
<1>9. ComposedWorld(n) = Scene!ComposedWorld(n) BY DEF ComposedWorld, Scene!ComposedWorld
<1>10. UNCHANGED Scene!observerVars BY <1>1 DEF Scene!observerVars
<1>11. ToSet(run'.todo) = ToSet(run.todo) \ {n} BY <1>3, <1>4 DEF q
<1>12. ToSet(run'.ordered) = ToSet(run.ordered) /\ (run'.ordered # <<>>) = (run.ordered # <<>>)
  BY <1>3
<1>13. Scene!Evaluate(n)
  BY <1>1, <1>7, <1>8, <1>9, <1>10, <1>11, <1>12, Zenon DEF Scene!Evaluate
<1> QED BY <1>13, Zenon DEF Scene!Next

(* The end of an evaluation leaves its scope stamped and clean.            *)
LEMMA SceneFinish ==
  ASSUME PlanningInv, UNCHANGED order, finish_evaluation
  PROVE  Scene!Next \/ UNCHANGED Scene!vars
<1> DEFINE committed == IF run.mode = "parallel" THEN ToSet(run.ordered) ELSE {}
<1>1. /\ ~Idle /\ run.todo = <<>> /\ run' = NoRun
      /\ world_revision' = [n \in Node |-> IF n \in committed THEN m_revision ELSE world_revision[n]]
      /\ dirty' = [n \in Node |-> dirty[n] /\ n \notin committed]
      /\ UNCHANGED <<local, world, m_revision, observed, synced>>
  BY DEF finish_evaluation, observerVars
<1>2. /\ dirty \in [Node -> BOOLEAN] /\ world_revision \in [Node -> Nat]
      /\ run.mode = "sequential" \/ run.mode = "parallel"
      /\ run.mode = "sequential" => \A n \in ToSet(run.ordered) \ ToSet(run.todo) :
                                      world_revision[n] = m_revision /\ ~dirty[n]
      /\ run.ordered \in Seq(Node)
  BY <1>1 DEF PlanningInv, StateInv, RunInv, Idle
<1>3. ToSet(run.todo) = {} /\ ToSet(<<>>) = {} BY <1>1 DEF ToSet
<1>4. run'.ordered = <<>> /\ run'.todo = <<>> BY <1>1 DEF NoRun
<1>5. ASSUME NEW n \in Node
      PROVE  /\ world_revision'[n] = IF n \in ToSet(run.ordered) THEN m_revision
                                     ELSE world_revision[n]
             /\ dirty'[n] <=> dirty[n] /\ n \notin ToSet(run.ordered)
  <2>1. /\ world_revision'[n] = IF n \in committed THEN m_revision ELSE world_revision[n]
        /\ dirty'[n] <=> dirty[n] /\ n \notin committed
    BY <1>1, Zenon
  <2>2. CASE run.mode = "parallel" BY <2>1, <2>2
  <2>3. CASE run.mode = "sequential"
    <3>1. committed = {} BY <2>3
    <3>2. n \in ToSet(run.ordered) => world_revision[n] = m_revision /\ ~dirty[n]
      BY <1>2, <1>3, <2>3
    <3> QED BY <2>1, <3>1, <3>2
  <2> QED BY <1>2, <2>2, <2>3
<1>6. world_revision' = [n \in Node |-> IF n \in ToSet(run.ordered) THEN m_revision
                                        ELSE world_revision[n]]
  <2>1. world_revision' = [n \in Node |-> world_revision'[n]] BY <1>1, Zenon
  <2> QED BY <1>5, <2>1, Zenon
<1> HIDE DEF committed
<1>7. DirtySet' = DirtySet \ ToSet(run.ordered) BY <1>5, Zenon DEF DirtySet
<1>8. CASE run.ordered = <<>>
  <2>1. ToSet(run.ordered) = {} BY <1>3, <1>8
  <2>2. world_revision' = world_revision
    <3>1. world_revision = [n \in Node |-> world_revision[n]] BY <1>2
    <3> QED BY <1>6, <2>1, <3>1, Zenon
  <2>3. DirtySet' = DirtySet BY <1>7, <2>1
  <2>4. /\ ToSet(run'.ordered) = ToSet(run.ordered) /\ ToSet(run'.todo) = ToSet(run.todo)
        /\ (run'.ordered # <<>>) = (run.ordered # <<>>)
    BY <1>1, <1>4, <1>8
  <2> QED BY <1>1, <2>2, <2>3, <2>4, Zenon DEF Scene!vars
<1>9. CASE run.ordered # <<>>
  <2>1. UNCHANGED Scene!observerVars BY <1>1 DEF Scene!observerVars
  <2>2. /\ ToSet(run'.ordered) = {} /\ ToSet(run'.todo) = ToSet(run.todo)
        /\ (run'.ordered # <<>>) = FALSE
    BY <1>1, <1>3, <1>4
  <2>3. Scene!Finish
    BY <1>1, <1>3, <1>6, <1>7, <1>9, <2>1, <2>2, Zenon DEF Scene!Finish
  <2> QED BY <2>3, Zenon DEF Scene!Next
<1> QED BY <1>8, <1>9

(* The follower takes what SceneTransforms reports.                        *)
LEMMA SceneSynchronize ==
  ASSUME PlanningInv, UNCHANGED order, Synchronize
  PROVE  Scene!Next
<1>1. /\ Idle /\ synced' = m_revision
      /\ observed' = [n \in Node |-> IF n \in ToSet(changed_since(synced))
                                     THEN world[n] ELSE observed[n]]
      /\ UNCHANGED <<local, world, dirty, world_revision, m_revision, run>>
  BY DEF Synchronize, stateVars
<1>2. order \in Orders BY DEF PlanningInv, StateInv
<1>3. ToSet(changed_since(synced)) = Scene!changed_since(synced)
  <2> DEFINE S == {n \in Node : world_revision[n] > synced}
  <2>1. order \in Seq(Node) /\ ToSet(order) = Node BY <1>2, OrderFacts
  <2>2. S \subseteq Node OBVIOUS
  <2> HIDE DEF S
  <2>3. \A x : x \in ToSet(Filter(order, S)) <=> x \in Node /\ x \in S BY <2>1, Filtered
  <2>4. ToSet(Filter(order, S)) = S BY <2>2, <2>3
  <2> QED BY <2>4 DEF changed_since, Scene!changed_since, S
<1>4. DirtySet' = DirtySet BY <1>1 DEF DirtySet
<1>5. run.ordered = <<>> BY <1>1, SceneIdle
<1>6. UNCHANGED Scene!evalVars BY <1>1 DEF Scene!evalVars
<1>7. Scene!Synchronize
  BY <1>1, <1>3, <1>4, <1>5, <1>6, Zenon DEF Scene!Synchronize
<1> QED BY <1>7, Zenon DEF Scene!Next

(* Every step of planned evaluation is a step of SceneTransforms or none.  *)
LEMMA SceneStep == PlanningInv /\ [Next]_vars => [Scene!Next]_(Scene!vars)
<1> SUFFICES ASSUME PlanningInv, [Next]_vars PROVE Scene!Next \/ UNCHANGED Scene!vars
  OBVIOUS
<1>1. CASE UNCHANGED vars
  <2>1. UNCHANGED <<local, world, dirty, world_revision, m_revision, run, observed, synced>>
    BY <1>1 DEF vars, stateVars, observerVars
  <2>2. DirtySet' = DirtySet BY <2>1 DEF DirtySet
  <2> QED BY <2>1, <2>2 DEF Scene!vars
<1>2. ASSUME Next PROVE Scene!Next \/ UNCHANGED Scene!vars
  <2>1. UNCHANGED order BY <1>2 DEF Next
  <2> QED BY <1>2, <2>1, SceneEdit, ScenePlan, SceneBegin, ScenePush, SceneExecute,
             SceneFinish, SceneSynchronize, Zenon DEF Next
<1> QED BY <1>1, <1>2

(* Planned evaluation, sequential or parallel, full or partial, implements *)
(* SceneTransforms: it brings whole affected subtrees up to date, parents  *)
(* first, and leaves the rest alone (evaluate_transforms).                 *)
THEOREM PlansImplementScene == Spec => ImplementsSceneTransforms
<1>1. Spec => Scene!Init /\ [][Scene!Next]_(Scene!vars)
  BY SceneInit, SceneStep, PlanningInvariant, PTL DEF Spec
<1> QED BY <1>1 DEF ImplementsSceneTransforms, Scene!Spec

-----------------------------------------------------------------------------
(* What SceneTransforms promises, with the state of planned evaluation     *)

Scope == ToSet(run.ordered)
Pending == ToSet(run.todo)
Evaluating == run.ordered # <<>>

(* During an evaluation the dirt that matters is the dirt outside its      *)
(* scope and the part of the scope not yet visited; nodes of the scope     *)
(* already visited are coherent although a parallel evaluation still has   *)
(* their flags set.                                                        *)
Stale == (DirtySet \ Scope) \union Pending

IdleInv == ~Evaluating => Scope = {} /\ Pending = {}
(* What is below a pending node is pending.                                *)
ClosedInv == \A n \in Node : Above[n] \intersect Pending # {} => n \in Pending
CoherentInv == \A n \in Node :
  Above[n] \intersect Stale = {} => world[n] = Scene!ComposedWorld(n)
ObserverInv ==
  /\ synced <= m_revision
  /\ Evaluating => synced < m_revision
  /\ \A n \in Node : world[n] # observed[n] =>
       n \in Scene!changed_since(synced) \/ (Evaluating /\ n \in Scope \ Pending)

SceneInv == Scene!TypeOK /\ IdleInv /\ ClosedInv /\ CoherentInv /\ ObserverInv

(* Composing from a typed parent world gives a transform.                  *)
LEMMA ComposedWorldType ==
  ASSUME Scene!TypeOK, NEW n \in Node
  PROVE  Scene!ComposedWorld(n) \in Transform
BY ParentAssumption, TransformAssumption DEF Scene!TypeOK, Scene!ComposedWorld

(* A freshly frozen scene satisfies the invariant.                         *)
LEMMA SceneInitInv == Scene!Init => SceneInv
<1> SUFFICES ASSUME Scene!Init PROVE SceneInv
  OBVIOUS
<1> USE DEF Scope, Pending, Evaluating
<1>1. PICK s \in FrozenScenes : local = s.local /\ world = s.world /\ DirtySet = s.dirty
  BY DEF Scene!Init
<1>2. Scene!TypeOK
  <2>1. Evaluating \in BOOLEAN
    BY DEF Scene!Init
  <2>2. /\ local \in [Node -> Transform] /\ world \in [Node -> Transform]
        /\ DirtySet \in SUBSET Node
    BY <1>1, FrozenAssumption
  <2> QED
    BY <2>1, <2>2, RevisionAssumption DEF Scene!Init, Scene!TypeOK
<1>3. IdleInv /\ ClosedInv
  BY DEF Scene!Init, IdleInv, ClosedInv
<1>4. CoherentInv
  BY <1>1, FrozenAssumption DEF Scene!Init, CoherentInv, Stale, Scene!ComposedWorld
<1>5. ObserverInv
  BY DEF Scene!Init, ObserverInv
<1> QED
  BY <1>2, <1>3, <1>4, <1>5 DEF SceneInv

(* Every edit, evaluation step and synchronisation keeps it.               *)
LEMMA SceneStepInv == SceneInv /\ [Scene!Next]_(Scene!vars) => SceneInv'
<1> SUFFICES ASSUME SceneInv, [Scene!Next]_(Scene!vars) PROVE SceneInv'
  OBVIOUS
<1> USE RevisionAssumption DEF Scope, Pending, Evaluating, SceneInv, Scene!evalVars, Scene!observerVars
<1>1. ASSUME NEW n \in Node, NEW value \in Locals, Scene!set_local(n, value)
      PROVE  SceneInv'
  <2> USE <1>1 DEF Scene!set_local, Scene!revision_available
  <2>1. Scene!TypeOK'
    BY TransformAssumption DEF Scene!TypeOK
  <2>2. IdleInv' /\ ClosedInv'
    BY DEF IdleInv, ClosedInv
  <2>3. Stale = DirtySet /\ Stale' = DirtySet \union {n}
    BY DEF IdleInv, Stale
  <2>4. CoherentInv'
    <3> SUFFICES ASSUME NEW m \in Node, Above[m] \intersect Stale' = {}
                 PROVE  world'[m] = Scene!ComposedWorld(m)'
      BY DEF CoherentInv
    <3>1. m # n /\ world[m] = Scene!ComposedWorld(m)
      BY <2>3, AboveAssumption DEF CoherentInv
    <3> QED
      BY <3>1 DEF Scene!ComposedWorld, Scene!TypeOK
  <2>5. ObserverInv'
    BY DEF ObserverInv, Scene!changed_since, Scene!TypeOK
  <2> QED
    BY <2>1, <2>2, <2>4, <2>5
<1>2. ASSUME NEW roots \in SUBSET Scene!DirtyRoots, Scene!Begin(roots)
      PROVE  SceneInv'
  <2> USE <1>2 DEF Scene!Begin, Scene!revision_available
  <2>1. Scene!TypeOK' /\ IdleInv'
    BY DEF Scene!TypeOK, IdleInv, Scene!Under
  <2>2. ClosedInv'
    BY AboveAssumption DEF ClosedInv, Scene!Under, Scene!DirtyRoots, Scene!TypeOK
  <2>3. Stale \subseteq Stale'
    BY DEF IdleInv, Stale
  <2>4. CoherentInv'
    BY <2>3 DEF CoherentInv, Scene!ComposedWorld
  <2>5. ObserverInv'
    BY DEF ObserverInv, Scene!changed_since, Scene!TypeOK, IdleInv
  <2> QED
    BY <2>1, <2>2, <2>4, <2>5
<1>3. ASSUME NEW n \in Node, Scene!Evaluate(n)
      PROVE  SceneInv'
  <2> USE <1>3 DEF Scene!Evaluate, Scene!Ready
  <2>1. Scene!TypeOK'
    BY ComposedWorldType DEF Scene!TypeOK
  <2>2. IdleInv'
    BY DEF IdleInv
  <2>3. ClosedInv'
    BY DEF ClosedInv
  <2>4. Stale' = Stale \ {n}
    BY DEF Stale, Scene!TypeOK
  <2>5. CoherentInv'
    <3> SUFFICES ASSUME NEW m \in Node, Above[m] \intersect Stale' = {}
                 PROVE  world'[m] = Scene!ComposedWorld(m)'
      BY DEF CoherentInv
    <3>1. CASE m = n
      <4>1. Parent[n] # NoNode => Parent[n] # n
        BY AboveAssumption, ParentAssumption DEF Stale
      <4> QED
        BY <3>1, <4>1, ParentAssumption DEF Scene!ComposedWorld, Scene!TypeOK
    <3>2. CASE m # n
      <4>1. n \notin Above[m]
        BY <3>2, <2>4, AboveAssumption DEF ClosedInv, Stale
      <4>2. world[m] = Scene!ComposedWorld(m)
        BY <4>1, <2>4 DEF CoherentInv
      <4>3. Parent[m] # n
        BY <4>1, AboveAssumption, ParentAssumption
      <4> QED
        BY <3>2, <4>2, <4>3, ParentAssumption DEF Scene!ComposedWorld, Scene!TypeOK
    <3> QED
      BY <3>1, <3>2
  <2>6. ObserverInv'
    <3>1. Evaluating
      BY DEF IdleInv
    <3>2. \A m \in Node \ {n} : world'[m] = world[m] /\ world_revision'[m] = world_revision[m]
      BY DEF Scene!TypeOK
    <3>3. n \in Scope' \ Pending'
      BY DEF Scene!TypeOK
    <3> QED
      BY <3>1, <3>2, <3>3 DEF ObserverInv, Scene!changed_since, Scene!TypeOK
  <2> QED
    BY <2>1, <2>2, <2>3, <2>5, <2>6
<1>4. CASE Scene!Finish
  <2> USE <1>4 DEF Scene!Finish
  <2>1. Scene!TypeOK' /\ IdleInv' /\ ClosedInv'
    BY DEF Scene!TypeOK, IdleInv, ClosedInv
  <2>2. Stale' = Stale
    BY DEF Stale
  <2>3. CoherentInv'
    BY <2>2 DEF CoherentInv, Scene!ComposedWorld
  <2>4. ObserverInv'
    BY DEF ObserverInv, Scene!changed_since, Scene!TypeOK
  <2> QED
    BY <2>1, <2>3, <2>4
<1>5. CASE Scene!Synchronize
  <2> USE <1>5 DEF Scene!Synchronize
  <2>1. Scene!TypeOK' /\ IdleInv' /\ ClosedInv'
    BY DEF Scene!TypeOK, IdleInv, ClosedInv
  <2>2. CoherentInv'
    BY DEF CoherentInv, Scene!ComposedWorld, Stale
  <2>3. \A n \in Node : observed'[n] = world[n]
    BY DEF ObserverInv
  <2>4. ObserverInv'
    BY <2>3 DEF ObserverInv, Scene!TypeOK
  <2> QED
    BY <2>1, <2>2, <2>4
<1>6. CASE UNCHANGED Scene!vars
  BY <1>6 DEF Scene!vars, Scene!TypeOK, IdleInv, ClosedInv, CoherentInv, ObserverInv,
              Stale, Scene!ComposedWorld, Scene!changed_since
<1>7. ASSUME NEW n \in Node, Scene!mark_dirty(n)
      PROVE  SceneInv'
  <2> USE <1>7 DEF Scene!mark_dirty, Scene!revision_available
  <2>1. Scene!TypeOK' /\ IdleInv' /\ ClosedInv'
    BY DEF Scene!TypeOK, IdleInv, ClosedInv
  <2>2. CoherentInv'
    BY DEF IdleInv, CoherentInv, Stale, Scene!ComposedWorld
  <2>3. ObserverInv'
    BY DEF ObserverInv, Scene!changed_since, Scene!TypeOK
  <2> QED
    BY <2>1, <2>2, <2>3
<1> QED
  BY <1>1, <1>2, <1>3, <1>4, <1>5, <1>6, <1>7 DEF Scene!Next, Scene!Edit

(* The invariant holds in every reachable state.                           *)
THEOREM SceneInvariant == Scene!Spec => []SceneInv
BY SceneInitInv, SceneStepInv, PTL DEF Scene!Spec

(* Types of the scene's records, the evaluation and the observer.          *)
THEOREM SceneTypes == Scene!Spec => []Scene!TypeOK
<1>1. SceneInv => Scene!TypeOK
  BY DEF SceneInv
<1> QED
  BY <1>1, SceneInvariant, PTL

(* Whatever edits and full or partial evaluations were made, in whatever   *)
(* order the threads of a parallel evaluation visited the nodes: a world   *)
(* with no dirty node above it is composed from its parent's world.        *)
THEOREM Coherence == Scene!Spec => []Scene!Coherent
<1>1. SceneInv => Scene!Coherent
  BY DEF SceneInv, Scene!Coherent, CoherentInv, IdleInv, Stale, Evaluating, Scene!Affected
<1> QED
  BY <1>1, SceneInvariant, PTL

(* Following the worlds by changed_transform_nodes_since misses no change. *)
THEOREM ObserverMissesNothing == Scene!Spec => []Scene!ObserverComplete
<1>1. SceneInv => Scene!ObserverComplete
  BY DEF SceneInv, Scene!ObserverComplete, ObserverInv, Evaluating
<1> QED
  BY <1>1, SceneInvariant, PTL

(* So the worlds that planned evaluation leaves are right: between         *)
(* evaluations a node with no dirty node above it has the world composed   *)
(* from its parent's (transform_state, evaluate_transforms).               *)
THEOREM PlansCoherent == Spec => []Scene!Coherent
BY PlansImplementScene, Coherence, PTL DEF ImplementsSceneTransforms

(* And who follows the worlds by changed_transform_nodes_since misses no   *)
(* world that a planned evaluation, sequential or parallel, has written.   *)
THEOREM PlansObserved == Spec => []Scene!ObserverComplete
BY PlansImplementScene, ObserverMissesNothing, PTL DEF ImplementsSceneTransforms

(* Records, evaluations and the observer keep their types, and no revision *)
(* exceeds the limit.                                                      *)
THEOREM PlansTyped == Spec => []Scene!TypeOK
BY PlansImplementScene, SceneTypes, PTL DEF ImplementsSceneTransforms
=============================================================================
