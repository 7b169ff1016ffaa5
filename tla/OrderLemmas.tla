----------------------------- MODULE OrderLemmas -----------------------------
(***************************************************************************)
(* Facts about numbers and lists that the proofs of several modules cite.  *)
(***************************************************************************)
EXTENDS Integers, Sequences, FiniteSets, FiniteSetTheorems, WellFoundedInduction, TLAPS

(* Every non-empty set of naturals has a least element.                      *)
THEOREM LeastNatural ==
    ASSUME NEW T \in SUBSET Nat, T # {}
    PROVE  \E x \in T : \A y \in T : x <= y
  <1>1. \E x \in T : \A y \in T : ~(<<y, x>> \in OpToRel(<, Nat))
    BY NatLessThanWellFounded, WFMin
  <1>2. OpToRel(<, Nat) = {ss \in Nat \X Nat : ss[1] < ss[2]}
    BY Zenon DEF OpToRel
  <1>3. PICK x \in T : \A y \in T : ~(<<y, x>> \in {ss \in Nat \X Nat : ss[1] < ss[2]})
    BY <1>1, <1>2, Zenon
  <1>4. ASSUME NEW y \in T PROVE x <= y
    <2>1. <<y, x>> \in Nat \X Nat
      OBVIOUS
    <2>2. ~(<<y, x>>[1] < <<y, x>>[2])
      BY <1>3, <2>1, Zenon
    <2>3. ~(y < x)
      BY <2>2
    <2>4. QED
      BY <2>3
  <1>5. QED
    BY <1>4

(* Every non-empty set of positions of a list has a last one.                *)
THEOREM GreatestNatural ==
    ASSUME NEW n \in Nat, NEW T \in SUBSET (1..n), T # {}
    PROVE  \E x \in T : \A y \in T : y <= x
  <1> DEFINE M == {n - t : t \in T}
  <1>1. M \in SUBSET Nat /\ M # {}
    <2>1. \A t \in T : n - t \in Nat
      OBVIOUS
    <2>2. M \in SUBSET Nat
      BY <2>1
    <2>3. PICK t \in T : TRUE
      OBVIOUS
    <2>4. n - t \in M
      BY <2>3
    <2>5. QED
      BY <2>2, <2>4
  <1>2. PICK m \in M : \A k \in M : m <= k
    BY <1>1, LeastNatural
  <1>3. PICK x \in T : m = n - x
    OBVIOUS
  <1>4. ASSUME NEW y \in T PROVE y <= x
    <2>1. m <= n - y
      BY <1>2
    <2>2. QED
      BY <1>3, <2>1
  <1>5. QED
    BY <1>4

THEOREM IntervalSize ==
    ASSUME NEW n \in Nat
    PROVE  IsFiniteSet(1..n) /\ Cardinality(1..n) = n
  <1>1. IsFiniteSet(1..n) /\ Cardinality(1..n) = IF 1 > n THEN 0 ELSE n - 1 + 1
    BY FS_Interval
  <1>2. QED
    BY <1>1

(* A list or function without repetition on a finite set has as many values  *)
(* there as the set has members.                                             *)
THEOREM DistinctSize ==
    ASSUME NEW O, NEW f, IsFiniteSet(O),
           \A j, k \in O : f[j] = f[k] => j = k
    PROVE  /\ IsFiniteSet({f[k] : k \in O})
           /\ Cardinality({f[k] : k \in O}) = Cardinality(O)
  <1> DEFINE T == {f[k] : k \in O}
             g == [k \in O |-> f[k]]
  <1>1. g \in Bijection(O, T)
    BY DEF Bijection, Injection, IsInjective, Surjection
  <1>2. ExistsBijection(O, T)
    BY <1>1 DEF ExistsBijection
  <1> HIDE DEF T
  <1>3. IsFiniteSet(T) /\ Cardinality(T) = Cardinality(O)
    BY <1>2, FS_Bijection
  <1>4. QED
    BY <1>3 DEF T

(* Appending to a list adds one element to its range.                        *)
THEOREM AppendRange ==
    ASSUME NEW S, NEW s \in Seq(S), NEW x \in S
    PROVE  /\ Append(s, x) \in Seq(S)
           /\ Len(Append(s, x)) = Len(s) + 1
           /\ \A i \in DOMAIN s : i \in DOMAIN Append(s, x) /\ Append(s, x)[i] = s[i]
           /\ Append(s, x)[Len(s) + 1] = x
           /\ \A i \in DOMAIN Append(s, x) : i \in DOMAIN s \/ i = Len(s) + 1
           /\ {Append(s, x)[i] : i \in DOMAIN Append(s, x)}
                 = {s[i] : i \in DOMAIN s} \cup {x}
  <1>1. /\ Append(s, x) \in Seq(S)
        /\ Len(Append(s, x)) = Len(s) + 1
        /\ DOMAIN s = 1..Len(s)
        /\ DOMAIN Append(s, x) = 1..(Len(s) + 1)
        /\ Len(s) \in Nat
    OBVIOUS
  <1>2. \A i \in DOMAIN s : Append(s, x)[i] = s[i]
    OBVIOUS
  <1>3. Append(s, x)[Len(s) + 1] = x
    OBVIOUS
  <1>4. {Append(s, x)[i] : i \in DOMAIN Append(s, x)} = {s[i] : i \in DOMAIN s} \cup {x}
    BY <1>1, <1>2, <1>3
  <1>5. QED
    BY <1>1, <1>2, <1>3, <1>4

(* A function over the positions of a list whose value at a position rests on *)
(* that at an earlier one, where par points, exists: each prefix of it does. *)
THEOREM AncestorsExist ==
    ASSUME NEW n \in Nat, NEW par
    PROVE  \E f : f = [j \in 1..n |->
                         IF par[j] \in 1..(j - 1) THEN {j} \cup f[par[j]] ELSE {j}]
  <1> DEFINE Value(f, j) == IF par[j] \in 1..(j - 1) THEN {j} \cup f[par[j]] ELSE {j}
             Solves(f, k) == f = [j \in 1..k |-> Value(f, j)]
             Bad == {k \in Nat : ~\E f : Solves(f, k)}
  <1>1. SUFFICES ASSUME Bad # {} PROVE FALSE
    OBVIOUS
  <1>2. PICK k \in Bad : \A l \in Bad : k <= l
    <2>1. Bad \in SUBSET Nat
      OBVIOUS
    <2>2. QED
      BY <1>1, <2>1, LeastNatural
  <1>3. k \in Nat /\ \A f : ~Solves(f, k)
    OBVIOUS
  <1>4. k # 0
    <2>1. Solves(<< >>, 0)
      OBVIOUS
    <2>2. QED
      BY <1>3, <2>1
  <1>5. PICK f : Solves(f, k - 1)
    <2>1. k - 1 \in Nat /\ ~(k <= k - 1)
      BY <1>3, <1>4
    <2>2. k - 1 \notin Bad
      BY <1>2, <2>1
    <2>3. QED
      BY <2>1, <2>2
  <1> DEFINE g == [j \in 1..k |-> IF j = k THEN Value(f, k) ELSE f[j]]
  <1>6. \A j \in 1..(k - 1) : f[j] = Value(f, j)
    <2> DEFINE h == [j \in 1..(k - 1) |-> Value(f, j)]
    <2>1. f = h
      BY <1>5, Zenon
    <2>2. \A j \in 1..(k - 1) : h[j] = Value(f, j)
      OBVIOUS
    <2>3. QED
      BY <2>1, <2>2, Zenon
  <1>7. \A j \in 1..k : (j = k => g[j] = Value(f, k)) /\ (j # k => g[j] = f[j])
    OBVIOUS
  <1>8. ASSUME NEW j \in 1..k PROVE g[j] = Value(g, j)
    <2>1. par[j] \in 1..(j - 1) => par[j] \in 1..k /\ par[j] # k
      BY <1>3
    <2>2. par[j] \in 1..(j - 1) => g[par[j]] = f[par[j]]
      BY <1>7, <2>1
    <2>3. Value(g, j) = Value(f, j)
      <3> HIDE DEF g
      <3>1. QED
        BY <2>2
    <2>4. g[j] = Value(f, j)
      <3>1. j # k => j \in 1..(k - 1)
        BY <1>3
      <3> HIDE DEF g, Value
      <3>2. QED
        BY <1>6, <1>7, <3>1
    <2> HIDE DEF g, Value
    <2>5. QED
      BY <2>3, <2>4
  <1>9. Solves(g, k)
    BY <1>8, Zenon
  <1>10. QED
    BY <1>3, <1>9

(* What is computed from a first value in n steps, each from the value before *)
(* it, exists.                                                               *)
Iterates(w, k, X, first, next) ==
    /\ w \in [0..k -> X]
    /\ w[0] = first
    /\ \A d \in 1..k : w[d] = next[d][w[d - 1]]

THEOREM IterationExists ==
    ASSUME NEW n \in Nat, NEW X, NEW first \in X, NEW next \in [1..n -> [X -> X]]
    PROVE  \E w : Iterates(w, n, X, first, next)
  <1> USE DEF Iterates
  <1> DEFINE Solves(w, k) == Iterates(w, k, X, first, next)
             Bad == {k \in 0..n : ~\E w : Solves(w, k)}
  <1>1. SUFFICES ASSUME Bad # {} PROVE FALSE
    <2>1. n \in 0..n
      OBVIOUS
    <2>2. QED
      BY <2>1
  <1>2. PICK k \in Bad : \A l \in Bad : k <= l
    <2>1. Bad \in SUBSET Nat
      OBVIOUS
    <2>2. QED
      BY <1>1, <2>1, LeastNatural
  <1>3. k \in 0..n /\ \A w : ~Solves(w, k)
    OBVIOUS
  <1>4. k # 0
    <2>1. Solves([d \in 0..0 |-> first], 0)
      OBVIOUS
    <2>2. QED
      BY <1>3, <2>1
  <1>5. PICK w : Solves(w, k - 1)
    <2>1. k - 1 \in 0..n /\ ~(k <= k - 1)
      BY <1>3, <1>4
    <2>2. QED
      BY <1>2, <2>1
  <1> DEFINE v == [d \in 0..k |-> IF d = k THEN next[k][w[k - 1]] ELSE w[d]]
  <1>6. k \in 1..n /\ w[k - 1] \in X /\ next[k][w[k - 1]] \in X
    <2>1. k \in 1..n /\ k - 1 \in 0..(k - 1)
      BY <1>3, <1>4
    <2>2. QED
      BY <1>5, <2>1
  <1>7. v \in [0..k -> X]
    <2>1. \A d \in 0..k : d # k => d \in 0..(k - 1)
      BY <1>6
    <2>2. \A d \in 0..k : v[d] \in X
      BY <1>5, <1>6, <2>1
    <2>3. QED
      BY <2>2
  <1>8. \A d \in 1..k : v[d] = next[d][v[d - 1]]
    <2> SUFFICES ASSUME NEW d \in 1..k PROVE v[d] = next[d][v[d - 1]]
      OBVIOUS
    <2>1. v[d - 1] = w[d - 1]
      BY <1>6
    <2>2. CASE d = k
      <3>1. v[k] = next[k][w[k - 1]]
        BY <1>6
      <3> HIDE DEF v
      <3>2. QED
        BY <2>1, <2>2, <3>1
    <2>3. CASE d # k
      <3>1. d \in 1..(k - 1) /\ v[d] = w[d]
        BY <2>3, <1>6
      <3>2. w[d] = next[d][w[d - 1]]
        BY <3>1, <1>5
      <3> HIDE DEF v
      <3>3. QED
        BY <2>1, <3>1, <3>2
    <2>4. QED
      BY <2>2, <2>3
  <1>9. v[0] = first
    BY <1>5, <1>6
  <1>10. Solves(v, k)
    BY <1>7, <1>8, <1>9
  <1>11. QED
    BY <1>3, <1>10
=============================================================================
