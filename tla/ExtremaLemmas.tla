---------------------------- MODULE ExtremaLemmas ----------------------------
(***************************************************************************)
(* Least and greatest elements: that what the queries of the program take  *)
(* with ORDER BY .. LIMIT 1, and the models with CHOOSE, Min and Max, is   *)
(* there and is the one that is meant.                                     *)
(***************************************************************************)
EXTENDS Naturals, FiniteSets, FiniteSetsExt, FiniteSetTheorems, WellFoundedInduction, TLAPS

\* Numbers have a least one, because < is well-founded.
LEMMA LeastExists ==
    ASSUME NEW T \in SUBSET Nat, T # {}
    PROVE  \E x \in T : \A y \in T : x <= y
<1>1. PICK x \in T : \A y \in T : ~(<<y, x>> \in OpToRel(<, Nat))
    BY WFMin, NatLessThanWellFounded
<1>2. \A y \in T : ~(y < x)
    BY <1>1, Zenon DEF OpToRel
<1>3. QED
    BY <1>2

\* Min is the least one.
LEMMA MinIsLeast ==
    ASSUME NEW T \in SUBSET Nat, T # {}
    PROVE  Min(T) \in T /\ \A y \in T : Min(T) <= y
BY LeastExists, Zenon DEF Min

\* Finitely many numbers have a bound.
LEMMA BoundExists ==
    ASSUME NEW T \in SUBSET Nat, IsFiniteSet(T)
    PROVE  \E b \in Nat : \A y \in T : y <= b
<1> DEFINE n == Cardinality(T)
<1>1. n \in Nat /\ ExistsBijection(1 .. n, T)
    BY FS_CardinalityType
<1>2. PICK f \in [1 .. n -> T] : \A y \in T : \E i \in 1 .. n : f[i] = y
    BY <1>1 DEF ExistsBijection, Bijection, Surjection, Injection
<1> DEFINE Bounded(k) == \E b \in Nat : \A i \in 1 .. k : f[i] <= b
           Unbounded == {k \in 0 .. n : ~Bounded(k)}
<1> HIDE DEF n
<1>3. Bounded(0)
    <2>1. \A i \in 1 .. 0 : f[i] <= 0
        OBVIOUS
    <2>2. QED
        BY <2>1
<1>4. ASSUME NEW k \in 1 .. n, Bounded(k - 1) PROVE Bounded(k)
    <2>1. PICK b \in Nat : \A i \in 1 .. k - 1 : f[i] <= b
        BY <1>4
    <2>2. \A i \in 1 .. k : f[i] \in Nat
        <3>1. SUFFICES ASSUME NEW i \in 1 .. k PROVE f[i] \in Nat
            OBVIOUS
        <3>2. i \in 1 .. n
            BY <1>1
        <3>3. QED
            BY <1>2, <3>2
    <2>3. k \in 1 .. k /\ b + f[k] \in Nat
        BY <1>1, <2>2
    <2>4. \A i \in 1 .. k : f[i] <= b + f[k]
        BY <1>1, <2>1, <2>2, <2>3
    <2>5. QED
        BY <2>3, <2>4
<1> HIDE DEF Bounded
<1>5. Unbounded = {}
    <2>1. SUFFICES ASSUME Unbounded # {} PROVE FALSE
        OBVIOUS
    <2>2. PICK k \in Unbounded : \A l \in Unbounded : k <= l
        <3>1. Unbounded \in SUBSET Nat
            BY <1>1
        <3>2. QED
            BY <2>1, <3>1, LeastExists
    <2>3. k \in 1 .. n
        BY <1>1, <1>3, <2>2
    <2>4. k - 1 \in 0 .. n /\ k - 1 \notin Unbounded
        BY <1>1, <2>2, <2>3
    <2>5. QED
        BY <1>4, <2>2, <2>3, <2>4
<1>6. Bounded(n)
    BY <1>1, <1>5
<1>7. PICK b \in Nat : \A i \in 1 .. n : f[i] <= b
    BY <1>6 DEF Bounded
<1>8. QED
    BY <1>2, <1>7

\* So they have a greatest one.
LEMMA GreatestExists ==
    ASSUME NEW T \in SUBSET Nat, IsFiniteSet(T), T # {}
    PROVE  \E x \in T : \A y \in T : y <= x
<1>1. PICK b \in Nat : \A y \in T : y <= b
    BY BoundExists
<1> DEFINE Gap == {d \in Nat : \E y \in T : d + y = b}
<1>2. Gap \in SUBSET Nat /\ Gap # {}
    <2>1. PICK y \in T : TRUE
        OBVIOUS
    <2>2. b - y \in Nat /\ (b - y) + y = b
        BY <1>1
    <2>3. QED
        BY <2>2
<1>3. PICK d \in Gap : \A e \in Gap : d <= e
    BY <1>2, LeastExists
<1>4. PICK x \in T : d + x = b
    BY <1>3
<1>5. \A y \in T : y <= x
    <2>1. SUFFICES ASSUME NEW y \in T PROVE y <= x
        OBVIOUS
    <2>2. b - y \in Gap
        BY <1>1
    <2>3. QED
        BY <1>3, <1>4, <2>2
<1>6. QED
    BY <1>5

\* Max is the greatest one.
LEMMA MaxIsGreatest ==
    ASSUME NEW T \in SUBSET Nat, IsFiniteSet(T), T # {}
    PROVE  Max(T) \in T /\ \A y \in T : y <= Max(T)
<1>1. \E x \in T : \A y \in T : x >= y
    BY GreatestExists
<1>2. Max(T) \in T /\ \A y \in T : Max(T) >= y
    BY <1>1, Zenon DEF Max
<1>3. QED
    BY <1>2

=============================================================================
