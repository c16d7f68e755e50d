------------------------------ MODULE WalkProofs ------------------------------
(***************************************************************************)
(* The recursions of servicemapping-traverse.c settle mappings in the      *)
(* order that Transition assumes, on every finite graph without cycles.    *)
(* Each induction is a smallest counterexample.                            *)
(***************************************************************************)
EXTENDS DependencyWalk, FiniteSetTheorems, WellFoundedInduction, TLAPS

-----------------------------------------------------------------------------
(* The array order of a set. *)

LEMMA Smallest ==
  ASSUME NEW S \in SUBSET Nat, S # {}
  PROVE  \E x \in S : \A y \in S : x <= y
<1>1. PICK R : R = {ss \in Nat \X Nat : ss[1] < ss[2]}
  OBVIOUS
<1>2. IsWellFoundedOn(R, Nat)
  BY NatLessThanWellFounded, <1>1 DEF OpToRel
<1>3. PICK x \in S : \A y \in S : <<y, x>> \notin R
  BY <1>2, WFMin
<1>4. ASSUME NEW y \in S
      PROVE  x <= y
  <2>1. ~(y < x)
    BY <1>1, <1>3
  <2> QED BY <2>1
<1> QED BY <1>4

Increasing(s, n) == \A i, j \in 1 .. n : i < j => s[i] < s[j]

\* Every finite set of numbers can be put in order.
LEMMA OrderExists ==
  ASSUME NEW S \in SUBSET Nat, IsFiniteSet(S)
  PROVE  \E s \in [1 .. Cardinality(S) -> S] : Increasing(s, Cardinality(S))
<1> DEFINE HasOrder(T) == \E s \in [1 .. Cardinality(T) -> T] : Increasing(s, Cardinality(T))
           Sets(n) == {T \in SUBSET Nat : IsFiniteSet(T) /\ Cardinality(T) = n /\ ~HasOrder(T)}
           Wrong == {n \in Nat : Sets(n) # {}}
<1>1. SUFFICES ASSUME Wrong # {} PROVE FALSE
  <2>1. Cardinality(S) \in Nat
    BY FS_CardinalityType
  <2> QED BY <2>1
<1>2. PICK n \in Wrong : \A k \in Wrong : n <= k
  <2>1. Wrong \in SUBSET Nat
    OBVIOUS
  <2> HIDE DEF Wrong
  <2> QED BY <1>1, <2>1, Smallest
<1>3. PICK T : T \in Sets(n)
  BY <1>2
<1>4. T \in SUBSET Nat /\ IsFiniteSet(T) /\ Cardinality(T) = n /\ ~HasOrder(T) /\ n \in Nat
  BY <1>2, <1>3
<1>5. CASE n = 0
  <2>1. PICK s : s = [i \in 1 .. 0 |-> 0]
    OBVIOUS
  <2>2. s \in [1 .. 0 -> T] /\ Increasing(s, 0)
    BY <2>1 DEF Increasing
  <2> QED BY <1>4, <1>5, <2>2
<1>6. CASE n # 0
  <2>1. T # {}
    BY <1>4, <1>6, FS_EmptySet
  <2>2. PICK x \in T : \A y \in T : x <= y
    BY <1>4, <2>1, Smallest
  <2>3. PICK U : U = T \ {x}
    OBVIOUS
  <2>4. IsFiniteSet(U) /\ Cardinality(U) = n - 1 /\ U \in SUBSET Nat /\ n - 1 \in Nat
    BY <1>4, <1>6, <2>3, FS_RemoveElement
  <2>5. HasOrder(U)
    <3>1. n - 1 \notin Wrong
      <4> HIDE DEF Wrong
      <4> QED BY <1>2, <1>4, <2>4
    <3>2. Sets(n - 1) = {}
      BY <2>4, <3>1
    <3> QED BY <2>4, <3>2
  <2>6. PICK s \in [1 .. n - 1 -> U] : Increasing(s, n - 1)
    BY <2>4, <2>5
  <2>7. PICK t : t = [i \in 1 .. n |-> IF i = 1 THEN x ELSE s[i - 1]]
    OBVIOUS
  <2>8. t \in [1 .. n -> T]
    BY <1>4, <2>3, <2>6, <2>7
  <2>9. Increasing(t, n)
    <3> SUFFICES ASSUME NEW i \in 1 .. n, NEW j \in 1 .. n, i < j PROVE t[i] < t[j]
      BY DEF Increasing
    <3>1. j - 1 \in 1 .. n - 1 /\ j # 1 /\ s[j - 1] \in U
      BY <1>4, <2>6
    <3>2. CASE i = 1
      <4>1. t[i] = x /\ t[j] = s[j - 1]
        BY <2>7, <3>1, <3>2
      <4>2. s[j - 1] \in Nat /\ x \in Nat /\ s[j - 1] # x /\ x <= s[j - 1]
        BY <1>4, <2>2, <2>3, <3>1
      <4> QED BY <4>1, <4>2
    <3>3. CASE i # 1
      <4>1. i - 1 \in 1 .. n - 1 /\ i - 1 < j - 1
        BY <1>4, <3>3
      <4> QED BY <2>6, <2>7, <3>1, <3>3, <4>1 DEF Increasing
    <3> QED BY <3>2, <3>3
  <2> QED BY <1>4, <2>8, <2>9
<1> QED BY <1>5, <1>6

LEMMA SortedFacts ==
  ASSUME NEW S \in SUBSET Nat, IsFiniteSet(S)
  PROVE  /\ Sorted(S) \in [1 .. Cardinality(S) -> S] /\ Cardinality(S) \in Nat
         /\ \A x \in S : \E i \in 1 .. Cardinality(S) : Sorted(S)[i] = x
<1>1. PICK n \in Nat : n = Cardinality(S)
  BY FS_CardinalityType
<1>2. PICK s : s = Sorted(S)
  OBVIOUS
<1>3. s \in [1 .. n -> S] /\ Increasing(s, n)
  <2>1. PICK t \in [1 .. n -> S] : Increasing(t, n)
    BY <1>1, OrderExists
  <2>2. \A f \in [1 .. n -> S] : Increasing(f, n) <=> \A i, j \in DOMAIN f : i < j => f[i] < f[j]
    BY DEF Increasing
  <2>3. s = CHOOSE f \in [1 .. n -> S] : \A i, j \in DOMAIN f : i < j => f[i] < f[j]
    BY <1>1, <1>2 DEF Sorted
  <2> QED BY <2>1, <2>2, <2>3
<1>4. s \in Injection(1 .. n, S)
  <2> SUFFICES ASSUME NEW i \in 1 .. n, NEW j \in 1 .. n, s[i] = s[j] PROVE i = j
    BY <1>3 DEF Injection, IsInjective
  <2>1. s[i] \in Nat /\ s[j] \in Nat
    BY <1>3
  <2>2. ~(i < j) /\ ~(j < i)
    BY <1>3, <2>1 DEF Increasing
  <2> QED BY <2>2
<1>5. Cardinality(1 .. n) = n
  BY FS_Interval
<1>6. s \in Surjection(1 .. n, S)
  BY <1>1, <1>4, <1>5, FS_Injection
<1> QED BY <1>1, <1>2, <1>3, <1>6 DEF Surjection

-----------------------------------------------------------------------------
(* Putting walks together. *)

\* Every element of f comes from one of the sequences of q, all of which are in f.
Holds(f, p, o) == \A x \in 1 .. Len(p) : o + x \in 1 .. Len(f) /\ f[o + x] = p[x]

Joins(f, q, n, Node) ==
    /\ f \in Seq(Node)
    /\ \A i \in 1 .. n : \E o \in Nat : Holds(f, q[i], o)
    /\ \A k \in 1 .. Len(f) : \E i \in 1 .. n, o \in Nat : Holds(f, q[i], o) /\ k - o \in 1 .. Len(q[i])

LEMMA JoinsNext ==
  ASSUME NEW Node, NEW n \in Nat, NEW q, \A i \in 1 .. n + 1 : q[i] \in Seq(Node),
         NEW f, Joins(f, q, n, Node), NEW g, g = f \o q[n + 1]
  PROVE  Joins(g, q, n + 1, Node)
<1>1. PICK p \in Seq(Node) : p = q[n + 1] /\ f \in Seq(Node) /\ g = f \o p
  <2>1. n + 1 \in 1 .. n + 1
    OBVIOUS
  <2>2. f \in Seq(Node)
    BY DEF Joins
  <2> QED BY <2>1, <2>2
<1>2. PICK a \in Nat, b \in Nat : a = Len(f) /\ b = Len(p)
  BY <1>1
<1>3. /\ g \in Seq(Node) /\ Len(g) = a + b
      /\ \A k \in 1 .. a : g[k] = f[k]
      /\ \A k \in 1 .. b : g[a + k] = p[k]
  <2>1. \A k \in 1 .. b : a + k \in 1 .. a + b /\ a + k > a /\ (a + k) - a = k
    OBVIOUS
  <2> QED BY <1>1, <1>2, <2>1
<1>4. \A i, o : Holds(f, q[i], o) => Holds(g, q[i], o)
  <2>1. \A k \in 1 .. a : k \in 1 .. a + b
    OBVIOUS
  <2> QED BY <1>2, <1>3, <2>1 DEF Holds
<1>5. Holds(g, q[n + 1], a)
  <2>1. \A k \in 1 .. b : a + k \in 1 .. a + b
    OBVIOUS
  <2> QED BY <1>1, <1>2, <1>3, <2>1 DEF Holds
<1>6. ASSUME NEW i \in 1 .. n + 1
      PROVE  \E o \in Nat : Holds(g, q[i], o)
  <2>1. i \in 1 .. n \/ i = n + 1
    OBVIOUS
  <2> QED BY <1>4, <1>5, <2>1 DEF Joins
<1>7. ASSUME NEW k \in 1 .. Len(g)
      PROVE  \E i \in 1 .. n + 1, o \in Nat : Holds(g, q[i], o) /\ k - o \in 1 .. Len(q[i])
  <2>1. CASE k \in 1 .. a
    <3>1. PICK i \in 1 .. n, o \in Nat : Holds(f, q[i], o) /\ k - o \in 1 .. Len(q[i])
      BY <1>2, <2>1 DEF Joins
    <3>2. i \in 1 .. n + 1
      OBVIOUS
    <3> QED BY <1>4, <3>1, <3>2
  <2>2. CASE k \notin 1 .. a
    <3>1. k - a \in 1 .. b /\ n + 1 \in 1 .. n + 1
      BY <1>3, <2>2
    <3> QED BY <1>1, <1>2, <1>5, <3>1
  <2> QED BY <2>1, <2>2
<1> QED BY <1>3, <1>6, <1>7 DEF Joins

LEMMA FlattenJoins ==
  ASSUME NEW Node, NEW L \in Nat, NEW q, DOMAIN q = 1 .. L, Len(q) = L, \A i \in 1 .. L : q[i] \in Seq(Node)
  PROVE  Joins(FlattenSeq(q), q, L, Node)
<1> DEFINE Is(f, n) == f = [i \in 1 .. n |-> IF i = 1 THEN q[i] ELSE f[i - 1] \o q[i]]
           F == CHOOSE f : Is(f, Len(q))
<1>1. CASE L = 0
  <2>1. FlattenSeq(q) = q
    BY <1>1 DEF FlattenSeq
  <2>2. q \in Seq(Node) /\ Len(q) = 0
    BY <1>1
  <2> QED BY <1>1, <2>1, <2>2 DEF Joins
<1>2. CASE L # 0
  <2>1. FlattenSeq(q) = F[L]
    BY <1>2 DEF FlattenSeq
  <2> DEFINE Without == {n \in Nat \ {0} : n <= L /\ ~\E f : Is(f, n) /\ \A i \in 1 .. n : Joins(f[i], q, i, Node)}
  <2>2. Without = {}
    <3> SUFFICES ASSUME Without # {} PROVE FALSE
      OBVIOUS
    <3>1. PICK n \in Without : \A k \in Without : n <= k
      <4>1. Without \in SUBSET Nat
        OBVIOUS
      <4> HIDE DEF Without
      <4> QED BY <4>1, Smallest
    <3>2. n \in Nat \ {0} /\ n <= L
      BY <3>1
    <3>3. CASE n = 1
      <4>1. PICK f : f = [i \in 1 .. 1 |-> q[i]]
        OBVIOUS
      <4>2. \A i \in 1 .. 1 : i = 1
        OBVIOUS
      <4>3. Is(f, 1)
        BY <4>1, <4>2
      <4>4. f[1] = q[1] /\ q[1] \in Seq(Node)
        BY <3>2, <3>3, <4>1
      <4>5. PICK p \in Seq(Node) : p = q[1]
        BY <4>4
      <4>6. Holds(p, p, 0)
        BY <4>5 DEF Holds
      <4>7. \A k \in 1 .. Len(p) : k - 0 \in 1 .. Len(p)
        BY <4>5
      <4>8. Joins(f[1], q, 1, Node)
        BY <4>2, <4>4, <4>5, <4>6, <4>7 DEF Joins
      <4>9. \A i \in 1 .. 1 : Joins(f[i], q, i, Node)
        BY <4>2, <4>8
      <4>10. 1 \notin Without
        BY <4>3, <4>9
      <4> QED BY <3>1, <3>3, <4>10
    <3>4. CASE n # 1
      <4>1. PICK m \in Nat \ {0} : n = m + 1 /\ m <= L /\ m < n
        BY <3>2, <3>4
      <4>2. m \notin Without
        <5> HIDE DEF Without
        <5> QED BY <3>1, <3>2, <4>1
      <4>3. PICK f : Is(f, m) /\ \A i \in 1 .. m : Joins(f[i], q, i, Node)
        BY <4>1, <4>2
      <4>4. PICK g : g = [i \in 1 .. n |-> IF i = n THEN f[m] \o q[n] ELSE f[i]]
        OBVIOUS
      <4>5. \A i \in 1 .. m : g[i] = f[i] /\ i \in 1 .. n /\ i # n
        BY <3>2, <4>1, <4>4
      <4>6. g[n] = f[m] \o q[n]
        <5>1. n \in 1 .. n
          BY <3>2
        <5> QED BY <4>4, <5>1
      <4>7. \A i \in 1 .. n : g[i] = IF i = 1 THEN q[i] ELSE g[i - 1] \o q[i]
        <5> SUFFICES ASSUME NEW i \in 1 .. n PROVE g[i] = IF i = 1 THEN q[i] ELSE g[i - 1] \o q[i]
          OBVIOUS
        <5>1. CASE i = n
          <6>1. i # 1 /\ i - 1 = m /\ m \in 1 .. m
            BY <3>4, <4>1, <5>1
          <6> QED BY <4>5, <4>6, <5>1, <6>1
        <5>2. CASE i # n
          <6>1. i \in 1 .. m /\ (i # 1 => i - 1 \in 1 .. m)
            BY <4>1, <5>2
          <6>2. f[i] = IF i = 1 THEN q[i] ELSE f[i - 1] \o q[i]
            BY <4>3, <6>1
          <6> QED BY <4>5, <6>1, <6>2
        <5> QED BY <5>1, <5>2
      <4>8. Is(g, n)
        BY <4>4, <4>7
      <4>9. Joins(g[n], q, n, Node)
        <5>1. Joins(f[m], q, m, Node) /\ \A i \in 1 .. m + 1 : q[i] \in Seq(Node)
          BY <3>2, <4>1, <4>3
        <5> QED BY <4>1, <4>6, <5>1, JoinsNext
      <4>10. \A i \in 1 .. n : Joins(g[i], q, i, Node)
        <5>1. \A i \in 1 .. n : i = n \/ i \in 1 .. m
          BY <4>1
        <5> QED BY <4>3, <4>5, <4>9, <5>1
      <4> QED BY <3>1, <4>8, <4>10
    <3> QED BY <3>3, <3>4
  <2>3. PICK f : Is(f, L) /\ \A i \in 1 .. L : Joins(f[i], q, i, Node)
    <3>1. L \in Nat \ {0} /\ L <= L /\ L \notin Without
      <4> HIDE DEF Without
      <4> QED BY <1>2, <2>2
    <3> QED BY <3>1
  <2>4. Is(F, L)
    BY <2>3
  <2>5. F = f
    <3> DEFINE Differ == {i \in 1 .. L : F[i] # f[i]}
    <3>1. DOMAIN F = 1 .. L /\ DOMAIN f = 1 .. L
      BY <2>3, <2>4
    <3>2. SUFFICES ASSUME Differ # {} PROVE FALSE
      <4>1. F = [i \in 1 .. L |-> F[i]] /\ f = [i \in 1 .. L |-> f[i]]
        BY <2>3, <2>4
      <4> HIDE DEF F, Is
      <4> QED BY <4>1
    <3>3. PICK k \in Differ : \A j \in Differ : k <= j
      <4>1. Differ \in SUBSET Nat
        OBVIOUS
      <4> HIDE DEF Differ
      <4> QED BY <3>2, <4>1, Smallest
    <3>4. k \in 1 .. L /\ (k # 1 => k - 1 \in 1 .. L /\ k - 1 \notin Differ)
      <4>1. k \in 1 .. L
        BY <3>3
      <4> HIDE DEF Differ
      <4> QED BY <3>3, <4>1
    <3>5. F[k] = IF k = 1 THEN q[k] ELSE F[k - 1] \o q[k]
      <4> HIDE DEF F
      <4> QED BY <2>4, <3>4
    <3>6. f[k] = IF k = 1 THEN q[k] ELSE f[k - 1] \o q[k]
      BY <2>3, <3>4
    <3> HIDE DEF F, Is
    <3> QED BY <3>3, <3>4, <3>5, <3>6
  <2> HIDE DEF F, Is
  <2> QED BY <1>2, <2>1, <2>3, <2>5
<1> QED BY <1>1, <1>2

-----------------------------------------------------------------------------
(* The recursion. *)

\* In a finite graph without cycles every set has a member that none needs.
LEMMA NobodyNeeds ==
  ASSUME NEW Node, IsFiniteSet(Node), NEW deps \in [Node -> SUBSET Node], Acyclic(deps),
         NEW S \in SUBSET Node, S # {}
  PROVE  \E m \in S : \A x \in S : m \notin deps[x]
<1> DEFINE Needed(T) == \A m \in T : \E x \in T : m \in deps[x]
           Wrong == {T \in SUBSET Node : T # {} /\ Needed(T)}
<1>1. SUFFICES ASSUME Wrong # {} PROVE FALSE
  OBVIOUS
<1>2. IsWellFoundedOn(StrictSubsetOrdering(Node), SUBSET Node)
  BY FS_StrictSubsetOrderingWellFounded, FS_FiniteSubsetsOfFinite
<1>3. PICK T \in Wrong : \A U \in Wrong : <<U, T>> \notin StrictSubsetOrdering(Node)
  <2>1. Wrong \subseteq SUBSET Node
    OBVIOUS
  <2> HIDE DEF Wrong
  <2> QED BY <1>1, <1>2, <2>1, WFMin
<1>4. T \in SUBSET Node /\ T # {} /\ Needed(T)
  BY <1>3
<1>5. PICK m \in T : deps[m] \cap T = {}
  BY <1>4 DEF Acyclic
<1>6. PICK U : U = T \ {m}
  OBVIOUS
<1>7. Needed(U) /\ U # {} /\ U \in SUBSET Node
  BY <1>4, <1>5, <1>6
<1>8. <<U, T>> \in StrictSubsetOrdering(Node)
  BY <1>4, <1>5, <1>6 DEF StrictSubsetOrdering
<1> QED BY <1>3, <1>7, <1>8

\* What a visit of m settles, after what its neighbours settle.
Visit(f, m, neighbours) ==
    LET before == Sorted(neighbours[m])
    IN  Append(FlattenSeq([i \in DOMAIN before |-> f[before[i]]]), m)

\* A visit depends on the walks of the neighbours only.
LEMMA VisitLocal ==
  ASSUME NEW Node \in SUBSET Nat, IsFiniteSet(Node), NEW neighbours \in [Node -> SUBSET Node],
         NEW m \in Node, NEW f, NEW g, \A x \in neighbours[m] : f[x] = g[x]
  PROVE  Visit(f, m, neighbours) = Visit(g, m, neighbours)
<1>1. PICK s : s = Sorted(neighbours[m])
  OBVIOUS
<1>2. IsFiniteSet(neighbours[m]) /\ neighbours[m] \in SUBSET Nat
  BY FS_Subset
<1>3. \A i \in DOMAIN s : s[i] \in neighbours[m]
  BY <1>1, <1>2, SortedFacts
<1>4. [i \in DOMAIN s |-> f[s[i]]] = [i \in DOMAIN s |-> g[s[i]]]
  BY <1>3
<1> QED BY <1>1, <1>4 DEF Visit

\* The recursion ends: the smallest set that is closed under neighbours and has
\* no walks is not empty, and without the node that none needs it has some.
LEMMA WalkUnfolds ==
  ASSUME NEW Node \in SUBSET Nat, IsFiniteSet(Node), NEW neighbours \in [Node -> SUBSET Node],
         Acyclic(neighbours)
  PROVE  /\ Settling(neighbours) = [m \in Node |-> Settling(neighbours)[m]]
         /\ DOMAIN Settling(neighbours) = Node
         /\ \A m \in Node : Settling(neighbours)[m] = Visit(Settling(neighbours), m, neighbours)
<1> DEFINE Is(f, D) == f = [m \in D |-> Visit(f, m, neighbours)]
           ClosedSet(D) == \A m \in D : neighbours[m] \subseteq D
           Wrong == {D \in SUBSET Node : ClosedSet(D) /\ ~\E f : Is(f, D)}
           F == CHOOSE f : Is(f, DOMAIN neighbours)
<1>1. Settling(neighbours) = F
  BY DEF Settling, Visit
<1>2. Wrong = {}
  <2> SUFFICES ASSUME Wrong # {} PROVE FALSE
    OBVIOUS
  <2>1. IsWellFoundedOn(StrictSubsetOrdering(Node), SUBSET Node)
    BY FS_StrictSubsetOrderingWellFounded, FS_FiniteSubsetsOfFinite
  <2>2. PICK D \in Wrong : \A E \in Wrong : <<E, D>> \notin StrictSubsetOrdering(Node)
    <3>1. Wrong \subseteq SUBSET Node
      OBVIOUS
    <3> HIDE DEF Wrong
    <3> QED BY <2>1, <3>1, WFMin
  <2>3. D \in SUBSET Node /\ ClosedSet(D) /\ ~\E f : Is(f, D)
    BY <2>2
  <2>4. CASE D = {}
    <3>1. PICK f : f = [m \in {} |-> {}]
      OBVIOUS
    <3>2. f = [m \in {} |-> Visit(f, m, neighbours)]
      BY <3>1
    <3> QED BY <2>3, <2>4, <3>2
  <2>5. CASE D # {}
    <3>1. PICK n \in D : \A x \in D : n \notin neighbours[x]
      BY <2>3, <2>5, NobodyNeeds
    <3>2. PICK E : E = D \ {n}
      OBVIOUS
    <3>3. E \in SUBSET Node /\ ClosedSet(E)
      BY <2>3, <3>1, <3>2
    <3>4. <<E, D>> \in StrictSubsetOrdering(Node)
      BY <2>3, <3>2 DEF StrictSubsetOrdering
    <3>5. PICK f : Is(f, E)
      BY <2>2, <3>3, <3>4
    <3>6. PICK g : g = [m \in D |-> IF m = n THEN Visit(f, n, neighbours) ELSE f[m]]
      OBVIOUS
    <3>7. \A x \in E : g[x] = f[x]
      BY <3>2, <3>6
    <3>8. ASSUME NEW m \in D
          PROVE  g[m] = Visit(g, m, neighbours)
      <4>1. neighbours[m] \subseteq E /\ m \in Node
        BY <2>3, <3>1, <3>2
      <4>2. \A x \in neighbours[m] : f[x] = g[x]
        BY <3>7, <4>1
      <4>3. Visit(f, m, neighbours) = Visit(g, m, neighbours)
        BY <4>1, <4>2, VisitLocal
      <4>4. g[m] = Visit(f, m, neighbours)
        <5>1. CASE m = n
          BY <3>6, <5>1
        <5>2. CASE m # n
          <6>1. m \in E
            BY <3>2, <5>2
          <6>2. f[m] = Visit(f, m, neighbours)
            BY <3>5, <6>1
          <6> QED BY <3>7, <6>1, <6>2
        <5> QED BY <5>1, <5>2
      <4> QED BY <4>3, <4>4
    <3>9. g = [m \in D |-> Visit(g, m, neighbours)]
      BY <3>6, <3>8
    <3> QED BY <2>3, <3>9
  <2> QED BY <2>4, <2>5
<1>3. \E f : Is(f, DOMAIN neighbours)
  <2>1. Node \in SUBSET Node /\ ClosedSet(Node) /\ DOMAIN neighbours = Node
    OBVIOUS
  <2> QED BY <1>2, <2>1
<1>4. Is(F, DOMAIN neighbours)
  BY <1>3
<1>5. PICK f : f = Settling(neighbours)
  OBVIOUS
<1>6. f = [m \in Node |-> Visit(f, m, neighbours)]
  <2> HIDE DEF F
  <2> QED BY <1>1, <1>4, <1>5
<1>7. f = [m \in Node |-> f[m]] /\ DOMAIN f = Node /\ \A m \in Node : f[m] = Visit(f, m, neighbours)
  <2>1. \A h : f = [m \in Node |-> Visit(h, m, neighbours)] =>
                  /\ f = [m \in Node |-> f[m]] /\ DOMAIN f = Node
                  /\ \A m \in Node : f[m] = Visit(h, m, neighbours)
    OBVIOUS
  <2> QED BY <1>6, <2>1
<1> QED BY <1>5, <1>7


-----------------------------------------------------------------------------
(* The order of a walk. *)

\* It ends with its root, every mapping follows its neighbours, and it stays in
\* every set of mappings that is closed under neighbours.
WalkOK(w, m, neighbours, Node) ==
    /\ w \in Seq(Node) /\ Len(w) \in Nat \ {0} /\ w[Len(w)] = m
    /\ \A k \in 1 .. Len(w) : \A d \in neighbours[w[k]] : \E j \in 1 .. k - 1 : w[j] = d
    /\ \A S \in SUBSET Node :
         (m \in S /\ \A x \in S : neighbours[x] \subseteq S) => \A k \in 1 .. Len(w) : w[k] \in S

LEMMA VisitOK ==
  ASSUME NEW Node \in SUBSET Nat, IsFiniteSet(Node), NEW neighbours \in [Node -> SUBSET Node],
         NEW m \in Node, NEW f, \A x \in neighbours[m] : WalkOK(f[x], x, neighbours, Node)
  PROVE  WalkOK(Visit(f, m, neighbours), m, neighbours, Node)
<1>1. PICK s, L : s = Sorted(neighbours[m]) /\ L = Cardinality(neighbours[m])
  OBVIOUS
<1>2. /\ L \in Nat /\ s \in [1 .. L -> neighbours[m]]
      /\ \A d \in neighbours[m] : \E i \in 1 .. L : s[i] = d
  <2>1. IsFiniteSet(neighbours[m]) /\ neighbours[m] \in SUBSET Nat
    BY FS_Subset
  <2> QED BY <1>1, <2>1, SortedFacts
<1>3. PICK q : q = [i \in DOMAIN s |-> f[s[i]]]
  OBVIOUS
<1>4. /\ DOMAIN q = 1 .. L /\ Len(q) = L
      /\ \A i \in 1 .. L : q[i] = f[s[i]] /\ s[i] \in neighbours[m]
  BY <1>2, <1>3
<1>5. \A i \in 1 .. L : q[i] \in Seq(Node) /\ WalkOK(q[i], s[i], neighbours, Node)
  <2>1. \A i \in 1 .. L : WalkOK(q[i], s[i], neighbours, Node)
    BY <1>4
  <2>2. \A p, x : WalkOK(p, x, neighbours, Node) => p \in Seq(Node)
    BY DEF WalkOK
  <2> QED BY <2>1, <2>2
<1>6. PICK flat : flat = FlattenSeq(q)
  OBVIOUS
<1>7. Joins(flat, q, L, Node)
  BY <1>2, <1>4, <1>5, <1>6, FlattenJoins
<1>8. PICK w, n : w = Visit(f, m, neighbours) /\ n = Len(flat)
  OBVIOUS
<1>9. flat \in Seq(Node) /\ n \in Nat /\ w = Append(flat, m)
  <2>1. flat \in Seq(Node)
    BY <1>7 DEF Joins
  <2>2. w = Append(flat, m)
    BY <1>1, <1>3, <1>6, <1>8 DEF Visit
  <2> QED BY <1>8, <2>1, <2>2
<1>10. /\ w \in Seq(Node) /\ Len(w) = n + 1 /\ w[n + 1] = m
       /\ \A k \in 1 .. n : w[k] = flat[k] /\ k \in 1 .. n + 1
  BY <1>8, <1>9
\* An element comes from the walk of a neighbour, which is in the walk as a whole.
<1>11. ASSUME NEW k \in 1 .. n
       PROVE  \E i \in 1 .. L, o \in Nat :
                /\ k - o \in 1 .. Len(q[i]) /\ w[k] = q[i][k - o]
                /\ \A x \in 1 .. Len(q[i]) : o + x \in 1 .. n /\ w[o + x] = q[i][x]
  <2>1. PICK i \in 1 .. L, o \in Nat : Holds(flat, q[i], o) /\ k - o \in 1 .. Len(q[i])
    BY <1>7, <1>8 DEF Joins
  <2>2. \A x \in 1 .. Len(q[i]) : o + x \in 1 .. n /\ w[o + x] = q[i][x]
    BY <1>8, <1>10, <2>1 DEF Holds
  <2>3. o + (k - o) = k
    OBVIOUS
  <2> QED BY <2>1, <2>2, <2>3
<1>12. ASSUME NEW k \in 1 .. n + 1, NEW d \in neighbours[w[k]]
       PROVE  \E j \in 1 .. k - 1 : w[j] = d
  <2>1. CASE k \in 1 .. n
    <3>1. PICK i \in 1 .. L, o \in Nat :
            /\ k - o \in 1 .. Len(q[i]) /\ w[k] = q[i][k - o]
            /\ \A x \in 1 .. Len(q[i]) : o + x \in 1 .. n /\ w[o + x] = q[i][x]
      BY <1>11, <2>1
    <3>2. PICK j \in 1 .. (k - o) - 1 : q[i][j] = d
      <4>1. PICK p, x, y : p = q[i] /\ x = s[i] /\ y = k - o
        OBVIOUS
      <4>2. WalkOK(p, x, neighbours, Node) /\ y \in 1 .. Len(p) /\ d \in neighbours[p[y]]
        BY <1>5, <1>12, <3>1, <4>1
      <4>3. \E j \in 1 .. y - 1 : p[j] = d
        BY <4>2 DEF WalkOK
      <4> QED BY <4>1, <4>3
    <3>3. Len(q[i]) \in Nat
      BY <1>5
    <3>4. j \in 1 .. Len(q[i]) /\ o + j \in 1 .. k - 1
      <4>1. PICK len \in Nat : len = Len(q[i])
        BY <3>3
      <4>2. k - o \in 1 .. len /\ k \in Nat
        BY <2>1, <3>1, <4>1
      <4> QED BY <3>2, <4>1, <4>2
    <3> QED BY <3>1, <3>2, <3>4
  <2>2. CASE k = n + 1
    <3>1. PICK i \in 1 .. L : s[i] = d
      BY <1>2, <1>10, <1>12, <2>2
    <3>2. PICK o \in Nat : Holds(flat, q[i], o)
      BY <1>7 DEF Joins
    <3>3. PICK x : x = Len(q[i])
      OBVIOUS
    <3>4. x \in 1 .. Len(q[i]) /\ q[i][x] = d
      <4>1. PICK p : p = q[i]
        OBVIOUS
      <4>2. WalkOK(p, d, neighbours, Node)
        BY <1>5, <3>1, <4>1
      <4>3. Len(p) \in 1 .. Len(p) /\ p[Len(p)] = d
        BY <4>2 DEF WalkOK
      <4> QED BY <3>3, <4>1, <4>3
    <3>5. o + x \in 1 .. n /\ flat[o + x] = d
      BY <1>8, <3>2, <3>4 DEF Holds
    <3>6. o + x \in 1 .. k - 1
      BY <1>9, <2>2, <3>5
    <3> QED BY <1>10, <3>5, <3>6
  <2>3. n \in Nat
    BY <1>9
  <2>4. k \in 1 .. n \/ k = n + 1
    BY <2>3
  <2> QED BY <2>1, <2>2, <2>4
<1>13. ASSUME NEW S \in SUBSET Node, m \in S, \A x \in S : neighbours[x] \subseteq S, NEW k \in 1 .. n + 1
       PROVE  w[k] \in S
  <2>1. CASE k \in 1 .. n
    <3>1. PICK i \in 1 .. L, o \in Nat : k - o \in 1 .. Len(q[i]) /\ w[k] = q[i][k - o]
      BY <1>11, <2>1
    <3>2. s[i] \in S
      BY <1>4, <1>13
    <3>3. PICK p, x : p = q[i] /\ x = s[i]
      OBVIOUS
    <3>4. WalkOK(p, x, neighbours, Node) /\ x \in S /\ k - o \in 1 .. Len(p)
      BY <1>5, <3>1, <3>2, <3>3
    <3>5. p[k - o] \in S
      BY <1>13, <3>4 DEF WalkOK
    <3> QED BY <3>1, <3>3, <3>5
  <2>2. CASE k = n + 1
    BY <1>10, <1>13, <2>2
  <2>3. n \in Nat
    BY <1>9
  <2>4. k \in 1 .. n \/ k = n + 1
    BY <2>3
  <2> QED BY <2>1, <2>2, <2>4
<1>14. Len(w) \in Nat \ {0} /\ w[Len(w)] = m
  BY <1>9, <1>10
<1>15. WalkOK(w, m, neighbours, Node)
  BY <1>10, <1>12, <1>13, <1>14 DEF WalkOK
<1> QED BY <1>8, <1>15

LEMMA WalksOK ==
  ASSUME NEW Node \in SUBSET Nat, IsFiniteSet(Node), NEW neighbours \in [Node -> SUBSET Node],
         Acyclic(neighbours), NEW r \in Node
  PROVE  WalkOK(Settling(neighbours)[r], r, neighbours, Node)
<1> DEFINE Wrong == {m \in Node : ~WalkOK(Settling(neighbours)[m], m, neighbours, Node)}
<1>1. SUFFICES ASSUME Wrong # {} PROVE FALSE
  OBVIOUS
<1>2. PICK m \in Wrong : neighbours[m] \cap Wrong = {}
  <2>1. Wrong \in SUBSET DOMAIN neighbours
    OBVIOUS
  <2> HIDE DEF Wrong
  <2> QED BY <1>1, <2>1 DEF Acyclic
<1>3. m \in Node /\ ~WalkOK(Settling(neighbours)[m], m, neighbours, Node)
  BY <1>2
<1>4. \A x \in neighbours[m] : WalkOK(Settling(neighbours)[x], x, neighbours, Node)
  BY <1>2, <1>3
<1>5. WalkOK(Visit(Settling(neighbours), m, neighbours), m, neighbours, Node)
  BY <1>3, <1>4, VisitOK
<1> QED BY <1>3, <1>5, WalkUnfolds

-----------------------------------------------------------------------------
(* The theorems. *)

\* traverse_inter_dependency_mappings: on every finite graph without cycles the
\* recursion settles the inter-dependencies of a mapping before the mapping, and
\* visits nothing else; what Transition assumes of UpWalk.
THEOREM InterDependenciesFirst ==
  ASSUME NEW Node \in SUBSET Nat, IsFiniteSet(Node), NEW deps \in [Node -> SUBSET Node], Acyclic(deps)
  PROVE  SettlesNeedsFirst(InterDependencyWalk(deps), deps)
<1>1. PICK up : up = InterDependencyWalk(deps)
  OBVIOUS
<1>2. DOMAIN up = Node /\ \A r \in Node : WalkOK(up[r], r, deps, Node)
  BY <1>1, WalkUnfolds, WalksOK DEF InterDependencyWalk
<1>3. up = [r \in Node |-> up[r]]
  <2>1. up = Settling(deps)
    BY <1>1 DEF InterDependencyWalk
  <2> QED BY <2>1, WalkUnfolds
<1>4. DOMAIN deps = Node
  OBVIOUS
<1>5. up \in [Node -> Seq(Node)]
  BY <1>2, <1>3 DEF WalkOK
<1>6. ASSUME NEW r \in Node
      PROVE  /\ \E k \in DOMAIN up[r] : up[r][k] = r
             /\ \A k \in DOMAIN up[r] : \A d \in deps[up[r][k]] : \E j \in 1 .. k - 1 : up[r][j] = d
             /\ \A S \in SUBSET Node :
                  (r \in S /\ \A m \in S : deps[m] \subseteq S) => \A k \in DOMAIN up[r] : up[r][k] \in S
  <2>1. WalkOK(up[r], r, deps, Node)
    BY <1>2
  <2>2. DOMAIN up[r] = 1 .. Len(up[r]) /\ Len(up[r]) \in DOMAIN up[r]
    BY <2>1 DEF WalkOK
  <2> QED BY <2>1, <2>2 DEF WalkOK
<1> QED BY <1>1, <1>4, <1>5, <1>6 DEF SettlesNeedsFirst

\* traverse_interdependent_mappings: the recursion settles what depends on a
\* mapping before the mapping, and visits nothing that does not depend on the
\* root; what Transition assumes of DownWalk.
THEOREM DependentsFirst ==
  ASSUME NEW Node \in SUBSET Nat, IsFiniteSet(Node), NEW deps \in [Node -> SUBSET Node], Acyclic(deps)
  PROVE  SettlesUsersFirst(InterdependentWalk(deps), deps)
<1>1. PICK down, users : down = InterdependentWalk(deps) /\ users = Dependents(deps)
  OBVIOUS
<1>2. /\ users \in [Node -> SUBSET Node] /\ DOMAIN deps = Node
      /\ \A m, x \in Node : x \in users[m] <=> m \in deps[x]
  BY <1>1 DEF Dependents
<1>3. Acyclic(users)
  <2> SUFFICES ASSUME NEW S \in SUBSET Node, S # {} PROVE \E m \in S : users[m] \cap S = {}
    BY <1>2 DEF Acyclic
  <2>1. PICK m \in S : \A x \in S : m \notin deps[x]
    BY NobodyNeeds
  <2>2. \A x \in S : x \notin users[m]
    BY <1>2, <2>1
  <2> QED BY <2>2
<1>4. DOMAIN down = Node /\ \A r \in Node : WalkOK(down[r], r, users, Node)
  <2>1. down = Settling(users)
    BY <1>1 DEF InterdependentWalk
  <2>2. DOMAIN down = Node
    BY <1>2, <1>3, <2>1, WalkUnfolds
  <2>3. \A r \in Node : WalkOK(down[r], r, users, Node)
    BY <1>2, <1>3, <2>1, WalksOK
  <2> QED BY <2>2, <2>3
<1>5. down = [r \in Node |-> down[r]]
  <2>1. down = Settling(users)
    BY <1>1 DEF InterdependentWalk
  <2> QED BY <1>2, <1>3, <2>1, WalkUnfolds
<1>6. down \in [Node -> Seq(Node)]
  BY <1>4, <1>5 DEF WalkOK
<1>7. ASSUME NEW r \in Node
      PROVE  /\ \E k \in DOMAIN down[r] : down[r][k] = r
             /\ \A k \in DOMAIN down[r] : \A m \in Node :
                  down[r][k] \in deps[m] => \E j \in 1 .. k - 1 : down[r][j] = m
             /\ \A S \in SUBSET Node :
                  (r \notin S /\ \A m \in S : deps[m] \subseteq S) =>
                    \A k \in DOMAIN down[r] : down[r][k] \notin S
  <2>1. WalkOK(down[r], r, users, Node)
    BY <1>4
  <2>2. /\ DOMAIN down[r] = 1 .. Len(down[r]) /\ Len(down[r]) \in DOMAIN down[r]
        /\ \A k \in DOMAIN down[r] : down[r][k] \in Node
    BY <2>1 DEF WalkOK
  <2>3. ASSUME NEW S \in SUBSET Node, r \notin S, \A m \in S : deps[m] \subseteq S
        PROVE  \A k \in DOMAIN down[r] : down[r][k] \notin S
    <3>1. PICK T : T = Node \ S
      OBVIOUS
    <3>2. T \in SUBSET Node /\ r \in T /\ \A m \in T : users[m] \subseteq T
      BY <1>2, <2>3, <3>1
    <3>3. \A k \in 1 .. Len(down[r]) : down[r][k] \in T
      BY <2>1, <3>2 DEF WalkOK
    <3> QED BY <2>2, <3>1, <3>3
  <2> QED BY <1>2, <2>1, <2>2, <2>3 DEF WalkOK
<1> QED BY <1>1, <1>2, <1>6, <1>7 DEF SettlesUsersFirst
=============================================================================
