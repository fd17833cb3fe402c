--------------------------- MODULE StackPlanProofs ---------------------------
(***************************************************************************)
(* Proofs about StackPlan, for every manifest over finitely many IDs.      *)
(***************************************************************************)
EXTENDS StackPlan, FiniteSetTheorems, SequenceTheorems, TLAPS

-----------------------------------------------------------------------------
(* A dependency graph: components N, and D[c] what c depends on. *)

Graph(N, D) == N \subseteq Nat /\ IsFiniteSet(N) /\ D \in [N -> SUBSET N]

Elems(s) == {s[i] : i \in 1 .. Len(s)}
Placed(s, i) == {s[j] : j \in 1 .. i - 1}
Free(N, D, s, i) == {c \in N \ Placed(s, i) : D[c] \subseteq Placed(s, i)}

\* s is the beginning of the order: at every position the smallest component
\* that is free there.
IsOrder(N, D, s) ==
  /\ s \in Seq(N) /\ Cardinality(Elems(s)) = Len(s)
  /\ \A i \in 1 .. Len(s) : s[i] \in Free(N, D, s, i) /\ \A c \in Free(N, D, s, i) : s[i] <= c

\* Some components wait for each other.
Circular(N, D) == \E S \in (SUBSET N) \ {{}} : \A c \in S : D[c] \cap S # {}

Sorted(s) == s \in Seq(Nat) /\ \A i, j \in 1 .. Len(s) : i < j => s[i] < s[j]

\* What c still waits for.  While the children of the component ordered last
\* are visited, a child not visited yet counts it in its indegree.
Waits(D, phase, left, ord, c) ==
  {d \in D[c] : d \notin Elems(ord) \/ (phase = "relax" /\ c \in left /\ d = ord[Len(ord)])}

\* dependencyOrder at work.
Work(N, D, phase, left, deg, rdy, ord) ==
  /\ phase \in {"scan", "take", "relax"} /\ left \subseteq N
  /\ IsOrder(N, D, ord) /\ Sorted(rdy) /\ deg \in [N -> Nat]
  /\ phase = "scan" => ord = << >>
  /\ phase = "relax" => ord # << >> /\ \A c \in left : ord[Len(ord)] \in D[c]
  /\ \A c \in N : deg[c] = Cardinality(Waits(D, phase, left, ord, c))
  /\ Elems(rdy) = {c \in N \ Elems(ord) : /\ phase = "scan" => c \notin left
                                          /\ Waits(D, phase, left, ord, c) = {}}

\* The smallest member of a set of indices.
LEMMA LeastIndex ==
  ASSUME NEW S \in SUBSET Nat, S # {}
  PROVE  \E i \in S : \A j \in S : i <= j
<1> DEFINE R == {p \in Nat \X Nat : p[1] < p[2]}
<1>1. IsWellFoundedOn(R, Nat)
  BY NatLessThanWellFounded DEF OpToRel
<1>2. \A p : p \in R <=> p \in Nat \X Nat /\ p[1] < p[2]
  OBVIOUS
<1>0. S \subseteq Nat
  OBVIOUS
<1> HIDE DEF R
<1>3. PICK i \in S : \A j \in S : ~(<<j, i>> \in R)
  BY <1>0, <1>1, WFMin
<1>4. ASSUME NEW j \in S
      PROVE  i <= j
  <2>1. i \in Nat /\ j \in Nat /\ ~(<<j, i>> \in R)
    BY <1>0, <1>3
  <2>2. ~(j < i)
    BY <1>2, <2>1
  <2>3. QED
    BY <2>1, <2>2
<1>5. QED
  BY <1>4

-----------------------------------------------------------------------------
(* insertSorted *)

LEMMA InsertAtIs ==
  ASSUME NEW s \in Seq(Nat), NEW i \in Nat, NEW e \in Nat
  PROVE  InsertAt(s, i, e) = (SubSeq(s, 1, i - 1) \o <<e>>) \o SubSeq(s, i, Len(s))
  BY DEF InsertAt

LEMMA InsertedAt ==
  ASSUME NEW s \in Seq(Nat), NEW v \in Nat, NEW k \in 0 .. Len(s)
  PROVE  LET t == InsertAt(s, k + 1, v) IN
         /\ t \in Seq(Nat) /\ Len(t) = Len(s) + 1 /\ t[k + 1] = v
         /\ \A i \in 1 .. k : t[i] = s[i]
         /\ \A i \in k + 2 .. Len(s) + 1 : t[i] = s[i - 1]
<1> DEFINE n == Len(s)
           a == SubSeq(s, 1, k)
           b == SubSeq(s, k + 1, n)
           t == (a \o <<v>>) \o b
<1>0. n \in Nat /\ k \in Nat /\ k <= n /\ \A i \in 1 .. n : s[i] \in Nat
  OBVIOUS
<1>1. InsertAt(s, k + 1, v) = t
  <2> DEFINE i == k + 1
  <2>2. i \in Nat /\ i - 1 = k
    BY <1>0
  <2> HIDE DEF i
  <2>3. InsertAt(s, i, v) = (SubSeq(s, 1, i - 1) \o <<v>>) \o SubSeq(s, i, Len(s))
    BY <2>2, InsertAtIs
  <2>4. InsertAt(s, i, v) = (SubSeq(s, 1, k) \o <<v>>) \o SubSeq(s, i, Len(s))
    BY <2>2, <2>3
  <2>5. QED
    BY <2>4 DEF i
<1> HIDE DEF n
<1>2. a \in Seq(Nat) /\ Len(a) = k /\ \A i \in 1 .. k : a[i] = s[i]
  <2>1. \A i \in 1 .. k : s[i] \in Nat
    BY <1>0
  <2>2. a \in Seq(Nat) /\ Len(a) = (IF 1 <= k THEN k - 1 + 1 ELSE 0) /\ \A i \in 1 .. k - 1 + 1 : a[i] = s[1 + i - 1]
    BY <1>0, <2>1, SubSeqProperties
  <2>3. QED
    BY <1>0, <2>2
<1>3. b \in Seq(Nat) /\ Len(b) = n - k /\ \A i \in 1 .. n - k : b[i] = s[k + i]
  <2>1. \A i \in k + 1 .. n : s[i] \in Nat
    BY <1>0
  <2>2. /\ b \in Seq(Nat) /\ Len(b) = (IF k + 1 <= n THEN n - (k + 1) + 1 ELSE 0)
        /\ \A i \in 1 .. n - (k + 1) + 1 : b[i] = s[k + 1 + i - 1]
    BY <1>0, <2>1, SubSeqProperties
  <2>3. QED
    BY <1>0, <2>2
<1> HIDE DEF a, b
<1>4. /\ a \o <<v>> \in Seq(Nat) /\ Len(a \o <<v>>) = k + 1 /\ (a \o <<v>>)[k + 1] = v
      /\ \A i \in 1 .. k : (a \o <<v>>)[i] = s[i]
  BY <1>0, <1>2
<1> DEFINE c == a \o <<v>>
<1> HIDE DEF c
<1>5. /\ c \o b \in Seq(Nat) /\ Len(c \o b) = n + 1 /\ (c \o b)[k + 1] = v
      /\ \A i \in 1 .. k : (c \o b)[i] = s[i]
      /\ \A i \in k + 2 .. n + 1 : (c \o b)[i] = s[i - 1]
  <2>1. c \in Seq(Nat) /\ Len(c) = k + 1 /\ c[k + 1] = v /\ \A i \in 1 .. k : c[i] = s[i]
    BY <1>4 DEF c
  <2>2. /\ c \o b \in Seq(Nat) /\ Len(c \o b) = n + 1
        /\ \A i \in 1 .. n + 1 : (c \o b)[i] = IF i <= k + 1 THEN c[i] ELSE b[i - (k + 1)]
    <3>1. /\ c \o b \in Seq(Nat) /\ Len(c \o b) = Len(c) + Len(b)
          /\ \A i \in 1 .. Len(c) + Len(b) : (c \o b)[i] = IF i <= Len(c) THEN c[i] ELSE b[i - Len(c)]
      BY <1>3, <2>1, ConcatProperties
    <3>2. Len(c) + Len(b) = n + 1
      BY <1>0, <1>3, <2>1
    <3>3. QED
      BY <2>1, <3>1, <3>2
  <2>3. \A i \in k + 2 .. n + 1 : b[i - (k + 1)] = s[i - 1]
    <3>1. ASSUME NEW i \in k + 2 .. n + 1
          PROVE  b[i - (k + 1)] = s[i - 1]
      <4>1. i - (k + 1) \in 1 .. n - k /\ k + (i - (k + 1)) = i - 1
        BY <1>0
      <4>2. QED
        BY <1>3, <4>1
    <3>2. QED
      BY <3>1
  <2>4. (c \o b)[k + 1] = v
    BY <1>0, <2>1, <2>2
  <2>5. ASSUME NEW i \in 1 .. k
        PROVE  (c \o b)[i] = s[i]
    BY <1>0, <2>1, <2>2
  <2>6. ASSUME NEW i \in k + 2 .. n + 1
        PROVE  (c \o b)[i] = s[i - 1]
    <3>1. i \in 1 .. n + 1 /\ ~(i <= k + 1)
      BY <1>0
    <3>2. QED
      BY <2>2, <2>3, <3>1
  <2>7. QED
    BY <2>2, <2>4, <2>5, <2>6
<1>6. QED
  BY <1>1, <1>5 DEF c, n

\* The values smaller than v are at the first positions.
LEMMA SmallerPrefix ==
  ASSUME NEW s, Sorted(s), NEW v \in Nat, v \notin Elems(s)
  PROVE  \E k \in 0 .. Len(s) : /\ Cardinality({i \in DOMAIN s : s[i] < v}) = k
                                /\ \A i \in 1 .. k : s[i] < v
                                /\ \A i \in k + 1 .. Len(s) : v < s[i]
<1> DEFINE n == Len(s)
           A == {i \in DOMAIN s : s[i] < v}
           B == {i \in 1 .. n : v < s[i]}
<1>0. n \in Nat /\ DOMAIN s = 1 .. n /\ (\A i \in 1 .. n : s[i] \in Nat)
      /\ \A i, j \in 1 .. n : i < j => s[i] < s[j]
  BY DEF Sorted
<1>1. \A i \in 1 .. n : s[i] < v \/ v < s[i]
  BY <1>0 DEF Elems
<1>2. CASE B = {}
  <2>1. A = 1 .. n
    BY <1>0, <1>1, <1>2
  <2>2. Cardinality(A) = n
    <3> HIDE DEF n
    <3>0. 1 \in Int /\ n \in Int
      BY <1>0
    <3>1. Cardinality(1 .. n) = IF 1 > n THEN 0 ELSE n - 1 + 1
      BY <3>0, FS_Interval
    <3> HIDE DEF A
    <3>2. QED
      BY <1>0, <2>1, <3>1
  <2> HIDE DEF n
  <2>3. n \in 0 .. n /\ (\A i \in 1 .. n : s[i] < v) /\ \A i \in n + 1 .. n : v < s[i]
    <3>1. \A i \in A : s[i] < v
      OBVIOUS
    <3> HIDE DEF A, B
    <3>2. \A i \in 1 .. n : s[i] < v
      BY <2>1, <3>1
    <3>3. n \in 0 .. n /\ \A i \in n + 1 .. n : FALSE
      BY <1>0
    <3>4. QED
      BY <3>2, <3>3
  <2>4. QED
    BY <2>2, <2>3 DEF n
<1>3. CASE B # {}
  <2>0. B \in SUBSET Nat
    BY <1>0
  <2>1. PICK m \in B : \A j \in B : m <= j
    <3> HIDE DEF B
    <3>1. QED
      BY <1>3, <2>0, LeastIndex
  <2> DEFINE k == m - 1
  <2> HIDE DEF n
  <2>2. k \in 0 .. n /\ m \in 1 .. n
    BY <1>0, <2>1
  <2>3. \A i \in 1 .. k : s[i] < v
    BY <1>0, <1>1, <2>1, <2>2
  <2>4. \A i \in k + 1 .. n : v < s[i]
    <3>1. ASSUME NEW i \in m .. n
          PROVE  v < s[i]
      <4>1. v < s[m] /\ i \in 1 .. n
        BY <2>1, <2>2
      <4>2. i = m \/ s[m] < s[i]
        BY <1>0, <2>2, <4>1
      <4>3. QED
        BY <1>0, <2>2, <4>1, <4>2
    <3>2. QED
      BY <1>0, <2>2, <3>1
  <2>5. A = 1 .. k
    BY <1>0, <2>2, <2>3, <2>4
  <2>6. Cardinality(A) = k
    <3>1. k \in Int /\ 1 \in Int
      BY <2>2
    <3>2. Cardinality(1 .. k) = IF 1 > k THEN 0 ELSE k - 1 + 1
      BY <3>1, FS_Interval
    <3> HIDE DEF A
    <3>3. QED
      BY <2>2, <2>5, <3>2
  <2>7. QED
    BY <2>2, <2>3, <2>4, <2>6 DEF n
<1>4. QED
  BY <1>2, <1>3

\* insertSorted keeps the list sorted and adds the value, and nothing else.
LEMMA InsertSortedEffect ==
  ASSUME NEW s, Sorted(s), NEW v \in Nat, v \notin Elems(s)
  PROVE  Sorted(InsertSorted(s, v)) /\ Elems(InsertSorted(s, v)) = Elems(s) \cup {v}
<1> DEFINE n == Len(s)
           t == InsertSorted(s, v)
<1>0. s \in Seq(Nat) /\ n \in Nat /\ (\A i \in 1 .. n : s[i] \in Nat)
      /\ \A i, j \in 1 .. n : i < j => s[i] < s[j]
  BY DEF Sorted
<1>1. PICK k \in 0 .. n : /\ Cardinality({i \in DOMAIN s : s[i] < v}) = k
                          /\ \A i \in 1 .. k : s[i] < v
                          /\ \A i \in k + 1 .. n : v < s[i]
  BY SmallerPrefix
<1>2. t = InsertAt(s, k + 1, v)
  BY <1>1 DEF InsertSorted
<1>3. /\ t \in Seq(Nat) /\ Len(t) = n + 1 /\ t[k + 1] = v
      /\ \A i \in 1 .. k : t[i] = s[i]
      /\ \A i \in k + 2 .. n + 1 : t[i] = s[i - 1]
  <2> DEFINE u == InsertAt(s, k + 1, v)
  <2>1. /\ u \in Seq(Nat) /\ Len(u) = n + 1 /\ u[k + 1] = v
        /\ \A i \in 1 .. k : u[i] = s[i]
        /\ \A i \in k + 2 .. n + 1 : u[i] = s[i - 1]
    BY <1>0, InsertedAt
  <2>2. QED
    BY <1>2, <2>1
<1> HIDE DEF n, t
<1>4. k \in Nat /\ k <= n
  BY <1>0, <1>1
<1>5. Elems(t) = Elems(s) \cup {v}
  <2>1. ASSUME NEW i \in 1 .. n + 1
        PROVE  t[i] = v \/ \E j \in 1 .. n : t[i] = s[j]
    <3>1. CASE i = k + 1
      BY <1>3, <3>1
    <3>2. CASE i \in 1 .. k
      <4>1. i \in 1 .. n /\ t[i] = s[i]
        BY <1>0, <1>3, <1>4, <3>2
      <4>2. QED
        BY <4>1
    <3>3. CASE i \in k + 2 .. n + 1
      <4>1. i - 1 \in 1 .. n
        BY <1>0, <1>4, <3>3
      <4>2. QED
        BY <1>3, <3>3, <4>1
    <3>4. QED
      BY <1>0, <1>4, <3>1, <3>2, <3>3
  <2>2. ASSUME NEW j \in 1 .. n
        PROVE  \E i \in 1 .. n + 1 : t[i] = s[j]
    <3>1. CASE j <= k
      BY <1>0, <1>3, <1>4, <3>1
    <3>2. CASE j > k
      <4>1. j + 1 \in k + 2 .. n + 1 /\ j + 1 \in 1 .. n + 1 /\ (j + 1) - 1 = j
        BY <1>0, <1>4, <3>2
      <4>2. QED
        BY <1>3, <4>1
    <3>3. QED
      BY <1>0, <1>4, <3>1, <3>2
  <2>3. k + 1 \in 1 .. n + 1
    BY <1>0, <1>4
  <2>4. Elems(t) = {t[i] : i \in 1 .. n + 1} /\ Elems(s) = {s[i] : i \in 1 .. n}
    BY <1>3 DEF Elems, n
  <2>5. ASSUME NEW x \in Elems(t)
        PROVE  x \in Elems(s) \cup {v}
    BY <2>1, <2>4
  <2>6. ASSUME NEW x \in Elems(s)
        PROVE  x \in Elems(t)
    BY <2>2, <2>4
  <2>7. v \in Elems(t)
    BY <1>3, <2>3, <2>4
  <2>8. QED
    BY <2>5, <2>6, <2>7
<1>6. Sorted(t)
  <2>1. ASSUME NEW i \in 1 .. n + 1, NEW j \in 1 .. n + 1, i < j
        PROVE  t[i] < t[j]
    <3>1. CASE j <= k
      <4>1. /\ i \in 1 .. k /\ j \in 1 .. k /\ i \in 1 .. n /\ j \in 1 .. n
        BY <1>0, <1>4, <2>1, <3>1
      <4>2. t[i] = s[i] /\ t[j] = s[j]
        BY <1>3, <4>1
      <4>3. QED
        BY <1>0, <2>1, <4>1, <4>2
    <3>2. CASE j = k + 1
      <4>1. i \in 1 .. k
        BY <1>0, <1>4, <2>1, <3>2
      <4>2. t[i] = s[i] /\ t[j] = v
        BY <1>3, <3>2, <4>1
      <4>3. QED
        BY <1>1, <4>1, <4>2
    <3>3. CASE j > k + 1
      <4>1. t[j] = s[j - 1] /\ j - 1 \in k + 1 .. n /\ j - 1 \in 1 .. n
        BY <1>0, <1>3, <1>4, <3>3
      <4>2. CASE i <= k
        <5>1. t[i] = s[i] /\ i \in 1 .. n /\ i < j - 1
          BY <1>0, <1>3, <1>4, <3>3, <4>2
        <5>2. QED
          BY <1>0, <4>1, <5>1
      <4>3. CASE i = k + 1
        BY <1>1, <1>3, <4>1, <4>3
      <4>4. CASE i > k + 1
        <5>1. t[i] = s[i - 1] /\ i - 1 \in 1 .. n /\ i - 1 < j - 1
          BY <1>0, <1>3, <1>4, <2>1, <4>4
        <5>2. QED
          BY <1>0, <4>1, <5>1
      <4>5. QED
        BY <1>4, <4>2, <4>3, <4>4
    <3>4. QED
      BY <1>4, <3>1, <3>2, <3>3
  <2>2. QED
    BY <1>3, <2>1 DEF Sorted
<1>7. QED
  BY <1>5, <1>6 DEF t

-----------------------------------------------------------------------------
(* The loops of dependencyOrder. *)

LEMMA OrderFacts ==
  ASSUME NEW N, NEW D, Graph(N, D), NEW s, IsOrder(N, D, s)
  PROVE  /\ s \in Seq(N) /\ Len(s) \in Nat /\ (\A i \in 1 .. Len(s) : s[i] \in N)
         /\ Elems(s) \subseteq N /\ IsFiniteSet(Elems(s)) /\ Cardinality(Elems(s)) = Len(s)
         /\ \A i \in 1 .. Len(s) : s[i] \notin Placed(s, i) /\ D[s[i]] \subseteq Placed(s, i)
<1>1. s \in Seq(N) /\ Len(s) \in Nat /\ (\A i \in 1 .. Len(s) : s[i] \in N) /\ Cardinality(Elems(s)) = Len(s)
  BY DEF IsOrder
<1>2. Elems(s) \subseteq N
  BY <1>1 DEF Elems
<1>3. IsFiniteSet(Elems(s))
  BY <1>2, FS_Subset DEF Graph
<1>4. \A i \in 1 .. Len(s) : s[i] \notin Placed(s, i) /\ D[s[i]] \subseteq Placed(s, i)
  BY DEF IsOrder, Free
<1>5. QED
  BY <1>1, <1>2, <1>3, <1>4

LEMMA WaitsFacts ==
  ASSUME NEW N, NEW D, Graph(N, D), NEW phase, NEW left, NEW ord, NEW c \in N
  PROVE  /\ Waits(D, phase, left, ord, c) \subseteq D[c] /\ D[c] \subseteq N
         /\ IsFiniteSet(Waits(D, phase, left, ord, c))
         /\ Cardinality(Waits(D, phase, left, ord, c)) \in Nat
         /\ Cardinality(Waits(D, phase, left, ord, c)) = 0 <=> Waits(D, phase, left, ord, c) = {}
<1> DEFINE W == Waits(D, phase, left, ord, c)
<1>1. W \subseteq D[c] /\ D[c] \subseteq N /\ IsFiniteSet(N)
  BY DEF Waits, Graph
<1> HIDE DEF W
<1>2. IsFiniteSet(W)
  BY <1>1, FS_Subset
<1>3. Cardinality(W) \in Nat /\ (Cardinality(W) = 0 <=> W = {})
  BY <1>2, FS_CardinalityType, FS_EmptySet
<1>4. QED
  BY <1>1, <1>2, <1>3 DEF W

\* The indegrees are counted.
LEMMA BeginWork ==
  ASSUME NEW N, NEW D, Graph(N, D), NEW deg, deg = [c \in N |-> Cardinality(D[c])]
  PROVE  Work(N, D, "scan", N, deg, << >>, << >>)
<1>1. Len(<< >>) = 0 /\ << >> \in Seq(N) /\ << >> \in Seq(Nat)
  OBVIOUS
<1>2. Elems(<< >>) = {}
  BY <1>1 DEF Elems
<1>3. IsOrder(N, D, << >>) /\ Sorted(<< >>)
  BY <1>1, <1>2, FS_EmptySet DEF IsOrder, Sorted
<1>4. \A c \in N : Waits(D, "scan", N, << >>, c) = D[c]
  BY <1>2 DEF Waits
<1>5. ASSUME NEW c \in N
      PROVE  deg[c] = Cardinality(Waits(D, "scan", N, << >>, c)) /\ Cardinality(D[c]) \in Nat
  BY <1>4, WaitsFacts
<1>6. deg \in [N -> Nat]
  BY <1>5
<1>7. QED
  BY <1>2, <1>3, <1>5, <1>6 DEF Work

\* A component of the map is looked at.
LEMMA ScanStep ==
  ASSUME NEW N, NEW D, Graph(N, D), NEW left, NEW deg, NEW rdy, NEW ord,
         Work(N, D, "scan", left, deg, rdy, ord), NEW id \in left
  PROVE  Work(N, D, IF left \ {id} = {} THEN "take" ELSE "scan", left \ {id}, deg,
              IF deg[id] = 0 THEN InsertSorted(rdy, id) ELSE rdy, ord)
<1> DEFINE rest == left \ {id}
           phase == IF rest = {} THEN "take" ELSE "scan"
           new == IF deg[id] = 0 THEN InsertSorted(rdy, id) ELSE rdy
           W(c) == Waits(D, "scan", left, ord, c)
<1>1. /\ left \subseteq N /\ IsOrder(N, D, ord) /\ Sorted(rdy) /\ deg \in [N -> Nat] /\ ord = << >>
      /\ \A c \in N : deg[c] = Cardinality(W(c))
      /\ Elems(rdy) = {c \in N \ Elems(ord) : c \notin left /\ W(c) = {}}
  BY DEF Work
<1>2. \A c : Waits(D, phase, rest, ord, c) = W(c)
  BY DEF Waits
<1>3. id \in N /\ id \in Nat /\ id \notin Elems(rdy) /\ id \notin Elems(ord)
  <2>1. Elems(ord) = {}
    BY <1>1 DEF Elems
  <2>2. QED
    BY <1>1, <2>1 DEF Graph
<1>4. deg[id] = 0 <=> W(id) = {}
  BY <1>1, <1>3, WaitsFacts
<1> HIDE DEF W
<1>5. Sorted(new) /\ Elems(new) = IF W(id) = {} THEN Elems(rdy) \cup {id} ELSE Elems(rdy)
  BY <1>1, <1>3, <1>4, InsertSortedEffect
<1> HIDE DEF new
<1>6. Elems(new) = {c \in N \ Elems(ord) : (phase = "scan" => c \notin rest) /\ W(c) = {}}
  BY <1>1, <1>3, <1>5
<1>7. QED
  BY <1>1, <1>2, <1>5, <1>6 DEF Work, new

\* A component is appended that comes next.
LEMMA ExtendOrder ==
  ASSUME NEW N, NEW D, Graph(N, D), NEW s, IsOrder(N, D, s), NEW h \in N, h \notin Elems(s), D[h] \subseteq Elems(s),
         \A c \in N \ Elems(s) : D[c] \subseteq Elems(s) => h <= c
  PROVE  /\ IsOrder(N, D, Append(s, h)) /\ Elems(Append(s, h)) = Elems(s) \cup {h}
         /\ Len(Append(s, h)) = Len(s) + 1 /\ Append(s, h)[Len(s) + 1] = h
         /\ \A i \in 1 .. Len(s) : Append(s, h)[i] = s[i]
<1> DEFINE t == Append(s, h)
           n == Len(s)
<1>1. /\ s \in Seq(N) /\ n \in Nat /\ (\A i \in 1 .. n : s[i] \in N)
      /\ Elems(s) \subseteq N /\ IsFiniteSet(Elems(s)) /\ Cardinality(Elems(s)) = n
  BY OrderFacts
<1>2. t \in Seq(N) /\ Len(t) = n + 1 /\ t[n + 1] = h /\ \A i \in 1 .. n : t[i] = s[i]
  BY <1>1
<1> HIDE DEF t, n
<1>3. Elems(t) = Elems(s) \cup {h}
  <2>1. Elems(t) = {t[i] : i \in 1 .. n + 1} /\ Elems(s) = {s[i] : i \in 1 .. n}
    BY <1>2 DEF Elems, n
  <2>2. \A i \in 1 .. n + 1 : i \in 1 .. n \/ i = n + 1
    BY <1>1
  <2>3. (\A i \in 1 .. n : i \in 1 .. n + 1) /\ n + 1 \in 1 .. n + 1
    BY <1>1
  <2>4. QED
    BY <1>2, <2>1, <2>2, <2>3
<1>4. Cardinality(Elems(t)) = Len(t)
  <2>1. Cardinality(Elems(s) \cup {h}) = IF h \in Elems(s) THEN Cardinality(Elems(s)) ELSE Cardinality(Elems(s)) + 1
    BY <1>1, FS_AddElement
  <2>2. QED
    BY <1>1, <1>2, <1>3, <2>1
<1>5. Placed(t, n + 1) = Elems(s)
  <2>1. n + 1 - 1 = n
    BY <1>1
  <2>2. QED
    BY <1>2, <2>1 DEF Placed, Elems, n
<1>6. ASSUME NEW i \in 1 .. n
      PROVE  Placed(t, i) = Placed(s, i)
  <2>1. \A j \in 1 .. i - 1 : j \in 1 .. n
    BY <1>1
  <2>2. QED
    BY <1>2, <2>1 DEF Placed
<1>7. ASSUME NEW i \in 1 .. n + 1
      PROVE  t[i] \in Free(N, D, t, i) /\ \A c \in Free(N, D, t, i) : t[i] <= c
  <2>1. CASE i \in 1 .. n
    <3>1. Free(N, D, t, i) = Free(N, D, s, i) /\ t[i] = s[i]
      BY <1>2, <1>6, <2>1 DEF Free
    <3>2. QED
      BY <2>1, <3>1 DEF IsOrder, n
  <2>2. CASE i = n + 1
    BY <1>2, <1>5, <2>2 DEF Free
  <2>3. QED
    BY <1>1, <2>1, <2>2
<1>8. IsOrder(N, D, t)
  BY <1>2, <1>4, <1>7 DEF IsOrder
<1>9. QED
  BY <1>2, <1>3, <1>8 DEF t, n

\* What the head of the sorted list of ready components is.
LEMMA ReadyHead ==
  ASSUME NEW s, Sorted(s), s # << >>
  PROVE  /\ Head(s) \in Elems(s) /\ \A c \in Elems(s) : Head(s) <= c
         /\ Sorted(Tail(s)) /\ Elems(Tail(s)) = Elems(s) \ {Head(s)}
<1> DEFINE n == Len(s)
           t == Tail(s)
<1>0. s \in Seq(Nat) /\ n \in Nat /\ n >= 1 /\ Head(s) = s[1] /\ (\A i \in 1 .. n : s[i] \in Nat)
      /\ \A i, j \in 1 .. n : i < j => s[i] < s[j]
  BY DEF Sorted
<1>1. t \in Seq(Nat) /\ Len(t) = n - 1 /\ \A i \in 1 .. n - 1 : t[i] = s[i + 1]
  BY <1>0, HeadTailProperties
<1> HIDE DEF t, n
<1>2. Elems(s) = {s[i] : i \in 1 .. n} /\ Elems(t) = {t[i] : i \in 1 .. n - 1}
  BY <1>1 DEF Elems, n
<1>3. Head(s) \in Elems(s)
  BY <1>0, <1>2
<1>4. ASSUME NEW i \in 1 .. n
      PROVE  s[1] <= s[i] /\ (i # 1 => s[1] # s[i])
  <2>1. CASE i = 1
    BY <1>0, <2>1
  <2>2. CASE i # 1
    <3>1. 1 \in 1 .. n /\ 1 < i
      BY <1>0, <2>2
    <3>2. s[1] < s[i] /\ s[1] \in Nat /\ s[i] \in Nat
      BY <1>0, <3>1
    <3>3. QED
      BY <3>2
  <2>3. QED
    BY <2>1, <2>2
<1>5. \A c \in Elems(s) : Head(s) <= c
  BY <1>0, <1>2, <1>4
<1>6. Sorted(t)
  <2>1. ASSUME NEW i \in 1 .. n - 1, NEW j \in 1 .. n - 1, i < j
        PROVE  t[i] < t[j]
    <3>1. i + 1 \in 1 .. n /\ j + 1 \in 1 .. n /\ i + 1 < j + 1
      BY <1>0, <2>1
    <3>2. QED
      BY <1>0, <1>1, <3>1
  <2>2. QED
    BY <1>1, <2>1 DEF Sorted
<1>7. Elems(t) = Elems(s) \ {Head(s)}
  <2>1. ASSUME NEW i \in 1 .. n - 1
        PROVE  t[i] \in Elems(s) /\ t[i] # s[1]
    <3>1. i + 1 \in 1 .. n /\ i + 1 # 1
      BY <1>0
    <3>2. QED
      BY <1>1, <1>2, <1>4, <3>1
  <2>2. ASSUME NEW i \in 1 .. n, s[i] # s[1]
        PROVE  s[i] \in Elems(t)
    <3>1. i - 1 \in 1 .. n - 1 /\ (i - 1) + 1 = i
      BY <1>0, <2>2
    <3>2. t[i - 1] = s[i]
      BY <1>1, <3>1
    <3>3. QED
      BY <1>2, <3>1, <3>2
  <2>3. QED
    BY <1>0, <1>2, <2>1, <2>2
<1>8. QED
  BY <1>3, <1>5, <1>6, <1>7 DEF t

\* The smallest ready component is ordered; its children are visited next.
LEMMA TakeStep ==
  ASSUME NEW N, NEW D, Graph(N, D), NEW left, NEW deg, NEW rdy, NEW ord,
         Work(N, D, "take", left, deg, rdy, ord), rdy # << >>,
         NEW next \in SUBSET N, \A c \in N : c \in next <=> Head(rdy) \in D[c],
         NEW phase, phase = IF next = {} THEN "take" ELSE "relax", NEW new, new = Append(ord, Head(rdy))
  PROVE  Work(N, D, phase, next, deg, Tail(rdy), new)
<1> DEFINE h == Head(rdy)
           W(c) == Waits(D, "take", left, ord, c)
<1>1. /\ IsOrder(N, D, ord) /\ Sorted(rdy) /\ deg \in [N -> Nat]
      /\ \A c \in N : deg[c] = Cardinality(W(c))
      /\ Elems(rdy) = {c \in N \ Elems(ord) : W(c) = {}}
  BY DEF Work
<1>2. \A c : W(c) = {d \in D[c] : d \notin Elems(ord)}
  BY DEF Waits
<1>3. /\ h \in Elems(rdy) /\ (\A c \in Elems(rdy) : h <= c)
      /\ Sorted(Tail(rdy)) /\ Elems(Tail(rdy)) = Elems(rdy) \ {h}
  BY <1>1, ReadyHead
<1> HIDE DEF h
<1>4. h \in N /\ h \notin Elems(ord) /\ D[h] \subseteq Elems(ord)
  BY <1>1, <1>2, <1>3
<1>5. \A c \in N \ Elems(ord) : D[c] \subseteq Elems(ord) => h <= c
  BY <1>1, <1>2, <1>3
<1>6. /\ IsOrder(N, D, new) /\ Elems(new) = Elems(ord) \cup {h}
      /\ Len(new) = Len(ord) + 1 /\ new[Len(ord) + 1] = h /\ \A i \in 1 .. Len(ord) : new[i] = ord[i]
  <2>1. new = Append(ord, h)
    BY DEF h
  <2>2. /\ IsOrder(N, D, Append(ord, h)) /\ Elems(Append(ord, h)) = Elems(ord) \cup {h}
        /\ Len(Append(ord, h)) = Len(ord) + 1 /\ Append(ord, h)[Len(ord) + 1] = h
        /\ \A i \in 1 .. Len(ord) : Append(ord, h)[i] = ord[i]
    BY <1>1, <1>4, <1>5, ExtendOrder
  <2>3. QED
    BY <2>1, <2>2
<1>o. /\ Elems(ord) \subseteq N /\ Cardinality(Elems(ord)) = Len(ord) /\ Len(ord) \in Nat
  BY <1>1, OrderFacts
<1>7. new # << >> /\ new[Len(new)] = h
  <2>1. Len(new) # 0
    BY <1>6, <1>o
  <2>2. QED
    BY <1>6, <2>1
<1>8. ASSUME NEW c \in N
      PROVE  Waits(D, phase, next, new, c) = W(c)
  <2>1. c \in next <=> h \in D[c]
    BY DEF h
  <2>2. Waits(D, phase, next, new, c) = {d \in D[c] : d \notin Elems(new) \/ (phase = "relax" /\ c \in next /\ d = h)}
    BY <1>7 DEF Waits
  <2>3. c \in next => phase = "relax"
    OBVIOUS
  <2> HIDE DEF W
  <2>4. \A d \in D[c] : d \notin Elems(ord) <=> d \notin Elems(new) \/ (phase = "relax" /\ c \in next /\ d = h)
    BY <1>4, <1>6, <2>1, <2>3
  <2>5. QED
    BY <1>2, <2>2, <2>4
<1>9. next \subseteq N /\ \A c \in next : h \in D[c]
  BY DEF h
<1> HIDE DEF W
<1>10. Elems(Tail(rdy)) = {c \in N \ Elems(new) : W(c) = {}}
  BY <1>1, <1>3, <1>6
<1>11. Elems(Tail(rdy)) = {c \in N \ Elems(new) : (phase = "scan" => c \notin next) /\ Waits(D, phase, next, new, c) = {}}
  BY <1>8, <1>10
<1>12. \A c \in N : deg[c] = Cardinality(Waits(D, phase, next, new, c))
  BY <1>1, <1>8
<1>13. Work(N, D, phase, next, deg, Tail(rdy), new)
  <2>1. phase \in {"take", "relax"}
    OBVIOUS
  <2>2. phase \in {"scan", "take", "relax"} /\ phase # "scan"
    BY <2>1
  <2>3. phase = "relax" => new # << >> /\ \A c \in next : new[Len(new)] \in D[c]
    BY <1>7, <1>9
  <2>4. phase = "scan" => new = << >>
    BY <2>2
  <2>5. QED
    BY <1>1, <1>3, <1>6, <1>9, <1>11, <1>12, <2>2, <2>3, <2>4, Zenon DEF Work
<1>14. QED
  BY <1>13

\* A child of the component ordered last is visited.
LEMMA RelaxStep ==
  ASSUME NEW N, NEW D, Graph(N, D), NEW left, NEW deg, NEW rdy, NEW ord,
         Work(N, D, "relax", left, deg, rdy, ord), NEW c \in left,
         NEW new \in [N -> Int], \A x \in N : new[x] = IF x = c THEN deg[x] - 1 ELSE deg[x],
         NEW rest, rest = left \ {c}, NEW phase, phase = IF rest = {} THEN "take" ELSE "relax",
         NEW list, list = IF new[c] = 0 THEN InsertSorted(rdy, c) ELSE rdy
  PROVE  Work(N, D, phase, rest, new, list, ord)
<1> DEFINE h == ord[Len(ord)]
           W(x) == Waits(D, "relax", left, ord, x)
           V(x) == Waits(D, phase, rest, ord, x)
<1>1. /\ left \subseteq N /\ IsOrder(N, D, ord) /\ Sorted(rdy) /\ deg \in [N -> Nat]
      /\ ord # << >> /\ (\A x \in left : h \in D[x])
      /\ \A x \in N : deg[x] = Cardinality(W(x))
      /\ Elems(rdy) = {x \in N \ Elems(ord) : W(x) = {}}
  BY DEF Work
<1>2. /\ ord \in Seq(N) /\ Len(ord) \in Nat /\ (\A i \in 1 .. Len(ord) : ord[i] \in N)
      /\ \A i \in 1 .. Len(ord) : ord[i] \notin Placed(ord, i) /\ D[ord[i]] \subseteq Placed(ord, i)
  BY <1>1, OrderFacts
<1>n. Len(ord) \in 1 .. Len(ord)
  BY <1>1, <1>2
<1>3. h \in Elems(ord)
  BY <1>n DEF Elems
<1>4. c \in N /\ c \in Nat /\ h \in D[c]
  BY <1>1 DEF Graph
<1>5. c \notin Elems(ord)
  <2>1. SUFFICES ASSUME NEW i \in 1 .. Len(ord), ord[i] = c
                 PROVE  FALSE
    BY DEF Elems
  <2>2. h \in Placed(ord, i)
    BY <1>2, <1>4, <2>1
  <2>3. Placed(ord, i) \subseteq Placed(ord, Len(ord))
    BY <1>2 DEF Placed
  <2>4. QED
    BY <1>2, <1>n, <2>2, <2>3
<1>6. /\ V(c) = W(c) \ {h} /\ h \in W(c)
      /\ \A x \in N : x # c => V(x) = W(x)
  <2>1. W(c) = {d \in D[c] : d \notin Elems(ord) \/ d = h}
    BY DEF Waits
  <2>2. V(c) = {d \in D[c] : d \notin Elems(ord)}
    BY DEF Waits
  <2>3. ASSUME NEW x \in N, x # c
        PROVE  V(x) = W(x)
    BY <2>3 DEF Waits
  <2> HIDE DEF V, W, h
  <2>4. V(c) = W(c) \ {h} /\ h \in W(c)
    BY <1>3, <1>4, <2>1, <2>2
  <2>5. QED
    BY <2>3, <2>4
<1>w. IsFiniteSet(W(c)) /\ (\A x \in N : Cardinality(V(x)) \in Nat) /\ (Cardinality(V(c)) = 0 <=> V(c) = {})
  <2>1. IsFiniteSet(W(c))
    BY <1>4, WaitsFacts
  <2>2. \A x \in N : Cardinality(V(x)) \in Nat
    BY WaitsFacts
  <2>a. ASSUME NEW p, NEW q
        PROVE  Cardinality(Waits(D, p, q, ord, c)) = 0 <=> Waits(D, p, q, ord, c) = {}
    BY <1>4, WaitsFacts
  <2>3. Cardinality(V(c)) = 0 <=> V(c) = {}
    BY <2>a
  <2>4. QED
    BY <2>1, <2>2, <2>3
<1> HIDE DEF V, W, h
<1>7. Cardinality(V(c)) = deg[c] - 1
  <2>1. Cardinality(W(c) \ {h}) = IF h \in W(c) THEN Cardinality(W(c)) - 1 ELSE Cardinality(W(c))
    BY <1>w, FS_RemoveElement
  <2>2. QED
    BY <1>1, <1>4, <1>6, <2>1
<1>8. /\ new \in [N -> Nat] /\ \A x \in N : new[x] = Cardinality(V(x))
  BY <1>1, <1>4, <1>6, <1>7, <1>w
<1>9. c \notin Elems(rdy) /\ (new[c] = 0 <=> V(c) = {})
  BY <1>1, <1>4, <1>6, <1>8, <1>w
<1>10. Sorted(list) /\ Elems(list) = IF V(c) = {} THEN Elems(rdy) \cup {c} ELSE Elems(rdy)
  BY <1>1, <1>4, <1>9, InsertSortedEffect
<1>11. Elems(list) = {x \in N \ Elems(ord) : V(x) = {}}
  BY <1>1, <1>4, <1>5, <1>6, <1>10
<1>12. phase = "relax" => ord # << >> /\ \A x \in rest : ord[Len(ord)] \in D[x]
  BY <1>1 DEF h
<1>13. Work(N, D, phase, rest, new, list, ord)
  BY <1>1, <1>8, <1>10, <1>11, <1>12 DEF Work, V
<1>14. QED
  BY <1>13

\* An order has at most all components, and then each of them.
LEMMA FullOrder ==
  ASSUME NEW N, NEW D, Graph(N, D), NEW s, IsOrder(N, D, s)
  PROVE  /\ Len(s) <= Cardinality(N)
         /\ Len(s) = Cardinality(N) <=> Elems(s) = N
<1>1. Elems(s) \subseteq N /\ Cardinality(Elems(s)) = Len(s)
  BY OrderFacts
<1>2. IsFiniteSet(N)
  BY DEF Graph
<1>3. Cardinality(Elems(s)) <= Cardinality(N) /\ (Cardinality(N) = Cardinality(Elems(s)) => N = Elems(s))
  BY <1>1, <1>2, FS_Subset
<1>4. QED
  BY <1>1, <1>3

\* Components that are left when nothing is ready wait for each other.
LEMMA CycleFound ==
  ASSUME NEW N, NEW D, Graph(N, D), NEW left, NEW deg, NEW ord,
         Work(N, D, "take", left, deg, << >>, ord), Len(ord) # Cardinality(N)
  PROVE  Circular(N, D)
<1> DEFINE S == N \ Elems(ord)
<1>1. IsOrder(N, D, ord) /\ Elems(<< >>) = {c \in N \ Elems(ord) : Waits(D, "take", left, ord, c) = {}}
  BY DEF Work
<1>2. Elems(ord) \subseteq N /\ Elems(ord) # N
  BY <1>1, OrderFacts, FullOrder
<1>3. Elems(<< >>) = {}
  BY DEF Elems
<1>4. ASSUME NEW c \in S
      PROVE  D[c] \cap S # {}
  <2>1. Waits(D, "take", left, ord, c) # {}
    BY <1>1, <1>3
  <2>2. PICK d \in D[c] : d \notin Elems(ord)
    BY <2>1 DEF Waits
  <2>3. d \in N
    BY <2>2 DEF Graph
  <2>4. QED
    BY <2>2, <2>3
<1>5. S \in (SUBSET N) \ {{}}
  BY <1>2
<1>6. QED
  BY <1>4, <1>5 DEF Circular

\* Components that can all be ordered do not wait for each other.
LEMMA NoCycle ==
  ASSUME NEW N, NEW D, Graph(N, D), NEW s, IsOrder(N, D, s), Len(s) = Cardinality(N)
  PROVE  ~Circular(N, D)
<1> SUFFICES ASSUME NEW S \in (SUBSET N) \ {{}}, \A c \in S : D[c] \cap S # {}
             PROVE  FALSE
  BY DEF Circular
<1>1. Elems(s) = N
  BY FullOrder
<1>2. Len(s) \in Nat /\ \A i \in 1 .. Len(s) : D[s[i]] \subseteq Placed(s, i)
  BY OrderFacts
<1> DEFINE I == {i \in 1 .. Len(s) : s[i] \in S}
<1>3. I \in SUBSET Nat /\ I # {}
  BY <1>1, <1>2 DEF Elems
<1>4. PICK i \in I : \A j \in I : i <= j
  <2> HIDE DEF I
  <2>1. QED
    BY <1>3, LeastIndex
<1>5. PICK d \in D[s[i]] : d \in S
  BY <1>4
<1>6. PICK j \in 1 .. i - 1 : d = s[j]
  BY <1>2, <1>4, <1>5 DEF Placed
<1>7. j \in I /\ j < i
  BY <1>2, <1>4, <1>5, <1>6
<1>8. QED
  BY <1>2, <1>4, <1>7

\* What was ordered before determines what comes next.
LEMMA SameNext ==
  ASSUME NEW N, NEW D, Graph(N, D), NEW s, IsOrder(N, D, s), NEW t, IsOrder(N, D, t), Len(s) <= Len(t),
         \A i \in 1 .. Len(s) - 1 : s[i] = t[i]
  PROVE  \A i \in 1 .. Len(s) : s[i] = t[i]
<1> DEFINE n == Len(s)
<1>1. n \in Nat /\ Len(t) \in Nat /\ (\A i \in 1 .. n : s[i] \in N) /\ \A i \in 1 .. Len(t) : t[i] \in N
  BY OrderFacts
<1>2. CASE n = 0
  BY <1>2
<1>3. CASE n # 0
  <2>1. n \in 1 .. n /\ n \in 1 .. Len(t)
    BY <1>1, <1>3
  <2>2. Placed(s, n) = Placed(t, n)
    BY DEF Placed
  <2>3. Free(N, D, s, n) = Free(N, D, t, n)
    BY <2>2 DEF Free
  <2>4. s[n] <= t[n] /\ t[n] <= s[n]
    BY <2>1, <2>3 DEF IsOrder
  <2>5. s[n] \in Nat /\ t[n] \in Nat
    BY <1>1, <2>1 DEF Graph
  <2>6. s[n] = t[n]
    BY <2>4, <2>5
  <2> HIDE DEF n
  <2>7. \A i \in 1 .. n : i = n \/ i \in 1 .. n - 1
    BY <1>1
  <2>8. QED
    BY <2>6, <2>7 DEF n
<1>4. QED
  BY <1>2, <1>3

LEMMA SameOrder ==
  ASSUME NEW N, NEW D, Graph(N, D), NEW s, IsOrder(N, D, s), NEW t, IsOrder(N, D, t), Len(s) = Len(t),
         \A i \in 1 .. Len(s) : s[i] = t[i]
  PROVE  s = t
<1>1. s \in Seq(N) /\ t \in Seq(N)
  BY OrderFacts
<1>2. QED
  BY <1>1

-----------------------------------------------------------------------------
(* The three passes over the manifest. *)

Deps == [id \in Ids |-> DependsOn(id)]

Working == pc \in {"scan", "take", "relax"}

\* A plan that was built is the whole order; the pass that checks it follows
\* it position by position, so that it can end in nothing else.
PlanInv ==
  /\ manifest \in Seq([id : Id, dependsOn : SUBSET Id])
  /\ pass \in {"validateManifest", "BuildPlan", "validatePlan"}
  /\ pc \in {"validate", "scan", "take", "relax", "accepted", "refused"}
  /\ pass = "validatePlan" <=> plan # << >>
  /\ pc = "validate" => pass = "validateManifest"
  /\ Working => ManifestOK /\ Work(Ids, Deps, pc, todo, indegree, ready, order)
  /\ plan # << >> => ManifestOK /\ IsOrder(Ids, Deps, plan) /\ Len(plan) = Cardinality(Ids)
  /\ Working /\ plan # << >> => Len(order) <= Len(plan) /\ \A i \in 1 .. Len(order) : order[i] = plan[i]
  /\ pc = "refused" => plan = << >> /\ (ManifestOK => Circular(Ids, Deps))

LEMMA SameManifest ==
  ASSUME manifest' = manifest
  PROVE  Ids' = Ids /\ Deps' = Deps /\ (ManifestOK' <=> ManifestOK)
<1>1. Ids' = Ids /\ \A id : DependsOn(id)' = DependsOn(id)
  BY DEF Ids, DependsOn
<1>2. Deps' = Deps
  BY <1>1 DEF Deps
<1>3. ManifestOK' <=> ManifestOK
  BY <1>1 DEF ManifestOK
<1>4. QED
  BY <1>1, <1>2, <1>3

LEMMA ManifestIds ==
  ASSUME manifest \in Seq([id : Id, dependsOn : SUBSET Id])
  PROVE  Ids \subseteq Id
<1> DEFINE Entries == [id : Id, dependsOn : SUBSET Id]
<1>1. manifest \in Seq(Entries) /\ \A e \in Entries : e.id \in Id
  OBVIOUS
<1> HIDE DEF Entries
<1>2. \A i \in DOMAIN manifest : manifest[i] \in Entries
  BY <1>1
<1>3. QED
  BY <1>1, <1>2 DEF Ids

\* A manifest that was validated is a dependency graph.
LEMMA ManifestGraph ==
  ASSUME manifest \in Seq([id : Id, dependsOn : SUBSET Id]), ManifestOK
  PROVE  /\ Graph(Ids, Deps) /\ Cardinality(Ids) = Len(manifest) /\ Len(manifest) \in Nat /\ Len(manifest) # 0
         /\ \A c \in Ids : DependsOn(c) = Deps[c]
<1>1. Ids \subseteq Id
  BY ManifestIds
<1>2. Id \subseteq Nat /\ IsFiniteSet(Id)
  BY PlanAssumption
<1>3. IsFiniteSet(Ids)
  BY <1>1, <1>2, FS_Subset
<1>4. \A id \in Ids : DependsOn(id) \subseteq Ids
  BY DEF ManifestOK
<1>5. Deps \in [Ids -> SUBSET Ids] /\ \A c \in Ids : DependsOn(c) = Deps[c]
  BY <1>4 DEF Deps
<1>6. Cardinality(Ids) = Len(manifest) /\ Len(manifest) \in Nat /\ Len(manifest) # 0
  BY DEF ManifestOK
<1>7. QED
  BY <1>1, <1>2, <1>3, <1>5, <1>6 DEF Graph

\* The steps of a plan stand after their dependencies.
LEMMA EarlierInOrder ==
  ASSUME manifest \in Seq([id : Id, dependsOn : SUBSET Id]), ManifestOK, NEW s, IsOrder(Ids, Deps, s)
  PROVE  DependenciesEarlier(s)
<1>1. Graph(Ids, Deps) /\ \A c \in Ids : DependsOn(c) = Deps[c]
  BY ManifestGraph
<1>2. /\ s \in Seq(Ids) /\ (\A i \in 1 .. Len(s) : s[i] \in Ids)
      /\ \A i \in 1 .. Len(s) : Deps[s[i]] \subseteq Placed(s, i)
  BY <1>1, OrderFacts
<1>3. DOMAIN s = 1 .. Len(s)
  BY <1>2
<1>4. QED
  BY <1>1, <1>2, <1>3 DEF DependenciesEarlier, Placed

\* Every pass begins with nothing ordered.
LEMMA PassBegins ==
  ASSUME manifest \in Seq([id : Id, dependsOn : SUBSET Id]), ManifestOK, manifest' = manifest, BeginOrder
  PROVE  /\ Working' /\ pc' = "scan" /\ order' = << >>
         /\ Work(Ids, Deps, pc, todo, indegree, ready, order)'
<1>1. PICK N, D : N = Ids /\ D = Deps
  OBVIOUS
<1>2. Ids' = N /\ Deps' = D
  BY <1>1, SameManifest
<1>3. Graph(N, D) /\ \A c \in N : DependsOn(c) = D[c]
  BY <1>1, ManifestGraph
<1>4. pc' = "scan" /\ todo' = N /\ ready' = << >> /\ order' = << >>
  BY <1>1 DEF BeginOrder
<1>5. indegree' = [c \in N |-> Cardinality(D[c])]
  BY <1>1, <1>3 DEF BeginOrder
<1>6. Work(N, D, "scan", N, indegree', << >>, << >>)
  BY <1>3, <1>5, BeginWork
<1>7. Work(Ids, Deps, pc, todo, indegree, ready, order)'
  BY <1>2, <1>4, <1>6
<1>8. QED
  BY <1>4, <1>7 DEF Working

\* In every pass the list being built is a beginning of the order, whatever
\* order the maps are walked in.
THEOREM PlanInvariant == Spec => []PlanInv
<1>1. Init => PlanInv
  BY PlanAssumption DEF Init, PlanInv, Working
<1>2. PlanInv /\ [Next]_vars => PlanInv'
  <2> SUFFICES ASSUME PlanInv, [Next]_vars
               PROVE  PlanInv'
    OBVIOUS
  <2>0. CASE UNCHANGED vars
    <3>1. manifest' = manifest /\ pass' = pass /\ pc' = pc /\ plan' = plan /\ todo' = todo
          /\ indegree' = indegree /\ ready' = ready /\ order' = order
      BY <2>0 DEF vars
    <3>2. Ids' = Ids /\ Deps' = Deps /\ (ManifestOK' <=> ManifestOK)
      BY <3>1, SameManifest
    <3>3. QED
      BY <3>1, <3>2 DEF PlanInv, Working
  <2>1. CASE ValidateManifest
    <3>0. manifest' = manifest /\ plan' = plan /\ pass' = pass /\ pc = "validate"
      BY <2>1 DEF ValidateManifest
    <3>a. plan = << >> /\ pass = "validateManifest" /\ manifest \in Seq([id : Id, dependsOn : SUBSET Id])
      BY <3>0 DEF PlanInv
    <3>1. CASE ManifestOK
      <4>1. BeginOrder
        BY <2>1, <3>1 DEF ValidateManifest
      <4>2. /\ Working' /\ pc' = "scan" /\ order' = << >>
            /\ Work(Ids, Deps, pc, todo, indegree, ready, order)'
        BY <3>0, <3>1, <3>a, <4>1, PassBegins
      <4>3. ManifestOK'
        BY <3>0, <3>1, SameManifest
      <4>4. QED
        BY <3>0, <3>a, <4>2, <4>3 DEF PlanInv
    <3>2. CASE ~ManifestOK
      <4>1. pc' = "refused"
        BY <2>1, <3>2 DEF ValidateManifest, Refuse
      <4>2. ~ManifestOK'
        BY <3>0, <3>2, SameManifest
      <4>3. QED
        BY <3>0, <3>a, <4>1, <4>2 DEF PlanInv, Working
    <3>3. QED
      BY <3>1, <3>2
  <2>2. ASSUME NEW id \in Id, Scan(id)
        PROVE  PlanInv'
    <3>0. manifest' = manifest /\ plan' = plan /\ pass' = pass /\ pc = "scan" /\ Working /\ order' = order
      BY <2>2 DEF Scan, Working
    <3>1. /\ manifest \in Seq([id : Id, dependsOn : SUBSET Id]) /\ ManifestOK
          /\ Work(Ids, Deps, "scan", todo, indegree, ready, order)
      BY <3>0 DEF PlanInv
    <3>2. PICK N, D : N = Ids /\ D = Deps
      OBVIOUS
    <3>3. Graph(N, D) /\ Cardinality(N) = Len(manifest)
      BY <3>1, <3>2, ManifestGraph
    <3>4. Ids' = N /\ Deps' = D /\ ManifestOK'
      BY <3>0, <3>1, <3>2, SameManifest
    <3>5. /\ id \in todo /\ todo' = todo \ {id} /\ indegree' = indegree
          /\ ready' = IF indegree[id] = 0 THEN InsertSorted(ready, id) ELSE ready
          /\ pc' = IF todo \ {id} = {} THEN "take" ELSE "scan"
      BY <2>2 DEF Scan
    <3>6. Work(N, D, IF todo \ {id} = {} THEN "take" ELSE "scan", todo \ {id}, indegree,
               IF indegree[id] = 0 THEN InsertSorted(ready, id) ELSE ready, order)
      BY <3>1, <3>2, <3>3, <3>5, ScanStep
    <3>7. Work(Ids, Deps, pc, todo, indegree, ready, order)'
      BY <3>0, <3>4, <3>5, <3>6
    <3>8. QED
      BY <3>0, <3>2, <3>4, <3>5, <3>7 DEF PlanInv, Working
  <2>3. ASSUME NEW id \in Id, Relax(id)
        PROVE  PlanInv'
    <3>0. manifest' = manifest /\ plan' = plan /\ pass' = pass /\ pc = "relax" /\ Working /\ order' = order
      BY <2>3 DEF Relax, Working
    <3>1. /\ manifest \in Seq([id : Id, dependsOn : SUBSET Id]) /\ ManifestOK
          /\ Work(Ids, Deps, "relax", todo, indegree, ready, order)
      BY <3>0 DEF PlanInv
    <3>2. PICK N, D : N = Ids /\ D = Deps
      OBVIOUS
    <3>3. Graph(N, D) /\ Cardinality(N) = Len(manifest)
      BY <3>1, <3>2, ManifestGraph
    <3>4. Ids' = N /\ Deps' = D /\ ManifestOK'
      BY <3>0, <3>1, <3>2, SameManifest
    <3>5. /\ id \in todo /\ todo' = todo \ {id} /\ indegree' = [indegree EXCEPT ![id] = indegree[id] - 1]
          /\ ready' = IF indegree'[id] = 0 THEN InsertSorted(ready, id) ELSE ready
          /\ pc' = IF todo \ {id} = {} THEN "take" ELSE "relax"
      BY <2>3 DEF Relax
    <3>6. Work(N, D, IF todo \ {id} = {} THEN "take" ELSE "relax", todo \ {id}, indegree',
               IF indegree'[id] = 0 THEN InsertSorted(ready, id) ELSE ready, order)
      <4>1. PICK new : new = indegree'
        OBVIOUS
      <4>2. Work(N, D, "relax", todo, indegree, ready, order)
        BY <3>1, <3>2
      <4>3. new = [indegree EXCEPT ![id] = indegree[id] - 1] /\ id \in todo
        BY <3>5, <4>1
      <4>a. new \in [N -> Int] /\ \A x \in N : new[x] = IF x = id THEN indegree[x] - 1 ELSE indegree[x]
        <5>1. indegree \in [N -> Nat] /\ id \in N
          BY <4>2, <4>3 DEF Work
        <5>2. QED
          BY <4>3, <5>1
      <4>b. PICK rest, phase, list :
              /\ rest = todo \ {id} /\ phase = IF rest = {} THEN "take" ELSE "relax"
              /\ list = IF new[id] = 0 THEN InsertSorted(ready, id) ELSE ready
        OBVIOUS
      <4>4. Work(N, D, phase, rest, new, list, order)
        BY <3>3, <4>2, <4>3, <4>a, <4>b, RelaxStep, ZenonT(60)
      <4>5. QED
        BY <4>1, <4>b, <4>4
    <3>7. Work(Ids, Deps, pc, todo, indegree, ready, order)'
      BY <3>0, <3>4, <3>5, <3>6
    <3>8. QED
      BY <3>0, <3>2, <3>4, <3>5, <3>7 DEF PlanInv, Working
  <2>4. CASE Take
    <3>0. manifest' = manifest /\ plan' = plan /\ pass' = pass /\ pc = "take" /\ Working
      BY <2>4 DEF Take, Working
    <3>1. /\ manifest \in Seq([id : Id, dependsOn : SUBSET Id]) /\ ManifestOK
          /\ Work(Ids, Deps, "take", todo, indegree, ready, order)
      BY <3>0 DEF PlanInv
    <3>2. PICK N, D : N = Ids /\ D = Deps
      OBVIOUS
    <3>3. Graph(N, D) /\ Cardinality(N) = Len(manifest)
      BY <3>1, <3>2, ManifestGraph
    <3>4. Ids' = N /\ Deps' = D /\ ManifestOK'
      BY <3>0, <3>1, <3>2, SameManifest
    <3>5. /\ ready # << >> /\ order' = Append(order, Head(ready)) /\ ready' = Tail(ready) /\ indegree' = indegree
          /\ todo' = Children(Head(ready)) /\ pc' = IF todo' = {} THEN "take" ELSE "relax"
      BY <2>4 DEF Take
    <3>6. todo' = {c \in N : Head(ready) \in D[c]}
      BY <3>2, <3>5 DEF Children, Deps
    <3>7. Work(N, D, IF todo' = {} THEN "take" ELSE "relax", todo', indegree, Tail(ready), order')
      <4>1. PICK next : next = todo'
        OBVIOUS
      <4>2. Work(N, D, "take", todo, indegree, ready, order)
        BY <3>1, <3>2
      <4>3. next = {c \in N : Head(ready) \in D[c]} /\ ready # << >>
        BY <3>5, <3>6, <4>1
      <4>a. next \in SUBSET N /\ \A c \in N : c \in next <=> Head(ready) \in D[c]
        BY <4>3
      <4>b. PICK phase, new : phase = (IF next = {} THEN "take" ELSE "relax") /\ new = Append(order, Head(ready))
        OBVIOUS
      <4>c. Graph(N, D) /\ ready # << >>
        BY <3>3, <4>3
      <4>4. Work(N, D, phase, next, indegree, Tail(ready), new)
        BY <4>2, <4>a, <4>b, <4>c, TakeStep, Zenon
      <4>5. new = order'
        BY <3>5, <4>b
      <4>6. QED
        BY <4>1, <4>b, <4>4, <4>5
    <3>8. Work(Ids, Deps, pc, todo, indegree, ready, order)'
      BY <3>4, <3>5, <3>7
    <3>9. ASSUME plan # << >>
          PROVE  Len(order') <= Len(plan) /\ \A i \in 1 .. Len(order') : order'[i] = plan[i]
      <4>1. IsOrder(N, D, plan) /\ Len(plan) = Cardinality(N) /\ \A i \in 1 .. Len(order) : order[i] = plan[i]
        BY <3>0, <3>2, <3>9 DEF PlanInv
      <4>2. IsOrder(N, D, order') /\ IsOrder(N, D, order)
        BY <3>1, <3>2, <3>7 DEF Work
      <4>3. order \in Seq(N) /\ Len(order) \in Nat
        BY <3>3, <4>2, OrderFacts
      <4>a. Len(order') = Len(order) + 1 /\ \A i \in 1 .. Len(order) : order'[i] = order[i]
        BY <3>5, <4>3
      <4>4. Len(order') <= Len(plan) /\ Len(order') - 1 = Len(order)
        BY <3>3, <4>1, <4>2, <4>3, <4>a, FullOrder
      <4>5. \A i \in 1 .. Len(order') - 1 : order'[i] = plan[i]
        BY <4>1, <4>4, <4>a
      <4>6. \A i \in 1 .. Len(order') : order'[i] = plan[i]
        BY <3>3, <4>1, <4>2, <4>4, <4>5, SameNext
      <4>7. QED
        BY <4>4, <4>6
    <3>10. pc' \in {"take", "relax"}
      BY <3>5
    <3>11. QED
      BY <3>0, <3>2, <3>4, <3>8, <3>9, <3>10 DEF PlanInv, Working
  <2>5. CASE Cyclic
    <3>0. manifest' = manifest /\ plan' = plan /\ pass' = pass /\ pc = "take" /\ Working /\ pc' = "refused"
      BY <2>5 DEF Cyclic, Refuse, Working
    <3>1. /\ manifest \in Seq([id : Id, dependsOn : SUBSET Id]) /\ ManifestOK
          /\ Work(Ids, Deps, "take", todo, indegree, ready, order)
      BY <3>0 DEF PlanInv
    <3>2. PICK N, D : N = Ids /\ D = Deps
      OBVIOUS
    <3>3. Graph(N, D) /\ Cardinality(N) = Len(manifest)
      BY <3>1, <3>2, ManifestGraph
    <3>4. Ids' = N /\ Deps' = D /\ ManifestOK'
      BY <3>0, <3>1, <3>2, SameManifest
    <3>5. Work(N, D, "take", todo, indegree, << >>, order) /\ Len(order) # Cardinality(N)
      BY <2>5, <3>1, <3>2, <3>3 DEF Cyclic
    <3>6. Circular(N, D)
      BY <3>3, <3>5, CycleFound
    <3>7. plan = << >>
      <4>1. SUFFICES ASSUME plan # << >>
                     PROVE  FALSE
        OBVIOUS
      <4>2. IsOrder(N, D, plan) /\ Len(plan) = Cardinality(N)
        BY <3>2, <4>1 DEF PlanInv
      <4>3. QED
        BY <3>3, <3>6, <4>2, NoCycle
    <3>8. QED
      BY <3>0, <3>4, <3>6, <3>7 DEF PlanInv, Working
  <2>6. CASE ManifestValid
    <3>0. manifest' = manifest /\ plan' = plan /\ pass' = "BuildPlan" /\ pass = "validateManifest" /\ Working /\ BeginOrder
      BY <2>6 DEF ManifestValid, Ordered, Working
    <3>1. manifest \in Seq([id : Id, dependsOn : SUBSET Id]) /\ ManifestOK /\ plan = << >>
      BY <3>0 DEF PlanInv
    <3>2. Working' /\ pc' = "scan" /\ Work(Ids, Deps, pc, todo, indegree, ready, order)'
      BY <3>0, <3>1, PassBegins
    <3>3. ManifestOK'
      BY <3>0, <3>1, SameManifest
    <3>4. QED
      BY <3>0, <3>1, <3>2, <3>3 DEF PlanInv
  <2>7. CASE PlanBuilt
    <3>0. manifest' = manifest /\ plan' = order /\ pass' = "validatePlan" /\ pc = "take" /\ Working
          /\ Len(order) = Len(manifest)
      BY <2>7 DEF PlanBuilt, Ordered, Working
    <3>1. /\ manifest \in Seq([id : Id, dependsOn : SUBSET Id]) /\ ManifestOK
          /\ Work(Ids, Deps, "take", todo, indegree, ready, order)
      BY <3>0 DEF PlanInv
    <3>2. PICK N, D : N = Ids /\ D = Deps
      OBVIOUS
    <3>3. Graph(N, D) /\ Cardinality(N) = Len(manifest)
      BY <3>1, <3>2, ManifestGraph
    <3>4. Ids' = N /\ Deps' = D /\ ManifestOK'
      BY <3>0, <3>1, <3>2, SameManifest
    <3>5. IsOrder(N, D, order) /\ Len(order) = Cardinality(N) /\ Len(order) # 0
      <4>1. IsOrder(N, D, order)
        BY <3>1, <3>2 DEF Work
      <4>2. QED
        BY <3>0, <3>1, <3>3, <4>1, ManifestGraph
    <3>6. BeginOrder
      <4>1. DependenciesEarlier(order)
        BY <3>1, <3>2, <3>5, EarlierInOrder
      <4>2. QED
        BY <2>7, <4>1 DEF PlanBuilt
    <3>7. Working' /\ pc' = "scan" /\ order' = << >> /\ Work(Ids, Deps, pc, todo, indegree, ready, order)'
      BY <3>0, <3>1, <3>6, PassBegins
    <3>8. order # << >> /\ Len(order') = 0 /\ 0 <= Len(order)
      <4>1. Len(order) \in Nat /\ Len(<< >>) = 0
        BY <3>3, <3>5, OrderFacts
      <4>2. QED
        BY <3>5, <3>7, <4>1
    <3>9. IsOrder(Ids, Deps, plan)' /\ Len(plan') = Cardinality(Ids')
      BY <3>0, <3>4, <3>5
    <3>10. Len(order') <= Len(plan') /\ \A i \in 1 .. Len(order') : order'[i] = plan'[i]
      BY <3>0, <3>8
    <3>11. QED
      BY <3>0, <3>1, <3>4, <3>7, <3>8, <3>9, <3>10 DEF PlanInv
  <2>8. CASE PlanValidated
    <3>0. manifest' = manifest /\ plan' = plan /\ pass' = pass /\ pass = "validatePlan" /\ pc = "take" /\ Working
          /\ Len(order) = Len(manifest)
      BY <2>8 DEF PlanValidated, Ordered, Working
    <3>1. /\ manifest \in Seq([id : Id, dependsOn : SUBSET Id]) /\ ManifestOK
          /\ Work(Ids, Deps, "take", todo, indegree, ready, order)
      BY <3>0 DEF PlanInv
    <3>2. PICK N, D : N = Ids /\ D = Deps
      OBVIOUS
    <3>3. Graph(N, D) /\ Cardinality(N) = Len(manifest)
      BY <3>1, <3>2, ManifestGraph
    <3>4. Ids' = N /\ Deps' = D /\ ManifestOK'
      BY <3>0, <3>1, <3>2, SameManifest
    <3>5. IsOrder(N, D, order) /\ Len(order) = Cardinality(N)
      BY <3>0, <3>1, <3>2, <3>3 DEF Work
    <3>6. plan # << >>
      BY <3>0 DEF PlanInv
    <3>7. IsOrder(N, D, plan) /\ Len(plan) = Cardinality(N) /\ \A i \in 1 .. Len(order) : order[i] = plan[i]
      BY <3>0, <3>2, <3>6 DEF PlanInv
    <3>8. order = plan
      BY <3>3, <3>5, <3>7, SameOrder
    <3>9. pc' = "accepted"
      BY <2>8, <3>8 DEF PlanValidated
    <3>10. QED
      BY <3>0, <3>2, <3>4, <3>6, <3>7, <3>9 DEF PlanInv, Working
  <2>9. QED
    BY <2>0, <2>1, <2>2, <2>3, <2>4, <2>5, <2>6, <2>7, <2>8 DEF Next
<1>3. QED
  BY <1>1, <1>2, PTL DEF Spec
\* The plan that BuildPlan returns lists every component once, at every
\* position the smallest whose dependencies stand before it: the order in
\* which the maps are walked does not matter.
THEOREM PlanTheorem == Spec => []PlanIsTheOrder
<1>1. PlanInv => PlanIsTheOrder
  <2> SUFFICES ASSUME PlanInv, plan # << >>
               PROVE  /\ Len(plan) = Cardinality(Ids)
                      /\ \A i \in DOMAIN plan : plan[i] \in Eligible(i) /\ \A c \in Eligible(i) : plan[i] <= c
    BY DEF PlanIsTheOrder
  <2>1. IsOrder(Ids, Deps, plan) /\ Len(plan) = Cardinality(Ids)
    BY DEF PlanInv
  <2>2. plan \in Seq(Ids) /\ DOMAIN plan = 1 .. Len(plan)
    BY <2>1 DEF IsOrder
  <2>3. \A i : Free(Ids, Deps, plan, i) = Eligible(i)
    BY DEF Free, Eligible, Placed, Before, Deps
  <2>4. \A i \in 1 .. Len(plan) : /\ plan[i] \in Free(Ids, Deps, plan, i)
                                  /\ \A c \in Free(Ids, Deps, plan, i) : plan[i] <= c
    BY <2>1 DEF IsOrder
  <2>5. QED
    BY <2>1, <2>2, <2>3, <2>4
<1>2. QED
  BY <1>1, PlanInvariant, PTL

\* A manifest that passes the other checks is refused only for components that
\* wait for each other, and a plan that was built passes validatePlan.
THEOREM RefusalTheorem == Spec => []RefusedOnlyForCycles
<1>1. PlanInv => RefusedOnlyForCycles
  <2> SUFFICES ASSUME PlanInv, pc = "refused"
               PROVE  plan = << >> /\ (ManifestOK => \E S \in (SUBSET Ids) \ {{}} :
                                         \A c \in S : DependsOn(c) \cap S # {})
    BY DEF RefusedOnlyForCycles
  <2>1. plan = << >> /\ (ManifestOK => Circular(Ids, Deps))
    BY DEF PlanInv
  <2>2. Circular(Ids, Deps) => \E S \in (SUBSET Ids) \ {{}} : \A c \in S : DependsOn(c) \cap S # {}
    BY DEF Circular, Deps
  <2>3. QED
    BY <2>1, <2>2
<1>2. QED
  BY <1>1, PlanInvariant, PTL

-----------------------------------------------------------------------------
(* There is one plan at most, and none for a cyclic manifest. *)

LEMMA UniqueOrder ==
  ASSUME NEW N, NEW D, Graph(N, D), NEW s, IsOrder(N, D, s), NEW t, IsOrder(N, D, t), Len(s) = Len(t)
  PROVE  s = t
<1> DEFINE I == {i \in 1 .. Len(s) : s[i] # t[i]}
<1>1. Len(s) \in Nat /\ (\A i \in 1 .. Len(s) : s[i] \in Nat) /\ \A i \in 1 .. Len(s) : t[i] \in Nat
  BY OrderFacts DEF Graph
<1>2. CASE I = {}
  BY <1>2, SameOrder
<1>3. CASE I # {}
  <2>1. I \in SUBSET Nat
    BY <1>1
  <2> HIDE DEF I
  <2>2. PICK i \in I : \A j \in I : i <= j
    BY <1>3, <2>1, LeastIndex
  <2> USE DEF I
  <2>3. i \in 1 .. Len(s) /\ \A j \in 1 .. i - 1 : s[j] = t[j]
    BY <1>1, <2>2
  <2>4. Placed(s, i) = Placed(t, i)
    BY <2>3 DEF Placed
  <2>5. Free(N, D, s, i) = Free(N, D, t, i)
    BY <2>4 DEF Free
  <2>6. s[i] <= t[i] /\ t[i] <= s[i]
    BY <2>3, <2>5 DEF IsOrder
  <2>7. QED
    BY <1>1, <2>2, <2>3, <2>6
<1>4. QED
  BY <1>2, <1>3

\* What a plan says of its manifest: the manifest is valid, no components wait
\* for each other, and no other list of its components is in the order of
\* dependencyOrder.
PlanIsDetermined ==
  plan # << >> =>
    /\ ManifestOK
    /\ \A S \in (SUBSET Ids) \ {{}} : \E c \in S : DependsOn(c) \cap S = {}
    /\ \A s : IsOrder(Ids, Deps, s) /\ Len(s) = Cardinality(Ids) => s = plan

\* A manifest has one plan at most: two runs that walk their maps in different
\* orders, or on different machines, write the same plan and the same digest.
THEOREM DeterminedTheorem == Spec => []PlanIsDetermined
<1>1. ASSUME PlanInv
      PROVE  PlanIsDetermined
  <2> SUFFICES ASSUME plan # << >>
               PROVE  /\ ManifestOK
                      /\ \A S \in (SUBSET Ids) \ {{}} : \E c \in S : DependsOn(c) \cap S = {}
                      /\ \A s : IsOrder(Ids, Deps, s) /\ Len(s) = Cardinality(Ids) => s = plan
    BY DEF PlanIsDetermined
  <2>1. ManifestOK /\ IsOrder(Ids, Deps, plan) /\ Len(plan) = Cardinality(Ids)
    BY <1>1 DEF PlanInv
  <2>2. Graph(Ids, Deps) /\ \A c \in Ids : DependsOn(c) = Deps[c]
    BY <1>1, <2>1, ManifestGraph DEF PlanInv
  <2>3. ~Circular(Ids, Deps)
    BY <2>1, <2>2, NoCycle
  <2>4. \A S \in (SUBSET Ids) \ {{}} : \E c \in S : DependsOn(c) \cap S = {}
    BY <2>2, <2>3 DEF Circular
  <2>5. ASSUME NEW s, IsOrder(Ids, Deps, s), Len(s) = Cardinality(Ids)
        PROVE  s = plan
    BY <2>1, <2>2, <2>5, UniqueOrder
  <2>6. QED
    BY <2>1, <2>4, <2>5
<1>2. QED
  BY <1>1, PlanInvariant, PTL

-----------------------------------------------------------------------------
(* Why planning ends: the part of Terminates that is not about fairness. *)

Ended == pc \in {"accepted", "refused"}

\* What is left to do, the most significant part first: passes, components to
\* order in this pass, components to visit in this loop.
PassesLeft ==
  IF Ended THEN 0 ELSE IF pc = "validate" THEN 4
  ELSE IF pass = "validateManifest" THEN 3 ELSE IF pass = "BuildPlan" THEN 2 ELSE 1

Unordered == Cardinality(Ids) - Len(order)
Unvisited == Cardinality(todo)

LessIsLeft ==
  \/ PassesLeft' < PassesLeft
  \/ /\ PassesLeft' = PassesLeft
     /\ \/ Unordered' < Unordered
        \/ Unordered' = Unordered /\ Unvisited' < Unvisited

\* These are numbers, so that there is no end to less of them but an end.
LeftIsNumbers ==
  /\ PassesLeft \in Nat
  /\ Working => Unordered \in Nat /\ Unvisited \in Nat

\* The guard of some action holds.
CanGoOn ==
  \/ pc = "validate"
  \/ pc \in {"scan", "relax"} /\ todo \cap Id # {}
  \/ pc = "take" /\ ready # << >>
  \/ pc = "take" /\ ready = << >> /\ Len(order) # Len(manifest)
  \/ Ordered /\ pass \in {"validateManifest", "BuildPlan", "validatePlan"}

\* A loop that began has something to visit.
VisitInv == pc \in {"scan", "relax"} => todo # {}

LEMMA LeftTypes ==
  ASSUME PlanInv
  PROVE  LeftIsNumbers
<1>1. PassesLeft \in Nat
  BY DEF PassesLeft
<1>2. ASSUME Working
      PROVE  Unordered \in Nat /\ Unvisited \in Nat
  <2>1. Graph(Ids, Deps) /\ IsOrder(Ids, Deps, order) /\ todo \subseteq Ids
    BY <1>2, ManifestGraph DEF PlanInv, Work
  <2>2. Len(order) \in Nat /\ Len(order) <= Cardinality(Ids) /\ IsFiniteSet(Ids) /\ IsFiniteSet(todo)
    BY <2>1, OrderFacts, FullOrder, FS_Subset DEF Graph
  <2>3. Cardinality(Ids) \in Nat /\ Cardinality(todo) \in Nat
    BY <2>2, FS_CardinalityType
  <2>4. QED
    BY <2>2, <2>3 DEF Unordered, Unvisited
<1>3. QED
  BY <1>1, <1>2 DEF LeftIsNumbers

LEMMA VisitInvariant == Spec => []VisitInv
<1>1. Init => VisitInv
  BY DEF Init, VisitInv
<1>2. ASSUME PlanInv, VisitInv, [Next]_vars
      PROVE  VisitInv'
  <2> SUFFICES ASSUME pc' \in {"scan", "relax"}
               PROVE  todo' # {}
    BY DEF VisitInv
  <2>0. CASE UNCHANGED vars
    BY <1>2, <2>0 DEF VisitInv, vars
  <2>1. ASSUME BeginOrder, ManifestOK
        PROVE  todo' # {}
    <3>1. Ids # {}
      <4>1. Cardinality(Ids) # 0
        BY <2>1 DEF ManifestOK
      <4>2. QED
        BY <4>1, FS_EmptySet
    <3>2. QED
      BY <2>1, <3>1 DEF BeginOrder
  <2>2. CASE ValidateManifest
    BY <2>1, <2>2 DEF ValidateManifest, Refuse
  <2>3. CASE \E id \in Id : Scan(id) \/ Relax(id)
    BY <2>3 DEF Scan, Relax
  <2>4. CASE Take
    BY <2>4 DEF Take
  <2>5. CASE Cyclic
    BY <2>5 DEF Cyclic, Refuse
  <2>6. CASE ManifestValid
    BY <1>2, <2>1, <2>6 DEF ManifestValid, Ordered, PlanInv, Working
  <2>7. CASE PlanBuilt
    BY <1>2, <2>1, <2>7 DEF PlanBuilt, Ordered, PlanInv, Working, Refuse
  <2>8. CASE PlanValidated
    BY <2>8 DEF PlanValidated, Ordered, Refuse
  <2>9. QED
    BY <1>2, <2>0, <2>2, <2>3, <2>4, <2>5, <2>6, <2>7, <2>8 DEF Next
<1>3. QED
  BY <1>1, <1>2, PlanInvariant, PTL DEF Spec

\* Every step of planning leaves less to do: a pass, a component to order or a
\* component to visit; and until the end there is a step to take.  So planning
\* ends on every manifest, however long, once its steps are taken.
THEOREM ForwardTheorem ==
  Spec => [][LessIsLeft]_vars /\ []LeftIsNumbers /\ [](Ended \/ CanGoOn)
<1>1. ASSUME PlanInv, Next
      PROVE  LessIsLeft
  <2>0. pass \in {"validateManifest", "BuildPlan", "validatePlan"} /\ pc \in {"validate", "scan", "take", "relax", "accepted", "refused"}
    BY <1>1 DEF PlanInv
  <2>1. CASE ValidateManifest
    <3>1. pc = "validate" /\ pass' = pass /\ pc' \in {"scan", "refused"}
      BY <2>1 DEF ValidateManifest, BeginOrder, Refuse
    <3>2. PassesLeft = 4 /\ PassesLeft' \in 0 .. 3
      BY <3>1 DEF PassesLeft, Ended
    <3>3. QED
      BY <3>2 DEF LessIsLeft
  <2>2. ASSUME NEW id \in Id, Scan(id) \/ Relax(id)
        PROVE  LessIsLeft
    <3>1. /\ pc \in {"scan", "relax"} /\ pc' \in {"scan", "relax", "take"} /\ pass' = pass
          /\ manifest' = manifest /\ order' = order /\ id \in todo /\ todo' = todo \ {id}
      BY <2>2 DEF Scan, Relax
    <3>2. PassesLeft' = PassesLeft
      BY <3>1 DEF PassesLeft, Ended
    <3>3. Unordered' = Unordered
      BY <3>1, SameManifest DEF Unordered
    <3>4. Unvisited' < Unvisited
      <4>1. IsFiniteSet(todo)
        <5>1. Graph(Ids, Deps) /\ todo \subseteq Ids
          BY <1>1, <3>1, ManifestGraph DEF PlanInv, Work, Working
        <5>2. QED
          BY <5>1, FS_Subset DEF Graph
      <4>2. Cardinality(todo) \in Nat /\ Cardinality(todo \ {id}) = Cardinality(todo) - 1
        BY <3>1, <4>1, FS_CardinalityType, FS_RemoveElement
      <4>3. QED
        BY <3>1, <4>2 DEF Unvisited
    <3>5. QED
      BY <3>2, <3>3, <3>4 DEF LessIsLeft
  <2>3. CASE Take
    <3>1. /\ pc = "take" /\ pc' \in {"relax", "take"} /\ pass' = pass /\ manifest' = manifest
          /\ order' = Append(order, Head(ready))
      BY <2>3 DEF Take
    <3>2. PassesLeft' = PassesLeft
      BY <3>1 DEF PassesLeft, Ended
    <3>3. Unordered' < Unordered
      <4>1. Graph(Ids, Deps) /\ IsOrder(Ids, Deps, order)
        BY <1>1, <3>1, ManifestGraph DEF PlanInv, Work, Working
      <4>2. Len(order) \in Nat /\ order \in Seq(Ids) /\ Cardinality(Ids) \in Nat
        BY <4>1, OrderFacts, FS_CardinalityType DEF Graph
      <4>3. Len(order') = Len(order) + 1
        BY <3>1, <4>2
      <4>4. Ids' = Ids
        BY <3>1, SameManifest
      <4>5. QED
        BY <4>2, <4>3, <4>4 DEF Unordered
    <3>4. QED
      BY <3>2, <3>3 DEF LessIsLeft
  <2>4. CASE Cyclic
    <3>1. pc = "take" /\ pc' = "refused"
      BY <2>4 DEF Cyclic, Refuse
    <3>2. QED
      BY <2>0, <3>1 DEF PassesLeft, Ended, LessIsLeft
  <2>5. CASE ManifestValid
    <3>1. pc = "take" /\ pc' = "scan" /\ pass = "validateManifest" /\ pass' = "BuildPlan"
      BY <2>5 DEF ManifestValid, Ordered, BeginOrder
    <3>2. QED
      BY <3>1 DEF PassesLeft, Ended, LessIsLeft
  <2>6. CASE PlanBuilt
    <3>1. pc = "take" /\ pc' \in {"scan", "refused"} /\ pass = "BuildPlan" /\ pass' = "validatePlan"
      BY <2>6 DEF PlanBuilt, Ordered, BeginOrder, Refuse
    <3>2. QED
      BY <3>1 DEF PassesLeft, Ended, LessIsLeft
  <2>7. CASE PlanValidated
    <3>1. pc = "take" /\ pc' \in {"accepted", "refused"}
      BY <2>7 DEF PlanValidated, Ordered, Refuse
    <3>2. QED
      BY <2>0, <3>1 DEF PassesLeft, Ended, LessIsLeft
  <2>8. QED
    BY <1>1, <2>1, <2>2, <2>3, <2>4, <2>5, <2>6, <2>7 DEF Next
<1>2. ASSUME PlanInv, VisitInv
      PROVE  Ended \/ CanGoOn
  <2>1. CASE pc \in {"scan", "relax"}
    <3>1. todo # {} /\ todo \subseteq Ids
      BY <1>2, <2>1 DEF PlanInv, VisitInv, Work, Working
    <3>2. Ids \subseteq Id
      BY <1>2, ManifestIds DEF PlanInv
    <3>3. QED
      BY <2>1, <3>1, <3>2 DEF CanGoOn
  <2>2. CASE pc \notin {"scan", "relax"}
    BY <1>2, <2>2 DEF PlanInv, Ended, CanGoOn, Ordered
  <2>3. QED
    BY <2>1, <2>2
<1>3. QED
  BY <1>1, <1>2, LeftTypes, PlanInvariant, VisitInvariant, PTL DEF Spec
=============================================================================
