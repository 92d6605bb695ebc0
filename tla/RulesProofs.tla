----------------------------- MODULE RulesProofs -----------------------------
(***************************************************************************)
(* Proofs about the sequential rules, for inputs of any length: what the   *)
(* positions of findings are (Lines), what is kept of a tool's output      *)
(* (Reports) and what an archive makes of a workspace (Workspaces).        *)
(* Induction is through sets of numbers (Counting) and of subsets          *)
(* (Gathering).  A recursive definition or a fold is used after a function *)
(* that satisfies it has been found (Recursion, Folding), and then step by *)
(* step.                                                                   *)
(***************************************************************************)
EXTENDS Lines, Reports, SequenceTheorems, WellFoundedInduction, FiniteSetTheorems, TLAPS

(***************************************************************************)
(* Induction, recursive definitions and folds.                             *)
(***************************************************************************)

LEMMA Counting ==
  ASSUME NEW A, 0 \in A, \A i \in Nat : i \in A => i + 1 \in A
  PROVE  Nat \subseteq A
<1>1. SUFFICES ASSUME Nat \ A # {} PROVE FALSE
  OBVIOUS
<1>2. PICK x \in Nat \ A : \A y \in Nat \ A : <<y, x>> \notin OpToRel(<, Nat)
  BY <1>1, NatLessThanWellFounded, WFMin
<1>3. x # 0 /\ x - 1 \in Nat
  <2>1. x # 0
    BY 0 \in A, x \in Nat \ A, Zenon
  <2> QED
    BY <2>1
<1>4. <<x - 1, x>> \in OpToRel(<, Nat)
  BY <1>3 DEF OpToRel
<1>5. x - 1 \in A
  BY <1>2, <1>3, <1>4
<1> QED
  BY <1>3, <1>5

\* f makes the steps G from base, one after the other.
IsChain(f, G, base, n) == f[0] = base /\ \A i \in 1 .. n : f[i] = G[i][f[i - 1]]

\* Such a function exists.
LEMMA Recursion ==
  ASSUME NEW n \in Nat, NEW D, NEW base \in D, NEW G \in [1 .. n -> [D -> D]]
  PROVE  \E f \in [0 .. n -> D] : IsChain(f, G, base, n)
<1> DEFINE Good(k, f) == f[0] = base /\ \A i \in 1 .. k : f[i] = G[i][f[i - 1]]
           A == {k \in Nat : k <= n => \E f \in [0 .. k -> D] : Good(k, f)}
<1>1. 0 \in A
  <2>1. Good(0, [i \in 0 .. 0 |-> base])
    OBVIOUS
  <2> QED
    BY <2>1
<1>2. ASSUME NEW k \in Nat, k \in A PROVE k + 1 \in A
  <2>1. SUFFICES ASSUME k + 1 <= n PROVE \E f \in [0 .. k + 1 -> D] : Good(k + 1, f)
    OBVIOUS
  <2>2. PICK f \in [0 .. k -> D] : Good(k, f)
    BY <1>2, <2>1
  <2> DEFINE g == [i \in 0 .. k + 1 |-> IF i = k + 1 THEN G[k + 1][f[k]] ELSE f[i]]
  <2>3. g \in [0 .. k + 1 -> D]
    BY <2>1
  <2>4. \A i \in 0 .. k : g[i] = f[i]
    OBVIOUS
  <2>5. g[k + 1] = G[k + 1][f[k]]
    OBVIOUS
  <2>6. Good(k + 1, g)
    <3> HIDE DEF g
    <3>1. g[0] = base
      BY <2>2, <2>4
    <3>2. ASSUME NEW i \in 1 .. k + 1 PROVE g[i] = G[i][g[i - 1]]
      BY <2>2, <2>4, <2>5
    <3> QED
      BY <3>1, <3>2
  <2> QED
    BY <2>3, <2>6
<1>3. n \in A
  <2> HIDE DEF A
  <2> QED
    BY <1>1, <1>2, Counting
<1> QED
  BY <1>3 DEF IsChain

\* A set of numbers up to n has a largest.
LEMMA MaxFacts ==
  ASSUME NEW n \in Nat, NEW s \in SUBSET (0 .. n), s # {}
  PROVE  Max(s) \in s /\ \A y \in s : Max(s) >= y
<1> DEFINE Has(k) == \A S : S \subseteq 0 .. k /\ S # {} => \E x \in S : \A y \in S : x >= y
           A == {k \in Nat : Has(k)}
<1>1. 0 \in A
  <2>1. 0 .. 0 = {0}
    OBVIOUS
  <2> QED
    BY <2>1
<1>2. ASSUME NEW k \in Nat, k \in A PROVE k + 1 \in A
  <2>1. SUFFICES ASSUME NEW S, S \subseteq 0 .. k + 1, S # {}
                 PROVE  \E x \in S : \A y \in S : x >= y
    OBVIOUS
  <2>2. CASE k + 1 \in S
    BY <2>1, <2>2
  <2>3. CASE k + 1 \notin S
    <3>1. S \subseteq 0 .. k
      BY <2>1, <2>3
    <3> QED
      BY <1>2, <2>1, <3>1
  <2> QED
    BY <2>2, <2>3
<1>3. n \in A
  <2> HIDE DEF A
  <2> QED
    BY <1>1, <1>2, Counting
<1>4. \E x \in s : \A y \in s : x >= y
  BY <1>3
<1> QED
  BY <1>4 DEF Max

\* g folds the steps G from the left over each part of 1 .. n, starting with base,
\* as far as it stays in D.
IsFold(g, G, base, D, n) ==
  /\ g[{}] = base
  /\ \A s \in SUBSET (1 .. n) :
       s # {} /\ g[s \ {Max(s)}] \in D => g[s] = G[Max(s)][g[s \ {Max(s)}]]

\* Such a function exists.
LEMMA Folding ==
  ASSUME NEW n \in Nat, NEW D, NEW base \in D, NEW G \in [1 .. n -> [D -> D]]
  PROVE  \E h \in [SUBSET (1 .. n) -> D] : IsFold(h, G, base, D, n)
<1> DEFINE Good(k, h) == \A s \in SUBSET (1 .. k) :
                           h[s] = IF s = {} THEN base ELSE G[Max(s)][h[s \ {Max(s)}]]
           Has(k) == k <= n => \E h \in [SUBSET (1 .. k) -> D] : Good(k, h)
           A == {k \in Nat : Has(k)}
<1>1. Has(0)
  <2> DEFINE h == [s \in SUBSET (1 .. 0) |-> base]
  <2>1. \A s \in SUBSET (1 .. 0) : s = {}
    OBVIOUS
  <2>2. Good(0, h)
    BY <2>1
  <2>3. h \in [SUBSET (1 .. 0) -> D]
    OBVIOUS
  <2> QED
    BY <2>2, <2>3
<1>2. ASSUME NEW k \in Nat, Has(k) PROVE Has(k + 1)
  <2>1. SUFFICES ASSUME k + 1 <= n PROVE \E h \in [SUBSET (1 .. k + 1) -> D] : Good(k + 1, h)
    OBVIOUS
  <2>2. PICK h \in [SUBSET (1 .. k) -> D] : Good(k, h)
    <3>1. k <= n
      BY <2>1
    <3> HIDE DEF Good
    <3> QED
      BY <1>2, <3>1
  <2> DEFINE g == [s \in SUBSET (1 .. k + 1) |->
                     IF k + 1 \in s THEN G[k + 1][h[s \ {k + 1}]] ELSE h[s]]
  <2>3. ASSUME NEW s \in SUBSET (1 .. k + 1)
        PROVE  /\ k + 1 \in s => s \ {k + 1} \in SUBSET (1 .. k)
               /\ k + 1 \notin s => s \in SUBSET (1 .. k)
    OBVIOUS
  <2>4. G[k + 1] \in [D -> D]
    BY <2>1
  <2>5. g \in [SUBSET (1 .. k + 1) -> D]
    BY <2>3, <2>4
  <2>6. \A s \in SUBSET (1 .. k) : s \in SUBSET (1 .. k + 1) /\ g[s] = h[s]
    OBVIOUS
  <2> HIDE DEF g
  <2>7. ASSUME NEW s \in SUBSET (1 .. k + 1), k + 1 \in s
        PROVE  g[s] = G[k + 1][g[s \ {k + 1}]] /\ Max(s) = k + 1
    <3>1. Max(s) \in s /\ \A y \in s : Max(s) >= y
      <4>1. k + 1 \in Nat /\ s # {} /\ s \in SUBSET (0 .. k + 1)
        BY <2>7
      <4> QED
        BY <4>1, MaxFacts
    <3>2. Max(s) = k + 1
      <4>1. Max(s) \in 1 .. k + 1 /\ Max(s) >= k + 1
        BY <2>7, <3>1
      <4> QED
        BY <4>1
    <3> QED
      BY <2>3, <2>6, <2>7, <3>2 DEF g
  <2>8. Good(k + 1, g)
    <3>1. SUFFICES ASSUME NEW s \in SUBSET (1 .. k + 1)
                   PROVE g[s] = IF s = {} THEN base ELSE G[Max(s)][g[s \ {Max(s)}]]
      OBVIOUS
    <3> HIDE DEF g
    <3>2. CASE k + 1 \in s
      BY <3>2, <2>7
    <3>3. CASE k + 1 \notin s
      <4>1. s \in SUBSET (1 .. k) /\ s \ {Max(s)} \in SUBSET (1 .. k)
        BY <2>3, <3>3
      <4> QED
        BY <2>2, <2>6, <4>1
    <3> QED
      BY <3>2, <3>3
  <2> QED
    BY <2>5, <2>8
<1>3. n \in A
  <2> HIDE DEF Has
  <2>1. 0 \in A /\ \A k \in Nat : k \in A => k + 1 \in A
    BY <1>1, <1>2
  <2> HIDE DEF A
  <2> QED
    BY <2>1, Counting
<1>4. PICK h \in [SUBSET (1 .. n) -> D] : Good(n, h)
  <2>1. n <= n /\ Has(n)
    <3> HIDE DEF Has
    <3> QED
      BY <1>3
  <2> HIDE DEF Good
  <2> QED
    BY <2>1
<1>5. {} \in SUBSET (1 .. n)
  OBVIOUS
<1> QED
  BY <1>4, <1>5 DEF IsFold

\* The part 1 .. i of a fold's domain: its last element and the rest.
LEMMA Beginnings ==
  ASSUME NEW n \in Nat, NEW i \in 1 .. n
  PROVE  /\ 1 .. i \in SUBSET (1 .. n) /\ 1 .. i # {}
         /\ Max(1 .. i) = i /\ (1 .. i) \ {i} = 1 .. i - 1
<1>1. i \in Nat /\ 1 .. i # {} /\ 1 .. i \in SUBSET (0 .. i)
  OBVIOUS
<1>2. Max(1 .. i) \in 1 .. i /\ \A y \in 1 .. i : Max(1 .. i) >= y
  BY <1>1, MaxFacts
<1>3. Max(1 .. i) = i
  BY <1>2
<1> QED
  BY <1>3

\* What such a fold makes of 1 .. n is where the chain of its steps ends.  Its
\* definition need not be known outside D.
LEMMA FoldIsChain ==
  ASSUME NEW n \in Nat, NEW D, NEW base \in D, NEW G \in [1 .. n -> [D -> D]],
         NEW g, IsFold(g, G, base, D, n)
  PROVE  \E f \in [0 .. n -> D] : IsChain(f, G, base, n) /\ f[n] = g[1 .. n]
<1>1. PICK f \in [0 .. n -> D] : IsChain(f, G, base, n)
  BY Recursion
<1> DEFINE A == {i \in Nat : i <= n => g[1 .. i] = f[i]}
<1>2. 0 \in A
  <2>1. 1 .. 0 = {} /\ f[0] = base
    BY <1>1 DEF IsChain
  <2> QED
    BY <2>1 DEF IsFold
<1>3. ASSUME NEW i \in Nat, i \in A PROVE i + 1 \in A
  <2>1. SUFFICES ASSUME i + 1 <= n PROVE g[1 .. i + 1] = f[i + 1]
    OBVIOUS
  <2> DEFINE j == i + 1
  <2>2. j \in 1 .. n /\ j - 1 = i /\ i \in 0 .. n /\ g[1 .. i] = f[i]
    BY <1>3, <2>1
  <2> HIDE DEF j
  <2>3. /\ 1 .. j \in SUBSET (1 .. n) /\ 1 .. j # {}
        /\ Max(1 .. j) = j /\ (1 .. j) \ {j} = 1 .. i
    BY <2>2, Beginnings
  <2>4. g[1 .. j] = G[j][f[i]]
    <3>1. f[i] \in D
      BY <2>2
    <3> DEFINE s == 1 .. j
    <3>2. s \in SUBSET (1 .. n) /\ s # {} /\ Max(s) = j /\ g[s \ {Max(s)}] = f[i]
      BY <2>2, <2>3
    <3> HIDE DEF s
    <3>3. g[s] = G[Max(s)][g[s \ {Max(s)}]]
      BY <3>1, <3>2 DEF IsFold
    <3> QED
      BY <3>2, <3>3 DEF s
  <2>5. f[j] = G[j][f[i]]
    BY <1>1, <2>2 DEF IsChain
  <2> QED
    BY <2>4, <2>5 DEF j
<1>4. n \in A
  <2> HIDE DEF A
  <2> QED
    BY <1>2, <1>3, Counting
<1> QED
  BY <1>1, <1>4

\* The same, for the provers: the sets of functions and the conclusion by name.
Steppers(D, n) == [1 .. n -> [D -> D]]
EndsChain(g, G, base, D, n) ==
  \E f \in [0 .. n -> D] : IsChain(f, G, base, n) /\ f[n] = g[1 .. n]

LEMMA FoldEndsChain ==
  ASSUME NEW n \in Nat, NEW D, NEW base \in D, NEW G \in Steppers(D, n),
         NEW g, IsFold(g, G, base, D, n)
  PROVE  EndsChain(g, G, base, D, n)
BY FoldIsChain DEF Steppers, EndsChain

\* Induction over finite sets.
LEMMA Gathering ==
  ASSUME NEW T, IsFiniteSet(T), NEW Q, {} \in Q,
         \A s \in SUBSET T : s # {} /\ (\A x \in s : s \ {x} \in Q) => s \in Q
  PROVE  SUBSET T \subseteq Q
<1> DEFINE A == {m \in Nat : \A s \in SUBSET T : Cardinality(s) = m => s \in Q}
<1>1. \A s \in SUBSET T : /\ IsFiniteSet(s) /\ Cardinality(s) \in Nat
                          /\ Cardinality(s) = 0 <=> s = {}
  BY FS_Subset, FS_CardinalityType, FS_EmptySet
<1>2. 0 \in A
  BY <1>1
<1>3. ASSUME NEW m \in Nat, m \in A PROVE m + 1 \in A
  <2>1. SUFFICES ASSUME NEW s \in SUBSET T, Cardinality(s) = m + 1 PROVE s \in Q
    OBVIOUS
  <2>2. IsFiniteSet(s) /\ s # {}
    BY <1>1, <2>1
  <2>3. ASSUME NEW x \in s PROVE s \ {x} \in Q
    <3>0. Cardinality(s \ {x}) = Cardinality(s) - 1
      BY <2>2, FS_RemoveElement
    <3>1. Cardinality(s \ {x}) = m
      BY <2>1, <3>0
    <3>2. s \ {x} \in SUBSET T
      OBVIOUS
    <3> QED
      BY <1>3, <3>1, <3>2
  <2> QED
    BY <2>2, <2>3
<1>4. Nat \subseteq A
  <2> HIDE DEF A
  <2> QED
    BY <1>2, <1>3, Counting
<1> QED
  BY <1>1, <1>4

(***************************************************************************)
(* Lines: positions.                                                       *)
(***************************************************************************)

\* The lines found in the first i characters.
LEMMA StartsStepByStep ==
  ASSUME NEW t \in Texts
  PROVE  \E u : /\ u[0] = <<0>> /\ Starts(t) = u[Len(t)]
                /\ \A i \in 1 .. Len(t) :
                     u[i] = IF EndsLine(t, i - 1) THEN Append(u[i - 1], i) ELSE u[i - 1]
<1> DEFINE n == Len(t)
           Step(s, i) == IF EndsLine(t, i - 1) THEN Append(s, i) ELSE s
           D == Seq(Nat)
           base == <<0>>
           F(u) == [i \in 0 .. n |-> IF i = 0 THEN <<0>>
                      ELSE IF EndsLine(t, i - 1) THEN Append(u[i - 1], i) ELSE u[i - 1]]
           G == [i \in 1 .. n |-> [s \in D |-> Step(s, i)]]
<1>1. n \in Nat
  BY DEF Texts, BoundedSeq, SeqOf
<1>2. base \in D /\ \A s \in D, i \in 1 .. n : Step(s, i) \in D
  BY <1>1
<1>3. G \in [1 .. n -> [D -> D]]
  <2> HIDE DEF D, n, Step
  <2> QED
    BY <1>2
<1>4. PICK f \in [0 .. n -> D] : f[0] = base /\ \A i \in 1 .. n : f[i] = G[i][f[i - 1]]
  <2> HIDE DEF n, D, base, G
  <2>1. base \in D
    BY <1>2
  <2>2. \A H \in [1 .. n -> [D -> D]] : \E f \in [0 .. n -> D] : IsChain(f, H, base, n)
    BY <1>1, <2>1, Recursion
  <2> QED
    BY <1>3, <2>2 DEF IsChain
<1>5. f = F(f)
  <2> SUFFICES ASSUME NEW i \in 0 .. n PROVE f[i] = F(f)[i]
    <3> HIDE DEF n, D
    <3> QED
      BY DEF F
  <2>1. CASE i = 0
    BY <1>4, <2>1
  <2>2. CASE i # 0
    <3>1. i \in 1 .. n /\ i - 1 \in 0 .. n
      BY <1>1, <2>2
    <3>2. f[i - 1] \in D
      BY <3>1
    <3>3. f[i] = Step(f[i - 1], i)
      <4> HIDE DEF D, Step, n
      <4> QED
        BY <1>4, <3>1, <3>2
    <3> QED
      BY <2>2, <3>3
  <2> QED
    BY <2>1, <2>2
<1> DEFINE u == CHOOSE u : u = F(u)
<1>6. u = F(u)
  BY <1>5
<1>7. Starts(t) = u[n]
  BY DEF Starts
<1> HIDE DEF u
<1>8. u[0] = <<0>>
  BY <1>1, <1>6
<1>9. ASSUME NEW i \in 1 .. n
      PROVE  u[i] = IF EndsLine(t, i - 1) THEN Append(u[i - 1], i) ELSE u[i - 1]
  <2>1. i \in 0 .. n /\ i # 0
    BY <1>1
  <2>2. u[i] = F(u)[i]
    <3> HIDE DEF F
    <3> QED
      BY <1>6
  <2> QED
    BY <2>1, <2>2
<1> QED
  BY <1>7, <1>8, <1>9

\* What the constructor has found when it has seen i characters.
IsStarts(t, i, s) ==
  /\ s \in Seq(0 .. i) /\ Len(s) >= 1 /\ s[1] = 0
  /\ \A a, b \in 1 .. Len(s) : a < b => s[a] < s[b]
  /\ \A j \in 1 .. i : EndsLine(t, j - 1) <=> \E a \in 1 .. Len(s) : s[a] = j

LEMMA StartsAreLineStarts ==
  ASSUME NEW t \in Texts
  PROVE  Len(t) \in Nat /\ IsStarts(t, Len(t), Starts(t))
<1> DEFINE n == Len(t)
<1>1. n \in Nat
  BY DEF Texts, BoundedSeq, SeqOf
<1>2. PICK u : /\ u[0] = <<0>> /\ Starts(t) = u[n]
               /\ \A i \in 1 .. n :
                    u[i] = IF EndsLine(t, i - 1) THEN Append(u[i - 1], i) ELSE u[i - 1]
  BY StartsStepByStep
<1> DEFINE A == {i \in Nat : i <= n => IsStarts(t, i, u[i])}
<1>3. 0 \in A
  <2>1. <<0>> \in Seq(0 .. 0) /\ Len(<<0>>) = 1 /\ <<0>>[1] = 0
    OBVIOUS
  <2>2. IsStarts(t, 0, <<0>>)
    BY <2>1 DEF IsStarts
  <2> QED
    BY <1>2, <2>2
<1>4. ASSUME NEW i \in Nat, i \in A PROVE i + 1 \in A
  <2> SUFFICES ASSUME i + 1 <= n PROVE IsStarts(t, i + 1, u[i + 1])
    OBVIOUS
  <2> DEFINE s == u[i]
             r == u[i + 1]
  <2>1. IsStarts(t, i, s)
    BY <1>1, <1>4
  <2>2. r = IF EndsLine(t, i) THEN Append(s, i + 1) ELSE s
    BY <1>1, <1>2
  <2> SUFFICES IsStarts(t, i + 1, r)
    OBVIOUS
  <2> HIDE DEF s, r
  <2>3. CASE EndsLine(t, i)
    <3>1. r = Append(s, i + 1)
      BY <2>2, <2>3
    <3>2. s \in Seq(0 .. i) /\ s \in Seq(0 .. i + 1) /\ Len(s) \in Nat
      <4>1. 0 .. i \subseteq 0 .. i + 1
        OBVIOUS
      <4> QED
        BY <2>1, <4>1 DEF IsStarts
    <3>3. /\ r \in Seq(0 .. i + 1) /\ Len(r) = Len(s) + 1 /\ r[Len(s) + 1] = i + 1
          /\ \A a \in 1 .. Len(s) : r[a] = s[a] /\ s[a] \in 0 .. i
      BY <3>1, <3>2
    <3>4. Len(r) >= 1 /\ r[1] = 0
      BY <2>1, <3>2, <3>3 DEF IsStarts
    <3>5. \A a, b \in 1 .. Len(r) : a < b => r[a] < r[b]
      <4> SUFFICES ASSUME NEW a \in 1 .. Len(r), NEW b \in 1 .. Len(r), a < b
                   PROVE  r[a] < r[b]
        OBVIOUS
      <4>1. a \in 1 .. Len(s)
        BY <3>2, <3>3
      <4>2. CASE b \in 1 .. Len(s)
        BY <2>1, <3>3, <4>1, <4>2 DEF IsStarts
      <4>3. CASE b = Len(s) + 1
        <5>1. r[b] = i + 1 /\ r[a] = s[a] /\ s[a] \in 0 .. i
          BY <3>3, <4>1, <4>3
        <5> QED
          BY <5>1
      <4>4. b \in 1 .. Len(s) \/ b = Len(s) + 1
        <5>1. Len(s) \in Nat /\ Len(r) = Len(s) + 1
          BY <3>2, <3>3
        <5> QED
          BY <5>1
      <4> QED
        BY <4>2, <4>3, <4>4
    <3>6. ASSUME NEW j \in 1 .. i + 1
          PROVE  EndsLine(t, j - 1) <=> \E a \in 1 .. Len(r) : r[a] = j
      <4>1. CASE j = i + 1
        BY <2>3, <3>2, <3>3, <4>1
      <4>2. CASE j # i + 1
        <5>1. j \in 1 .. i
          BY <4>2
        <5>2. EndsLine(t, j - 1) <=> \E a \in 1 .. Len(s) : s[a] = j
          BY <2>1, <5>1 DEF IsStarts
        <5>3. ASSUME NEW a \in 1 .. Len(r), r[a] = j PROVE a \in 1 .. Len(s) /\ s[a] = j
          BY <3>2, <3>3, <5>1, <5>3
        <5>4. ASSUME NEW a \in 1 .. Len(s), s[a] = j PROVE a \in 1 .. Len(r) /\ r[a] = j
          BY <3>2, <3>3, <5>4
        <5> QED
          BY <5>2, <5>3, <5>4
      <4> QED
        BY <4>1, <4>2
    <3> QED
      BY <3>3, <3>4, <3>5, <3>6 DEF IsStarts
  <2>4. CASE ~EndsLine(t, i)
    <3>1. r = s
      BY <2>2, <2>4
    <3>2. s \in Seq(0 .. i + 1) /\ s \in Seq(0 .. i)
      <4>1. 0 .. i \subseteq 0 .. i + 1
        OBVIOUS
      <4> QED
        BY <2>1, <4>1 DEF IsStarts
    <3>3. ASSUME NEW j \in 1 .. i + 1
          PROVE  EndsLine(t, j - 1) <=> \E a \in 1 .. Len(s) : s[a] = j
      <4>1. CASE j = i + 1
        <5>1. \A a \in 1 .. Len(s) : s[a] \in 0 .. i
          BY <3>2
        <5> QED
          BY <2>4, <4>1, <5>1
      <4>2. CASE j # i + 1
        BY <2>1, <4>2 DEF IsStarts
      <4> QED
        BY <4>1, <4>2
    <3> QED
      BY <2>1, <3>1, <3>2, <3>3 DEF IsStarts
  <2> QED
    BY <2>3, <2>4
<1>5. n \in A
  <2> HIDE DEF A
  <2> QED
    BY <1>1, <1>3, <1>4, Counting
<1> QED
  BY <1>1, <1>2, <1>5

\* Where a search of lo .. hi for the last start that is not behind pos ends.
IsLast(s, pos, lo, hi, m) ==
  /\ m \in lo .. hi /\ (m = lo \/ s[m] <= pos)
  /\ \A k \in m + 1 .. hi : s[k] > pos

LEMMA LastExists ==
  ASSUME NEW N \in Nat, NEW s \in [1 .. N -> Nat], NEW pos \in Nat,
         NEW lo \in 1 .. N, NEW hi \in lo .. N
  PROVE  \E m \in lo .. hi : IsLast(s, pos, lo, hi, m)
<1> DEFINE A == {d \in Nat : lo + d <= N =>
                   \E m \in lo .. lo + d : IsLast(s, pos, lo, lo + d, m)}
<1>1. 0 \in A
  BY DEF IsLast
<1>2. ASSUME NEW d \in Nat, d \in A PROVE d + 1 \in A
  <2> DEFINE h == lo + d
  <2> SUFFICES ASSUME h + 1 <= N PROVE \E m \in lo .. h + 1 : IsLast(s, pos, lo, h + 1, m)
    OBVIOUS
  <2>1. CASE s[h + 1] <= pos
    <3>1. IsLast(s, pos, lo, h + 1, h + 1)
      BY <2>1 DEF IsLast
    <3> QED
      BY <3>1
  <2>2. CASE s[h + 1] > pos
    <3>1. PICK m \in lo .. h : IsLast(s, pos, lo, h, m)
      BY <1>2
    <3>2. IsLast(s, pos, lo, h + 1, m)
      BY <2>2, <3>1 DEF IsLast
    <3> QED
      BY <3>1, <3>2
  <2>3. s[h + 1] \in Nat
    OBVIOUS
  <2> QED
    BY <2>1, <2>2, <2>3
<1>3. hi - lo \in A
  <2> HIDE DEF A
  <2>1. Nat \subseteq A
    BY <1>1, <1>2, Counting
  <2> QED
    BY <2>1
<1> QED
  BY <1>3

\* Each step of the binary search keeps what it looks for in its range.
LEMMA SearchSteps ==
  ASSUME NEW N \in Nat, NEW s \in [1 .. N -> Nat], NEW pos \in Nat,
         \A a, b \in 1 .. N : a < b => s[a] < s[b],
         NEW lo \in 1 .. N, NEW hi \in 1 .. N, lo < hi,
         NEW m \in Nat, NEW mid \in lo + 1 .. hi,
         IF s[mid] <= pos THEN IsLast(s, pos, mid, hi, m) ELSE IsLast(s, pos, lo, mid - 1, m)
  PROVE  IsLast(s, pos, lo, hi, m)
<1>1. CASE s[mid] <= pos
  BY <1>1 DEF IsLast
<1>2. CASE s[mid] > pos
  <2>1. ASSUME NEW k \in mid .. hi PROVE s[k] > pos
    <3>1. s[mid] \in Nat /\ s[k] \in Nat /\ (k # mid => s[mid] < s[k])
      OBVIOUS
    <3> QED
      BY <1>2, <3>1
  <2> QED
    BY <1>2, <2>1 DEF IsLast
<1> QED
  BY <1>1, <1>2

\* One step of the search, and what it finds.
Mid(lo, hi) == ((lo - 1) + (hi - 1) + 1) \div 2 + 1
Step(s, pos, h, lo, hi) ==
  IF lo >= hi THEN lo
  ELSE IF s[Mid(lo, hi)] <= pos THEN h[<<Mid(lo, hi), hi>>] ELSE h[<<lo, Mid(lo, hi) - 1>>]
Found(s, pos, lo, hi) ==
  IF lo >= hi THEN lo ELSE CHOOSE m \in lo .. hi : IsLast(s, pos, lo, hi, m)

LEMMA MidIsBetween ==
  ASSUME NEW lo \in Nat, NEW hi \in Nat, lo < hi
  PROVE  Mid(lo, hi) \in lo + 1 .. hi
BY DEF Mid

LEMMA FoundIsLast ==
  ASSUME NEW N \in Nat, NEW s \in [1 .. N -> Nat], NEW pos \in Nat,
         NEW lo \in 1 .. N, NEW hi \in 1 .. N, lo <= hi
  PROVE  Found(s, pos, lo, hi) \in lo .. hi /\ IsLast(s, pos, lo, hi, Found(s, pos, lo, hi))
<1>1. CASE lo = hi
  BY <1>1 DEF IsLast, Found
<1>2. CASE lo < hi
  <2>1. hi \in lo .. N
    OBVIOUS
  <2>2. \E m \in lo .. hi : IsLast(s, pos, lo, hi, m)
    BY <2>1, LastExists
  <2> QED
    BY <1>2, <2>2 DEF Found
<1> QED
  BY <1>1, <1>2

LEMMA LastIsUnique ==
  ASSUME NEW N \in Nat, NEW s \in [1 .. N -> Nat], NEW pos \in Nat,
         NEW lo \in 1 .. N, NEW hi \in 1 .. N, NEW m, NEW l,
         IsLast(s, pos, lo, hi, m), IsLast(s, pos, lo, hi, l)
  PROVE  m = l
<1>1. /\ m \in lo .. hi /\ l \in lo .. hi /\ m \in Nat /\ l \in Nat
      /\ s[m] \in Nat /\ s[l] \in Nat
  BY DEF IsLast
<1>2. ~(m < l) /\ ~(l < m)
  BY <1>1 DEF IsLast
<1> QED
  BY <1>1, <1>2

\* What a step of the search returns is the last, when the searches that it
\* continues with return the last.
LEMMA StepFinds ==
  ASSUME NEW N \in Nat, NEW s \in [1 .. N -> Nat], NEW pos \in Nat,
         \A a, b \in 1 .. N : a < b => s[a] < s[b],
         NEW lo \in 1 .. N, NEW hi \in 1 .. N, lo <= hi, NEW h,
         \A i, j \in lo .. hi : i <= j /\ j - i < hi - lo => IsLast(s, pos, i, j, h[<<i, j>>])
  PROVE  IsLast(s, pos, lo, hi, Step(s, pos, h, lo, hi))
<1>1. CASE lo = hi
  BY <1>1 DEF Step, IsLast
<1>2. CASE lo < hi
  <2> DEFINE mid == Mid(lo, hi)
             m == Step(s, pos, h, lo, hi)
  <2>1. mid \in lo + 1 .. hi
    <3>1. lo \in Nat /\ hi \in Nat
      OBVIOUS
    <3> QED
      BY <1>2, <3>1, MidIsBetween
  <2>2. m = IF s[mid] <= pos THEN h[<<mid, hi>>] ELSE h[<<lo, mid - 1>>]
    BY <1>2 DEF Step
  <2> HIDE DEF mid, m
  <2>3. IsLast(s, pos, mid, hi, h[<<mid, hi>>]) /\ IsLast(s, pos, lo, mid - 1, h[<<lo, mid - 1>>])
    <3>1. mid \in lo .. hi /\ hi - mid < hi - lo /\ mid - 1 \in lo .. hi /\ lo <= mid - 1
          /\ (mid - 1) - lo < hi - lo /\ lo \in lo .. hi /\ hi \in lo .. hi /\ mid <= hi
      BY <2>1
    <3> QED
      BY <3>1
  <2>4. IF s[mid] <= pos THEN IsLast(s, pos, mid, hi, m) ELSE IsLast(s, pos, lo, mid - 1, m)
    BY <2>2, <2>3
  <2>5. m \in Nat
    BY <2>1, <2>4 DEF IsLast
  <2>6. IsLast(s, pos, lo, hi, m)
    BY <1>2, <2>1, <2>4, <2>5, SearchSteps
  <2> QED
    BY <2>6 DEF m
<1> QED
  BY <1>1, <1>2

IsSearch(s, pos, S, h) == h = [r \in S \X S |-> Step(s, pos, h, r[1], r[2])]

LEMMA SearchUnfolds ==
  ASSUME NEW s, NEW pos, NEW S, NEW h, IsSearch(s, pos, S, h), NEW lo \in S, NEW hi \in S
  PROVE  h[<<lo, hi>>] = Step(s, pos, h, lo, hi)
BY DEF IsSearch

LEMMA SearchExists ==
  ASSUME NEW N \in Nat, NEW s \in [1 .. N -> Nat], NEW pos \in Nat,
         \A a, b \in 1 .. N : a < b => s[a] < s[b]
  PROVE  \E h : IsSearch(s, pos, 1 .. N, h)
<1> DEFINE S == 1 .. N
           f == [r \in S \X S |-> Found(s, pos, r[1], r[2])]
<1>1. ASSUME NEW lo \in S, NEW hi \in S PROVE f[<<lo, hi>>] = Found(s, pos, lo, hi)
  OBVIOUS
<1> HIDE DEF f
<1>2. ASSUME NEW lo \in S, NEW hi \in S
      PROVE  Found(s, pos, lo, hi) = Step(s, pos, f, lo, hi)
  <2>1. CASE lo >= hi
    BY <2>1 DEF Found, Step
  <2>2. CASE lo < hi
    <3>1. ASSUME NEW i \in lo .. hi, NEW j \in lo .. hi, i <= j
          PROVE  IsLast(s, pos, i, j, f[<<i, j>>])
      <4>1. i \in 1 .. N /\ j \in 1 .. N
        OBVIOUS
      <4>2. IsLast(s, pos, i, j, Found(s, pos, i, j))
        BY <3>1, <4>1, FoundIsLast
      <4>3. f[<<i, j>>] = Found(s, pos, i, j)
        BY <1>1, <4>1
      <4> QED
        BY <4>2, <4>3
    <3>2. IsLast(s, pos, lo, hi, Step(s, pos, f, lo, hi))
      <4>1. \A i, j \in lo .. hi : i <= j /\ j - i < hi - lo => IsLast(s, pos, i, j, f[<<i, j>>])
        BY <3>1
      <4> QED
        BY <2>2, <4>1, StepFinds
    <3>3. IsLast(s, pos, lo, hi, Found(s, pos, lo, hi))
      BY <2>2, FoundIsLast
    <3> QED
      BY <3>2, <3>3, LastIsUnique
  <2> QED
    BY <2>1, <2>2
<1>3. f = [r \in S \X S |-> Step(s, pos, f, r[1], r[2])]
  <2>1. \A r \in S \X S : Found(s, pos, r[1], r[2]) = Step(s, pos, f, r[1], r[2])
    BY <1>2
  <2> HIDE DEF S
  <2>2. [r \in S \X S |-> Found(s, pos, r[1], r[2])] = [r \in S \X S |-> Step(s, pos, f, r[1], r[2])]
    BY <2>1
  <2> QED
    BY <2>2 DEF f
<1> QED
  BY <1>3 DEF IsSearch

LEMMA SearchFinds ==
  ASSUME NEW N \in Nat, NEW s \in [1 .. N -> Nat], NEW pos \in Nat,
         \A a, b \in 1 .. N : a < b => s[a] < s[b],
         NEW h, IsSearch(s, pos, 1 .. N, h)
  PROVE  \A lo, hi \in 1 .. N : lo <= hi => IsLast(s, pos, lo, hi, h[<<lo, hi>>])
<1> DEFINE A == {d \in Nat : \A lo, hi \in 1 .. N :
                   lo <= hi /\ hi - lo <= d => IsLast(s, pos, lo, hi, h[<<lo, hi>>])}
<1>1. ASSUME NEW lo \in 1 .. N, NEW hi \in 1 .. N, lo <= hi,
             \A i, j \in lo .. hi : i <= j /\ j - i < hi - lo => IsLast(s, pos, i, j, h[<<i, j>>])
      PROVE  IsLast(s, pos, lo, hi, h[<<lo, hi>>])
  <2>1. h[<<lo, hi>>] = Step(s, pos, h, lo, hi)
    BY SearchUnfolds
  <2>2. IsLast(s, pos, lo, hi, Step(s, pos, h, lo, hi))
    BY <1>1, StepFinds
  <2> QED
    BY <2>1, <2>2
<1>2. 0 \in A
  <2> SUFFICES ASSUME NEW lo \in 1 .. N, NEW hi \in 1 .. N, lo <= hi, hi - lo <= 0
               PROVE  IsLast(s, pos, lo, hi, h[<<lo, hi>>])
    OBVIOUS
  <2>1. \A i, j \in lo .. hi : ~(i <= j /\ j - i < hi - lo)
    OBVIOUS
  <2> QED
    BY <1>1, <2>1
<1>3. ASSUME NEW d \in Nat, d \in A PROVE d + 1 \in A
  <2> SUFFICES ASSUME NEW lo \in 1 .. N, NEW hi \in 1 .. N, lo <= hi, hi - lo <= d + 1
               PROVE  IsLast(s, pos, lo, hi, h[<<lo, hi>>])
    OBVIOUS
  <2>1. ASSUME NEW i \in lo .. hi, NEW j \in lo .. hi, i <= j, j - i < hi - lo
        PROVE  IsLast(s, pos, i, j, h[<<i, j>>])
    <3>1. i \in 1 .. N /\ j \in 1 .. N /\ j - i <= d
      BY <2>1
    <3> QED
      BY <1>3, <2>1, <3>1
  <2> QED
    BY <1>1, <2>1
<1>4. SUFFICES ASSUME NEW lo \in 1 .. N, NEW hi \in 1 .. N, lo <= hi
               PROVE  IsLast(s, pos, lo, hi, h[<<lo, hi>>])
  OBVIOUS
<1>5. hi - lo \in A
  <2> HIDE DEF A
  <2>1. Nat \subseteq A
    BY <1>2, <1>3, Counting
  <2> QED
    BY <1>4, <2>1
<1> QED
  BY <1>4, <1>5

LEMMA IndexSearches ==
  ASSUME NEW t, NEW pos, \E h : IsSearch(Starts(t), pos, DOMAIN Starts(t), h)
  PROVE  \E h : /\ IsSearch(Starts(t), pos, DOMAIN Starts(t), h)
                /\ Index(t, pos) = h[<<1, Len(Starts(t))>>]
<1> DEFINE F(h) == [r \in (DOMAIN Starts(t)) \X (DOMAIN Starts(t)) |->
                      IF r[1] >= r[2] THEN r[1]
                      ELSE IF Starts(t)[Mid(r[1], r[2])] <= pos THEN h[<<Mid(r[1], r[2]), r[2]>>]
                      ELSE h[<<r[1], Mid(r[1], r[2]) - 1>>]]
           g == CHOOSE h : h = F(h)
<1>1. Index(t, pos) = g[<<1, Len(Starts(t))>>]
  BY DEF Index, Mid
<1>2. ASSUME NEW h PROVE IsSearch(Starts(t), pos, DOMAIN Starts(t), h) <=> h = F(h)
  <2>1. F(h) = [r \in (DOMAIN Starts(t)) \X (DOMAIN Starts(t)) |-> Step(Starts(t), pos, h, r[1], r[2])]
    BY DEF Step
  <2> HIDE DEF F
  <2> QED
    BY <2>1 DEF IsSearch
<1>3. g = F(g)
  <2> HIDE DEF F
  <2> QED
    BY <1>2
<1> HIDE DEF g, F
<1> QED
  BY <1>1, <1>2, <1>3

\* index returns the last start that is not behind pos.
LEMMA IndexFindsLast ==
  ASSUME NEW t \in Texts, NEW pos \in Nat
  PROVE  IsLast(Starts(t), pos, 1, Len(Starts(t)), Index(t, pos))
<1> DEFINE s == Starts(t)
           N == Len(s)
<1>1. /\ N \in Nat /\ N >= 1 /\ DOMAIN s = 1 .. N /\ s \in [1 .. N -> Nat] /\ pos \in Nat
      /\ \A a, b \in 1 .. N : a < b => s[a] < s[b]
  BY StartsAreLineStarts DEF IsStarts
<1>2. PICK g : IsSearch(s, pos, DOMAIN s, g) /\ Index(t, pos) = g[<<1, N>>]
  <2>1. \E h : IsSearch(s, pos, DOMAIN s, h)
    <3> HIDE DEF s, N
    <3> QED
      BY <1>1, SearchExists
  <2> QED
    BY <2>1, IndexSearches
<1> HIDE DEF s, N
<1>3. IsSearch(s, pos, 1 .. N, g)
  BY <1>1, <1>2
<1>4. IsLast(s, pos, 1, N, g[<<1, N>>])
  <2>1. \A lo, hi \in 1 .. N : lo <= hi => IsLast(s, pos, lo, hi, g[<<lo, hi>>])
    BY <1>1, <1>3, SearchFinds
  <2>2. 1 \in 1 .. N /\ N \in 1 .. N /\ 1 <= N
    BY <1>1
  <2> QED
    BY <2>1, <2>2
<1> QED
  BY <1>2, <1>4 DEF s, N

Cursors == [line : Nat, column : Nat]

LEMMA CursorMoves ==
  ASSUME NEW t \in Texts
  PROVE  /\ Cursor(t)[0] = [line |-> 1, column |-> 1]
         /\ \A i \in 1 .. Len(t) : Cursor(t)[i] = Moved(t, i, Cursor(t)[i - 1])
         /\ \A i \in 0 .. Len(t) : Cursor(t)[i] \in Cursors
<1> DEFINE n == Len(t)
           base == [line |-> 1, column |-> 1]
           F(h) == [i \in 0 .. n |-> IF i = 0 THEN base ELSE Moved(t, i, h[i - 1])]
           G == [i \in 1 .. n |-> [p \in Cursors |-> Moved(t, i, p)]]
           c == CHOOSE h : h = F(h)
<1>1. n \in Nat
  BY DEF Texts, BoundedSeq, SeqOf
<1>2. base \in Cursors /\ \A i \in 1 .. n, p \in Cursors : Moved(t, i, p) \in Cursors
  BY DEF Cursors, Moved
<1>3. G \in [1 .. n -> [Cursors -> Cursors]]
  BY <1>2
<1>4. PICK f \in [0 .. n -> Cursors] : f[0] = base /\ \A i \in 1 .. n : f[i] = G[i][f[i - 1]]
  <2> DEFINE D == Cursors
  <2>0. base \in D
    BY <1>2
  <2>3. G \in [1 .. n -> [D -> D]]
    BY <1>3
  <2> HIDE DEF n, base, G, D
  <2>1. \A H \in [1 .. n -> [D -> D]] : \E f \in [0 .. n -> D] : IsChain(f, H, base, n)
    BY <1>1, <2>0, Recursion
  <2>2. \E f \in [0 .. n -> D] : f[0] = base /\ \A i \in 1 .. n : f[i] = G[i][f[i - 1]]
    BY <2>1, <2>3 DEF IsChain
  <2> QED
    BY <2>2 DEF D
<1>5. f = F(f)
  <2> SUFFICES ASSUME NEW i \in 0 .. n PROVE f[i] = F(f)[i]
    <3> HIDE DEF n, base
    <3> QED
      BY DEF F
  <2>1. CASE i = 0
    BY <1>4, <2>1
  <2>2. CASE i # 0
    <3>1. i \in 1 .. n /\ i - 1 \in 0 .. n
      BY <1>1, <2>2
    <3>2. f[i - 1] \in Cursors
      BY <3>1
    <3>3. f[i] = Moved(t, i, f[i - 1])
      <4> HIDE DEF n
      <4> QED
        BY <1>4, <3>1, <3>2
    <3> QED
      BY <2>2, <3>3
  <2> QED
    BY <2>1, <2>2
<1>6. c = F(c)
  <2> HIDE DEF F
  <2> QED
    BY <1>5
<1>7. Cursor(t) = c
  BY DEF Cursor
<1> HIDE DEF c
<1>8. c[0] = base
  BY <1>1, <1>6
<1>9. ASSUME NEW i \in 1 .. n PROVE c[i] = Moved(t, i, c[i - 1])
  <2>1. i \in 0 .. n /\ i # 0
    BY <1>1
  <2>2. c[i] = F(c)[i]
    <3> HIDE DEF F
    <3> QED
      BY <1>6
  <2> QED
    BY <2>1, <2>2
<1> DEFINE A == {i \in Nat : i <= n => c[i] \in Cursors}
<1>10. 0 \in A
  BY <1>2, <1>8
<1>11. ASSUME NEW i \in Nat, i \in A PROVE i + 1 \in A
  <2> SUFFICES ASSUME i + 1 <= n PROVE c[i + 1] \in Cursors
    OBVIOUS
  <2>1. i + 1 \in 1 .. n /\ (i + 1) - 1 = i /\ c[i] \in Cursors
    BY <1>1, <1>11
  <2>2. c[i + 1] = Moved(t, i + 1, c[i])
    BY <1>9, <2>1
  <2> HIDE DEF n
  <2> QED
    BY <1>2, <2>1, <2>2
<1>12. \A i \in 0 .. n : c[i] \in Cursors
  <2> HIDE DEF A
  <2>1. Nat \subseteq A
    BY <1>10, <1>11, Counting
  <2> QED
    BY <2>1 DEF A
<1> QED
  BY <1>7, <1>8, <1>9, <1>12

\* What a decoded source is like.
LEMMA TextFacts ==
  ASSUME NEW t \in Texts
  PROVE  /\ Len(t) \in Nat
         /\ \A i \in 0 .. Len(t) - 1 :
              /\ At(t, i) \in {"x", "cr", "nl", "hi", "lo"}
              /\ At(t, i) = "hi" => i + 1 < Len(t) /\ At(t, i + 1) = "lo"
              /\ At(t, i) = "lo" => i >= 1 /\ At(t, i - 1) = "hi"
<1>1. PICK m \in 0 .. MaxText : t \in [1 .. m -> {"x", "cr", "nl", "hi", "lo"}]
  BY DEF Texts, BoundedSeq, SeqOf
<1>2. m \in Nat /\ Len(t) = m /\ DOMAIN t = 1 .. m
  BY <1>1
<1>3. ASSUME NEW i \in 0 .. m - 1
      PROVE  /\ At(t, i) \in {"x", "cr", "nl", "hi", "lo"}
             /\ At(t, i) = "hi" => i + 1 < m /\ At(t, i + 1) = "lo"
             /\ At(t, i) = "lo" => i >= 1 /\ At(t, i - 1) = "hi"
  <2>1. i + 1 \in 1 .. m
    BY <1>2
  <2>2. /\ t[i + 1] = "hi" => i + 1 < m /\ t[(i + 1) + 1] = "lo"
        /\ t[i + 1] = "lo" => i + 1 > 1 /\ t[(i + 1) - 1] = "hi"
    BY <1>2, <2>1 DEF Texts
  <2> QED
    BY <1>1, <1>2, <2>1, <2>2 DEF At
<1> QED
  BY <1>2, <1>3

\* The line of an offset starts at or before it, the next line behind it.
LEMMA IndexFacts ==
  ASSUME NEW t \in Texts, NEW pos \in 0 .. Len(t)
  PROVE  LET s == Starts(t)
             i == Index(t, pos) IN
         /\ Len(s) \in Nat /\ i \in 1 .. Len(s) /\ s[i] \in 0 .. pos
         /\ \A k \in i + 1 .. Len(s) : s[k] > pos
         /\ \A j \in 1 .. Len(s) :
              s[j] <= pos /\ (\A k \in j + 1 .. Len(s) : s[k] > pos) => j = i
<1> DEFINE s == Starts(t)
           N == Len(s)
           i == Index(t, pos)
<1>1. /\ N \in Nat /\ N >= 1 /\ s \in [1 .. N -> Nat] /\ pos \in Nat /\ s[1] = 0
  BY StartsAreLineStarts DEF IsStarts
<1>2. IsLast(s, pos, 1, N, i)
  BY <1>1, IndexFindsLast
<1> HIDE DEF s, N, i
<1>3. i \in 1 .. N /\ s[i] \in 0 .. pos /\ \A k \in i + 1 .. N : s[k] > pos
  BY <1>1, <1>2 DEF IsLast
<1>4. ASSUME NEW j \in 1 .. N, s[j] <= pos, \A k \in j + 1 .. N : s[k] > pos PROVE j = i
  <2>1. IsLast(s, pos, 1, N, j)
    BY <1>4 DEF IsLast
  <2>2. 1 \in 1 .. N /\ N \in 1 .. N
    BY <1>1
  <2> QED
    BY <1>1, <1>2, <2>1, <2>2, LastIsUnique
<1> QED
  BY <1>1, <1>3, <1>4 DEF s, N, i

\* Where a line ends the next one starts, and nowhere else.
LEMMA IndexSteps ==
  ASSUME NEW t \in Texts, NEW i \in 1 .. Len(t)
  PROVE  IF EndsLine(t, i - 1)
         THEN Index(t, i) = Index(t, i - 1) + 1 /\ Starts(t)[Index(t, i)] = i
         ELSE Index(t, i) = Index(t, i - 1)
<1> DEFINE s == Starts(t)
           N == Len(s)
           l == Index(t, i - 1)
           m == Index(t, i)
<1>1. /\ Len(t) \in Nat /\ N \in Nat /\ s \in [1 .. N -> Nat]
      /\ \A a, b \in 1 .. N : a < b => s[a] < s[b]
      /\ EndsLine(t, i - 1) <=> \E a \in 1 .. N : s[a] = i
  BY StartsAreLineStarts DEF IsStarts
<1>2. i \in 0 .. Len(t) /\ i - 1 \in 0 .. Len(t)
  BY <1>1
<1>3. l \in 1 .. N /\ s[l] \in 0 .. i - 1 /\ \A k \in l + 1 .. N : s[k] > i - 1
  BY <1>2, IndexFacts
<1>4. /\ m \in 1 .. N /\ s[m] \in 0 .. i /\ \A k \in m + 1 .. N : s[k] > i
      /\ \A j \in 1 .. N : s[j] <= i /\ (\A k \in j + 1 .. N : s[k] > i) => j = m
  BY <1>2, IndexFacts
<1> HIDE DEF s, N, l, m
<1>5. CASE EndsLine(t, i - 1)
  <2>1. PICK a \in 1 .. N : s[a] = i
    BY <1>1, <1>5
  <2>2. \A k \in a + 1 .. N : s[k] > i
    BY <1>1, <2>1
  <2>3. a = m
    BY <1>4, <2>1, <2>2
  <2>4. a > l
    <3>1. ~(a < l) /\ a # l
      BY <1>1, <1>3, <2>1
    <3> QED
      BY <1>3, <3>1
  <2>5. a = l + 1
    <3> SUFFICES ASSUME l + 1 < a PROVE FALSE
      BY <1>3, <2>4
    <3>1. l + 1 \in 1 .. N /\ l + 1 \in l + 1 .. N
      BY <1>1, <1>3, <2>1
    <3>2. s[l + 1] > i - 1 /\ s[l + 1] < s[a] /\ s[l + 1] \in Nat
      BY <1>1, <1>3, <2>1, <3>1
    <3> QED
      BY <2>1, <3>2
  <2> QED
    BY <1>5, <2>1, <2>3, <2>5 DEF s, l, m
<1>6. CASE ~EndsLine(t, i - 1)
  <2>1. ASSUME NEW k \in l + 1 .. N PROVE s[k] > i
    <3>1. k \in 1 .. N /\ s[k] > i - 1 /\ s[k] \in Nat /\ s[k] # i
      BY <1>1, <1>3, <1>6
    <3> QED
      BY <3>1
  <2>2. l = m
    BY <1>3, <1>4, <2>1
  <2> QED
    BY <1>6, <2>2 DEF l, m
<1> QED
  BY <1>5, <1>6

(***************************************************************************)
(* codePointCount.                                                         *)
(***************************************************************************)

Counts(t, from, i) == ~(At(t, i) = "lo" /\ i > from /\ At(t, i - 1) = "hi")

LEMMA CodePointsSteps ==
  ASSUME NEW t, NEW from \in Nat, NEW i \in Nat, from <= i
  PROVE  /\ CodePoints(t, from, i) \in Nat
         /\ CodePoints(t, from, from) = 0
         /\ CodePoints(t, from, i + 1) =
              IF Counts(t, from, i) THEN CodePoints(t, from, i) + 1 ELSE CodePoints(t, from, i)
<1> DEFINE C(to) == {j \in from .. to - 1 : Counts(t, from, j)}
<1>1. \A to \in Nat : CodePoints(t, from, to) = Cardinality(C(to))
  BY DEF CodePoints, Counts
<1>2. \A to \in Nat : IsFiniteSet(C(to))
  <2>1. \A to \in Nat : IsFiniteSet(from .. to - 1) /\ C(to) \subseteq from .. to - 1
    BY FS_Interval
  <2> QED
    BY <2>1, FS_Subset
<1>3. C(from) = {}
  OBVIOUS
<1>4. C(i + 1) = IF Counts(t, from, i) THEN C(i) \cup {i} ELSE C(i)
  OBVIOUS
<1>5. i \notin C(i)
  OBVIOUS
<1> HIDE DEF C
<1>6. Cardinality(C(i)) \in Nat
  BY <1>2, FS_CardinalityType
<1>7. Cardinality(C(i) \cup {i}) = Cardinality(C(i)) + 1
  BY <1>2, <1>5, FS_AddElement
<1>8. Cardinality(C(from)) = 0
  BY <1>3, FS_EmptySet
<1> QED
  BY <1>1, <1>4, <1>6, <1>7, <1>8

LEMMA CodePointsGrow ==
  ASSUME NEW t, NEW from \in Nat, NEW a \in Nat, NEW b \in Nat, a <= b
  PROVE  CodePoints(t, from, a) <= CodePoints(t, from, b)
<1> DEFINE C(to) == {j \in from .. to - 1 : Counts(t, from, j)}
<1>1. CodePoints(t, from, a) = Cardinality(C(a)) /\ CodePoints(t, from, b) = Cardinality(C(b))
  BY DEF CodePoints, Counts
<1>2. IsFiniteSet(C(b)) /\ C(a) \subseteq C(b)
  <2>1. IsFiniteSet(from .. b - 1) /\ C(b) \subseteq from .. b - 1
    BY FS_Interval
  <2> QED
    BY <2>1, FS_Subset
<1> HIDE DEF C
<1> QED
  BY <1>1, <1>2, FS_Subset

(***************************************************************************)
(* The cursor: what it is in front of is the line and the column.          *)
(***************************************************************************)

LEMMA MovedCases ==
  ASSUME NEW t \in Texts, NEW i \in 0 .. Len(t) - 1, NEW p \in Cursors
  PROVE  Moved(t, i + 1, p) =
           IF EndsLine(t, i) THEN [line |-> p.line + 1, column |-> 1]
           ELSE IF At(t, i) = "lo" THEN p
           ELSE [p EXCEPT !.column = @ + 1]
<1>1. /\ Len(t) \in Nat /\ (i + 1) - 1 = i
      /\ At(t, i) \in {"x", "cr", "nl", "hi", "lo"}
  BY TextFacts
<1> DEFINE split == i + 1 < Len(t) /\ <<At(t, i), At(t, i + 1)>> \in {<<"cr", "nl">>, <<"hi", "lo">>}
<1>2. Moved(t, i + 1, p) =
        IF split THEN [p EXCEPT !.column = @ + 1]
        ELSE IF At(t, i) \in {"cr", "nl"} THEN [line |-> p.line + 1, column |-> 1]
        ELSE IF At(t, i) = "lo" THEN p
        ELSE [p EXCEPT !.column = @ + 1]
  BY <1>1 DEF Moved
<1>3. split <=> i + 1 < Len(t) /\ (\/ At(t, i) = "cr" /\ At(t, i + 1) = "nl"
                                   \/ At(t, i) = "hi" /\ At(t, i + 1) = "lo")
  OBVIOUS
<1> HIDE DEF split
<1>4. EndsLine(t, i) => ~split /\ At(t, i) \in {"cr", "nl"}
  BY <1>1, <1>3 DEF EndsLine
<1>5. ~EndsLine(t, i) => At(t, i) # "nl" /\ (At(t, i) = "cr" => split)
  BY <1>1, <1>3 DEF EndsLine
<1>6. At(t, i) = "lo" => ~split
  BY <1>3
<1> QED
  BY <1>1, <1>2, <1>4, <1>5, <1>6

IsPosition(t, i, p) ==
  p.line = Index(t, i) /\ p.column = CodePoints(t, Starts(t)[Index(t, i)], i) + 1

LEMMA PositionMoves ==
  ASSUME NEW t \in Texts, NEW i \in 0 .. Len(t) - 1, NEW p \in Cursors, IsPosition(t, i, p)
  PROVE  IsPosition(t, i + 1, Moved(t, i + 1, p))
<1> DEFINE s == Starts(t)
           l == Index(t, i)
           m == Index(t, i + 1)
<1>1. /\ Len(t) \in Nat /\ i \in Nat /\ i \in 0 .. Len(t) /\ i + 1 \in 1 .. Len(t)
      /\ (i + 1) - 1 = i
  BY TextFacts
<1>2. IF EndsLine(t, i) THEN m = l + 1 /\ s[m] = i + 1 ELSE m = l
  BY <1>1, IndexSteps
<1>3. l \in 1 .. Len(s) /\ Len(s) \in Nat /\ s[l] \in 0 .. i /\ s[l] \in Nat
  BY <1>1, IndexFacts
<1>4. p.line = l /\ p.column = CodePoints(t, s[l], i) + 1
  BY DEF IsPosition
<1>5. /\ CodePoints(t, s[l], i) \in Nat
      /\ CodePoints(t, s[l], i + 1) =
           IF Counts(t, s[l], i) THEN CodePoints(t, s[l], i) + 1 ELSE CodePoints(t, s[l], i)
  <2>1. s[l] <= i
    BY <1>1, <1>3
  <2> HIDE DEF s, l
  <2> QED
    BY <1>1, <1>3, <2>1, CodePointsSteps
<1>6. CASE EndsLine(t, i)
  <2>1. Moved(t, i + 1, p) = [line |-> p.line + 1, column |-> 1]
    BY <1>6, MovedCases
  <2>2. CodePoints(t, i + 1, i + 1) = 0
    BY <1>1, CodePointsSteps
  <2> QED
    BY <1>2, <1>4, <1>6, <2>1, <2>2 DEF IsPosition
<1>7. CASE ~EndsLine(t, i) /\ At(t, i) = "lo"
  <2>1. Moved(t, i + 1, p) = p
    BY <1>7, MovedCases
  <2>2. i >= 1 /\ At(t, i - 1) = "hi"
    BY <1>1, <1>7, TextFacts
  <2>3. ~EndsLine(t, i - 1)
    BY <2>2 DEF EndsLine
  <2>4. s[l] # i
    BY <1>1, <1>3, <2>2, <2>3, StartsAreLineStarts DEF IsStarts
  <2>5. ~Counts(t, s[l], i)
    BY <1>3, <1>7, <2>2, <2>4 DEF Counts
  <2> QED
    BY <1>2, <1>4, <1>5, <1>7, <2>1, <2>5 DEF IsPosition
<1>8. CASE ~EndsLine(t, i) /\ At(t, i) # "lo"
  <2>1. Moved(t, i + 1, p) = [p EXCEPT !.column = @ + 1]
    BY <1>8, MovedCases
  <2>2. Moved(t, i + 1, p).line = p.line /\ Moved(t, i + 1, p).column = p.column + 1
    BY <2>1 DEF Cursors
  <2>3. Counts(t, s[l], i)
    BY <1>8 DEF Counts
  <2> QED
    BY <1>2, <1>4, <1>5, <1>8, <2>2, <2>3 DEF IsPosition
<1> QED
  BY <1>6, <1>7, <1>8

LEMMA CursorIsPosition ==
  ASSUME NEW t \in Texts
  PROVE  \A i \in 0 .. Len(t) : IsPosition(t, i, Cursor(t)[i])
<1> DEFINE c == Cursor(t)
           n == Len(t)
           A == {i \in Nat : i <= n => IsPosition(t, i, c[i])}
<1>1. n \in Nat
  BY TextFacts
<1>2. /\ c[0] = [line |-> 1, column |-> 1]
      /\ \A i \in 1 .. n : c[i] = Moved(t, i, c[i - 1])
      /\ \A i \in 0 .. n : c[i] \in Cursors
  BY CursorMoves
<1> HIDE DEF c
<1>3. 0 \in A
  <2>1. 0 \in 0 .. n
    BY <1>1
  <2>2. /\ Index(t, 0) \in 1 .. Len(Starts(t)) /\ Len(Starts(t)) \in Nat
        /\ Starts(t)[Index(t, 0)] = 0
    BY <2>1, IndexFacts
  <2>3. Index(t, 0) = 1
    <3>1. Starts(t)[1] = 0 /\ \A a, b \in 1 .. Len(Starts(t)) : a < b => Starts(t)[a] < Starts(t)[b]
      BY StartsAreLineStarts DEF IsStarts
    <3> QED
      BY <2>2, <3>1
  <2>4. CodePoints(t, 0, 0) = 0
    BY CodePointsSteps
  <2> QED
    BY <1>2, <2>2, <2>3, <2>4 DEF IsPosition
<1>4. ASSUME NEW i \in Nat, i \in A PROVE i + 1 \in A
  <2> SUFFICES ASSUME i + 1 <= n PROVE IsPosition(t, i + 1, c[i + 1])
    OBVIOUS
  <2>1. i \in 0 .. n - 1 /\ i \in 0 .. n /\ i + 1 \in 1 .. n /\ (i + 1) - 1 = i
    BY <1>1
  <2>2. c[i + 1] = Moved(t, i + 1, c[i]) /\ c[i] \in Cursors
    BY <1>2, <2>1
  <2>3. IsPosition(t, i, c[i])
    BY <1>1, <1>4, <2>1
  <2> QED
    BY <2>1, <2>2, <2>3, PositionMoves
<1>5. Nat \subseteq A
  <2> HIDE DEF A
  <2> QED
    BY <1>3, <1>4, Counting
<1> QED
  BY <1>1, <1>5 DEF c

(***************************************************************************)
(* lineEnd, and the range of a finding.                                    *)
(***************************************************************************)

\* The first terminator that is complete behind pos is the one of pos's line.
LEMMA NextLine ==
  ASSUME NEW t \in Texts, NEW pos \in 0 .. Len(t)
  PROVE  LET s == Starts(t)
             i == Index(t, pos) IN
         /\ i \in 1 .. Len(s) /\ Len(s) \in Nat /\ s[i] \in 0 .. pos
         /\ i < Len(s) => s[i + 1] \in pos + 1 .. Len(t) /\ EndsLine(t, s[i + 1] - 1)
         /\ \A j \in pos .. Len(t) - 1 : EndsLine(t, j) => i < Len(s) /\ s[i + 1] <= j + 1
         /\ \A k \in pos .. Len(t) : (i < Len(s) => k < s[i + 1]) => Index(t, k) = i
<1> DEFINE s == Starts(t)
           N == Len(s)
           n == Len(t)
           i == Index(t, pos)
<1>1. /\ n \in Nat /\ N \in Nat /\ s \in [1 .. N -> 0 .. n]
      /\ \A a, b \in 1 .. N : a < b => s[a] < s[b]
      /\ \A j \in 1 .. n : EndsLine(t, j - 1) <=> \E a \in 1 .. N : s[a] = j
  BY StartsAreLineStarts DEF IsStarts
<1>2. i \in 1 .. N /\ s[i] \in 0 .. pos /\ \A k \in i + 1 .. N : s[k] > pos
  BY IndexFacts
<1>3. ASSUME NEW k \in pos .. n
      PROVE  \A j \in 1 .. N : s[j] <= k /\ (\A a \in j + 1 .. N : s[a] > k) => j = Index(t, k)
  <2>1. k \in 0 .. Len(t)
    BY <1>1
  <2> QED
    BY <2>1, IndexFacts
<1> HIDE DEF s, N, n, i
<1>4. ASSUME i < N PROVE s[i + 1] \in pos + 1 .. n /\ EndsLine(t, s[i + 1] - 1)
  <2>1. i + 1 \in 1 .. N /\ i + 1 \in i + 1 .. N
    BY <1>1, <1>2, <1>4
  <2>2. s[i + 1] \in 0 .. n /\ s[i + 1] > pos
    BY <1>1, <1>2, <2>1
  <2>3. s[i + 1] \in 1 .. n /\ pos \in Nat
    BY <1>1, <2>2 DEF n
  <2> QED
    BY <1>1, <2>1, <2>2, <2>3
<1>5. ASSUME NEW j \in pos .. n - 1, EndsLine(t, j) PROVE i < N /\ s[i + 1] <= j + 1
  <2>1. j + 1 \in 1 .. n /\ (j + 1) - 1 = j /\ pos \in Nat /\ j \in Nat
    BY <1>1 DEF n
  <2>2. PICK a \in 1 .. N : s[a] = j + 1
    BY <1>1, <1>5, <2>1
  <2>3. ~(a < i) /\ a # i
    BY <1>1, <1>2, <2>1, <2>2
  <2>4. a > i /\ i + 1 \in 1 .. N
    BY <1>1, <1>2, <2>3
  <2>5. s[i + 1] \in 0 .. n /\ (a = i + 1 \/ s[i + 1] < s[a])
    BY <1>1, <1>2, <2>4
  <2> QED
    BY <1>1, <1>2, <2>1, <2>2, <2>4, <2>5
<1>6. ASSUME NEW k \in pos .. n, i < N => k < s[i + 1] PROVE Index(t, k) = i
  <2>1. pos \in Nat /\ k \in Nat /\ s[i] <= k
    BY <1>1, <1>2 DEF n
  <2>2. ASSUME NEW a \in i + 1 .. N PROVE s[a] > k
    <3>1. i < N /\ i + 1 \in 1 .. N /\ a \in 1 .. N /\ (a = i + 1 \/ i + 1 < a)
      BY <1>1, <1>2
    <3>2. s[a] \in 0 .. n /\ s[i + 1] \in 0 .. n /\ (a = i + 1 \/ s[i + 1] < s[a])
      BY <1>1, <3>1
    <3> QED
      BY <1>1, <1>6, <2>1, <3>1, <3>2
  <2> QED
    BY <1>2, <1>3, <2>1, <2>2
<1> QED
  BY <1>1, <1>2, <1>4, <1>5, <1>6 DEF s, N, n, i

Terminators == {"cr", "nl"}

LEMMA TerminatorsEnd ==
  ASSUME NEW t \in Texts, NEW j \in 0 .. Len(t) - 1, At(t, j) \in Terminators
  PROVE  \/ EndsLine(t, j)
         \/ At(t, j) = "cr" /\ j + 1 < Len(t) /\ At(t, j + 1) = "nl" /\ EndsLine(t, j + 1)
BY TextFacts DEF EndsLine, Terminators

\* What lineEnd returns: no terminator from pos up to it, and one at it or, between
\* the two halves of CRLF, at pos.
LEMMA LineEndFacts ==
  ASSUME NEW t \in Texts, NEW pos \in 0 .. Len(t)
  PROVE  LET le == LineEnd(t, pos) IN
         /\ le \in 0 .. Len(t)
         /\ \A j \in pos .. le - 1 : At(t, j) \notin Terminators
         /\ le >= pos /\ le < Len(t) => At(t, le) \in Terminators
         /\ le < pos => pos < Len(t) /\ At(t, pos) \in Terminators
         /\ \A k \in pos .. le : Index(t, k) = Index(t, pos)
<1> DEFINE s == Starts(t)
           N == Len(s)
           n == Len(t)
           i == Index(t, pos)
           le == LineEnd(t, pos)
           nx == s[i + 1]
           crlf == nx >= 2 /\ At(t, nx - 2) = "cr" /\ At(t, nx - 1) = "nl"
<1>1. n \in Nat /\ pos \in 0 .. n /\ pos \in Nat
  BY TextFacts
<1>2. /\ i \in 1 .. N /\ N \in Nat
      /\ i < N => nx \in pos + 1 .. n /\ EndsLine(t, nx - 1)
      /\ \A j \in pos .. n - 1 : EndsLine(t, j) => i < N /\ nx <= j + 1
      /\ \A k \in pos .. n : (i < N => k < nx) => Index(t, k) = i
  BY NextLine
<1>3. le = IF i = N THEN n ELSE nx - (IF crlf THEN 2 ELSE 1)
  BY DEF LineEnd
<1>4. \A j \in 0 .. n - 1 : At(t, j) \in Terminators =>
        \/ EndsLine(t, j)
        \/ At(t, j) = "cr" /\ j + 1 < n /\ At(t, j + 1) = "nl" /\ EndsLine(t, j + 1)
  BY TerminatorsEnd
<1> HIDE DEF s, N, n, i, le, nx
<1>5. CASE i = N
  <2>1. le = n
    BY <1>3, <1>5
  <2>2. \A j \in pos .. n - 1 : ~EndsLine(t, j)
    BY <1>2, <1>5
  <2>3. ASSUME NEW j \in pos .. n - 1 PROVE At(t, j) \notin Terminators
    <3>1. j \in 0 .. n - 1 /\ (j + 1 < n => j + 1 \in pos .. n - 1)
      BY <1>1
    <3> QED
      BY <1>4, <2>2, <3>1
  <2>4. \A k \in pos .. n : Index(t, k) = i
    BY <1>2, <1>5
  <2> QED
    BY <1>1, <2>1, <2>3, <2>4 DEF i, n, le
<1>6. CASE i < N
  <2>1. nx \in pos + 1 .. n /\ nx \in Nat /\ EndsLine(t, nx - 1)
    BY <1>1, <1>2, <1>6
  <2>2. le = nx - (IF crlf THEN 2 ELSE 1)
    BY <1>2, <1>3, <1>6
  <2>3. le \in 0 .. n /\ le < nx /\ le \in Nat
    BY <1>1, <2>1, <2>2
  <2>4. ASSUME NEW j \in pos .. le - 1 PROVE At(t, j) \notin Terminators
    <3> SUFFICES ASSUME At(t, j) \in Terminators PROVE FALSE
      OBVIOUS
    <3>1. j \in 0 .. n - 1 /\ j \in pos .. n - 1 /\ j \in Nat /\ j + 1 < nx
      BY <1>1, <2>1, <2>3
    <3>2. ~EndsLine(t, j)
      BY <1>2, <2>1, <3>1
    <3>3. At(t, j) = "cr" /\ j + 1 < n /\ At(t, j + 1) = "nl" /\ EndsLine(t, j + 1)
      BY <1>4, <3>1, <3>2
    <3>4. nx <= j + 2
      <4>1. j + 1 \in pos .. n - 1
        BY <1>1, <3>1, <3>3
      <4> QED
        BY <1>2, <2>1, <3>1, <3>3, <4>1
    <3>5. nx - 2 = j /\ nx - 1 = j + 1 /\ nx >= 2
      BY <2>1, <3>1, <3>4
    <3>6. le = nx - 2
      BY <2>2, <3>3, <3>5
    <3> QED
      BY <2>1, <3>5, <3>6
  <2>5. CASE crlf
    <3>1. le = nx - 2
      BY <2>2, <2>5
    <3>2. At(t, le) \in Terminators
      BY <2>5, <3>1 DEF Terminators
    <3>3. ASSUME le < pos PROVE pos < n /\ At(t, pos) \in Terminators
      <4>1. pos = nx - 1
        BY <1>1, <2>1, <3>1, <3>3
      <4> QED
        BY <1>1, <2>1, <2>5, <4>1 DEF Terminators
    <3> QED
      BY <3>2, <3>3, <2>3, <2>4, <1>1, <1>2, <1>6 DEF i, n, le
  <2>6. CASE ~crlf
    <3>1. le = nx - 1
      BY <2>2, <2>6
    <3>2. At(t, le) \in Terminators
      BY <2>1, <3>1 DEF EndsLine, Terminators
    <3>3. ~(le < pos)
      BY <1>1, <2>1, <3>1
    <3> QED
      BY <3>2, <3>3, <2>3, <2>4, <1>1, <1>2, <1>6 DEF i, n, le
  <2> QED
    BY <2>5, <2>6
<1> QED
  BY <1>2, <1>5, <1>6

\* What is shown of a range ends where the range or the line does.
LEMMA ShownIsRange ==
  ASSUME NEW t \in Texts, NEW pos \in 0 .. Len(t), NEW e \in 0 .. Len(t) \cup {NoPos}
  PROVE  LET le == LineEnd(t, pos)
             end == IF e <= le THEN e ELSE le IN
         Shown(t, pos, e) = pos .. end - 1
<1> DEFINE le == LineEnd(t, pos)
           n == Len(t)
           end == IF e <= le THEN e ELSE le
<1>1. n \in Nat /\ pos \in Nat /\ pos \in 0 .. n /\ e \in Int /\ e <= n
  BY TextFacts DEF NoPos
<1>2. /\ le \in 0 .. n
      /\ \A j \in pos .. le - 1 : At(t, j) \notin Terminators
      /\ le >= pos /\ le < n => At(t, le) \in Terminators
      /\ le < pos => pos < n /\ At(t, pos) \in Terminators
  BY LineEndFacts
<1>3. Shown(t, pos, e) = {i \in pos .. e - 1 : \A j \in pos .. i : At(t, j) \notin Terminators}
  BY DEF Shown, Terminators
<1> HIDE DEF le, n
<1>4. ASSUME NEW i \in pos .. e - 1, \A j \in pos .. i : At(t, j) \notin Terminators
      PROVE  i \in pos .. end - 1
  <2>1. pos \in pos .. i /\ ~(le < pos)
    BY <1>1, <1>2, <1>4
  <2>2. ~(le <= i)
    <3> SUFFICES ASSUME le <= i PROVE FALSE
      OBVIOUS
    <3>1. le \in pos .. i /\ le < n
      BY <1>1, <1>2, <2>1
    <3> QED
      BY <1>2, <1>4, <2>1, <3>1
  <2> QED
    BY <1>1, <1>2, <2>1, <2>2
<1>5. ASSUME NEW i \in pos .. end - 1
      PROVE  i \in pos .. e - 1 /\ \A j \in pos .. i : At(t, j) \notin Terminators
  <2>1. i \in pos .. e - 1 /\ pos .. i \subseteq pos .. le - 1
    BY <1>1, <1>2
  <2> QED
    BY <1>2, <2>1
<1> QED
  BY <1>3, <1>4, <1>5 DEF le

\* Of a range that shows something, the last character is a whole one or the two
\* halves at its end.
LEMMA LastShownUnit ==
  ASSUME NEW t \in Texts, NEW pos \in Offsets(t), NEW e, NEW end \in 0 .. Len(t), pos < end,
         Shown(t, pos, e) = pos .. end - 1, At(t, LastShown(t, pos, e)) # "hi"
  PROVE  LastShown(t, pos, e) = end - 1
<1> DEFINE n == Len(t)
           T == {i \in Shown(t, pos, e) : At(t, i) # "lo"}
           last == LastShown(t, pos, e)
<1>1. n \in Nat /\ pos \in 0 .. n /\ pos \in Nat /\ end \in Nat /\ end <= n /\ pos < n
      /\ At(t, pos) # "lo"
  BY TextFacts DEF Offsets
<1>2. T = {i \in pos .. end - 1 : At(t, i) # "lo"}
  OBVIOUS
<1>3. last = CHOOSE x \in T : \A y \in T : x >= y
  BY DEF LastShown, Max
<1> HIDE DEF T, last, n
<1>4. ASSUME NEW x \in T, \A y \in T : x >= y PROVE last = x
  <2>1. last \in T /\ \A y \in T : last >= y
    BY <1>3, <1>4
  <2>2. last >= x /\ x >= last /\ last \in Int /\ x \in Int
    BY <1>2, <1>4, <2>1
  <2> QED
    BY <2>2
<1>5. CASE At(t, end - 1) # "lo"
  <2>1. end - 1 \in T /\ \A y \in T : end - 1 >= y
    BY <1>1, <1>2, <1>5
  <2> QED
    BY <1>4, <2>1 DEF last
<1>6. CASE At(t, end - 1) = "lo"
  <2>1. end - 1 \in 0 .. n - 1
    BY <1>1
  <2>2. end - 1 >= 1 /\ At(t, (end - 1) - 1) = "hi"
    BY <1>6, <2>1, TextFacts DEF n
  <2>3. end - 2 = (end - 1) - 1 /\ end - 1 # pos
    BY <1>1, <1>6
  <2>4. end - 2 \in T
    BY <1>1, <1>2, <2>2, <2>3
  <2>5. \A y \in T : end - 2 >= y
    BY <1>1, <1>2, <1>6
  <2>6. last = end - 2
    BY <1>4, <2>4, <2>5
  <2> QED
    BY <2>2, <2>3, <2>6 DEF last
<1> QED
  BY <1>5, <1>6

\* The column of an offset in the text, where the clamp changes nothing.
LEMMA ColumnInText ==
  ASSUME NEW t, NEW pos, pos <= Len(t)
  PROVE  Column(t, pos) = CodePoints(t, Starts(t)[Index(t, pos)], pos) + 1
BY DEF Column

\* The position of one finding.
LEMMA PositionIsCursor ==
  ASSUME NEW t \in Texts, NEW pos \in Offsets(t), NEW e \in Offsets(t) \cup {NoPos}
  PROVE  LET p == Position(t, pos, e)
             c == Cursor(t) IN
         /\ p.line = c[pos].line /\ p.column = c[pos].column
         /\ IF Shown(t, pos, e) = {} THEN DOMAIN p = {"line", "column"}
            ELSE LET last == LastShown(t, pos, e) IN
                 /\ p.end_line = p.line /\ p.end_column >= p.column
                 /\ At(t, last) # "hi" => p.end_column = c[last].column
<1> DEFINE n == Len(t)
           c == Cursor(t)
           p == Position(t, pos, e)
           le == LineEnd(t, pos)
           end == IF e <= le THEN e ELSE le
           l == Line(t, pos)
           k == Column(t, pos)
           l2 == Line(t, end - 1)
           k2 == Column(t, end - 1)
<1>1. n \in Nat /\ pos \in 0 .. n /\ pos \in Nat /\ e \in 0 .. n \cup {NoPos} /\ e \in Int
  BY TextFacts DEF Offsets, NoPos
<1>2. /\ le \in 0 .. n /\ \A i \in pos .. le : Index(t, i) = Index(t, pos)
  BY <1>1, LineEndFacts
<1>3. Shown(t, pos, e) = pos .. end - 1
  BY <1>1, ShownIsRange
<1>4. \A i \in 0 .. n : c[i].line = Line(t, i) /\ c[i].column = Column(t, i)
  BY <1>1, CursorIsPosition, ColumnInText DEF IsPosition, Line
<1>5. l = c[pos].line /\ k = c[pos].column
  BY <1>1, <1>4
<1>6. CASE e # NoPos /\ end > pos
  <2>1. p = [line |-> l, column |-> k, end_line |-> l2, end_column |-> k2]
    BY <1>1, <1>6 DEF Position, NoPos
  <2>2. end \in Nat /\ end \in 0 .. n /\ pos < end /\ end - 1 \in pos .. le /\ end - 1 \in 0 .. n
    BY <1>1, <1>2, <1>6 DEF NoPos
  <2>3. Shown(t, pos, e) # {}
    <3> HIDE DEF end
    <3>1. end - 1 >= pos /\ end - 1 \in Int
      BY <1>1, <2>2
    <3>2. pos \in pos .. end - 1
      BY <1>1, <3>1
    <3> QED
      BY <1>3, <3>2
  <2>4. Index(t, end - 1) = Index(t, pos)
    BY <1>2, <2>2
  <2>5. l2 = l
    BY <2>4 DEF Line
  <2>6. k2 >= k
    <3> DEFINE from == Starts(t)[Index(t, pos)]
    <3>1. from \in Nat /\ from <= pos
      <4>1. from \in 0 .. pos
        BY <1>1, IndexFacts
      <4> QED
        BY <4>1
    <3>2. k = CodePoints(t, from, pos) + 1 /\ k2 = CodePoints(t, from, end - 1) + 1
      BY <1>1, <2>2, <2>4, ColumnInText
    <3> HIDE DEF from
    <3>3. end - 1 \in Nat /\ pos <= end - 1
      BY <1>1, <2>2
    <3>4. CodePoints(t, from, pos) <= CodePoints(t, from, end - 1)
      BY <1>1, <3>1, <3>3, CodePointsGrow
    <3>5. CodePoints(t, from, pos) \in Nat /\ CodePoints(t, from, end - 1) \in Nat
      <4> HIDE DEF end
      <4>1. from <= end - 1
        BY <1>1, <3>1, <3>3
      <4>2. \A i \in Nat : from <= i => CodePoints(t, from, i) \in Nat
        BY <3>1, CodePointsSteps
      <4> QED
        BY <1>1, <3>1, <3>3, <4>1, <4>2
    <3> QED
      BY <3>2, <3>4, <3>5
  <2>7. ASSUME At(t, LastShown(t, pos, e)) # "hi" PROVE k2 = c[LastShown(t, pos, e)].column
    <3>1. LastShown(t, pos, e) = end - 1
      BY <1>3, <2>2, <2>7, LastShownUnit
    <3> QED
      BY <1>4, <2>2, <3>1
  <2> HIDE DEF p, l, k, l2, k2, end
  <2> QED
    BY <1>5, <2>1, <2>3, <2>5, <2>6, <2>7 DEF p
<1>7. CASE ~(e # NoPos /\ end > pos)
  <2>1. p = [line |-> l, column |-> k]
    BY <1>1, <1>7 DEF Position, NoPos
  <2>2. Shown(t, pos, e) = {}
    BY <1>1, <1>2, <1>3, <1>7 DEF NoPos
  <2> HIDE DEF p, l, k
  <2>3. p.line = l /\ p.column = k /\ DOMAIN p = {"line", "column"}
    BY <2>1
  <2> QED
    BY <1>5, <2>2, <2>3 DEF p
<1> QED
  BY <1>6, <1>7

\* A text that could not be read is one empty line.
LEMMA PositionInNothing ==
  ASSUME NEW pos \in Nat, NEW e \in Nat \cup {NoPos}
  PROVE  Position(<<>>, pos, e) = [line |-> 1, column |-> 1]
<1> DEFINE t == <<>>
<1>1. t \in Texts /\ Len(t) = 0
  BY TextAssumption DEF Texts, BoundedSeq, SeqOf
<1>2. Starts(t) = <<0>>
  BY <1>1, StartsStepByStep
<1>3. Index(t, pos) = 1
  BY <1>1, <1>2, IndexFindsLast DEF IsLast
<1>4. LineEnd(t, pos) = 0 /\ Line(t, pos) = 1
  BY <1>1, <1>2, <1>3 DEF LineEnd, Line
<1>5. CodePoints(t, 0, 0) = 0
  BY CodePointsSteps
<1>6. Column(t, pos) = 1
  BY <1>1, <1>2, <1>3, <1>5 DEF Column
<1> HIDE DEF t
<1>7. ~(e # NoPos /\ (IF e <= LineEnd(t, pos) THEN e ELSE LineEnd(t, pos)) > pos) /\ pos # NoPos
  BY <1>4 DEF NoPos
<1>8. Position(t, pos, e) = [line |-> 1, column |-> 1]
  BY <1>4, <1>6, <1>7 DEF Position
<1> QED
  BY <1>8 DEF t

LEMMA EveryPosition == PositionsMatchCursors
<1>1. SUFFICES ASSUME NEW t \in Texts, NEW pos \in Offsets(t), NEW e \in Offsets(t) \cup {NoPos}
               PROVE  /\ Position(Content(t, FALSE), pos, e) = [line |-> 1, column |-> 1]
                      /\ LET p == Position(Content(t, TRUE), pos, e)
                             c == Cursor(t) IN
                         /\ p.line = c[pos].line /\ p.column = c[pos].column
                         /\ IF Shown(t, pos, e) = {} THEN DOMAIN p = {"line", "column"}
                            ELSE LET last == LastShown(t, pos, e) IN
                                 /\ p.end_line = p.line /\ p.end_column >= p.column
                                 /\ At(t, last) # "hi" => p.end_column = c[last].column
  BY DEF PositionsMatchCursors
<1>2. Content(t, TRUE) = t /\ Content(t, FALSE) = <<>>
  BY DEF Content
<1>3. pos \in Nat /\ e \in Nat \cup {NoPos}
  BY TextFacts DEF Offsets
<1> QED
  BY <1>2, <1>3, PositionInNothing, PositionIsCursor

(***************************************************************************)
(* Reports: the output that is kept.                                       *)
(***************************************************************************)

\* What cappedBuffer may hold.
Buffers(S) == [buf : {b \in Seq(S) : Len(b) <= MaxOutput}, overflow : BOOLEAN]

\* cappedBuffer keeps its limit, whatever is written.
LEMMA WriteKeepsLimit ==
  ASSUME NEW S, NEW b \in Buffers(S), NEW p \in Seq(S)
  PROVE  Write(b, p) \in Buffers(S)
<1> DEFINE room == MaxOutput - Len(b.buf)
<1>1. b.buf \in Seq(S) /\ Len(b.buf) <= MaxOutput /\ room \in Nat
  <2>1. b.buf \in Seq(S) /\ Len(b.buf) <= MaxOutput
    BY DEF Buffers
  <2> QED
    BY <2>1, LenProperties, CapsAssumption
<1>2. CASE Len(p) > room
  <2>1. SubSeq(p, 1, room) \in Seq(S) /\ Len(SubSeq(p, 1, room)) = room
    <3>1. \A i \in 1 .. room : p[i] \in S
      BY <1>1, <1>2, LenProperties
    <3> QED
      BY <1>1, <3>1, SubSeqProperties
  <2>2. b.buf \o SubSeq(p, 1, room) \in Seq(S) /\ Len(b.buf \o SubSeq(p, 1, room)) = MaxOutput
    <3>1. /\ b.buf \o SubSeq(p, 1, room) \in Seq(S)
          /\ Len(b.buf \o SubSeq(p, 1, room)) = Len(b.buf) + room
      BY <1>1, <2>1, ConcatProperties
    <3>2. Len(b.buf) \in Nat /\ MaxOutput \in Nat
      BY <1>1, LenProperties, CapsAssumption
    <3>3. Len(b.buf) + room = MaxOutput
      BY <3>2
    <3> QED
      BY <3>1, <3>3
  <2>3. Write(b, p) = [buf |-> b.buf \o SubSeq(p, 1, room), overflow |-> TRUE]
    BY <1>2 DEF Write
  <2> QED
    BY <2>2, <2>3, CapsAssumption DEF Buffers
<1>3. CASE ~(Len(p) > room)
  <2>1. b.buf \o p \in Seq(S) /\ Len(b.buf \o p) <= MaxOutput
    BY <1>1, <1>3, ConcatProperties, LenProperties, CapsAssumption
  <2>2. Write(b, p) = [b EXCEPT !.buf = @ \o p]
    BY <1>3 DEF Write
  <2> QED
    BY <2>1, <2>2 DEF Buffers
<1> QED
  BY <1>2, <1>3

\* Output is reached write by write.
LEMMA OutputSteps ==
  ASSUME NEW S, NEW writes \in Seq(Seq(S))
  PROVE  \E f \in [0 .. Len(writes) -> Buffers(S)] :
           /\ f[0] = [buf |-> <<>>, overflow |-> FALSE]
           /\ \A i \in 1 .. Len(writes) : f[i] = Write(f[i - 1], writes[i])
           /\ Output(writes) = f[Len(writes)]
<1> DEFINE n == Len(writes)
           D == Buffers(S)
           base == [buf |-> <<>>, overflow |-> FALSE]
           G == [i \in 1 .. n |-> [b \in D |-> Write(b, writes[i])]]
           F(h) == [s \in SUBSET (1 .. n) |->
                      IF s = {} THEN base ELSE Write(h[s \ {Max(s)}], writes[Max(s)])]
           g == CHOOSE h : h = F(h)
<1>1. n \in Nat /\ DOMAIN writes = 1 .. n /\ \A i \in 1 .. n : writes[i] \in Seq(S)
  BY LenProperties
<1>2. base \in D
  BY CapsAssumption DEF Buffers
<1>3. G \in [1 .. n -> [D -> D]]
  BY <1>1, WriteKeepsLimit
<1>4. PICK h \in [SUBSET (1 .. n) -> D] :
             IsFold(h, G, base, D, n)
  <2>1. n \in Nat
    BY <1>1
  <2> HIDE DEF n, D, base, G
  <2> QED
    BY <2>1, <1>2, <1>3, Folding
<1>5. h = F(h)
  <2>1. ASSUME NEW s \in SUBSET (1 .. n), s # {}
        PROVE  h[s] = Write(h[s \ {Max(s)}], writes[Max(s)])
    <3>1. Max(s) \in 1 .. n
      <4>1. n \in Nat /\ s \in SUBSET (0 .. n)
        BY <1>1
      <4> HIDE DEF n
      <4> QED
        BY <2>1, <4>1, MaxFacts
    <3>2. h[s \ {Max(s)}] \in D
      BY s \ {Max(s)} \in SUBSET (1 .. n)
    <3> HIDE DEF n, D, base
    <3> QED
      BY <1>4, <2>1, <3>1, <3>2 DEF IsFold
  <2> HIDE DEF n, D, base, G
  <2> QED
    BY <1>4, <2>1 DEF IsFold
<1>6. g = F(g)
  <2> HIDE DEF n, base
  <2> QED
    BY <1>5
<1>7. Output(writes) = g[1 .. n]
  BY <1>1 DEF Output, FoldLeft, MapThenFoldSet
<1>8. PICK f \in [0 .. n -> D] : IsChain(f, G, base, n) /\ f[n] = g[1 .. n]
  <2>1. n \in Nat
    BY <1>1
  <2>2. g[{}] = base
    <3> HIDE DEF n, base, g
    <3> QED
      BY <1>6
  <2>3. ASSUME NEW s \in SUBSET (1 .. n), s # {}, g[s \ {Max(s)}] \in D
        PROVE  g[s] = G[Max(s)][g[s \ {Max(s)}]]
    <3>1. Max(s) \in 1 .. n
      <4>1. s \in SUBSET (0 .. n)
        BY <1>1
      <4> HIDE DEF n
      <4> QED
        BY <2>1, <2>3, <4>1, MaxFacts
    <3> HIDE DEF n, D, base, g
    <3> QED
      BY <1>6, <2>3, <3>1
  <2> HIDE DEF n, D, base, G, g
  <2>4. IsFold(g, G, base, D, n)
    BY <2>2, <2>3 DEF IsFold
  <2>5. base \in D
    BY <1>2
  <2>6. G \in Steppers(D, n)
    BY <1>3 DEF Steppers
  <2>7. EndsChain(g, G, base, D, n)
    BY <2>1, <2>4, <2>5, <2>6, FoldEndsChain
  <2> QED
    BY <2>7 DEF EndsChain
<1>9. ASSUME NEW i \in 1 .. n PROVE f[i] = Write(f[i - 1], writes[i])
  <2>1. i - 1 \in 0 .. n
    BY <1>1
  <2>2. f[i - 1] \in D
    BY <2>1
  <2> HIDE DEF n, D
  <2> QED
    BY <1>8, <2>2 DEF IsChain
<1> HIDE DEF G, g
<1> QED
  BY <1>7, <1>8, <1>9 DEF IsChain

\* FlattenSeq appends one sequence after the other.
LEMMA FlattenSteps ==
  ASSUME NEW S, NEW seqs \in Seq(Seq(S))
  PROVE  \E c \in [0 .. Len(seqs) -> Seq(S)] :
           /\ c[0] = <<>>
           /\ \A i \in 1 .. Len(seqs) : c[i] = c[i - 1] \o seqs[i]
           /\ FlattenSeq(seqs) = c[Len(seqs)]
<1> DEFINE n == Len(seqs)
           D == Seq(S)
           base == <<>>
           G == [i \in 1 .. n |-> [d \in D |-> d \o seqs[i]]]
           F(h) == [i \in 1 .. n |-> IF i = 1 THEN seqs[i] ELSE h[i - 1] \o seqs[i]]
           fl == CHOOSE h : h = F(h)
<1>1. n \in Nat /\ DOMAIN seqs = 1 .. n /\ \A i \in 1 .. n : seqs[i] \in Seq(S)
  BY LenProperties
<1>2. base \in D
  OBVIOUS
<1>3. G \in [1 .. n -> [D -> D]]
  BY <1>1, ConcatProperties
<1>4. PICK c \in [0 .. n -> D] : IsChain(c, G, base, n)
  <2>1. n \in Nat
    BY <1>1
  <2> HIDE DEF n, base, G, D
  <2> QED
    BY <2>1, <1>2, <1>3, Recursion
<1>5. \A i \in 1 .. n : c[i] = c[i - 1] \o seqs[i]
  <2> HIDE DEF n, D
  <2> SUFFICES ASSUME NEW i \in 1 .. n PROVE c[i] = c[i - 1] \o seqs[i]
    OBVIOUS
  <2>1. i - 1 \in 0 .. n
    BY <1>1
  <2>2. c[i - 1] \in D
    BY <2>1
  <2> QED
    BY <1>4, <2>2 DEF IsChain
<1>6. \A i \in 1 .. n : c[i] = IF i = 1 THEN seqs[i] ELSE c[i - 1] \o seqs[i]
  <2>1. ASSUME 1 \in 1 .. n PROVE c[1] = seqs[1]
    <3>1. c[1] = <<>> \o seqs[1]
      <4>1. c[0] = <<>> /\ 1 - 1 = 0
        BY <1>4 DEF IsChain
      <4> HIDE DEF n, D
      <4> QED
        BY <1>5, <2>1, <4>1
    <3> QED
      BY <1>1, <2>1, <3>1, ConcatEmptySeq
  <2> HIDE DEF n, D
  <2> QED
    BY <1>5, <2>1
<1>7. [i \in 1 .. n |-> c[i]] = F([i \in 1 .. n |-> c[i]])
  <2>1. \A i \in 1 .. n : i # 1 => i - 1 \in 1 .. n
    BY <1>1
  <2> HIDE DEF n, D
  <2> QED
    BY <1>6, <2>1
<1>8. fl = F(fl)
  <2> HIDE DEF n
  <2> QED
    BY <1>7
<1>9. ASSUME NEW i \in 1 .. n PROVE fl[i] = c[i]
  <2> DEFINE A == {k \in Nat : k + 1 <= n => fl[k + 1] = c[k + 1]}
  <2> HIDE DEF n, D
  <2>1. 0 \in A
    <3>1. SUFFICES ASSUME 1 \in 1 .. n PROVE fl[1] = c[1]
      BY <1>1
    <3> HIDE DEF fl
    <3> QED
      BY <1>6, <1>8, <3>1
  <2>2. ASSUME NEW k \in Nat, k \in A PROVE k + 1 \in A
    <3>1. SUFFICES ASSUME (k + 1) + 1 <= n PROVE fl[(k + 1) + 1] = c[(k + 1) + 1]
      OBVIOUS
    <3> DEFINE j == (k + 1) + 1
    <3>2. j \in 1 .. n /\ j # 1 /\ j - 1 = k + 1 /\ fl[k + 1] = c[k + 1]
      BY <1>1, <2>2, <3>1
    <3> HIDE DEF fl, j
    <3>3. fl[j] = fl[j - 1] \o seqs[j]
      BY <1>8, <3>2
    <3>4. c[j] = c[j - 1] \o seqs[j]
      BY <1>5, <3>2
    <3>5. fl[j] = c[j]
      BY <3>2, <3>3, <3>4
    <3> QED
      BY <3>5 DEF j
  <2> HIDE DEF A, fl
  <2>3. Nat \subseteq A
    BY <2>1, <2>2, Counting
  <2>4. i - 1 \in Nat /\ (i - 1) + 1 = i /\ i <= n
    BY <1>1
  <2>5. i - 1 \in A
    BY <2>3, <2>4
  <2> QED
    BY <2>4, <2>5 DEF A
<1>10. FlattenSeq(seqs) = c[n]
  <2>1. CASE n = 0
    <3>1. seqs = <<>>
      BY <1>1, <2>1, EmptySeq
    <3> QED
      BY <1>4, <2>1, <3>1 DEF IsChain, FlattenSeq
  <2>2. CASE n # 0
    <3>1. FlattenSeq(seqs) = fl[n]
      BY <2>2 DEF FlattenSeq
    <3>2. n \in 1 .. n
      BY <1>1, <2>2
    <3> HIDE DEF n, fl
    <3> QED
      BY <1>9, <3>1, <3>2
  <2> QED
    BY <2>1, <2>2
<1> HIDE DEF fl, G
<1> QED
  BY <1>4, <1>5, <1>10 DEF IsChain

\* The first m of two sequences in a row.
LEMMA FirstOfConcat ==
  ASSUME NEW S, NEW s \in Seq(S), NEW t \in Seq(S), NEW m \in 0 .. Len(s) + Len(t)
  PROVE  SubSeq(s \o t, 1, m) =
           IF m <= Len(s) THEN SubSeq(s, 1, m) ELSE s \o SubSeq(t, 1, m - Len(s))
<1>1. /\ s \o t \in Seq(S) /\ Len(s \o t) = Len(s) + Len(t)
      /\ \A i \in 1 .. Len(s) + Len(t) : (s \o t)[i] = IF i <= Len(s) THEN s[i] ELSE t[i - Len(s)]
  BY ConcatProperties
<1>2. /\ Len(s) \in Nat /\ Len(t) \in Nat
      /\ \A i \in 1 .. Len(s) : s[i] \in S
      /\ \A i \in 1 .. Len(t) : t[i] \in S
  BY LenProperties
<1> DEFINE u == SubSeq(s \o t, 1, m)
<1>3. u \in Seq(S) /\ Len(u) = m /\ \A i \in 1 .. m : u[i] = (s \o t)[i]
  <2>1. \A i \in 1 .. m : (s \o t)[i] \in S
    BY <1>1, <1>2
  <2>2. /\ u \in Seq(S)
        /\ Len(u) = IF 1 <= m THEN m - 1 + 1 ELSE 0
        /\ \A i \in 1 .. m - 1 + 1 : u[i] = (s \o t)[1 + i - 1]
    <3>1. 1 \in Int /\ m \in Int
      OBVIOUS
    <3> QED
      BY <2>1, <3>1, SubSeqProperties
  <2>3. m - 1 + 1 = m /\ \A i \in 1 .. m : 1 + i - 1 = i
    OBVIOUS
  <2> HIDE DEF u
  <2> QED
    BY <2>2, <2>3
<1>4. CASE m <= Len(s)
  <2> DEFINE v == SubSeq(s, 1, m)
  <2>1. \A i \in 1 .. m : s[i] \in S
    BY <1>2, <1>4
  <2>2. v \in Seq(S) /\ Len(v) = m /\ \A i \in 1 .. m : v[i] = s[i]
    BY <2>1, <1>2, SubSeqProperties
  <2> HIDE DEF u, v
  <2>3. \A i \in 1 .. m : u[i] = v[i]
    BY <1>1, <1>2, <1>3, <1>4, <2>2
  <2>4. u = v
    BY <1>3, <2>2, <2>3, SeqEqual
  <2> QED
    BY <1>4, <2>4 DEF u, v
<1>5. CASE ~(m <= Len(s))
  <2> DEFINE k == m - Len(s)
             w == SubSeq(t, 1, k)
             v == s \o w
  <2>1. k \in 1 .. Len(t) /\ \A i \in 1 .. k : t[i] \in S
    BY <1>2, <1>5
  <2>2. w \in Seq(S) /\ Len(w) = k /\ \A i \in 1 .. k : w[i] = t[i]
    <3> HIDE DEF k
    <3> QED
      BY <2>1, <1>2, SubSeqProperties
  <2> HIDE DEF w
  <2>3. /\ v \in Seq(S) /\ Len(v) = Len(s) + Len(w)
        /\ \A i \in 1 .. Len(s) + Len(w) : v[i] = IF i <= Len(s) THEN s[i] ELSE w[i - Len(s)]
    BY <2>2, ConcatProperties
  <2> HIDE DEF u, v
  <2>4. Len(v) = m
    BY <1>2, <2>2, <2>3
  <2>5. \A i \in 1 .. m : u[i] = v[i]
    <3> SUFFICES ASSUME NEW i \in 1 .. m PROVE u[i] = v[i]
      OBVIOUS
    <3>1. CASE i <= Len(s)
      BY <1>1, <1>2, <1>3, <2>2, <2>3, <3>1
    <3>2. CASE ~(i <= Len(s))
      <4>1. i - Len(s) \in 1 .. k /\ i \in 1 .. Len(s) + Len(t) /\ i \in 1 .. Len(s) + Len(w)
        BY <1>2, <2>2, <3>2
      <4> HIDE DEF k
      <4> QED
        BY <1>1, <1>3, <2>2, <2>3, <3>2, <4>1
    <3> QED
      BY <3>1, <3>2
  <2>6. u = v
    BY <1>3, <2>3, <2>4, <2>5, SeqEqual
  <2> QED
    BY <1>5, <2>6 DEF u, v, w
<1> QED
  BY <1>4, <1>5

\* What cappedBuffer has kept of c.
Buffered(c) ==
  [buf |-> IF Len(c) > MaxOutput THEN SubSeq(c, 1, MaxOutput) ELSE c,
   overflow |-> Len(c) > MaxOutput]

LEMMA Rebuffered ==
  ASSUME NEW x, NEW y, NEW o \in BOOLEAN
  PROVE  [[buf |-> x, overflow |-> o] EXCEPT !.buf = y] = [buf |-> y, overflow |-> o]
OBVIOUS

\* One more write keeps what it would have kept of all in one.
LEMMA WriteKeeps ==
  ASSUME NEW S, NEW c \in Seq(S), NEW p \in Seq(S)
  PROVE  Write(Buffered(c), p) = Buffered(c \o p)
<1>1. /\ Len(c) \in Nat /\ Len(p) \in Nat /\ MaxOutput \in Nat
      /\ c \o p \in Seq(S) /\ Len(c \o p) = Len(c) + Len(p)
  BY LenProperties, ConcatProperties, CapsAssumption
<1>2. CASE Len(c) > MaxOutput
  <2> DEFINE b == SubSeq(c, 1, MaxOutput)
  <2>1. b \in Seq(S) /\ Len(b) = MaxOutput
    <3>1. \A i \in 1 .. MaxOutput : c[i] \in S
      BY <1>1, <1>2, LenProperties
    <3> QED
      BY <1>1, <3>1, SubSeqProperties
  <2>2. Buffered(c) = [buf |-> b, overflow |-> TRUE]
    BY <1>2 DEF Buffered
  <2>3. Buffered(c \o p) = [buf |-> b, overflow |-> TRUE]
    <3>1. MaxOutput \in 0 .. Len(c) + Len(p) /\ MaxOutput <= Len(c)
      BY <1>1, <1>2
    <3>2. SubSeq(c \o p, 1, MaxOutput) = b
      BY <3>1, FirstOfConcat
    <3>3. Len(c \o p) > MaxOutput
      BY <1>1, <1>2
    <3> QED
      BY <3>2, <3>3 DEF Buffered
  <2> HIDE DEF b
  <2>4. b \o <<>> = b
    BY <2>1, ConcatEmptySeq
  <2>5. MaxOutput - Len(b) = 0 /\ SubSeq(p, 1, 0) = <<>>
    BY <1>1, <2>1, SubSeqEmpty
  <2> DEFINE full == [buf |-> b, overflow |-> TRUE]
  <2>8. full.buf = b /\ \A x : [full EXCEPT !.buf = x] = [buf |-> x, overflow |-> TRUE]
    <3>1. full.buf = b
      OBVIOUS
    <3>2. TRUE \in BOOLEAN
      OBVIOUS
    <3> QED
      BY <3>1, <3>2, Rebuffered, Zenon
  <2> HIDE DEF full
  <2>9. Write(full, p) = full
    <3>1. CASE Len(p) > 0
      <4>1. Write(full, p) = [buf |-> b \o SubSeq(p, 1, 0), overflow |-> TRUE]
        BY <2>5, <2>8, <3>1 DEF Write
      <4> QED
        BY <2>4, <2>5, <4>1 DEF full
    <3>2. CASE ~(Len(p) > 0)
      <4>1. p = <<>>
        BY <1>1, <3>2, EmptySeq
      <4>2. Write(full, p) = [full EXCEPT !.buf = @ \o p]
        BY <2>5, <2>8, <3>2 DEF Write
      <4> QED
        BY <2>4, <2>8, <4>1, <4>2 DEF full
    <3> QED
      BY <3>1, <3>2
  <2> QED
    BY <2>2, <2>3, <2>9 DEF full
<1>3. CASE ~(Len(c) > MaxOutput)
  <2>1. Buffered(c) = [buf |-> c, overflow |-> FALSE]
    <3>1. (Len(c) > MaxOutput) = FALSE
      BY <1>3
    <3> QED
      BY <1>3, <3>1 DEF Buffered
  <2>2. CASE Len(p) > MaxOutput - Len(c)
    <3>1. Len(c \o p) > MaxOutput /\ MaxOutput \in 0 .. Len(c) + Len(p)
      BY <1>1, <1>3, <2>2
    <3>2. SubSeq(c \o p, 1, MaxOutput) = c \o SubSeq(p, 1, MaxOutput - Len(c))
      <4>1. CASE MaxOutput = Len(c)
        <5>1. SubSeq(p, 1, MaxOutput - Len(c)) = <<>>
          BY <1>1, <4>1, SubSeqEmpty
        <5>2. SubSeq(c \o p, 1, MaxOutput) = SubSeq(c, 1, Len(c))
          BY <3>1, <4>1, <1>1, FirstOfConcat
        <5> QED
          BY <5>1, <5>2, SubSeqFull, ConcatEmptySeq
      <4>2. CASE MaxOutput # Len(c)
        <5>1. ~(MaxOutput <= Len(c))
          BY <1>1, <1>3, <4>2
        <5> QED
          BY <3>1, <5>1, FirstOfConcat
      <4> QED
        BY <4>1, <4>2
    <3> QED
      BY <2>1, <2>2, <3>1, <3>2 DEF Buffered, Write
  <2>3. CASE ~(Len(p) > MaxOutput - Len(c))
    <3>1. (Len(c \o p) > MaxOutput) = FALSE
      BY <1>1, <2>3
    <3>2. Buffered(c \o p) = [buf |-> c \o p, overflow |-> FALSE]
      BY <3>1 DEF Buffered
    <3>3. Write(Buffered(c), p) = [Buffered(c) EXCEPT !.buf = c \o p]
      BY <2>1, <2>3 DEF Write
    <3>4. FALSE \in BOOLEAN
      OBVIOUS
    <3>5. [[buf |-> c, overflow |-> FALSE] EXCEPT !.buf = c \o p] =
            [buf |-> c \o p, overflow |-> FALSE]
      BY <3>4, Rebuffered, Zenon
    <3> QED
      BY <2>1, <3>2, <3>3, <3>5, Zenon
  <2> QED
    BY <2>2, <2>3
<1> QED
  BY <1>2, <1>3

\* Whatever pieces it comes in, of any output the first MaxOutput bytes are kept.
LEMMA OutputKeeps ==
  ASSUME NEW S, NEW writes \in Seq(Seq(S))
  PROVE  Output(writes) = Buffered(FlattenSeq(writes))
<1> DEFINE n == Len(writes)
<1>1. n \in Nat /\ \A i \in 1 .. n : writes[i] \in Seq(S)
  BY LenProperties
<1>2. PICK f \in [0 .. n -> Buffers(S)] :
           /\ f[0] = [buf |-> <<>>, overflow |-> FALSE]
           /\ \A i \in 1 .. n : f[i] = Write(f[i - 1], writes[i])
           /\ Output(writes) = f[n]
  BY OutputSteps
<1>3. PICK c \in [0 .. n -> Seq(S)] :
           /\ c[0] = <<>>
           /\ \A i \in 1 .. n : c[i] = c[i - 1] \o writes[i]
           /\ FlattenSeq(writes) = c[n]
  BY FlattenSteps
<1> HIDE DEF n
<1> DEFINE A == {i \in Nat : i <= n => f[i] = Buffered(c[i])}
<1>4. 0 \in A
  <2>1. (Len(<<>>) > MaxOutput) = FALSE
    BY CapsAssumption
  <2>2. Buffered(<<>>) = [buf |-> <<>>, overflow |-> FALSE]
    BY <2>1 DEF Buffered
  <2> QED
    BY <1>2, <1>3, <2>2
<1>5. ASSUME NEW i \in Nat, i \in A PROVE i + 1 \in A
  <2>1. SUFFICES ASSUME i + 1 <= n PROVE f[i + 1] = Buffered(c[i + 1])
    OBVIOUS
  <2>2. i + 1 \in 1 .. n /\ (i + 1) - 1 = i /\ i \in 0 .. n /\ f[i] = Buffered(c[i])
    BY <1>1, <1>5, <2>1
  <2>3. f[i + 1] = Write(Buffered(c[i]), writes[i + 1]) /\ c[i + 1] = c[i] \o writes[i + 1]
    BY <1>2, <1>3, <2>2
  <2> QED
    BY <1>1, <2>2, <2>3, WriteKeeps
<1>6. n \in A
  <2> HIDE DEF A
  <2> QED
    BY <1>1, <1>4, <1>5, Counting
<1> QED
  BY <1>1, <1>2, <1>3, <1>6

\* Sequences within a bound.
LEMMA BoundedIsSeq ==
  ASSUME NEW S, NEW max \in Nat, NEW n \in BoundedSeq(S, max)
  PROVE  n \in Seq(S)
<1>1. PICK m \in 0 .. max : n \in [1 .. m -> S]
  BY DEF BoundedSeq, SeqOf
<1>2. m \in Nat
  BY <1>1
<1>3. n = [i \in 1 .. m |-> n[i]] /\ \A i \in 1 .. m : n[i] \in S
  BY <1>1
<1>4. [i \in 1 .. m |-> n[i]] \in Seq(S)
  BY <1>2, <1>3, IsASeq
<1> QED
  BY <1>3, <1>4

LEMMA MoreSeqs ==
  ASSUME NEW S, NEW T, S \subseteq T
  PROVE  Seq(S) \subseteq Seq(T)
OBVIOUS

LEMMA OutputIsPrefix == OutputIsAPrefix
<1> SUFFICES ASSUME NEW writes \in BoundedSeq(BoundedSeq({"x", "y"}, MaxPiece), MaxWrites)
             PROVE  Output(writes) = Buffered(FlattenSeq(writes))
  BY DEF OutputIsAPrefix, Buffered
<1>1. BoundedSeq({"x", "y"}, MaxPiece) \subseteq Seq({"x", "y"})
  BY BoundedIsSeq, CapsAssumption
<1>2. writes \in Seq(BoundedSeq({"x", "y"}, MaxPiece))
  BY BoundedIsSeq, CapsAssumption
<1>3. writes \in Seq(Seq({"x", "y"}))
  BY <1>1, <1>2, MoreSeqs
<1> QED
  BY <1>3, OutputKeeps

(***************************************************************************)
(* Reports: messages and findings.                                         *)
(***************************************************************************)

\* One more sequence is appended.
LEMMA FlattenAppend ==
  ASSUME NEW S, NEW seqs \in Seq(Seq(S)), NEW s \in Seq(S)
  PROVE  FlattenSeq(Append(seqs, s)) = FlattenSeq(seqs) \o s
<1> DEFINE n == Len(seqs)
           more == Append(seqs, s)
<1>1. /\ n \in Nat /\ more \in Seq(Seq(S)) /\ Len(more) = n + 1
      /\ \A i \in 1 .. n : more[i] = seqs[i]
      /\ more[n + 1] = s
  BY LenProperties, AppendProperties
<1>2. PICK c \in [0 .. n -> Seq(S)] :
           /\ c[0] = <<>> /\ \A i \in 1 .. n : c[i] = c[i - 1] \o seqs[i]
           /\ FlattenSeq(seqs) = c[n]
  BY FlattenSteps
<1> HIDE DEF n, more
<1>3. PICK d \in [0 .. n + 1 -> Seq(S)] :
           /\ d[0] = <<>> /\ \A i \in 1 .. n + 1 : d[i] = d[i - 1] \o more[i]
           /\ FlattenSeq(more) = d[n + 1]
  <2>1. PICK d \in [0 .. Len(more) -> Seq(S)] :
           /\ d[0] = <<>> /\ \A i \in 1 .. Len(more) : d[i] = d[i - 1] \o more[i]
           /\ FlattenSeq(more) = d[Len(more)]
    BY <1>1, FlattenSteps
  <2> QED
    BY <1>1, <2>1
<1> DEFINE A == {i \in Nat : i <= n => c[i] = d[i]}
<1>4. 0 \in A
  BY <1>2, <1>3
<1>5. ASSUME NEW i \in Nat, i \in A PROVE i + 1 \in A
  <2>1. SUFFICES ASSUME i + 1 <= n PROVE c[i + 1] = d[i + 1]
    OBVIOUS
  <2>2. i + 1 \in 1 .. n /\ i + 1 \in 1 .. n + 1 /\ (i + 1) - 1 = i /\ c[i] = d[i]
    BY <1>1, <1>5, <2>1
  <2> QED
    BY <1>1, <1>2, <1>3, <2>2
<1>6. c[n] = d[n]
  <2> HIDE DEF A
  <2>1. n \in A
    BY <1>1, <1>4, <1>5, Counting
  <2> QED
    BY <2>1, <1>1 DEF A
<1>7. n + 1 \in 1 .. n + 1 /\ (n + 1) - 1 = n
  <2>1. n \in Nat
    BY <1>1
  <2> QED
    BY <2>1
<1> QED
  BY <1>1, <1>2, <1>3, <1>6, <1>7 DEF more

Bytes == {Lead[r] : r \in 1 .. 4} \cup {"cont"}
Rune(r) == [j \in 1 .. r |-> IF j = 1 THEN Lead[r] ELSE "cont"]

LEMMA RuneFacts ==
  ASSUME NEW r \in 1 .. 4
  PROVE  /\ Rune(r) \in Seq(Bytes) /\ Len(Rune(r)) = r
         /\ \A j \in 1 .. r : Rune(r)[j] = "cont" <=> j # 1
<1>1. Lead[r] \in Bytes /\ Lead[r] # "cont" /\ "cont" \in Bytes
  BY DEF Bytes, Lead
<1> HIDE DEF Bytes
<1>2. Rune(r) \in [1 .. r -> Bytes]
  BY <1>1 DEF Rune
<1> QED
  BY <1>1, <1>2 DEF Rune

\* A message grows rune by rune.
LEMMA MessageGrows ==
  ASSUME NEW runes \in Seq(1 .. 4)
  PROVE  /\ \A k \in 0 .. Len(runes) : Message(SubSeq(runes, 1, k)) \in Seq(Bytes)
         /\ Message(SubSeq(runes, 1, 0)) = <<>>
         /\ \A k \in 1 .. Len(runes) :
              Message(SubSeq(runes, 1, k)) = Message(SubSeq(runes, 1, k - 1)) \o Rune(runes[k])
<1> DEFINE n == Len(runes)
           part(k) == SubSeq(runes, 1, k)
           bytes(s) == [i \in DOMAIN s |-> Rune(s[i])]
<1>1. n \in Nat /\ runes \in [1 .. n -> 1 .. 4]
  BY LenProperties
<1> HIDE DEF n
<1>2. \A s : Message(s) = FlattenSeq(bytes(s))
  BY DEF Message, Rune
<1>3. ASSUME NEW k \in 0 .. n
      PROVE  part(k) \in Seq(1 .. 4) /\ Len(part(k)) = k /\ \A i \in 1 .. k : part(k)[i] = runes[i]
  <2>1. \A i \in 1 .. k : runes[i] \in 1 .. 4
    BY <1>1
  <2> QED
    BY <2>1, SubSeqProperties
<1>4. ASSUME NEW k \in 0 .. n
      PROVE  bytes(part(k)) \in Seq(Seq(Bytes)) /\ Len(bytes(part(k))) = k
  <2>1. DOMAIN part(k) = 1 .. k /\ \A i \in 1 .. k : part(k)[i] \in 1 .. 4
    BY <1>1, <1>3, LenProperties
  <2>2. \A i \in 1 .. k : Rune(part(k)[i]) \in Seq(Bytes)
    BY <2>1, RuneFacts
  <2> HIDE DEF part
  <2>3. bytes(part(k)) \in [1 .. k -> Seq(Bytes)]
    BY <2>1, <2>2
  <2> QED
    BY <2>3
<1>5. ASSUME NEW k \in 0 .. n PROVE Message(part(k)) \in Seq(Bytes)
  <2>1. PICK c \in [0 .. k -> Seq(Bytes)] : FlattenSeq(bytes(part(k))) = c[k]
    <3>1. \E c \in [0 .. Len(bytes(part(k))) -> Seq(Bytes)] :
            FlattenSeq(bytes(part(k))) = c[Len(bytes(part(k)))]
      <4> DEFINE b == bytes(part(k))
      <4>1. b \in Seq(Seq(Bytes))
        BY <1>4
      <4> HIDE DEF b
      <4>2. \E c \in [0 .. Len(b) -> Seq(Bytes)] : FlattenSeq(b) = c[Len(b)]
        BY <4>1, FlattenSteps
      <4> QED
        BY <4>2 DEF b
    <3> HIDE DEF bytes, part
    <3> QED
      BY <1>4, <3>1
  <2> HIDE DEF bytes, part
  <2> QED
    BY <1>2, <2>1
<1>6. Message(part(0)) = <<>>
  <2>1. Len(bytes(part(0))) = 0
    BY <1>1, <1>4
  <2>2. bytes(part(0)) = <<>>
    BY <1>1, <1>4, <2>1, EmptySeq
  <2> HIDE DEF bytes, part
  <2>3. FlattenSeq(<<>>) = <<>>
    BY DEF FlattenSeq
  <2> QED
    BY <1>2, <2>2, <2>3
<1>7. ASSUME NEW k \in 1 .. n
      PROVE  Message(part(k)) = Message(part(k - 1)) \o Rune(runes[k])
  <2>0. k \in 0 .. n /\ k - 1 \in 0 .. n /\ runes[k] \in 1 .. 4 /\ Rune(runes[k]) \in Seq(Bytes)
    BY <1>1, RuneFacts
  <2>1. bytes(part(k)) = Append(bytes(part(k - 1)), Rune(runes[k]))
    <3> DEFINE s == bytes(part(k))
               t == bytes(part(k - 1))
               a == Append(t, Rune(runes[k]))
    <3>1. s \in Seq(Seq(Bytes)) /\ Len(s) = k /\ \A i \in 1 .. k : s[i] = Rune(runes[i])
      <4>1. DOMAIN part(k) = 1 .. k
        BY <1>3, <2>0, LenProperties
      <4> HIDE DEF part
      <4> QED
        BY <1>3, <1>4, <2>0, <4>1
    <3>2. t \in Seq(Seq(Bytes)) /\ Len(t) = k - 1 /\ \A i \in 1 .. k - 1 : t[i] = Rune(runes[i])
      <4>1. DOMAIN part(k - 1) = 1 .. k - 1
        BY <1>3, <2>0, LenProperties
      <4> HIDE DEF part
      <4> QED
        BY <1>3, <1>4, <2>0, <4>1
    <3> HIDE DEF s, t
    <3>3. /\ a \in Seq(Seq(Bytes)) /\ Len(a) = Len(t) + 1
          /\ \A i \in 1 .. Len(t) : a[i] = t[i]
          /\ a[Len(t) + 1] = Rune(runes[k])
      BY <2>0, <3>2, AppendProperties
    <3> HIDE DEF a
    <3>4. Len(s) = Len(a) /\ \A i \in 1 .. Len(s) : s[i] = a[i]
      BY <3>1, <3>2, <3>3
    <3>5. s = a
      BY <3>1, <3>3, <3>4, SeqEqual
    <3> QED
      BY <3>5 DEF s, t, a
  <2>2. bytes(part(k - 1)) \in Seq(Seq(Bytes))
    BY <1>4, <2>0
  <2> HIDE DEF bytes, part
  <2>3. FlattenSeq(bytes(part(k))) = FlattenSeq(bytes(part(k - 1))) \o Rune(runes[k])
    BY <2>0, <2>1, <2>2, FlattenAppend
  <2> QED
    BY <1>2, <2>3
<1> QED
  BY <1>5, <1>6, <1>7 DEF n

\* The beginnings of a message: what each rune adds, and that each is a beginning
\* of all later ones.
LEMMA MessagePrefixes ==
  ASSUME NEW n \in Nat, NEW m \in [0 .. n -> Seq(Bytes)], NEW runes \in [1 .. n -> 1 .. 4],
         m[0] = <<>>, \A k \in 1 .. n : m[k] = m[k - 1] \o Rune(runes[k])
  PROVE  /\ \A k \in 0 .. n : Len(m[k]) <= Len(m[n]) /\ m[k] = SubSeq(m[n], 1, Len(m[k]))
         /\ \A k \in 1 .. n, i \in Nat : Len(m[k - 1]) <= i /\ i < Len(m[k]) =>
              (m[n][i + 1] = "cont" <=> i # Len(m[k - 1]))
<1>1. ASSUME NEW k \in 1 .. n
      PROVE  /\ k - 1 \in 0 .. n /\ k \in 0 .. n
             /\ Len(m[k - 1]) \in Nat /\ Len(m[k]) = Len(m[k - 1]) + runes[k]
             /\ \A i \in 1 .. Len(m[k]) :
                  m[k][i] = IF i <= Len(m[k - 1]) THEN m[k - 1][i]
                            ELSE Rune(runes[k])[i - Len(m[k - 1])]
  <2>1. k - 1 \in 0 .. n /\ k \in 0 .. n /\ runes[k] \in 1 .. 4
    OBVIOUS
  <2>2. Rune(runes[k]) \in Seq(Bytes) /\ Len(Rune(runes[k])) = runes[k]
    BY <2>1, RuneFacts
  <2>3. m[k - 1] \in Seq(Bytes) /\ m[k] = m[k - 1] \o Rune(runes[k])
    BY <2>1
  <2>4. Len(m[k - 1]) \in Nat
    BY <2>3, LenProperties
  <2> DEFINE p == m[k - 1]
             r == Rune(runes[k])
  <2> HIDE DEF p, r
  <2>5. /\ Len(p \o r) = Len(p) + Len(r)
        /\ \A i \in 1 .. Len(p) + Len(r) : (p \o r)[i] = IF i <= Len(p) THEN p[i] ELSE r[i - Len(p)]
    BY <2>2, <2>3, ConcatProperties DEF p, r
  <2> QED
    BY <2>1, <2>2, <2>3, <2>4, <2>5 DEF p, r
<1> DEFINE Within(k, l) == /\ Len(m[k]) <= Len(m[l])
                           /\ \A i \in 1 .. Len(m[k]) : m[l][i] = m[k][i]
           A(k) == {d \in Nat : k + d <= n => Within(k, k + d)}
<1>2. ASSUME NEW k \in 0 .. n PROVE Within(k, n)
  <2>0. Len(m[k]) \in Nat /\ k + 0 = k
    BY LenProperties
  <2>1. 0 \in A(k)
    BY <2>0
  <2>2. ASSUME NEW d \in Nat, d \in A(k) PROVE d + 1 \in A(k)
    <3>1. SUFFICES ASSUME k + (d + 1) <= n PROVE Within(k, k + (d + 1))
      OBVIOUS
    <3> DEFINE l == k + (d + 1)
    <3>2. l \in 1 .. n /\ l - 1 = k + d /\ k + d <= n
      BY <3>1
    <3>3. Within(k, l - 1)
      BY <2>2, <3>2
    <3> HIDE DEF l
    <3>4. Len(m[l - 1]) \in Nat /\ Len(m[l]) = Len(m[l - 1]) + runes[l] /\ runes[l] \in 1 .. 4
      BY <1>1, <3>2
    <3>5. Within(k, l)
      <4> DEFINE a == Len(m[k])
                 b == Len(m[l - 1])
                 c == Len(m[l])
                 r == runes[l]
      <4>0. a \in Nat /\ b \in Nat /\ a <= b /\ c = b + r /\ r \in 1 .. 4
        BY <2>0, <3>3, <3>4
      <4>1. Len(m[k]) <= Len(m[l])
        <5> HIDE DEF a, b, c, r
        <5>1. a <= c
          BY <4>0
        <5> QED
          BY <5>1 DEF a, c
      <4>2. ASSUME NEW i \in 1 .. Len(m[k]) PROVE m[l][i] = m[k][i]
        <5>1. i \in 1 .. Len(m[l]) /\ i <= Len(m[l - 1])
          <6>1. i \in 1 .. a
            OBVIOUS
          <6> HIDE DEF a, b, c, r
          <6>2. i \in 1 .. c /\ i <= b
            BY <4>0, <6>1
          <6> QED
            BY <6>2 DEF b, c
        <5>2. m[l][i] = m[l - 1][i]
          BY <1>1, <3>2, <5>1
        <5> QED
          BY <3>3, <5>2
      <4> QED
        BY <4>1, <4>2
    <3> QED
      BY <3>5 DEF l
  <2>3. n - k \in A(k)
    <3>1. n - k \in Nat
      OBVIOUS
    <3> HIDE DEF A
    <3> QED
      BY <2>1, <2>2, <3>1, Counting
  <2>4. k + (n - k) = n
    OBVIOUS
  <2> HIDE DEF Within
  <2> QED
    BY <2>3, <2>4
<1>3. ASSUME NEW k \in 0 .. n PROVE m[k] = SubSeq(m[n], 1, Len(m[k]))
  <2> DEFINE s == SubSeq(m[n], 1, Len(m[k]))
  <2>1. m[k] \in Seq(Bytes) /\ m[n] \in Seq(Bytes) /\ Len(m[k]) \in Nat /\ Len(m[n]) \in Nat
    <3>1. m[k] \in Seq(Bytes) /\ m[n] \in Seq(Bytes)
      OBVIOUS
    <3> QED
      BY <3>1, LenProperties
  <2>2. Len(m[k]) <= Len(m[n]) /\ \A i \in 1 .. Len(m[k]) : m[n][i] = m[k][i]
    BY <1>2
  <2>3. s \in Seq(Bytes) /\ Len(s) = Len(m[k]) /\ \A i \in 1 .. Len(m[k]) : s[i] = m[n][i]
    <3>1. \A i \in 1 .. Len(m[k]) : m[n][i] \in Bytes
      BY <2>1, <2>2, LenProperties
    <3> QED
      BY <2>1, <3>1, SubSeqProperties
  <2> HIDE DEF s
  <2>4. m[k] = s
    BY <2>1, <2>2, <2>3, SeqEqual
  <2> QED
    BY <2>4 DEF s
<1>4. ASSUME NEW k \in 1 .. n, NEW i \in Nat, Len(m[k - 1]) <= i, i < Len(m[k])
      PROVE  m[n][i + 1] = "cont" <=> i # Len(m[k - 1])
  <2> DEFINE a == Len(m[k - 1])
             b == Len(m[k])
             r == runes[k]
             j == (i + 1) - a
  <2>1. a \in Nat /\ b = a + r /\ r \in 1 .. 4 /\ a <= i /\ i < b
    BY <1>1, <1>4
  <2> HIDE DEF a, b, r
  <2>2. /\ j \in 1 .. r /\ i + 1 \in 1 .. b /\ ~(i + 1 <= a)
        /\ (j # 1 <=> i # a)
    BY <2>1
  <2>3. m[n][i + 1] = m[k][i + 1]
    <3>1. k \in 0 .. n
      OBVIOUS
    <3> QED
      BY <1>2, <2>2, <3>1 DEF b
  <2>4. m[k][i + 1] = Rune(r)[j]
    <3>1. \A x \in 1 .. b : m[k][x] = IF x <= a THEN m[k - 1][x] ELSE Rune(r)[x - a]
      BY <1>1 DEF a, b, r
    <3>2. i + 1 \in 1 .. b /\ ~(i + 1 <= a)
      BY <2>2
    <3> DEFINE x == i + 1
    <3> HIDE DEF x
    <3>3. m[k][x] = Rune(r)[x - a]
      BY <3>1, <3>2 DEF x
    <3> QED
      BY <3>3 DEF x
  <2> HIDE DEF j
  <2>5. Rune(r)[j] = "cont" <=> j # 1
    BY <2>1, <2>2, RuneFacts
  <2> QED
    BY <2>2, <2>3, <2>4, <2>5 DEF a
<1> QED
  BY <1>2, <1>3, <1>4

\* The search for a place to cut ends where the rune starts that is cut.
LEMMA CutAtRune ==
  ASSUME NEW s, NEW from \in Nat, from <= MaxMessageBytes,
         \A i \in from .. MaxMessageBytes : s[i + 1] = "cont" <=> i # from
  PROVE  LET cut[n \in 0 .. MaxMessageBytes] ==
               IF n > 0 /\ s[n + 1] = "cont" THEN cut[n - 1] ELSE n
         IN cut[MaxMessageBytes] = from
<1> DEFINE n == MaxMessageBytes
           D == Nat
           base == 0
           G == [i \in 1 .. n |-> [d \in D |-> IF s[i + 1] = "cont" THEN d ELSE i]]
           F(h) == [i \in 0 .. n |-> IF i > 0 /\ s[i + 1] = "cont" THEN h[i - 1] ELSE i]
           g == CHOOSE h : h = F(h)
<1>1. n \in Nat
  BY CapsAssumption
<1>2. PICK h \in [0 .. n -> D] : IsChain(h, G, base, n)
  <2>1. base \in D
    OBVIOUS
  <2>2. G \in [1 .. n -> [D -> D]]
    BY <1>1
  <2> HIDE DEF n, base, G, D
  <2> QED
    BY <1>1, <2>1, <2>2, Recursion
<1>3. h = F(h)
  <2>1. ASSUME NEW i \in 0 .. n
        PROVE h[i] = IF i > 0 /\ s[i + 1] = "cont" THEN h[i - 1] ELSE i
    <3>1. CASE i = 0
      BY <1>2, <3>1 DEF IsChain
    <3>2. CASE i # 0
      <4>1. i \in 1 .. n /\ i - 1 \in 0 .. n
        BY <1>1, <3>2
      <4>2. h[i] = G[i][h[i - 1]] /\ h[i - 1] \in D
        BY <1>2, <4>1 DEF IsChain
      <4> HIDE DEF n, D
      <4> QED
        BY <3>2, <4>1, <4>2
    <3> QED
      BY <3>1, <3>2
  <2> HIDE DEF n
  <2> QED
    BY <2>1
<1>4. g = F(g)
  <2> HIDE DEF n
  <2> QED
    BY <1>3
<1> DEFINE A == {d \in Nat : from + d <= n => g[from + d] = from}
<1> HIDE DEF g
<1>5. 0 \in A
  <2>1. from \in 0 .. n /\ from + 0 = from /\ (from > 0 => s[from + 1] # "cont")
    BY <1>1
  <2> HIDE DEF n
  <2> QED
    BY <1>4, <2>1
<1>6. ASSUME NEW d \in Nat, d \in A PROVE d + 1 \in A
  <2>1. SUFFICES ASSUME from + (d + 1) <= n PROVE g[from + (d + 1)] = from
    OBVIOUS
  <2> DEFINE i == from + (d + 1)
  <2>2. i \in 0 .. n /\ i > 0 /\ s[i + 1] = "cont" /\ i - 1 = from + d /\ from + d <= n
    BY <1>1, <2>1
  <2>3. g[from + d] = from
    BY <1>6, <2>2
  <2> HIDE DEF n, i
  <2>4. g[i] = g[i - 1]
    BY <1>4, <2>2
  <2>5. g[i] = from
    BY <2>2, <2>3, <2>4
  <2> QED
    BY <2>5 DEF i
<1>7. g[n] = from
  <2>1. n - from \in Nat /\ from + (n - from) = n
    BY <1>1
  <2>2. n - from \in A
    <3> HIDE DEF A
    <3> QED
      BY <1>5, <1>6, <2>1, Counting
  <2> QED
    BY <2>1, <2>2
<1> QED
  BY <1>7 DEF g

\* A message is cut to the most whole runes that fit.
LEMMA TruncatesToRunes ==
  ASSUME NEW runes \in Seq(1 .. 4)
  PROVE  TruncateUTF8(Message(runes)) = Longest(runes)
<1> DEFINE n == Len(runes)
           m == [k \in 0 .. n |-> Message(SubSeq(runes, 1, k))]
           S == {k \in 0 .. n : Len(m[k]) <= MaxMessageBytes}
           last == Max(S)
<1>1. n \in Nat /\ runes \in [1 .. n -> 1 .. 4] /\ SubSeq(runes, 1, n) = runes
  BY LenProperties, SubSeqFull
<1>2. /\ m \in [0 .. n -> Seq(Bytes)] /\ m[0] = <<>>
      /\ \A k \in 1 .. n : m[k] = m[k - 1] \o Rune(runes[k])
  <2>1. /\ \A k \in 0 .. n : Message(SubSeq(runes, 1, k)) \in Seq(Bytes)
        /\ Message(SubSeq(runes, 1, 0)) = <<>>
        /\ \A k \in 1 .. n :
             Message(SubSeq(runes, 1, k)) = Message(SubSeq(runes, 1, k - 1)) \o Rune(runes[k])
    BY MessageGrows
  <2>2. 0 \in 0 .. n /\ \A k \in 1 .. n : k \in 0 .. n /\ k - 1 \in 0 .. n
    BY <1>1
  <2> HIDE DEF n
  <2> QED
    BY <2>1, <2>2
<1>3. /\ \A k \in 0 .. n : Len(m[k]) <= Len(m[n]) /\ m[k] = SubSeq(m[n], 1, Len(m[k]))
      /\ \A k \in 1 .. n, i \in Nat : Len(m[k - 1]) <= i /\ i < Len(m[k]) =>
           (m[n][i + 1] = "cont" <=> i # Len(m[k - 1]))
  <2> HIDE DEF n, m
  <2> QED
    BY <1>1, <1>2, MessagePrefixes
<1>4. Message(runes) = m[n]
  <2>1. n \in 0 .. n
    BY <1>1
  <2> HIDE DEF n
  <2> QED
    BY <1>1, <2>1
<1>5. \A k \in 0 .. n : Len(m[k]) \in Nat
  <2> HIDE DEF n, m
  <2> QED
    BY <1>2, LenProperties
<1>6. last \in S /\ \A k \in S : last >= k
  <2>1. 0 \in S
    <3>1. Len(m[0]) = 0 /\ 0 \in 0 .. n
      BY <1>1, <1>2
    <3> HIDE DEF n, m
    <3> QED
      BY <3>1, CapsAssumption
  <2>2. S \in SUBSET (0 .. n) /\ S # {}
    BY <2>1
  <2> HIDE DEF n, S
  <2> QED
    BY <1>1, <2>2, MaxFacts
<1>7. Longest(runes) = m[last]
  <2>1. S = {k \in 0 .. Len(runes) : Len(Message(SubSeq(runes, 1, k))) <= MaxMessageBytes}
    OBVIOUS
  <2>2. Longest(runes) = Message(SubSeq(runes, 1, last))
    BY <2>1 DEF Longest
  <2>3. last \in 0 .. n
    BY <1>6
  <2> HIDE DEF n, S, last
  <2> QED
    BY <2>2, <2>3
<1> HIDE DEF n, m
<1>8. CASE Len(m[n]) <= MaxMessageBytes
  <2>1. n \in S
    BY <1>1, <1>8
  <2>2. last = n
    BY <1>1, <1>6, <2>1
  <2>3. TruncateUTF8(Message(runes)) = m[n]
    BY <1>4, <1>8 DEF TruncateUTF8
  <2> HIDE DEF last
  <2> QED
    BY <1>7, <2>2, <2>3
<1>9. CASE ~(Len(m[n]) <= MaxMessageBytes)
  <2>1. last \in 0 .. n /\ Len(m[last]) <= MaxMessageBytes /\ last # n
    BY <1>6, <1>9
  <2>2. last + 1 \in 1 .. n /\ (last + 1) - 1 = last /\ last + 1 \in 0 .. n
    <3> HIDE DEF last
    <3> QED
      BY <1>1, <2>1
  <2>3. MaxMessageBytes < Len(m[last + 1])
    <3>1. last + 1 \notin S
      <4>1. ~(last >= last + 1)
        <5> HIDE DEF last
        <5> QED
          BY <2>1
      <4> HIDE DEF last, S
      <4> QED
        BY <1>6, <4>1
    <3>2. ~(Len(m[last + 1]) <= MaxMessageBytes)
      <4> HIDE DEF last
      <4> QED
        BY <2>2, <3>1
    <3> HIDE DEF last
    <3> QED
      BY <1>5, <2>2, <3>2, CapsAssumption
  <2> DEFINE from == Len(m[last])
             s == m[n]
  <2> HIDE DEF last, S
  <2>4. from \in Nat /\ from <= MaxMessageBytes
    BY <1>5, <2>1
  <2>5. ASSUME NEW i \in from .. MaxMessageBytes PROVE s[i + 1] = "cont" <=> i # from
    <3>1. i \in Nat /\ Len(m[(last + 1) - 1]) <= i /\ i < Len(m[last + 1])
      BY <1>5, <2>2, <2>3, <2>4, CapsAssumption
    <3> QED
      BY <1>3, <2>2, <3>1
  <2>6. s = Message(runes) /\ ~(Len(s) <= MaxMessageBytes)
    BY <1>4, <1>9
  <2>7. SubSeq(s, 1, from) = m[last]
    BY <1>3, <2>1
  <2> HIDE DEF from, s
  <2>8. TruncateUTF8(s) = SubSeq(s, 1, from)
    <3>1. LET cut[x \in 0 .. MaxMessageBytes] ==
                IF x > 0 /\ s[x + 1] = "cont" THEN cut[x - 1] ELSE x
          IN cut[MaxMessageBytes] = from
      BY <2>4, <2>5, CutAtRune
    <3> QED
      BY <2>6, <3>1 DEF TruncateUTF8
  <2> QED
    BY <1>7, <2>6, <2>7, <2>8
<1> QED
  BY <1>8, <1>9

LEMMA FindingsStayCapped ==
  ASSUME NEW maxFindings \in 1 .. MaxFindings
  PROVE  FindingsAreCapped(maxFindings)
<1> SUFFICES ASSUME NEW n \in 0 .. MaxFindings, NEW runes \in [1 .. n -> BoundedSeq(1 .. 4, MaxRunes)]
             PROVE  CapReport([i \in 1 .. n |-> [message |-> Message(runes[i]), id |-> i]],
                              maxFindings) =
                      [i \in 1 .. Min({n, maxFindings}) |-> [message |-> Longest(runes[i]), id |-> i]]
  BY DEF FindingsAreCapped
<1> DEFINE found == [i \in 1 .. n |-> [message |-> Message(runes[i]), id |-> i]]
           k == IF n > maxFindings THEN maxFindings ELSE n
<1>1. n \in Nat /\ maxFindings \in Nat
  BY CapsAssumption
<1>2. Len(found) = n
  BY <1>1
<1>3. Min({n, maxFindings}) = k
  BY <1>1 DEF Min
<1>4. ASSUME NEW i \in 1 .. n PROVE TruncateUTF8(Message(runes[i])) = Longest(runes[i])
  <2> DEFINE R == 1 .. 4
  <2> HIDE DEF R
  <2>1. \A s \in BoundedSeq(R, MaxRunes) : s \in Seq(R)
    BY BoundedIsSeq, CapsAssumption
  <2>2. runes[i] \in Seq(1 .. 4)
    BY <2>1 DEF R
  <2> QED
    BY <2>2, TruncatesToRunes
<1>5. ASSUME NEW i \in 1 .. k
      PROVE  [found[i] EXCEPT !.message = TruncateUTF8(@)] = [message |-> Longest(runes[i]), id |-> i]
  <2>0. i \in 1 .. n
    BY <1>1
  <2>1. found[i] = [message |-> Message(runes[i]), id |-> i]
    BY <2>0
  <2>2. \A x, y : [[message |-> x, id |-> i] EXCEPT !.message = y] = [message |-> y, id |-> i]
    OBVIOUS
  <2>3. TruncateUTF8(Message(runes[i])) = Longest(runes[i])
    BY <1>4, <2>0
  <2> HIDE DEF found
  <2> QED
    BY <2>1, <2>2, <2>3
<1>6. CapReport(found, maxFindings) =
        [i \in 1 .. k |-> [found[i] EXCEPT !.message = TruncateUTF8(@)]]
  <2> HIDE DEF found
  <2> QED
    BY <1>2 DEF CapReport
<1> HIDE DEF found, k
<1>7. CapReport(found, maxFindings) = [i \in 1 .. k |-> [message |-> Longest(runes[i]), id |-> i]]
  BY <1>5, <1>6
<1> QED
  BY <1>3, <1>7 DEF found

(***************************************************************************)
(* Reports: paths.                                                         *)
(***************************************************************************)

\* What Clean does with a segment, and what it returns in the end.
CleanStep(rooted, out, s) ==
  IF s \in {Empty, "."} THEN out
  ELSE IF s # ".." THEN Append(out, s)
  ELSE IF out # <<>> /\ Last(out) # ".." THEN Front(out)
  ELSE IF rooted THEN out ELSE Append(out, s)
Cleaned(rooted, body) ==
  IF rooted THEN <<Empty>> \o (IF body = <<>> THEN <<Empty>> ELSE body)
  ELSE IF body = <<>> THEN <<".">> ELSE body

LEMMA FrontFacts ==
  ASSUME NEW S, NEW s \in Seq(S), s # <<>>
  PROVE  /\ Front(s) \in Seq(S) /\ Len(Front(s)) = Len(s) - 1 /\ Len(s) \in Nat \ {0}
         /\ \A i \in 1 .. Len(s) - 1 : Front(s)[i] = s[i]
<1>1. Len(s) \in Nat \ {0} /\ \A i \in 1 .. Len(s) : s[i] \in S
  BY EmptySeq, LenProperties
<1> DEFINE n == Len(s) - 1
<1>2. n \in Nat /\ \A i \in 1 .. n : s[i] \in S
  BY <1>1
<1>3. Front(s) = SubSeq(s, 1, n)
  BY DEF Front
<1> HIDE DEF n
<1>4. /\ SubSeq(s, 1, n) \in Seq(S) /\ Len(SubSeq(s, 1, n)) = n
      /\ \A i \in 1 .. n : SubSeq(s, 1, n)[i] = s[i]
  BY <1>2, SubSeqProperties
<1> QED
  BY <1>1, <1>3, <1>4 DEF n

LEMMA CleanStepStays ==
  ASSUME NEW S, NEW out \in Seq(S), NEW s \in S, NEW rooted
  PROVE  CleanStep(rooted, out, s) \in Seq(S)
<1>1. Append(out, s) \in Seq(S)
  BY AppendProperties
<1>2. out # <<>> => Front(out) \in Seq(S)
  BY FrontFacts
<1> QED
  BY <1>1, <1>2 DEF CleanStep

\* Clean goes through a name segment by segment.
LEMMA CleanSteps ==
  ASSUME NEW S, NEW name \in Seq(S)
  PROVE  \E f \in [0 .. Len(name) -> Seq(S)] :
           /\ f[0] = <<>>
           /\ \A i \in 1 .. Len(name) : f[i] = CleanStep(Rooted(name), f[i - 1], name[i])
           /\ Clean(name) = Cleaned(Rooted(name), f[Len(name)])
<1> DEFINE n == Len(name)
           D == Seq(S)
           base == <<>>
           step(d, i) == CleanStep(Rooted(name), d, name[i])
           G == [i \in 1 .. n |-> [d \in D |-> step(d, i)]]
           F(h) == [s \in SUBSET (1 .. n) |->
                      IF s = {} THEN base ELSE step(h[s \ {Max(s)}], Max(s))]
           g == CHOOSE h : h = F(h)
<1>1. n \in Nat /\ DOMAIN name = 1 .. n /\ \A i \in 1 .. n : name[i] \in S
  BY LenProperties
<1>2. base \in D
  OBVIOUS
<1>3. G \in [1 .. n -> [D -> D]]
  BY <1>1, CleanStepStays
<1>4. PICK h \in [SUBSET (1 .. n) -> D] :
             IsFold(h, G, base, D, n)
  <2>1. n \in Nat
    BY <1>1
  <2> HIDE DEF n, D, base, G
  <2> QED
    BY <2>1, <1>2, <1>3, Folding
<1>0. ASSUME NEW s \in SUBSET (1 .. n), s # {}
      PROVE  Max(s) \in 1 .. n
  <2>1. n \in Nat /\ s \in SUBSET (0 .. n)
    BY <1>1
  <2> HIDE DEF n
  <2> QED
    BY <1>0, <2>1, MaxFacts
<1>5. h = F(h)
  <2>1. ASSUME NEW s \in SUBSET (1 .. n), s # {}
        PROVE  h[s] = step(h[s \ {Max(s)}], Max(s))
    <3>2. h[s \ {Max(s)}] \in D
      BY s \ {Max(s)} \in SUBSET (1 .. n)
    <3> HIDE DEF n, D, base, step
    <3> QED
      BY <1>0, <1>4, <2>1, <3>2 DEF IsFold
  <2> HIDE DEF n, D, base, G, step
  <2> QED
    BY <1>4, <2>1 DEF IsFold
<1>6. g = F(g)
  <2> HIDE DEF n, base, step
  <2> QED
    BY <1>5
<1>7. Clean(name) = Cleaned(Rooted(name), g[1 .. n])
  BY <1>1 DEF Clean, FoldLeft, MapThenFoldSet, CleanStep, Cleaned
<1>8. PICK f \in [0 .. n -> D] : IsChain(f, G, base, n) /\ f[n] = g[1 .. n]
  <2>1. n \in Nat
    BY <1>1
  <2>2. g[{}] = base
    <3> HIDE DEF n, base, g, step
    <3> QED
      BY <1>6
  <2>3. ASSUME NEW s \in SUBSET (1 .. n), s # {}, g[s \ {Max(s)}] \in D
        PROVE  g[s] = G[Max(s)][g[s \ {Max(s)}]]
    <3> HIDE DEF n, D, base, g, step
    <3> QED
      BY <1>0, <1>6, <2>3
  <2> HIDE DEF n, D, base, G, g
  <2>4. IsFold(g, G, base, D, n)
    BY <2>2, <2>3 DEF IsFold
  <2>5. base \in D
    BY <1>2
  <2>6. G \in Steppers(D, n)
    BY <1>3 DEF Steppers
  <2>7. EndsChain(g, G, base, D, n)
    BY <2>1, <2>4, <2>5, <2>6, FoldEndsChain
  <2> QED
    BY <2>7 DEF EndsChain
<1>9. ASSUME NEW i \in 1 .. n PROVE f[i] = step(f[i - 1], i)
  <2>1. i - 1 \in 0 .. n
    BY <1>1
  <2>2. f[i - 1] \in D
    BY <2>1
  <2> HIDE DEF n, D, step
  <2> QED
    BY <1>8, <2>2 DEF IsChain
<1> HIDE DEF G, g
<1> QED
  BY <1>7, <1>8, <1>9 DEF IsChain

LEMMA FrontOfConcat ==
  ASSUME NEW S, NEW x \in Seq(S), NEW y \in Seq(S), y # <<>>
  PROVE  /\ Front(x \o y) = x \o Front(y) /\ Last(x \o y) = Last(y)
         /\ x \o y # <<>> /\ Last(y) \in S
<1> DEFINE z == x \o y
           u == Front(z)
           w == Front(y)
           v == x \o w
<1>1. Len(x) \in Nat /\ Len(y) \in Nat \ {0}
  BY EmptySeq, LenProperties
<1>2. /\ z \in Seq(S) /\ Len(z) = Len(x) + Len(y)
      /\ \A i \in 1 .. Len(x) + Len(y) : z[i] = IF i <= Len(x) THEN x[i] ELSE y[i - Len(x)]
  BY ConcatProperties
<1> HIDE DEF z
<1>3. z # <<>>
  BY <1>1, <1>2, EmptySeq
<1>4. u \in Seq(S) /\ Len(u) = Len(z) - 1 /\ \A i \in 1 .. Len(z) - 1 : u[i] = z[i]
  BY <1>2, <1>3, FrontFacts
<1>5. w \in Seq(S) /\ Len(w) = Len(y) - 1 /\ \A i \in 1 .. Len(y) - 1 : w[i] = y[i]
  BY FrontFacts
<1> HIDE DEF u, w
<1>6. /\ v \in Seq(S) /\ Len(v) = Len(x) + Len(w)
      /\ \A i \in 1 .. Len(x) + Len(w) : v[i] = IF i <= Len(x) THEN x[i] ELSE w[i - Len(x)]
  BY <1>5, ConcatProperties
<1> HIDE DEF v
<1>7. Len(u) = Len(v)
  BY <1>1, <1>2, <1>4, <1>5, <1>6
<1>8. ASSUME NEW i \in 1 .. Len(u) PROVE u[i] = v[i]
  <2>1. i \in 1 .. Len(z) - 1 /\ i \in 1 .. Len(x) + Len(y) /\ i \in 1 .. Len(x) + Len(w)
    BY <1>1, <1>2, <1>4, <1>5
  <2>2. CASE i <= Len(x)
    BY <1>2, <1>4, <1>6, <2>1, <2>2
  <2>3. CASE ~(i <= Len(x))
    <3>1. i - Len(x) \in 1 .. Len(y) - 1
      BY <1>1, <1>5, <2>1, <2>3
    <3> QED
      BY <1>2, <1>4, <1>5, <1>6, <2>1, <2>3, <3>1
  <2> QED
    BY <2>2, <2>3
<1>9. u = v
  BY <1>4, <1>6, <1>7, <1>8, SeqEqual
<1>10. Last(z) = Last(y)
  <2>1. Len(z) \in 1 .. Len(x) + Len(y) /\ ~(Len(z) <= Len(x)) /\ Len(z) - Len(x) = Len(y)
    BY <1>1, <1>2
  <2> QED
    BY <1>2, <2>1 DEF Last
<1>11. Last(y) \in S
  <2>1. Len(y) \in 1 .. Len(y)
    BY <1>1
  <2> QED
    BY <2>1, ElementOfSeq DEF Last
<1> QED
  BY <1>3, <1>9, <1>10, <1>11 DEF u, v, w, z

\* A name of ordinary segments is clean.
LEMMA CleanOfProper ==
  ASSUME NEW S, NEW name \in Seq(S), name # <<>>,
         \A i \in 1 .. Len(name) : name[i] \notin {Empty, ".", ".."}
  PROVE  Clean(name) = name /\ ~Rooted(name)
<1> DEFINE n == Len(name)
<1>0. n \in Nat \ {0} /\ \A i \in 1 .. n : name[i] \in S
  BY EmptySeq, LenProperties
<1>1. n \in Nat /\ 1 \in 1 .. n /\ \A i \in 1 .. n : name[i] \in S
  <2> HIDE DEF n
  <2> QED
    BY <1>0
<1>2. ~Rooted(name)
  <2>1. name[1] # Empty
    BY <1>1
  <2> QED
    BY <2>1 DEF Rooted
<1>3. PICK f \in [0 .. n -> Seq(S)] :
        /\ f[0] = <<>>
        /\ \A i \in 1 .. n : f[i] = CleanStep(Rooted(name), f[i - 1], name[i])
        /\ Clean(name) = Cleaned(Rooted(name), f[n])
  BY CleanSteps
<1>4. n = Len(name)
  OBVIOUS
<1> HIDE DEF n
<1> DEFINE A == {i \in Nat : i <= n => f[i] = SubSeq(name, 1, i)}
<1>5. 0 \in A
  <2>1. SubSeq(name, 1, 0) = <<>>
    BY SubSeqEmpty
  <2> QED
    BY <1>3, <2>1
<1>6. ASSUME NEW i \in Nat, i \in A PROVE i + 1 \in A
  <2>1. SUFFICES ASSUME i + 1 <= n PROVE f[i + 1] = SubSeq(name, 1, i + 1)
    OBVIOUS
  <2> DEFINE j == i + 1
             p == SubSeq(name, 1, j - 1)
  <2>2. j \in 1 .. n /\ j - 1 = i
    BY <1>1, <2>1
  <2>3. f[i] = SubSeq(name, 1, i)
    <3>1. i <= n
      BY <1>1, <2>1
    <3> QED
      BY <1>6, <3>1
  <2>8. f[j - 1] = p
    BY <2>2, <2>3
  <2> HIDE DEF j
  <2>4. p \in Seq(S)
    <3>1. \A x \in 1 .. j - 1 : name[x] \in S
      BY <1>1, <2>2
    <3>2. 1 \in Int /\ j - 1 \in Int
      BY <2>2
    <3> QED
      BY <3>1, <3>2, SubSeqProperties
  <2> HIDE DEF p
  <2>5. f[j] = Append(p, name[j])
    BY <1>3, <1>4, <2>2, <2>8 DEF CleanStep
  <2>6. SubSeq(name, 1, j) = p \o <<name[j]>>
    <3>1. 1 \in 1 .. Len(name) /\ j \in 1 .. Len(name)
      BY <1>1, <1>4, <2>2
    <3> QED
      BY <3>1, SubSeqRecursiveSecond DEF p
  <2>7. f[j] = SubSeq(name, 1, j)
    BY <1>1, <2>2, <2>4, <2>5, <2>6, AppendIsConcat
  <2> QED
    BY <2>7 DEF j
<1>7. f[n] = name
  <2>1. n \in A
    <3> HIDE DEF A
    <3> QED
      BY <1>1, <1>5, <1>6, Counting
  <2>2. f[n] = SubSeq(name, 1, n)
    BY <1>1, <2>1
  <2> QED
    BY <1>4, <2>2, SubSeqFull
<1> QED
  BY <1>2, <1>3, <1>7 DEF Cleaned

\* The segments of the spellings, and those that Clean never goes up with.
Plain == {"a", "b", "-a", Empty, "."}
Marks == Plain \cup {".."}

LEMMA SegmentsDiffer ==
  /\ Empty \notin {"a", "b", "-a", ".", ".."} /\ ".." \notin Plain
  /\ {"a", "b"} \subseteq Plain /\ Plain \subseteq Marks /\ ".." \in Marks
  /\ {Empty, ".", "-a"} \subseteq Plain
<1>1. Empty \notin {"a", "b", "-a", ".", ".."}
  BY Zenon DEF Empty
<1> QED
  BY <1>1 DEF Plain, Marks

\* x is what Clean makes of a name so far, y what it makes of the name in Dir: ups
\* out of the directory, then q.
Walk(x, y, ups, q) ==
  /\ ups \in Seq({".."}) /\ q \in Seq(Plain)
  /\ x = ups \o q /\ y = IF ups = <<>> THEN <<"-a">> \o q ELSE q
Walks(x, y) == \E ups, q : Walk(x, y, ups, q)

LEMMA WalkStep ==
  ASSUME NEW x, NEW y, Walks(x, y), NEW s \in Marks
  PROVE  Walks(CleanStep(FALSE, x, s), CleanStep(TRUE, y, s))
<1>1. PICK ups, q : Walk(x, y, ups, q)
  BY DEF Walks
<1>2. /\ ups \in Seq({".."}) /\ q \in Seq(Plain)
      /\ x = ups \o q /\ y = IF ups = <<>> THEN <<"-a">> \o q ELSE q
  BY <1>1 DEF Walk
<1>3. /\ ups \in Seq(Marks) /\ q \in Seq(Marks) /\ <<"-a">> \in Seq(Marks)
      /\ <<"-a">> \in Seq(Plain)
  BY <1>2, SegmentsDiffer
<1>4. CASE s \in {Empty, "."}
  BY <1>4, <1>1 DEF CleanStep, Walks
<1>5. CASE s \notin {Empty, "."} /\ s # ".."
  <2>1. s \in Plain
    BY <1>5 DEF Marks
  <2>2. Append(q, s) \in Seq(Plain)
    BY <1>2, <2>1, AppendProperties
  <2>3. Append(ups \o q, s) = ups \o Append(q, s) /\ Append(<<"-a">> \o q, s) = <<"-a">> \o Append(q, s)
    <3>1. ASSUME NEW z \in Seq(Marks) PROVE Append(z \o q, s) = z \o Append(q, s)
      <4>1. z \o q \in Seq(Marks) /\ <<s>> \in Seq(Marks)
        BY <1>3, ConcatProperties
      <4>2. Append(z \o q, s) = (z \o q) \o <<s>> /\ Append(q, s) = q \o <<s>>
        BY <1>3, <4>1, AppendIsConcat
      <4>3. (z \o q) \o <<s>> = z \o (q \o <<s>>)
        BY <1>3, <4>1, ConcatAssociative
      <4> QED
        BY <4>2, <4>3
    <3> QED
      BY <1>3, <3>1
  <2>4. CleanStep(FALSE, x, s) = Append(x, s) /\ CleanStep(TRUE, y, s) = Append(y, s)
    BY <1>5 DEF CleanStep
  <2>5. Walk(Append(x, s), Append(y, s), ups, Append(q, s))
    BY <1>2, <2>2, <2>3 DEF Walk
  <2> QED
    BY <2>4, <2>5 DEF Walks
<1>6. CASE s = ".." /\ q # <<>>
  <2>1. Front(q) \in Seq(Plain)
    BY <1>2, <1>6, FrontFacts
  <2>2. /\ Front(ups \o q) = ups \o Front(q) /\ Last(ups \o q) = Last(q) /\ ups \o q # <<>>
        /\ Front(<<"-a">> \o q) = <<"-a">> \o Front(q) /\ Last(<<"-a">> \o q) = Last(q)
        /\ <<"-a">> \o q # <<>>
    BY <1>3, <1>6, FrontOfConcat
  <2>3. Last(q) # ".."
    <3>1. Last(q) \in Plain
      BY <1>2, <1>3, <1>6, FrontOfConcat
    <3> QED
      BY <3>1, SegmentsDiffer
  <2>4. CleanStep(FALSE, x, s) = Front(x) /\ CleanStep(TRUE, y, s) = Front(y)
    <3>1. ".." # Empty /\ ".." # "."
      BY SegmentsDiffer
    <3>2. x # <<>> /\ y # <<>> /\ Last(x) # ".." /\ Last(y) # ".."
      BY <1>2, <1>6, <2>2, <2>3
    <3> QED
      BY <1>6, <3>1, <3>2 DEF CleanStep
  <2>5. Walk(Front(x), Front(y), ups, Front(q))
    BY <1>2, <2>1, <2>2 DEF Walk
  <2> QED
    BY <2>4, <2>5 DEF Walks
<1>7. CASE s = ".." /\ q = <<>>
  <2>1. x = ups /\ Append(ups, "..") \in Seq({".."}) /\ Append(ups, "..") # <<>>
    <3>1. ups \o <<>> = ups
      BY <1>2, ConcatEmptySeq
    <3>2. Append(ups, "..") \in Seq({".."}) /\ Append(ups, "..") # <<>>
      BY <1>2, AppendProperties
    <3> QED
      BY <1>2, <1>7, <3>1, <3>2
  <2>2. CleanStep(FALSE, x, s) = Append(ups, "..")
    <3>1. ".." # Empty /\ ".." # "."
      BY SegmentsDiffer
    <3>2. x # <<>> => Last(x) = ".."
      <4>1. <<>> \in Seq({".."})
        OBVIOUS
      <4>2. ups # <<>> => Last(<<>> \o ups) \in {".."} /\ <<>> \o ups = ups
        <5>1. ups # <<>> => Last(<<>> \o ups) = Last(ups) /\ Last(ups) \in {".."}
          BY <1>2, <4>1, FrontOfConcat
        <5> QED
          BY <1>2, <5>1
      <4> QED
        BY <2>1, <4>2
    <3> QED
      BY <1>7, <2>1, <3>1, <3>2 DEF CleanStep
  <2>3. CleanStep(TRUE, y, s) = <<>>
    <3>1. ".." # Empty /\ ".." # "."
      BY SegmentsDiffer
    <3>2. CASE ups = <<>>
      <4>1. y = <<"-a">>
        BY <1>2, <1>7, <3>2
      <4>2. Last(y) = "-a" /\ Front(y) = <<>> /\ y # <<>>
        BY <4>1 DEF Last, Front
      <4> QED
        BY <1>7, <3>1, <4>2 DEF CleanStep
    <3>3. CASE ups # <<>>
      <4>1. y = <<>>
        BY <1>2, <1>7, <3>3
      <4> QED
        BY <1>7, <3>1, <4>1 DEF CleanStep
    <3> QED
      BY <3>2, <3>3
  <2>4. Walk(Append(ups, ".."), <<>>, Append(ups, ".."), <<>>)
    <3>1. Append(ups, "..") \o <<>> = Append(ups, "..")
      BY <2>1
    <3> QED
      BY <2>1, <3>1 DEF Walk
  <2> QED
    BY <2>2, <2>3, <2>4 DEF Walks
<1> QED
  BY <1>4, <1>5, <1>6, <1>7

\* A name that is a file's, seen from the directory, is that file's or goes up and
\* comes back through the directory's own name.
LEMMA CleanInDir ==
  ASSUME NEW name \in Seq(Marks), name # <<>>, ~Rooted(name),
         NEW f \in Seq({"a", "b"}), f # <<>>, Clean(Dir \o name) = Dir \o f
  PROVE  Clean(name) = f \/ \E up \in Seq(Marks) : Clean(name) = up \o (<<"-a">> \o f)
<1> DEFINE n == Len(name)
           there == Dir \o name
<1>1. n \in Nat /\ n # 0 /\ \A i \in 1 .. n : name[i] \in Marks
  BY EmptySeq, LenProperties
<1>2. Dir \in Seq(Marks) /\ Len(Dir) = 2 /\ Dir[1] = Empty /\ Dir[2] = "-a"
  <2>1. Empty \in Marks /\ "-a" \in Marks
    BY SegmentsDiffer
  <2> QED
    BY <2>1 DEF Dir
<1>3. /\ there \in Seq(Marks) /\ Len(there) = n + 2 /\ there[1] = Empty /\ there[2] = "-a"
      /\ \A i \in 1 .. n : there[i + 2] = name[i]
  <2>1. /\ there \in Seq(Marks) /\ Len(there) = 2 + n
        /\ \A i \in 1 .. 2 + n : there[i] = IF i <= 2 THEN Dir[i] ELSE name[i - 2]
    <3>1. /\ there \in Seq(Marks) /\ Len(there) = Len(Dir) + Len(name)
          /\ \A i \in 1 .. Len(Dir) + Len(name) :
               there[i] = IF i <= Len(Dir) THEN Dir[i] ELSE name[i - Len(Dir)]
      BY <1>2, ConcatProperties
    <3> HIDE DEF there
    <3> QED
      BY <1>2, <3>1
  <2>2. 1 \in 1 .. 2 + n /\ 2 \in 1 .. 2 + n
    BY <1>1
  <2>3. ASSUME NEW i \in 1 .. n PROVE there[i + 2] = name[i]
    <3>1. i + 2 \in 1 .. 2 + n /\ ~(i + 2 <= 2) /\ (i + 2) - 2 = i
      BY <1>1
    <3> HIDE DEF there
    <3> QED
      BY <2>1, <3>1
  <2> HIDE DEF there, n
  <2> QED
    BY <1>1, <1>2, <2>1, <2>2, <2>3
<1> HIDE DEF there
<1>4. Rooted(there)
  BY <1>1, <1>3 DEF Rooted
<1>5. PICK x \in [0 .. n -> Seq(Marks)] :
        /\ x[0] = <<>>
        /\ \A i \in 1 .. n : x[i] = CleanStep(FALSE, x[i - 1], name[i])
        /\ Clean(name) = Cleaned(FALSE, x[n])
  <2>1. Rooted(name) = FALSE
    BY DEF Rooted
  <2> QED
    BY <2>1, CleanSteps
<1>6. PICK y \in [0 .. n + 2 -> Seq(Marks)] :
        /\ y[0] = <<>>
        /\ \A i \in 1 .. n + 2 : y[i] = CleanStep(TRUE, y[i - 1], there[i])
        /\ Clean(there) = Cleaned(TRUE, y[n + 2])
  <2>1. Rooted(there) = TRUE
    BY <1>4 DEF Rooted
  <2>2. \E y \in [0 .. Len(there) -> Seq(Marks)] :
          /\ y[0] = <<>>
          /\ \A i \in 1 .. Len(there) : y[i] = CleanStep(TRUE, y[i - 1], there[i])
          /\ Clean(there) = Cleaned(TRUE, y[Len(there)])
    BY <1>3, <2>1, CleanSteps
  <2> HIDE DEF n
  <2> QED
    BY <1>3, <2>2
<1> HIDE DEF n
<1> DEFINE A == {i \in Nat : i <= n => Walks(x[i], y[i + 2])}
<1>7. 0 \in A
  <2>1. 1 \in 1 .. n + 2 /\ 2 \in 1 .. n + 2 /\ 1 - 1 = 0 /\ 2 - 1 = 1
    BY <1>1
  <2>2. y[1] = <<>>
    BY <1>3, <1>6, <2>1 DEF CleanStep
  <2>3. y[2] = Append(<<>>, "-a")
    <3>1. "-a" \notin {Empty, "."} /\ "-a" # ".."
      BY SegmentsDiffer
    <3> QED
      <4>1. y[2] = CleanStep(TRUE, <<>>, "-a")
        BY <1>3, <1>6, <2>1, <2>2
      <4> QED
        BY <3>1, <4>1 DEF CleanStep
  <2>4. Walk(<<>>, <<"-a">>, <<>>, <<>>)
    BY DEF Walk
  <2>5. Walks(x[0], y[2])
    BY <1>5, <2>3, <2>4 DEF Walks
  <2> QED
    BY <2>5
<1>8. ASSUME NEW i \in Nat, i \in A PROVE i + 1 \in A
  <2>1. SUFFICES ASSUME i + 1 <= n PROVE Walks(x[i + 1], y[(i + 1) + 2])
    OBVIOUS
  <2> DEFINE j == i + 1
  <2>2. j \in 1 .. n /\ j - 1 = i /\ j + 2 \in 1 .. n + 2 /\ (j + 2) - 1 = i + 2 /\ i <= n
    BY <1>1, <2>1
  <2>3. Walks(x[i], y[i + 2])
    BY <1>8, <2>2
  <2> HIDE DEF j
  <2>4. x[j] = CleanStep(FALSE, x[i], name[j]) /\ y[j + 2] = CleanStep(TRUE, y[i + 2], name[j])
    BY <1>3, <1>5, <1>6, <2>2
  <2>5. Walks(x[j], y[j + 2])
    BY <1>1, <2>2, <2>3, <2>4, WalkStep
  <2> QED
    BY <2>5 DEF j
<1>9. Walks(x[n], y[n + 2])
  <2> HIDE DEF A
  <2>1. n \in A
    BY <1>1, <1>7, <1>8, Counting
  <2> QED
    BY <1>1, <2>1 DEF A
<1>10. PICK ups, q : Walk(x[n], y[n + 2], ups, q)
  BY <1>9 DEF Walks
<1>11. y[n + 2] = <<"-a">> \o f
  <2> DEFINE z == y[n + 2]
             tail == IF z = <<>> THEN <<Empty>> ELSE z
             g == <<"-a">> \o f
  <2>1. z \in Seq(Marks)
    <3>1. n + 2 \in 0 .. n + 2
      BY <1>1
    <3> QED
      BY <1>6, <3>1
  <2>2. <<Empty>> \o tail = Dir \o f
    BY <1>6 DEF Cleaned, there
  <2>3. f \in Seq(Marks) /\ <<Empty>> \in Seq(Marks) /\ <<"-a">> \in Seq(Marks) /\ tail \in Seq(Marks)
    BY <2>1, SegmentsDiffer
  <2>4. Dir \o f = <<Empty>> \o g
    <3>1. Dir = <<Empty>> \o <<"-a">>
      BY DEF Dir
    <3>2. (<<Empty>> \o <<"-a">>) \o f = <<Empty>> \o (<<"-a">> \o f)
      BY <2>3, ConcatAssociative
    <3> QED
      BY <3>1, <3>2
  <2>5. g \in Seq(Marks) /\ Len(g) = 1 + Len(f) /\ Len(f) \in Nat \ {0} /\ g[1] = "-a"
    <3>1. g \in Seq(Marks)
      BY <2>3, ConcatProperties
    <3> QED
      BY <2>3, <3>1, EmptySeq, LenProperties
  <2> HIDE DEF z, tail, g
  <2>6. tail = g
    <3>1. \A S : \A s, t, v \in Seq(S) : s \o t = s \o v => t = v
      BY ConcatSimplifications
    <3>2. <<Empty>> \o tail = <<Empty>> \o g
      BY <2>2, <2>4
    <3> QED
      BY <2>3, <2>5, <3>1, <3>2
  <2>7. z # <<>>
    <3>1. Empty # "-a"
      BY SegmentsDiffer
    <3>2. <<Empty>> # g
      BY <2>5, <3>1
    <3> QED
      BY <2>6, <3>2 DEF tail
  <2> QED
    BY <2>6, <2>7 DEF tail, z, g
<1>12. ups \in Seq({".."}) /\ q \in Seq(Plain) /\ x[n] = ups \o q
       /\ <<"-a">> \o f = IF ups = <<>> THEN <<"-a">> \o q ELSE q
  BY <1>10, <1>11 DEF Walk
<1>13. ups \in Seq(Marks) /\ q \in Seq(Marks) /\ f \in Seq(Marks) /\ <<"-a">> \in Seq(Marks)
  <2>1. {".."} \subseteq Marks /\ Plain \subseteq Marks /\ {"a", "b"} \subseteq Marks /\ "-a" \in Marks
    BY SegmentsDiffer
  <2> QED
    <3>1. ups \in Seq(Marks) /\ q \in Seq(Marks)
      BY <1>12, <2>1, MoreSeqs
    <3>2. f \in Seq(Marks)
      BY <2>1, MoreSeqs
    <3>3. <<"-a">> \in Seq(Marks)
      BY <2>1
    <3> QED
      BY <3>1, <3>2, <3>3
<1>14. CASE ups = <<>>
  <2>1. q = f
    <3>1. \A S : \A s, t, v \in Seq(S) : s \o t = s \o v => t = v
      BY ConcatSimplifications
    <3> QED
      BY <1>12, <1>13, <1>14, <3>1
  <2>2. x[n] = f
    BY <1>12, <1>13, <1>14, <2>1, ConcatEmptySeq
  <2> QED
    BY <1>5, <2>2 DEF Cleaned
<1>15. CASE ups # <<>>
  <2>1. x[n] = ups \o (<<"-a">> \o f)
    BY <1>12, <1>15
  <2>2. x[n] # <<>>
    <3>1. <<"-a">> \o f \in Seq(Marks)
      BY <1>13, ConcatProperties
    <3> QED
      BY <1>13, <1>15, <2>1, <3>1, ConcatEqualIffEmpty
  <2> QED
    BY <1>5, <1>13, <2>1, <2>2 DEF Cleaned
<1> QED
  BY <1>14, <1>15

\* A suffix, counted from the end.
LEMMA SuffixIff ==
  ASSUME NEW S, NEW s \in Seq(S), NEW t \in Seq(S)
  PROVE  IsSuffix(s, t) <=>
           /\ Len(s) <= Len(t)
           /\ \A i \in 1 .. Len(s) : s[(Len(s) - i) + 1] = t[(Len(t) - i) + 1]
<1> DEFINE n == Len(s)
           m == Len(t)
           u == Reverse(s)
           v == Reverse(t)
<1>1. n \in Nat /\ m \in Nat /\ (\A i \in 1 .. n : s[i] \in S) /\ (\A i \in 1 .. m : t[i] \in S)
  BY LenProperties
<1>2. /\ u = [i \in 1 .. n |-> s[(n - i) + 1]]
      /\ v = [i \in 1 .. m |-> t[(m - i) + 1]]
  BY DEF Reverse
<1> HIDE DEF n, m
<1>3. /\ u \in Seq(S) /\ Len(u) = n /\ \A i \in 1 .. n : u[i] = s[(n - i) + 1]
      /\ v \in Seq(S) /\ Len(v) = m /\ \A i \in 1 .. m : v[i] = t[(m - i) + 1]
  <2>1. /\ \A i \in 1 .. n : (n - i) + 1 \in 1 .. n
        /\ \A i \in 1 .. m : (m - i) + 1 \in 1 .. m
    BY <1>1
  <2> HIDE DEF u, v
  <2>2. u \in [1 .. n -> S] /\ v \in [1 .. m -> S]
    BY <1>1, <1>2, <2>1
  <2> QED
    BY <1>1, <1>2, <2>2
<1>4. IsSuffix(s, t) <=> n <= m /\ SubSeq(u, 1, n) = SubSeq(v, 1, n)
  <2> HIDE DEF u, v
  <2>1. IsPrefix(u, v) <=> Len(u) <= Len(v) /\ SubSeq(u, 1, Len(u)) = SubSeq(v, 1, Len(u))
    BY DEF IsPrefix
  <2>2. IsSuffix(s, t) <=> IsPrefix(u, v)
    BY DEF IsSuffix, u, v
  <2> QED
    BY <1>3, <2>1, <2>2
<1> HIDE DEF u, v
<1>5. CASE n <= m
  <2>1. SubSeq(u, 1, n) = u
    BY <1>3, SubSeqFull
  <2> DEFINE w == SubSeq(v, 1, n)
  <2>2. w \in Seq(S) /\ Len(w) = n /\ \A i \in 1 .. n : w[i] = v[i]
    <3>1. \A i \in 1 .. n : v[i] \in S
      BY <1>1, <1>3, <1>5, LenProperties
    <3> QED
      BY <1>1, <3>1, SubSeqProperties
  <2> HIDE DEF w
  <2>3. u = w <=> \A i \in 1 .. n : u[i] = v[i]
    BY <1>1, <1>3, <2>2, SeqEqual
  <2>4. \A i \in 1 .. n : i \in 1 .. m
    BY <1>1, <1>5
  <2>5. IsSuffix(s, t) <=> u = w
    BY <1>4, <1>5, <2>1 DEF w
  <2>6. u = w <=> \A i \in 1 .. n : s[(n - i) + 1] = t[(m - i) + 1]
    BY <1>3, <2>3, <2>4
  <2> QED
    BY <1>5, <2>5, <2>6 DEF n, m
<1>6. CASE ~(n <= m)
  BY <1>4, <1>6 DEF n, m
<1> QED
  BY <1>5, <1>6

LEMMA SuffixOfItself ==
  ASSUME NEW S, NEW s \in Seq(S)
  PROVE  IsSuffix(s, s)
<1>1. Len(s) \in Nat
  BY LenProperties
<1> QED
  BY <1>1, SuffixIff

\* What ends in a path through the directory's own name ends in no longer file.
LEMMA ClimbFits ==
  ASSUME NEW up \in Seq(Marks), NEW f \in Seq({"a", "b"}), NEW clean,
         clean = up \o (<<"-a">> \o f)
  PROVE  /\ clean \in Seq(Marks) /\ IsSuffix(f, clean) /\ Len(clean) > Len(f)
         /\ \A g \in Seq({"a", "b"}) :
              /\ clean # g
              /\ IsSuffix(g, clean) => Len(g) <= Len(f) /\ (Len(g) = Len(f) => g = f)
<1> DEFINE k == Len(up)
           n == Len(f)
           d == <<"-a">> \o f
           L == Len(clean)
<1>1. \A s, t \in Seq(Marks) :
        IsSuffix(s, t) => \A i \in 1 .. Len(s) : s[(Len(s) - i) + 1] = t[(Len(t) - i) + 1]
  BY SuffixIff
<1>2. {"a", "b"} \subseteq Marks /\ "-a" \in Marks /\ "-a" \notin {"a", "b"}
  BY SegmentsDiffer
<1>3. k \in Nat /\ n \in Nat /\ f \in Seq(Marks) /\ <<"-a">> \in Seq(Marks)
  <2>1. f \in Seq(Marks)
    BY <1>2, MoreSeqs
  <2> QED
    BY <1>2, <2>1, LenProperties
<1>4. /\ d \in Seq(Marks) /\ Len(d) = 1 + n /\ d[1] = "-a"
      /\ \A i \in 1 .. n : d[i + 1] = f[i]
  <2>1. /\ d \in Seq(Marks) /\ Len(d) = Len(<<"-a">>) + Len(f)
        /\ \A i \in 1 .. Len(<<"-a">>) + Len(f) :
             d[i] = IF i <= Len(<<"-a">>) THEN <<"-a">>[i] ELSE f[i - Len(<<"-a">>)]
    BY <1>3, ConcatProperties
  <2> HIDE DEF d
  <2>2. 1 \in 1 .. 1 + n /\ \A i \in 1 .. n : i + 1 \in 1 .. 1 + n /\ ~(i + 1 <= 1) /\ (i + 1) - 1 = i
    BY <1>3
  <2>3. Len(<<"-a">>) = 1 /\ <<"-a">>[1] = "-a"
    OBVIOUS
  <2> HIDE DEF n
  <2> QED
    BY <2>1, <2>2, <2>3 DEF n
<1> HIDE DEF d
<1>5. /\ clean \in Seq(Marks) /\ L = (k + 1) + n
      /\ \A i \in 1 .. (k + 1) + n : clean[i] = IF i <= k THEN up[i] ELSE d[i - k]
  <2>1. /\ up \o d \in Seq(Marks) /\ Len(up \o d) = Len(up) + Len(d)
        /\ \A i \in 1 .. Len(up) + Len(d) : (up \o d)[i] = IF i <= Len(up) THEN up[i] ELSE d[i - Len(up)]
    <3>1. up \in Seq(Marks) /\ d \in Seq(Marks)
      BY <1>4
    <3> HIDE DEF n, k
    <3> QED
      BY <3>1, ConcatProperties
  <2>2. clean = up \o d
    BY DEF d
  <2>3. Len(up) + Len(d) = (k + 1) + n
    BY <1>3, <1>4
  <2> QED
    BY <1>3, <1>4, <2>1, <2>2, <2>3
<1>6. clean[(L - (n + 1)) + 1] = "-a"
  <2>1. /\ (L - (n + 1)) + 1 = k + 1 /\ k + 1 \in 1 .. (k + 1) + n /\ ~(k + 1 <= k)
        /\ (k + 1) - k = 1
    BY <1>3, <1>5
  <2> HIDE DEF n, k, L
  <2> QED
    BY <1>4, <1>5, <2>1
<1>7. \A i \in 1 .. n : clean[(L - i) + 1] = f[(n - i) + 1]
  <2> SUFFICES ASSUME NEW i \in 1 .. n PROVE clean[(L - i) + 1] = f[(n - i) + 1]
    OBVIOUS
  <2> DEFINE j == (n - i) + 1
             x == (L - i) + 1
  <2>1. j \in 1 .. n /\ x \in 1 .. (k + 1) + n /\ ~(x <= k) /\ x - k = j + 1
    BY <1>3, <1>5
  <2> HIDE DEF n, k, L, j, x
  <2>2. clean[x] = f[j]
    BY <1>4, <1>5, <2>1
  <2> QED
    BY <2>2 DEF j, x
<1>8. n <= L /\ L > n
  BY <1>3, <1>5
<1> HIDE DEF k
<1>9. IsSuffix(f, clean)
  BY <1>3, <1>5, <1>7, <1>8, SuffixIff
<1>10. ASSUME NEW g \in Seq({"a", "b"})
      PROVE  /\ clean # g
             /\ IsSuffix(g, clean) => Len(g) <= n /\ (Len(g) = n => g = f)
  <2>1. g \in Seq(Marks) /\ Len(g) \in Nat /\ \A i \in 1 .. Len(g) : g[i] \in {"a", "b"}
    BY <1>2, MoreSeqs, LenProperties
  <2>2. clean # g
    <3>1. SUFFICES ASSUME clean = g PROVE FALSE
      OBVIOUS
    <3>2. (L - (n + 1)) + 1 \in 1 .. Len(g)
      BY <1>3, <1>5, <3>1 DEF k
    <3> QED
      BY <1>2, <1>6, <2>1, <3>1, <3>2
  <2>3. ASSUME IsSuffix(g, clean)
        PROVE  Len(g) <= n /\ (Len(g) = n => g = f)
    <3>1. \A i \in 1 .. Len(g) : g[(Len(g) - i) + 1] = clean[(L - i) + 1]
      <4>1. clean \in Seq(Marks) /\ g \in Seq(Marks)
        BY <1>5, <2>1
      <4> QED
        BY <1>1, <2>3, <4>1
    <3>2. Len(g) <= n
      <4>1. SUFFICES ASSUME ~(Len(g) <= n) PROVE FALSE
        OBVIOUS
      <4>2. n + 1 \in 1 .. Len(g) /\ (Len(g) - (n + 1)) + 1 \in 1 .. Len(g)
        BY <1>3, <2>1, <4>1
      <4>3. g[(Len(g) - (n + 1)) + 1] = "-a"
        BY <1>6, <3>1, <4>2
      <4> QED
        BY <1>2, <2>1, <4>2, <4>3
    <3>3. ASSUME Len(g) = n PROVE g = f
      <4>1. ASSUME NEW i \in 1 .. n PROVE g[i] = f[i]
        <5> DEFINE j == (n - i) + 1
        <5>1. j \in 1 .. n /\ (n - j) + 1 = i
          BY <1>3
        <5> HIDE DEF j
        <5>2. g[(n - j) + 1] = clean[(L - j) + 1]
          BY <3>1, <3>3, <5>1
        <5> QED
          BY <1>7, <5>1, <5>2
      <4>2. Len(g) = Len(f) /\ \A i \in 1 .. Len(g) : g[i] = f[i]
        BY <3>3, <4>1
      <4> QED
        BY <1>3, <2>1, <4>2, SeqEqual
    <3> QED
      BY <3>2, <3>3
  <2> QED
    BY <2>2, <2>3
<1> QED
  BY <1>5, <1>8, <1>9, <1>10

\* The files are clean as they are.
LEMMA FilesAreClean ==
  ASSUME NEW f \in Files
  PROVE  f \in Seq({"a", "b"}) /\ f # <<>> /\ Clean(f) = f
<1>1. f \in Seq({"a", "b"}) /\ f # <<>>
  BY CapsAssumption
<1>2. \A i \in 1 .. Len(f) : f[i] \notin {Empty, ".", ".."}
  <2>1. {"a", "b"} \cap {Empty, ".", ".."} = {}
    BY SegmentsDiffer
  <2> QED
    BY <1>1, <2>1, LenProperties
<1> QED
  BY <1>1, <1>2, CleanOfProper

\* A set of positions has a first.
LEMMA MinFacts ==
  ASSUME NEW s \in SUBSET Nat, s # {}
  PROVE  Min(s) \in s
<1>1. PICK x \in s : \A y \in s : <<y, x>> \notin OpToRel(<, Nat)
  BY NatLessThanWellFounded, WFMin
<1>2. \A y \in s : x <= y
  <2> SUFFICES ASSUME NEW y \in s PROVE x <= y
    OBVIOUS
  <2>1. x \in Nat /\ y \in Nat
    OBVIOUS
  <2>2. y < x => <<y, x>> \in OpToRel(<, Nat)
    BY <2>1 DEF OpToRel
  <2> QED
    <3>1. <<y, x>> \notin OpToRel(<, Nat)
      BY <1>1
    <3>2. ~(y < x)
      BY <2>2, <3>1
    <3> QED
      BY <2>1, <3>2
<1> QED
  BY <1>2 DEF Min

LEMMA CleanIsASeq ==
  ASSUME NEW name \in Seq(Marks)
  PROVE  Clean(name) \in Seq(Marks)
<1>1. PICK x \in [0 .. Len(name) -> Seq(Marks)] :
         Clean(name) = Cleaned(Rooted(name), x[Len(name)])
  BY CleanSteps
<1>2. x[Len(name)] \in Seq(Marks)
  <2>1. Len(name) \in 0 .. Len(name)
    BY LenProperties
  <2> QED
    BY <1>1, <2>1
<1>3. <<Empty>> \in Seq(Marks) /\ <<".">> \in Seq(Marks)
  BY SegmentsDiffer
<1>4. \A z \in Seq(Marks) : Cleaned(TRUE, z) \in Seq(Marks) /\ Cleaned(FALSE, z) \in Seq(Marks)
  BY <1>3, ConcatProperties DEF Cleaned
<1>5. Rooted(name) \in BOOLEAN
  BY DEF Rooted
<1> QED
  BY <1>1, <1>2, <1>4, <1>5

LEMMA NormalizesToFile ==
  ASSUME NEW files \in Seq(Files), NEW reported, NEW here \in 1 .. Len(files),
         \/ Clean(reported) = files[here]
         \/ \E up \in Seq(Marks) : Clean(reported) = up \o (<<"-a">> \o files[here])
  PROVE  NormalizePath(reported, files) = {files[here]}
<1> DEFINE f == files[here]
           clean == Clean(reported)
           same == {i \in DOMAIN files : Clean(files[i]) = clean}
           fits == {i \in DOMAIN files : EndsIn(clean, files[i])}
           longest == {i \in fits : \A j \in fits : Len(Clean(files[j])) <= Len(Clean(files[i]))}
<1>1. /\ Len(files) \in Nat /\ DOMAIN files = 1 .. Len(files)
      /\ \A i \in 1 .. Len(files) : /\ files[i] \in Seq({"a", "b"}) /\ Clean(files[i]) = files[i]
                                    /\ Len(files[i]) \in Nat
  <2>1. Len(files) \in Nat /\ DOMAIN files = 1 .. Len(files)
        /\ \A i \in 1 .. Len(files) : files[i] \in Files
    BY LenProperties
  <2>2. \A g \in Files : g \in Seq({"a", "b"}) /\ Clean(g) = g /\ Len(g) \in Nat
    BY FilesAreClean, LenProperties
  <2> QED
    BY <2>1, <2>2
<1>2. /\ same # {} => NormalizePath(reported, files) = {files[Min(same)]}
      /\ same = {} /\ fits # {} => NormalizePath(reported, files) = {files[i] : i \in longest}
  BY DEF NormalizePath
<1>3. CASE clean = f
  <2>1. here \in same /\ same \subseteq Nat
    BY <1>1, <1>3
  <2>2. Min(same) \in same
    BY <2>1, MinFacts
  <2>3. files[Min(same)] = f
    BY <1>1, <1>3, <2>2
  <2> QED
    BY <1>2, <2>1, <2>3
<1>4. CASE \E up \in Seq(Marks) : clean = up \o (<<"-a">> \o f)
  <2>1. /\ IsSuffix(f, clean) /\ Len(clean) > Len(f)
        /\ \A g \in Seq({"a", "b"}) :
             clean # g /\ (IsSuffix(g, clean) => Len(g) <= Len(f) /\ (Len(g) = Len(f) => g = f))
    <3>1. f \in Seq({"a", "b"})
      BY <1>1
    <3> HIDE DEF f, clean
    <3> QED
      BY <1>4, <3>1, ClimbFits
  <2>2. same = {}
    BY <1>1, <2>1
  <2>3. here \in fits
    BY <1>1, <2>1 DEF EndsIn
  <2>4. \A j \in fits : Clean(files[j]) = files[j] /\ IsSuffix(files[j], clean)
    BY <1>1 DEF EndsIn
  <2>5. \A j \in fits : Len(files[j]) <= Len(f) /\ (Len(files[j]) = Len(f) => files[j] = f)
    BY <1>1, <2>1, <2>4
  <2>6. here \in longest
    BY <2>3, <2>4, <2>5
  <2>7. ASSUME NEW i \in longest PROVE files[i] = f
    <3>1. i \in fits /\ Len(f) <= Len(files[i])
      BY <2>3, <2>4, <2>7
    <3>2. Len(f) \in Nat /\ Len(files[i]) \in Nat
      BY <1>1, <3>1
    <3> QED
      BY <2>5, <3>1, <3>2
  <2> HIDE DEF longest
  <2>8. {files[i] : i \in longest} = {f}
    BY <2>6, <2>7
  <2> QED
    BY <1>2, <2>2, <2>3, <2>8
<1> QED
  BY <1>3, <1>4

LEMMA NormalizesTruly ==
  ASSUME NEW files \in Seq(Files), NEW reported \in Seq(Marks),
         NEW f \in NormalizePath(reported, files)
  PROVE  IF f \in Range(files) THEN IsSuffix(f, Clean(reported)) ELSE f = Clean(reported)
<1> DEFINE clean == Clean(reported)
           same == {i \in DOMAIN files : Clean(files[i]) = clean}
           fits == {i \in DOMAIN files : EndsIn(clean, files[i])}
           longest == {i \in fits : \A j \in fits : Len(Clean(files[j])) <= Len(Clean(files[i]))}
<1>1. /\ Len(files) \in Nat /\ DOMAIN files = 1 .. Len(files)
      /\ \A i \in 1 .. Len(files) : Clean(files[i]) = files[i] /\ files[i] \in Range(files)
  <2>1. Len(files) \in Nat /\ DOMAIN files = 1 .. Len(files)
        /\ \A i \in 1 .. Len(files) : files[i] \in Files
    BY LenProperties
  <2> QED
    BY <2>1, FilesAreClean DEF Range
<1>2. IsSuffix(clean, clean)
  <2>1. clean \in Seq(Marks)
    BY CleanIsASeq
  <2> HIDE DEF clean
  <2> QED
    BY <2>1, SuffixOfItself
<1>3. CASE same # {}
  <2>1. same \subseteq Nat
    BY <1>1
  <2>2. Min(same) \in same
    BY <1>3, <2>1, MinFacts
  <2>3. f = files[Min(same)]
    BY <1>3 DEF NormalizePath
  <2>4. f = clean
    BY <1>1, <2>2, <2>3
  <2> QED
    BY <1>2, <2>4
<1>4. CASE same = {} /\ fits # {}
  <2>1. NormalizePath(reported, files) = {files[i] : i \in longest}
    BY <1>4 DEF NormalizePath
  <2>2. PICK i \in longest : f = files[i]
    <3> HIDE DEF longest
    <3> QED
      BY <2>1
  <2>3. IsSuffix(f, clean) /\ f \in Range(files)
    BY <1>1, <2>2 DEF EndsIn
  <2> QED
    BY <2>3
<1>5. CASE same = {} /\ fits = {}
  <2>1. f = clean
    BY <1>5 DEF NormalizePath
  <2> QED
    BY <1>2, <2>1
<1> QED
  BY <1>3, <1>4, <1>5

\* Whatever way a tool names a file of the request, the report has the request's name.
LEMMA PathsStay == PathsAreGiven
<1> SUFFICES ASSUME NEW files \in BoundedSeq(Files, MaxFiles),
                    NEW reported \in Spellings \cup {Dir \o n : n \in Spellings}
             PROVE  LET whole == Clean(IF Rooted(reported) THEN reported ELSE Dir \o reported)
                        named == {f \in Range(files) : whole = Dir \o f} IN
                    IF named # {} THEN NormalizePath(reported, files) = named
                    ELSE \A f \in NormalizePath(reported, files) :
                           IF f \in Range(files) THEN IsSuffix(f, Clean(reported))
                           ELSE f = Clean(reported)
  BY DEF PathsAreGiven
<1> DEFINE whole == Clean(IF Rooted(reported) THEN reported ELSE Dir \o reported)
           named == {f \in Range(files) : whole = Dir \o f}
<1>1. files \in Seq(Files)
  BY BoundedIsSeq, CapsAssumption
<1>2. Dir \in Seq(Marks) /\ Len(Dir) = 2
  BY SegmentsDiffer DEF Dir
<1>3. reported \in Seq(Marks) /\ reported # <<>>
  <2>1. Spellings \subseteq Seq(Marks) \ {<<>>}
    <3>1. {"a", "b", "-a", Empty, ".", ".."} = Marks
      BY DEF Marks, Plain
    <3>2. \A i \in Nat : [1 .. i -> Marks] \subseteq Seq(Marks)
      OBVIOUS
    <3>3. 0 .. MaxSegments \subseteq Nat
      BY EntriesAssumption
    <3> HIDE DEF Marks
    <3> QED
      BY <3>1, <3>2, <3>3 DEF Spellings, BoundedSeq, SeqOf
  <2>2. \A n \in Spellings : Dir \o n \in Seq(Marks) /\ Dir \o n # <<>>
    <3>1. ASSUME NEW n \in Seq(Marks), n # <<>>
          PROVE  Dir \o n \in Seq(Marks) /\ Dir \o n # <<>>
      BY <1>2, <3>1, ConcatProperties, ConcatEqualIffEmpty
    <3> QED
      BY <2>1, <3>1
  <2> QED
    BY <2>1, <2>2
<1>4. CASE named # {}
  <2>1. PICK f \in Range(files) : whole = Dir \o f
    BY <1>4
  <2>2. PICK here \in 1 .. Len(files) : f = files[here]
    BY <1>1, <2>1 DEF Range
  <2>3. \A g \in Range(files) : g \in Files
    BY <1>1 DEF Range
  <2>4. \A g \in Range(files) : g \in Seq(Marks)
    <3>1. {"a", "b"} \subseteq Marks
      BY SegmentsDiffer
    <3> QED
      BY <2>3, <3>1, FilesAreClean, MoreSeqs
  <2>5. named = {f}
    <3>1. ASSUME NEW g \in Range(files), whole = Dir \o g PROVE g = f
      <4>1. \A S : \A s, t, v \in Seq(S) : s \o t = s \o v => t = v
        BY ConcatSimplifications
      <4> HIDE DEF whole
      <4> QED
        BY <1>2, <2>1, <2>4, <3>1, <4>1
    <3> HIDE DEF whole
    <3> QED
      BY <2>1, <3>1
  <2>6. f \in Seq({"a", "b"}) /\ f # <<>>
    BY <2>3, FilesAreClean
  <2>7. Clean(reported) = f \/ \E up \in Seq(Marks) : Clean(reported) = up \o (<<"-a">> \o f)
    <3>1. CASE Rooted(reported)
      <4>1. Clean(reported) = Dir \o f
        BY <2>1, <3>1
      <4>2. Dir \o f = <<Empty>> \o (<<"-a">> \o f) /\ <<Empty>> \in Seq(Marks)
        <5>1. <<Empty>> \in Seq(Marks) /\ <<"-a">> \in Seq(Marks) /\ f \in Seq(Marks)
          BY <2>4, SegmentsDiffer
        <5>2. Dir = <<Empty>> \o <<"-a">>
          BY DEF Dir
        <5> QED
          BY <5>1, <5>2, ConcatAssociative
      <4> QED
        BY <4>1, <4>2
    <3>2. CASE ~Rooted(reported)
      <4>1. Clean(Dir \o reported) = Dir \o f
        BY <2>1, <3>2
      <4> QED
        BY <1>3, <2>6, <3>2, <4>1, CleanInDir
    <3> QED
      BY <3>1, <3>2
  <2>8. NormalizePath(reported, files) = {files[here]}
    BY <1>1, <2>2, <2>7, NormalizesToFile
  <2> HIDE DEF named
  <2> QED
    BY <1>4, <2>2, <2>5, <2>8 DEF named
<1>5. CASE named = {}
  BY <1>1, <1>3, <1>5, NormalizesTruly
<1> QED
  BY <1>4, <1>5

LEMMA EveryReport == CapsAndPathsAreTrue
<1> SUFFICES ASSUME NEW maxFindings \in 1 .. MaxFindings
             PROVE  OutputIsAPrefix /\ PathsAreGiven /\ FindingsAreCapped(maxFindings)
  BY DEF CapsAndPathsAreTrue
<1> QED
  BY OutputIsPrefix, PathsStay, FindingsStayCapped

(***************************************************************************)
(* Workspaces: names and entries.                                          *)
(***************************************************************************)

Paths == Seq(Segments)

LEMMA SegmentKinds ==
  /\ Segments = Proper \cup {Empty, ".", "..", "ctl", "long"}
  /\ Proper \cap {Empty, ".", "..", "ctl", "long"} = {}
  /\ {"a", "b", "back", "-a", "zinc"} = Proper
<1>1. Empty \notin Proper
  BY Zenon DEF Empty, Proper
<1> QED
  BY <1>1 DEF Segments, Proper

\* What Clean keeps is no empty segment and no ".".
LEMMA CleanIsProper ==
  ASSUME NEW name \in Paths, ~Rooted(name), Clean(name) = name, name # <<".">>
  PROVE  \A i \in 1 .. Len(name) : name[i] \notin {Empty, "."}
<1> DEFINE n == Len(name)
           T == Segments \ {Empty, "."}
<1>1. n \in Nat /\ \A i \in 1 .. n : name[i] \in Segments
  BY LenProperties DEF Paths
<1>2. PICK x \in [0 .. n -> Seq(Segments)] :
        /\ x[0] = <<>>
        /\ \A i \in 1 .. n : x[i] = CleanStep(Rooted(name), x[i - 1], name[i])
        /\ Clean(name) = Cleaned(Rooted(name), x[n])
  BY CleanSteps DEF Paths
<1> HIDE DEF n
<1> DEFINE A == {i \in Nat : i <= n => x[i] \in Seq(T)}
<1>3. 0 \in A
  BY <1>2
<1>4. ASSUME NEW i \in Nat, i \in A PROVE i + 1 \in A
  <2>1. SUFFICES ASSUME i + 1 <= n PROVE x[i + 1] \in Seq(T)
    OBVIOUS
  <2> DEFINE j == i + 1
  <2>2. j \in 1 .. n /\ j - 1 = i /\ i <= n
    BY <1>1, <2>1
  <2>3. x[i] \in Seq(T)
    BY <1>4, <2>2
  <2>4. x[j] = CleanStep(Rooted(name), x[i], name[j])
    BY <1>2, <2>2
  <2> HIDE DEF j, T
  <2>5. CASE name[j] \in {Empty, "."}
    BY <2>3, <2>4, <2>5 DEF CleanStep, j
  <2>6. CASE name[j] \notin {Empty, "."}
    <3>1. name[j] \in T
      BY <1>1, <2>2, <2>6 DEF T
    <3> QED
      BY <2>3, <2>4, <3>1, CleanStepStays DEF j
  <2> QED
    BY <2>5, <2>6
<1>5. x[n] \in Seq(T)
  <2> HIDE DEF A
  <2>1. n \in A
    BY <1>1, <1>3, <1>4, Counting
  <2> QED
    BY <1>1, <2>1 DEF A
<1>6. x[n] = name
  <2>1. Rooted(name) = FALSE
    BY DEF Rooted
  <2> QED
    BY <1>2, <2>1 DEF Cleaned
<1>7. name \in Seq(T)
  BY <1>5, <1>6
<1> HIDE DEF T
<1>8. \A i \in 1 .. Len(name) : name[i] \in T
  BY <1>7, LenProperties
<1> QED
  BY <1>8 DEF T

\* The two tests of a name ask for its segments alone.
LEMMA NamesAreChecked ==
  ASSUME NEW n \in Paths, n # <<>>
  PROVE  /\ CheckAssetName(n) <=> Range(n) \subseteq Proper
         /\ CheckFilename(n) <=> Range(n) \subseteq Proper \ {"back"} /\ n[1] \notin {"-a", "zinc"}
<1> DEFINE plain == n \notin {<<Empty>>, <<".">>} /\ ~Rooted(n) /\ Clean(n) = n /\ ".." \notin Range(n)
<1>1. Len(n) \in Nat \ {0} /\ Range(n) = {n[i] : i \in 1 .. Len(n)} /\ Range(n) \subseteq Segments
  <2>1. Len(n) \in Nat \ {0} /\ DOMAIN n = 1 .. Len(n) /\ \A i \in 1 .. Len(n) : n[i] \in Segments
    BY EmptySeq, LenProperties DEF Paths
  <2> QED
    BY <2>1 DEF Range
<1>2. plain <=> Range(n) \cap {Empty, ".", ".."} = {}
  <2>1. ASSUME plain PROVE Range(n) \cap {Empty, ".", ".."} = {}
    <3>1. \A i \in 1 .. Len(n) : n[i] \notin {Empty, "."}
      BY <2>1, CleanIsProper
    <3> QED
      BY <1>1, <2>1, <3>1
  <2>2. ASSUME Range(n) \cap {Empty, ".", ".."} = {} PROVE plain
    <3>1. \A i \in 1 .. Len(n) : n[i] \notin {Empty, ".", ".."}
      BY <1>1, <2>2
    <3>2. Clean(n) = n /\ ~Rooted(n)
      BY <3>1, CleanOfProper DEF Paths
    <3>3. n[1] \notin {Empty, "."}
      BY <1>1, <3>1
    <3>4. n # <<Empty>> /\ n # <<".">>
      BY <3>3
    <3> QED
      BY <1>1, <2>2, <3>2, <3>4
  <2> QED
    BY <2>1, <2>2
<1>3. CheckAssetName(n) <=> plain /\ Range(n) \cap {"ctl", "long"} = {}
  BY DEF CheckAssetName
<1>4. CheckFilename(n) <=> /\ plain /\ Range(n) \cap {"ctl", "long", "back"} = {}
                           /\ n[1] \notin {"-a", "zinc"}
  BY DEF CheckFilename
<1> HIDE DEF plain
<1>5. "back" \in Proper
  BY SegmentKinds
<1> QED
  BY <1>1, <1>2, <1>3, <1>4, SegmentKinds

\* What extractAssets keeps between two entries.
State(v, c, f, d, m, k) ==
  [verdict |-> v, entries |-> c, files |-> f, dirs |-> d, named |-> m, disk |-> k]
Disks == UNION {[d -> {"file", "dir"}] : d \in SUBSET Paths}
States ==
  {State(v, c, f, d, m, k) :
     v \in {"ok", "invalid", "internal"}, c \in Nat, f \in SUBSET Paths, d \in SUBSET Paths,
     m \in SUBSET Paths, k \in Disks}

LEMMA StateFields ==
  ASSUME NEW v, NEW c, NEW f, NEW d, NEW m, NEW k
  PROVE  /\ State(v, c, f, d, m, k).verdict = v /\ State(v, c, f, d, m, k).entries = c
         /\ State(v, c, f, d, m, k).files = f /\ State(v, c, f, d, m, k).dirs = d
         /\ State(v, c, f, d, m, k).named = m /\ State(v, c, f, d, m, k).disk = k
BY DEF State

\* A name that is used otherwise already.
Clashes(f, d, m, type, n) ==
  \/ Parents(n) \cap f # {} \/ n \in f \/ n \in IF type = "dir" THEN m ELSE d
Refused(c, f, d, m, type, n) ==
  \/ c = MaxEntries \/ type \notin {"dir", "file"} \/ ~CheckAssetName(n) \/ Clashes(f, d, m, type, n)

\* What an entry does.
After(v, c, f, d, m, k, type, n) ==
  IF v # "ok" \/ type = "global" THEN State(v, c, f, d, m, k)
  ELSE IF Refused(c, f, d, m, type, n) THEN State("invalid", c, f, d, m, k)
  ELSE IF ~(IF type = "dir" THEN CanMkdirAll(k, n) ELSE CanCreate(k, n))
       THEN State("internal", c, f, d, m, k)
  ELSE IF type = "dir"
       THEN State(v, c + 1, f, d \cup Parents(n) \cup {n}, m \cup {n}, MkdirAll(k, n))
       ELSE State(v, c + 1, f \cup {n}, d \cup Parents(n), m, Create(k, n))

LEMMA EntryCases ==
  ASSUME NEW v, NEW c, NEW f, NEW d, NEW m, NEW k, NEW e
  PROVE  Entry(State(v, c, f, d, m, k), e) = After(v, c, f, d, m, k, e.type, Trimmed(e))
<1> DEFINE n == Trimmed(e)
           st == State(v, c, f, d, m, k)
           bad == \/ st.entries = MaxEntries \/ e.type \notin {"dir", "file"}
                  \/ ~CheckAssetName(n) \/ Clash(st, e, n)
           counted == [st EXCEPT !.entries = @ + 1, !.dirs = @ \cup Parents(n)]
<1>1. st.verdict = v /\ st.entries = c /\ st.files = f /\ st.dirs = d /\ st.named = m /\ st.disk = k
  BY StateFields
<1> HIDE DEF st, n
<1>2. bad <=> Refused(c, f, d, m, e.type, n)
  BY <1>1 DEF Clash, Refused, Clashes
<1>3. counted = State(v, c + 1, f, d \cup Parents(n), m, k)
  <2>1. counted = [st EXCEPT !.entries = c + 1, !.dirs = d \cup Parents(n)]
    BY <1>1
  <2> DEFINE d2 == d \cup Parents(n)
             c2 == c + 1
  <2> HIDE DEF d2, c2
  <2>2. [State(v, c, f, d, m, k) EXCEPT !.entries = c2, !.dirs = d2] = State(v, c2, f, d2, m, k)
    <3>1. [State(v, c, f, d, m, k) EXCEPT !.entries = c2] = State(v, c2, f, d, m, k)
      BY DEF State
    <3>2. [State(v, c, f, d, m, k) EXCEPT !.entries = c2, !.dirs = d2] =
            [State(v, c2, f, d, m, k) EXCEPT !.dirs = d2]
      BY <3>1
    <3>3. [State(v, c2, f, d, m, k) EXCEPT !.dirs = d2] = State(v, c2, f, d2, m, k)
      BY DEF State
    <3> QED
      BY <3>2, <3>3
  <2> QED
    BY <2>1, <2>2, Zenon DEF st, d2, c2
<1>4. Entry(st, e) =
        IF st.verdict # "ok" \/ e.type = "global" THEN st
        ELSE IF bad THEN [st EXCEPT !.verdict = "invalid"]
        ELSE IF ~(IF e.type = "dir" THEN CanMkdirAll(st.disk, n) ELSE CanCreate(st.disk, n))
             THEN [st EXCEPT !.verdict = "internal"]
        ELSE IF e.type = "dir"
             THEN [counted EXCEPT !.dirs = @ \cup {n}, !.named = @ \cup {n}, !.disk = MkdirAll(@, n)]
             ELSE [counted EXCEPT !.files = @ \cup {n}, !.disk = Create(@, n)]
  BY DEF Entry, n
<1>5. /\ [st EXCEPT !.verdict = "invalid"] = State("invalid", c, f, d, m, k)
      /\ [st EXCEPT !.verdict = "internal"] = State("internal", c, f, d, m, k)
  BY DEF st, State
<1>6. /\ [counted EXCEPT !.dirs = @ \cup {n}, !.named = @ \cup {n}, !.disk = MkdirAll(@, n)] =
           State(v, c + 1, f, d \cup Parents(n) \cup {n}, m \cup {n}, MkdirAll(k, n))
      /\ [counted EXCEPT !.files = @ \cup {n}, !.disk = Create(@, n)] =
           State(v, c + 1, f \cup {n}, d \cup Parents(n), m, Create(k, n))
  <2> DEFINE c2 == c + 1
             d1 == d \cup Parents(n)
             d2 == d1 \cup {n}
             m2 == m \cup {n}
             f2 == f \cup {n}
             k1 == MkdirAll(k, n)
             k2 == Create(k, n)
  <2> HIDE DEF c2, d1, d2, m2, f2, k1, k2
  <2>1. counted = State(v, c2, f, d1, m, k)
    BY <1>3 DEF c2, d1
  <2> HIDE DEF counted
  <2>2. counted.files = f /\ counted.dirs = d1 /\ counted.named = m /\ counted.disk = k
    BY <2>1 DEF State
  <2>3. /\ [counted EXCEPT !.dirs = @ \cup {n}, !.named = @ \cup {n}, !.disk = MkdirAll(@, n)] =
             [counted EXCEPT !.dirs = d2, !.named = m2, !.disk = k1]
        /\ [counted EXCEPT !.files = @ \cup {n}, !.disk = Create(@, n)] =
             [counted EXCEPT !.files = f2, !.disk = k2]
    BY <2>2 DEF d2, m2, f2, k1, k2
  <2>4. [State(v, c2, f, d1, m, k) EXCEPT !.dirs = d2, !.named = m2, !.disk = k1] =
          State(v, c2, f, d2, m2, k1)
    <3>1. [State(v, c2, f, d1, m, k) EXCEPT !.dirs = d2] = State(v, c2, f, d2, m, k)
      BY DEF State
    <3>2. [State(v, c2, f, d2, m, k) EXCEPT !.named = m2] = State(v, c2, f, d2, m2, k)
      BY DEF State
    <3>3. [State(v, c2, f, d1, m, k) EXCEPT !.dirs = d2, !.named = m2, !.disk = k1] =
            [State(v, c2, f, d2, m2, k) EXCEPT !.disk = k1]
      BY <3>1, <3>2
    <3>4. [State(v, c2, f, d2, m2, k) EXCEPT !.disk = k1] = State(v, c2, f, d2, m2, k1)
      BY DEF State
    <3> QED
      BY <3>3, <3>4
  <2>5. [State(v, c2, f, d1, m, k) EXCEPT !.files = f2, !.disk = k2] = State(v, c2, f2, d1, m, k2)
    <3>1. [State(v, c2, f, d1, m, k) EXCEPT !.files = f2] = State(v, c2, f2, d1, m, k)
      BY DEF State
    <3>2. [State(v, c2, f, d1, m, k) EXCEPT !.files = f2, !.disk = k2] =
            [State(v, c2, f2, d1, m, k) EXCEPT !.disk = k2]
      BY <3>1
    <3>3. [State(v, c2, f2, d1, m, k) EXCEPT !.disk = k2] = State(v, c2, f2, d1, m, k2)
      BY DEF State
    <3> QED
      BY <3>2, <3>3
  <2>6. /\ [counted EXCEPT !.dirs = d2, !.named = m2, !.disk = k1] = State(v, c2, f, d2, m2, k1)
        /\ [counted EXCEPT !.files = f2, !.disk = k2] = State(v, c2, f2, d1, m, k2)
    BY <2>1, <2>4, <2>5, Zenon
  <2> QED
    BY <2>3, <2>6, Zenon DEF c2, d1, d2, m2, f2, k1, k2
<1> HIDE DEF bad, counted
<1>7. Entry(st, e) = After(v, c, f, d, m, k, e.type, n)
  <2> DEFINE s1 == State("invalid", c, f, d, m, k)
             s2 == State("internal", c, f, d, m, k)
             s3 == State(v, c + 1, f, d \cup Parents(n) \cup {n}, m \cup {n}, MkdirAll(k, n))
             s4 == State(v, c + 1, f \cup {n}, d \cup Parents(n), m, Create(k, n))
  <2>1. Entry(st, e) =
          IF v # "ok" \/ e.type = "global" THEN st
          ELSE IF Refused(c, f, d, m, e.type, n) THEN s1
          ELSE IF ~(IF e.type = "dir" THEN CanMkdirAll(k, n) ELSE CanCreate(k, n)) THEN s2
          ELSE IF e.type = "dir" THEN s3 ELSE s4
    <3> HIDE DEF s1, s2, s3, s4
    <3>1. /\ [st EXCEPT !.verdict = "invalid"] = s1 /\ [st EXCEPT !.verdict = "internal"] = s2
          /\ [counted EXCEPT !.dirs = @ \cup {n}, !.named = @ \cup {n}, !.disk = MkdirAll(@, n)] = s3
          /\ [counted EXCEPT !.files = @ \cup {n}, !.disk = Create(@, n)] = s4
      BY <1>5, <1>6, Zenon DEF s1, s2, s3, s4
    <3> QED
      BY <1>1, <1>2, <1>4, <3>1
  <2> QED
    BY <2>1 DEF After, st
<1> QED
  BY <1>7 DEF n, st

(***************************************************************************)
(* Workspaces: what an archive makes.                                      *)
(***************************************************************************)

\* The entries with indices in C: the names of one type, the directories with all
\* parents, and whether they make one tree.
Made(a, C, type) == {Trimmed(a[i]) : i \in {j \in C : a[j].type = type}}
MadeDirs(a, C) ==
  Made(a, C, "dir") \cup UNION {Parents(n) : n \in Made(a, C, "file") \cup Made(a, C, "dir")}
Fine(a, C) ==
  /\ Cardinality(C) <= MaxEntries
  /\ \A i \in C : a[i].type \in {"file", "dir"} /\ Range(Trimmed(a[i])) \subseteq Proper
  /\ \A i, j \in C : i # j => /\ Trimmed(a[i]) # Trimmed(a[j])
                              /\ a[i].type = "file" => Trimmed(a[i]) \notin Parents(Trimmed(a[j]))
TreeOf(F, D) == [p \in F \cup D |-> IF p \in F THEN "file" ELSE "dir"]

LEMMA TrimmedFacts ==
  ASSUME NEW e \in AnyEntry
  PROVE  Trimmed(e) \in Paths /\ Trimmed(e) # <<>>
<1> DEFINE n == IF Len(e.name) > 1 /\ e.name[1] = "." THEN Tail(e.name) ELSE e.name
<1>1. e.name \in Paths /\ e.name # <<>>
  BY DEF AnyEntry, AnyName, Paths
<1>2. n \in Paths /\ n # <<>>
  <2>1. ASSUME Len(e.name) > 1 PROVE Tail(e.name) \in Paths /\ Tail(e.name) # <<>>
    <3> DEFINE l == Len(e.name)
               t == Tail(e.name)
    <3>1. t \in Seq(Segments) /\ Len(t) = l - 1 /\ l \in Nat /\ l > 1
      BY <1>1, <2>1, HeadTailProperties, LenProperties DEF Paths
    <3> HIDE DEF l, t
    <3>2. Len(t) # 0
      BY <3>1
    <3>3. t # <<>>
      BY <3>1, <3>2, EmptySeq
    <3> QED
      BY <3>1, <3>3 DEF Paths, t
  <2> QED
    BY <1>1, <2>1
<1> HIDE DEF n
<1>3. ASSUME Len(n) > 1 PROVE Front(n) \in Paths /\ Front(n) # <<>>
  <2>1. Front(n) \in Seq(Segments) /\ Len(Front(n)) = Len(n) - 1 /\ Len(n) \in Nat
    BY <1>2, FrontFacts DEF Paths
  <2>2. Len(Front(n)) # 0
    BY <1>3, <2>1
  <2> QED
    BY <2>1, <2>2, EmptySeq DEF Paths
<1>4. Trimmed(e) = IF e.type = "dir" /\ Len(n) > 1 /\ Last(n) = Empty THEN Front(n) ELSE n
  BY DEF Trimmed, n
<1> QED
  BY <1>2, <1>3, <1>4

LEMMA ParentsFacts ==
  ASSUME NEW n \in Paths
  PROVE  n \notin Parents(n) /\ IsFiniteSet(Parents(n)) /\ Parents(n) \subseteq Paths
<1> DEFINE k == Len(n) - 1
           up == [i \in 1 .. k |-> SubSeq(n, 1, i)]
<1>1. Len(n) \in Nat /\ \A i \in 1 .. Len(n) : n[i] \in Segments
  BY LenProperties DEF Paths
<1>2. Parents(n) = {SubSeq(n, 1, i) : i \in 1 .. k}
  BY DEF Parents
<1>3. ASSUME NEW i \in 1 .. k
      PROVE  SubSeq(n, 1, i) \in Paths /\ Len(SubSeq(n, 1, i)) = i /\ i # Len(n)
  <2>1. i \in Nat /\ i < Len(n) /\ \A x \in 1 .. i : n[x] \in Segments
    BY <1>1
  <2> QED
    BY <2>1, SubSeqProperties DEF Paths
<1>4. n \notin Parents(n) /\ Parents(n) \subseteq Paths
  <2> HIDE DEF k
  <2> QED
    BY <1>2, <1>3
<1>5. IsFiniteSet(Parents(n))
  <2>1. IsFiniteSet(1 .. k)
    BY <1>1, FS_Interval
  <2>2. up \in Surjection(1 .. k, Parents(n))
    <3> HIDE DEF k
    <3> QED
      BY <1>2 DEF Surjection
  <2> HIDE DEF k, up
  <2> QED
    BY <2>1, <2>2, FS_Surjection
<1> QED
  BY <1>4, <1>5

\* The disk follows what is made.
LEMMA DirIsMade ==
  ASSUME NEW F, NEW D, NEW n, Parents(n) \cap F = {}, n \notin F
  PROVE  /\ CanMkdirAll(TreeOf(F, D), n)
         /\ MkdirAll(TreeOf(F, D), n) = TreeOf(F, D \cup Parents(n) \cup {n})
<1> DEFINE t == TreeOf(F, D)
<1>1. DOMAIN t = F \cup D /\ \A p \in F \cup D : t[p] = IF p \in F THEN "file" ELSE "dir"
  BY DEF TreeOf
<1> HIDE DEF t
<1>2. CanMkdirAll(t, n)
  BY <1>1 DEF CanMkdirAll
<1>3. MkdirAll(t, n) = [q \in F \cup (D \cup Parents(n) \cup {n}) |-> IF q \in F THEN "file" ELSE "dir"]
  BY <1>1 DEF MkdirAll
<1> QED
  BY <1>2, <1>3 DEF TreeOf, t

LEMMA FileIsMade ==
  ASSUME NEW F, NEW D, NEW n, Parents(n) \cap F = {}, n \notin F, n \notin D, n \notin Parents(n)
  PROVE  /\ CanCreate(TreeOf(F, D), n)
         /\ Create(TreeOf(F, D), n) = TreeOf(F \cup {n}, D \cup Parents(n))
<1> DEFINE t == TreeOf(F, D)
<1>1. DOMAIN t = F \cup D /\ \A p \in F \cup D : t[p] = IF p \in F THEN "file" ELSE "dir"
  BY DEF TreeOf
<1> HIDE DEF t
<1>2. CanCreate(t, n)
  BY <1>1 DEF CanCreate
<1>3. Create(t, n) = [q \in (F \cup {n}) \cup (D \cup Parents(n)) |-> IF q \in F \cup {n} THEN "file" ELSE "dir"]
  BY <1>1 DEF Create
<1> QED
  BY <1>2, <1>3 DEF TreeOf, t

\* One entry more.
Grows(a, C, j, n) ==
  /\ a[j].type = "dir" =>
       /\ Made(a, C \cup {j}, "file") = Made(a, C, "file")
       /\ Made(a, C \cup {j}, "dir") = Made(a, C, "dir") \cup {n}
       /\ MadeDirs(a, C \cup {j}) = MadeDirs(a, C) \cup Parents(n) \cup {n}
  /\ a[j].type = "file" =>
       /\ Made(a, C \cup {j}, "file") = Made(a, C, "file") \cup {n}
       /\ Made(a, C \cup {j}, "dir") = Made(a, C, "dir")
       /\ MadeDirs(a, C \cup {j}) = MadeDirs(a, C) \cup Parents(n)

LEMMA MadeGrows ==
  ASSUME NEW a, NEW C, NEW j, j \notin C, a[j].type \in {"file", "dir"}
  PROVE  Grows(a, C, j, Trimmed(a[j]))
<1> DEFINE n == Trimmed(a[j])
<1>1. \A type : Made(a, C \cup {j}, type) =
                  IF a[j].type = type THEN Made(a, C, type) \cup {n} ELSE Made(a, C, type)
  BY DEF Made
<1>2. \A x : x \in MadeDirs(a, C) <=>
                \/ x \in Made(a, C, "dir")
                \/ \E y \in Made(a, C, "file") \cup Made(a, C, "dir") : x \in Parents(y)
  BY DEF MadeDirs
<1>3. \A x : x \in MadeDirs(a, C \cup {j}) <=>
                \/ x \in Made(a, C \cup {j}, "dir")
                \/ \E y \in Made(a, C \cup {j}, "file") \cup Made(a, C \cup {j}, "dir") :
                     x \in Parents(y)
  BY DEF MadeDirs
<1> HIDE DEF Grows, n
<1>4. CASE a[j].type = "dir"
  <2>1. /\ Made(a, C \cup {j}, "file") = Made(a, C, "file")
        /\ Made(a, C \cup {j}, "dir") = Made(a, C, "dir") \cup {n}
    BY <1>1, <1>4
  <2>2. \A x : x \in MadeDirs(a, C \cup {j}) <=> x \in MadeDirs(a, C) \cup Parents(n) \cup {n}
    BY <1>2, <1>3, <2>1
  <2> QED
    BY <1>4, <2>1, <2>2 DEF Grows, n
<1>5. CASE a[j].type = "file"
  <2>1. /\ Made(a, C \cup {j}, "file") = Made(a, C, "file") \cup {n}
        /\ Made(a, C \cup {j}, "dir") = Made(a, C, "dir")
    BY <1>1, <1>5
  <2>2. \A x : x \in MadeDirs(a, C \cup {j}) <=> x \in MadeDirs(a, C) \cup Parents(n)
    BY <1>2, <1>3, <2>1
  <2> QED
    BY <1>5, <2>1, <2>2 DEF Grows, n
<1> QED
  BY <1>4, <1>5

LEMMA RefusedWhenUnfit ==
  ASSUME NEW a, NEW C, IsFiniteSet(C), Fine(a, C), NEW j, j \notin C, a[j] \in AnyEntry,
         a[j].type # "global"
  PROVE  Refused(Cardinality(C), Made(a, C, "file"), MadeDirs(a, C), Made(a, C, "dir"),
                 a[j].type, Trimmed(a[j])) <=> ~Fine(a, C \cup {j})
<1> DEFINE n == Trimmed(a[j])
           F == Made(a, C, "file")
           M == Made(a, C, "dir")
           clash == \E i \in C : \/ Trimmed(a[i]) = n
                                 \/ a[i].type = "file" /\ Trimmed(a[i]) \in Parents(n)
                                 \/ a[j].type = "file" /\ n \in Parents(Trimmed(a[i]))
<1>1. n \in Paths /\ n # <<>> /\ n \notin Parents(n)
  BY TrimmedFacts, ParentsFacts
<1>2. CheckAssetName(n) <=> Range(n) \subseteq Proper
  BY <1>1, NamesAreChecked
<1>3. /\ Cardinality(C) \in Nat /\ MaxEntries \in Nat /\ Cardinality(C) <= MaxEntries
      /\ Cardinality(C \cup {j}) = Cardinality(C) + 1
  BY FS_CardinalityType, FS_AddElement, EntriesAssumption DEF Fine
<1>4. \A i \in C : a[i].type \in {"file", "dir"}
  BY DEF Fine
<1>5. /\ \A x : x \in F <=> \E i \in C : a[i].type = "file" /\ x = Trimmed(a[i])
      /\ \A x : x \in M <=> \E i \in C : a[i].type = "dir" /\ x = Trimmed(a[i])
  BY DEF Made
<1>6. \A x : x \in MadeDirs(a, C) <=> x \in M \/ \E y \in F \cup M : x \in Parents(y)
  BY DEF MadeDirs
<1> HIDE DEF n, F, M
<1>7. a[j].type \in {"file", "dir"} =>
        (Clashes(F, MadeDirs(a, C), M, a[j].type, n) <=> clash)
  <2>1. CASE a[j].type = "dir"
    BY <1>4, <1>5, <2>1 DEF Clashes
  <2>2. CASE a[j].type = "file"
    <3>1. (\E y \in F \cup M : n \in Parents(y)) <=> \E i \in C : n \in Parents(Trimmed(a[i]))
      BY <1>4, <1>5
    <3>2. n \in F \/ n \in M <=> \E i \in C : Trimmed(a[i]) = n
      BY <1>4, <1>5
    <3>3. Parents(n) \cap F # {} <=> \E i \in C : a[i].type = "file" /\ Trimmed(a[i]) \in Parents(n)
      BY <1>5
    <3> QED
      BY <1>6, <2>2, <3>1, <3>2, <3>3 DEF Clashes
  <2> QED
    BY <2>1, <2>2
<1>8. Fine(a, C \cup {j}) <=>
        /\ Cardinality(C) # MaxEntries
        /\ a[j].type \in {"file", "dir"} /\ Range(n) \subseteq Proper /\ ~clash
  <2>1. Cardinality(C \cup {j}) <= MaxEntries <=> Cardinality(C) # MaxEntries
    BY <1>3
  <2>2. (\A x \in C \cup {j} : a[x].type \in {"file", "dir"} /\ Range(Trimmed(a[x])) \subseteq Proper) <=>
          a[j].type \in {"file", "dir"} /\ Range(n) \subseteq Proper
    BY DEF Fine, n
  <2>3. (\A x, y \in C \cup {j} : x # y => /\ Trimmed(a[x]) # Trimmed(a[y])
                                           /\ a[x].type = "file" =>
                                                Trimmed(a[x]) \notin Parents(Trimmed(a[y]))) <=>
          ~clash
    <3>1. \A x, y \in C : x # y => /\ Trimmed(a[x]) # Trimmed(a[y])
                                   /\ a[x].type = "file" =>
                                        Trimmed(a[x]) \notin Parents(Trimmed(a[y]))
      BY DEF Fine
    <3> QED
      BY <3>1 DEF n
  <2> HIDE DEF clash
  <2> QED
    BY <2>1, <2>2, <2>3 DEF Fine
<1> HIDE DEF clash
<1> QED
  BY <1>2, <1>7, <1>8 DEF Refused, F, M, n

LEMMA DisksGrow ==
  ASSUME NEW k \in Disks, NEW n \in Paths
  PROVE  MkdirAll(k, n) \in Disks /\ Create(k, n) \in Disks
<1>1. PICK d \in SUBSET Paths : k \in [d -> {"file", "dir"}]
  BY DEF Disks
<1> DEFINE s == d \cup Parents(n) \cup {n}
<1>2. s \in SUBSET Paths
  BY ParentsFacts
<1>3. DOMAIN k = d /\ \A q \in d : k[q] \in {"file", "dir"}
  BY <1>1
<1> HIDE DEF s
<1>4. MkdirAll(k, n) \in [s -> {"file", "dir"}]
  <2>1. MkdirAll(k, n) = [q \in s |-> IF q \in d THEN k[q] ELSE "dir"]
    BY <1>3 DEF MkdirAll, s
  <2> QED
    BY <1>3, <2>1
<1>5. Create(k, n) \in [s -> {"file", "dir"}]
  <2>1. Create(k, n) = [q \in s |-> IF q = n THEN "file" ELSE IF q \in d THEN k[q] ELSE "dir"]
    BY <1>3 DEF Create, s
  <2> QED
    BY <1>3, <2>1
<1> QED
  BY <1>2, <1>4, <1>5 DEF Disks

LEMMA AState ==
  ASSUME NEW v \in {"ok", "invalid", "internal"}, NEW c \in Nat, NEW f \in SUBSET Paths,
         NEW d \in SUBSET Paths, NEW m \in SUBSET Paths, NEW k \in Disks
  PROVE  State(v, c, f, d, m, k) \in States
BY DEF States

LEMMA EntryTyped ==
  ASSUME NEW st \in States, NEW e \in AnyEntry
  PROVE  Entry(st, e) \in States
<1>1. PICK v \in {"ok", "invalid", "internal"}, c \in Nat, f \in SUBSET Paths,
           d \in SUBSET Paths, m \in SUBSET Paths, k \in Disks : st = State(v, c, f, d, m, k)
  BY DEF States
<1> DEFINE n == Trimmed(e)
<1>2. n \in Paths /\ Parents(n) \subseteq Paths
  BY TrimmedFacts, ParentsFacts
<1>3. MkdirAll(k, n) \in Disks /\ Create(k, n) \in Disks
  BY <1>2, DisksGrow
<1> HIDE DEF n
<1> DEFINE s0 == State(v, c, f, d, m, k)
           s1 == State("invalid", c, f, d, m, k)
           s2 == State("internal", c, f, d, m, k)
           s3 == State(v, c + 1, f, d \cup Parents(n) \cup {n}, m \cup {n}, MkdirAll(k, n))
           s4 == State(v, c + 1, f \cup {n}, d \cup Parents(n), m, Create(k, n))
<1>4. s0 \in States /\ s1 \in States /\ s2 \in States /\ s3 \in States /\ s4 \in States
  <2>1. /\ c + 1 \in Nat /\ f \cup {n} \in SUBSET Paths /\ m \cup {n} \in SUBSET Paths
        /\ d \cup Parents(n) \cup {n} \in SUBSET Paths /\ d \cup Parents(n) \in SUBSET Paths
    BY <1>2
  <2> QED
    BY <1>3, <2>1, AState
<1>5. After(v, c, f, d, m, k, e.type, n) \in {s0, s1, s2, s3, s4}
  BY DEF After
<1> HIDE DEF s0, s1, s2, s3, s4
<1>6. After(v, c, f, d, m, k, e.type, n) \in States
  BY <1>4, <1>5
<1> QED
  BY <1>1, <1>6, EntryCases DEF n

\* extractAssets takes the entries one after the other.
LEMMA ExtractSteps ==
  ASSUME NEW a \in Seq(AnyEntry)
  PROVE  \E x \in [0 .. Len(a) -> States] :
           /\ x[0] = Start
           /\ \A i \in 1 .. Len(a) : x[i] = Entry(x[i - 1], a[i])
           /\ ExtractAssets(a) = x[Len(a)]
<1> DEFINE n == Len(a)
           D == States
           base == Start
           G == [i \in 1 .. n |-> [st \in D |-> Entry(st, a[i])]]
           F(h) == [s \in SUBSET (1 .. n) |->
                      IF s = {} THEN base ELSE Entry(h[s \ {Max(s)}], a[Max(s)])]
           g == CHOOSE h : h = F(h)
<1>1. n \in Nat /\ DOMAIN a = 1 .. n /\ \A i \in 1 .. n : a[i] \in AnyEntry
  BY LenProperties
<1>2. base \in D
  <2>1. <<>> \in Disks
    <3>1. <<>> \in [{} -> {"file", "dir"}]
      OBVIOUS
    <3> QED
      BY <3>1 DEF Disks
  <2>2. Start = State("ok", 0, {}, {}, {}, <<>>)
    BY DEF Start, State
  <2> QED
    BY <2>1, <2>2, AState
<1>3. G \in [1 .. n -> [D -> D]]
  <2> HIDE DEF n, D
  <2>1. \A i \in 1 .. n, st \in D : Entry(st, a[i]) \in D
    BY <1>1, EntryTyped DEF D
  <2> QED
    BY <2>1
<1> HIDE DEF D, base
<1>4. PICK h \in [SUBSET (1 .. n) -> D] :
             IsFold(h, G, base, D, n)
  <2>1. n \in Nat
    BY <1>1
  <2> HIDE DEF n, G
  <2> QED
    BY <2>1, <1>2, <1>3, Folding
<1>5. h = F(h)
  <2>1. ASSUME NEW s \in SUBSET (1 .. n), s # {}
        PROVE  h[s] = Entry(h[s \ {Max(s)}], a[Max(s)])
    <3>1. Max(s) \in 1 .. n
      <4>1. n \in Nat /\ s \in SUBSET (0 .. n)
        BY <1>1
      <4> HIDE DEF n
      <4> QED
        BY <2>1, <4>1, MaxFacts
    <3>2. h[s \ {Max(s)}] \in D
      BY s \ {Max(s)} \in SUBSET (1 .. n)
    <3> HIDE DEF n
    <3> QED
      BY <1>4, <2>1, <3>1, <3>2 DEF IsFold
  <2> HIDE DEF n, G
  <2> QED
    BY <1>4, <2>1 DEF IsFold
<1>6. g = F(g)
  <2> HIDE DEF n
  <2> QED
    BY <1>5
<1>7. ExtractAssets(a) = g[1 .. n]
  BY <1>1 DEF ExtractAssets, FoldLeft, MapThenFoldSet, base
<1>8. PICK f \in [0 .. n -> D] : IsChain(f, G, base, n) /\ f[n] = g[1 .. n]
  <2>1. n \in Nat
    BY <1>1
  <2>2. g[{}] = base
    <3> HIDE DEF n, g
    <3> QED
      BY <1>6
  <2>3. ASSUME NEW s \in SUBSET (1 .. n), s # {}, g[s \ {Max(s)}] \in D
        PROVE  g[s] = G[Max(s)][g[s \ {Max(s)}]]
    <3>1. Max(s) \in 1 .. n
      <4>1. s \in SUBSET (0 .. n)
        BY <1>1
      <4> HIDE DEF n
      <4> QED
        BY <2>1, <2>3, <4>1, MaxFacts
    <3> HIDE DEF n, g
    <3> QED
      BY <1>6, <2>3, <3>1
  <2> HIDE DEF n, G, g
  <2>4. IsFold(g, G, base, D, n)
    BY <2>2, <2>3 DEF IsFold
  <2>5. G \in Steppers(D, n)
    BY <1>3 DEF Steppers
  <2>6. EndsChain(g, G, base, D, n)
    BY <2>1, <1>2, <2>4, <2>5, FoldEndsChain
  <2> QED
    BY <2>6 DEF EndsChain
<1>9. ASSUME NEW i \in 1 .. n PROVE f[i] = Entry(f[i - 1], a[i])
  <2>1. i - 1 \in 0 .. n
    BY <1>1
  <2>2. f[i - 1] \in D
    BY <2>1
  <2> HIDE DEF n
  <2> QED
    BY <1>8, <2>2 DEF IsChain
<1> HIDE DEF G, g
<1> QED
  BY <1>7, <1>8, <1>9 DEF IsChain, D, base

\* The state that the entries with indices in C make.
Reached(a, C) ==
  State("ok", Cardinality(C), Made(a, C, "file"), MadeDirs(a, C), Made(a, C, "dir"),
        TreeOf(Made(a, C, "file"), MadeDirs(a, C)))

\* They make it one by one, unless one does not fit.
LEMMA OneMore ==
  ASSUME NEW a, NEW C, IsFiniteSet(C), Fine(a, C), NEW j, j \notin C, a[j] \in AnyEntry,
         a[j].type # "global"
  PROVE  IF Fine(a, C \cup {j}) THEN Entry(Reached(a, C), a[j]) = Reached(a, C \cup {j})
         ELSE Entry(Reached(a, C), a[j]).verdict = "invalid"
<1> DEFINE n == Trimmed(a[j])
           e == a[j]
           c == Cardinality(C)
           F == Made(a, C, "file")
           D == MadeDirs(a, C)
           M == Made(a, C, "dir")
           k == TreeOf(F, D)
<1>1. Refused(c, F, D, M, e.type, n) <=> ~Fine(a, C \cup {j})
  BY RefusedWhenUnfit
<1>2. Entry(Reached(a, C), e) = After("ok", c, F, D, M, k, e.type, n)
  BY EntryCases DEF Reached
<1>3. Cardinality(C \cup {j}) = c + 1
  BY FS_AddElement
<1>4. n \notin Parents(n)
  BY TrimmedFacts, ParentsFacts
<1>5. /\ e.type = "dir" =>
           /\ Made(a, C \cup {j}, "file") = F
           /\ Made(a, C \cup {j}, "dir") = M \cup {n}
           /\ MadeDirs(a, C \cup {j}) = D \cup Parents(n) \cup {n}
      /\ e.type = "file" =>
           /\ Made(a, C \cup {j}, "file") = F \cup {n}
           /\ Made(a, C \cup {j}, "dir") = M
           /\ MadeDirs(a, C \cup {j}) = D \cup Parents(n)
  <2>1. CASE e.type \in {"file", "dir"}
    <3>1. Grows(a, C, j, n)
      BY <2>1, MadeGrows
    <3> HIDE DEF n
    <3> QED
      BY <3>1 DEF Grows
  <2> QED
    BY <2>1
<1>6. e.type # "global"
  OBVIOUS
<1> HIDE DEF n, e, c, F, D, M, k
<1>7. CASE ~Fine(a, C \cup {j})
  <2>1. Entry(Reached(a, C), e) = State("invalid", c, F, D, M, k)
    BY <1>1, <1>2, <1>6, <1>7 DEF After
  <2> QED
    BY <1>7, <2>1, StateFields DEF e
<1>8. CASE Fine(a, C \cup {j})
  <2>1. ~Refused(c, F, D, M, e.type, n)
    BY <1>1, <1>8
  <2>2. /\ Parents(n) \cap F = {} /\ n \notin F /\ e.type \in {"dir", "file"}
        /\ e.type = "file" => n \notin D
    BY <2>1 DEF Refused, Clashes
  <2>3. CASE e.type = "dir"
    <3>1. CanMkdirAll(k, n) /\ MkdirAll(k, n) = TreeOf(F, D \cup Parents(n) \cup {n})
      BY <2>2, DirIsMade DEF k
    <3>2. Entry(Reached(a, C), e) =
            State("ok", c + 1, F, D \cup Parents(n) \cup {n}, M \cup {n},
                  TreeOf(F, D \cup Parents(n) \cup {n}))
      BY <1>2, <2>1, <2>3, <3>1 DEF After
    <3>3. Reached(a, C \cup {j}) =
            State("ok", c + 1, F, D \cup Parents(n) \cup {n}, M \cup {n},
                  TreeOf(F, D \cup Parents(n) \cup {n}))
      BY <1>3, <1>5, <2>3 DEF Reached
    <3> QED
      BY <1>8, <3>2, <3>3 DEF e
  <2>4. CASE e.type = "file"
    <3>1. CanCreate(k, n) /\ Create(k, n) = TreeOf(F \cup {n}, D \cup Parents(n))
      BY <1>4, <2>2, <2>4, FileIsMade DEF k
    <3>2. Entry(Reached(a, C), e) =
            State("ok", c + 1, F \cup {n}, D \cup Parents(n), M,
                  TreeOf(F \cup {n}, D \cup Parents(n)))
      BY <1>2, <2>1, <2>4, <3>1 DEF After
    <3>3. Reached(a, C \cup {j}) =
            State("ok", c + 1, F \cup {n}, D \cup Parents(n), M,
                  TreeOf(F \cup {n}, D \cup Parents(n)))
      BY <1>3, <1>5, <2>4 DEF Reached
    <3> QED
      BY <1>8, <3>2, <3>3 DEF e
  <2> QED
    BY <2>2, <2>3, <2>4
<1> QED
  BY <1>7, <1>8

LEMMA FineBefore ==
  ASSUME NEW a, NEW C, IsFiniteSet(C), NEW B \in SUBSET C, Fine(a, C)
  PROVE  Fine(a, B)
<1>1. Cardinality(B) \in Nat /\ Cardinality(C) \in Nat /\ Cardinality(B) <= Cardinality(C)
  BY FS_Subset, FS_CardinalityType
<1>2. Cardinality(B) <= MaxEntries
  BY <1>1, EntriesAssumption DEF Fine
<1> QED
  BY <1>2 DEF Fine

LEMMA NothingReached ==
  ASSUME NEW a
  PROVE  Fine(a, {}) /\ Reached(a, {}) = Start
<1>1. Cardinality({}) = 0
  BY FS_EmptySet
<1>2. Made(a, {}, "file") = {} /\ Made(a, {}, "dir") = {} /\ MadeDirs(a, {}) = {}
  BY DEF Made, MadeDirs
<1>3. TreeOf({}, {}) = <<>>
  BY DEF TreeOf
<1>4. Reached(a, {}) = State("ok", 0, {}, {}, {}, <<>>)
  BY <1>1, <1>2, <1>3 DEF Reached
<1>5. Start = State("ok", 0, {}, {}, {}, <<>>)
  BY DEF Start, State
<1>6. Fine(a, {})
  BY <1>1, EntriesAssumption DEF Fine
<1> QED
  BY <1>4, <1>5, <1>6

\* What extractAssets makes of an archive.
LEMMA Extracted ==
  ASSUME NEW a \in Seq(AnyEntry)
  PROVE  IF Fine(a, Counted(a)) THEN ExtractAssets(a) = Reached(a, Counted(a))
         ELSE ExtractAssets(a).verdict = "invalid"
<1> DEFINE n == Len(a)
           C(i) == {j \in 1 .. i : a[j].type # "global"}
           Right(i, st) == IF Fine(a, C(i)) THEN st = Reached(a, C(i)) ELSE st.verdict = "invalid"
<1>1. n \in Nat /\ DOMAIN a = 1 .. n /\ \A i \in 1 .. n : a[i] \in AnyEntry
  BY LenProperties
<1>2. PICK x \in [0 .. n -> States] :
        /\ x[0] = Start
        /\ \A i \in 1 .. n : x[i] = Entry(x[i - 1], a[i])
        /\ ExtractAssets(a) = x[n]
  BY ExtractSteps
<1> HIDE DEF n
<1> DEFINE A == {i \in Nat : i <= n => Right(i, x[i])}
<1>3. 0 \in A
  <2>1. C(0) = {}
    OBVIOUS
  <2> HIDE DEF C
  <2> QED
    BY <1>2, <2>1, NothingReached
<1>4. ASSUME NEW i \in Nat, i \in A PROVE i + 1 \in A
  <2>1. SUFFICES ASSUME i + 1 <= n PROVE Right(i + 1, x[i + 1])
    OBVIOUS
  <2> DEFINE j == i + 1
  <2>2. j \in 1 .. n /\ j - 1 = i /\ i <= n /\ j \notin C(i)
    BY <1>1, <2>1
  <2>3. Right(i, x[i])
    BY <1>4, <2>2
  <2>4. x[j] = Entry(x[i], a[j]) /\ a[j] \in AnyEntry
    BY <1>1, <1>2, <2>2
  <2>5. IF a[j].type = "global" THEN C(j) = C(i) ELSE C(j) = C(i) \cup {j}
    <3>1. 1 .. j = 1 .. i \cup {j}
      OBVIOUS
    <3> HIDE DEF j
    <3> QED
      BY <3>1
  <2>6. IsFiniteSet(C(i)) /\ IsFiniteSet(C(j)) /\ C(i) \subseteq C(j)
    <3>1. IsFiniteSet(1 .. i) /\ IsFiniteSet(1 .. j)
      BY FS_Interval
    <3>2. C(i) \subseteq 1 .. i /\ C(j) \subseteq 1 .. j
      OBVIOUS
    <3> HIDE DEF C, j
    <3> QED
      BY <2>5, <3>1, <3>2, FS_Subset
  <2> HIDE DEF j, C
  <2>7. CASE a[j].type = "global"
    BY <2>3, <2>4, <2>5, <2>7 DEF Entry, j
  <2>8. CASE a[j].type # "global" /\ Fine(a, C(i))
    BY <2>2, <2>3, <2>4, <2>5, <2>6, <2>8, OneMore DEF j
  <2>9. CASE ~Fine(a, C(i))
    <3>1. ~Fine(a, C(j))
      BY <2>6, <2>9, FineBefore
    <3>2. x[j] = x[i]
      BY <2>3, <2>4, <2>9 DEF Entry
    <3> QED
      BY <2>3, <2>9, <3>1, <3>2 DEF j
  <2> QED
    BY <2>7, <2>8, <2>9
<1>5. Right(n, x[n])
  <2> HIDE DEF A, Right
  <2>1. n \in A
    BY <1>1, <1>3, <1>4, Counting
  <2> QED
    BY <1>1, <2>1 DEF A
<1>6. C(n) = Counted(a)
  BY <1>1 DEF Counted
<1> HIDE DEF C
<1> QED
  BY <1>2, <1>5, <1>6

LEMMA AcceptableIsFine ==
  ASSUME NEW a
  PROVE  /\ Acceptable(a) <=> Fine(a, Counted(a))
         /\ Tree(a) = TreeOf(Made(a, Counted(a), "file"), MadeDirs(a, Counted(a)))
<1>1. Acceptable(a) <=> Fine(a, Counted(a))
  BY DEF Acceptable, Fine
<1>2. \A type : NamesOf(a, type) = Made(a, Counted(a), type)
  BY DEF NamesOf, Made
<1>3. Tree(a) = TreeOf(Made(a, Counted(a), "file"), MadeDirs(a, Counted(a)))
  BY <1>2 DEF Tree, TreeOf, MadeDirs
<1> QED
  BY <1>1, <1>3

(***************************************************************************)
(* Workspaces: the copy and the code.                                      *)
(***************************************************************************)

LEMMA ALongestPath ==
  ASSUME NEW T \in SUBSET Paths, IsFiniteSet(T), T # {}
  PROVE  \E p \in T : \A q \in T : Len(q) <= Len(p)
<1> DEFINE Has(s) == \E p \in s : \A q \in s : Len(q) <= Len(p)
           Q == {s \in SUBSET T : s # {} => Has(s)}
<1>1. \A p \in T : Len(p) \in Nat
  BY LenProperties DEF Paths
<1>2. {} \in Q
  OBVIOUS
<1>3. ASSUME NEW s \in SUBSET T, s # {}, \A x \in s : s \ {x} \in Q PROVE s \in Q
  <2>1. PICK x \in s : TRUE
    BY <1>3
  <2>2. CASE s \ {x} = {}
    <3>1. s = {x}
      BY <2>2
    <3> QED
      BY <1>1, <3>1
  <2>3. CASE s \ {x} # {}
    <3>1. PICK p \in s \ {x} : \A q \in s \ {x} : Len(q) <= Len(p)
      BY <1>3, <2>3
    <3>2. CASE Len(x) <= Len(p)
      BY <3>1, <3>2
    <3>3. CASE ~(Len(x) <= Len(p))
      <4>1. \A q \in s : Len(q) <= Len(x)
        BY <1>1, <3>1, <3>3
      <4> QED
        BY <4>1
    <3> QED
      BY <3>2, <3>3
  <2> QED
    BY <2>2, <2>3
<1>4. T \in Q
  <2> HIDE DEF Q
  <2>1. SUBSET T \subseteq Q
    BY <1>2, <1>3, Gathering
  <2> QED
    BY <2>1
<1> QED
  BY <1>4

\* What is on a disk is a tree: above a path there are only directories.
IsTree(k) ==
  /\ IsFiniteSet(DOMAIN k) /\ DOMAIN k \subseteq Paths
  /\ k \in [DOMAIN k -> {"file", "dir"}]
  /\ \A p \in DOMAIN k : \A q \in Parents(p) : q \in DOMAIN k /\ k[q] = "dir"

\* The part of it that is s and what is above it.
Above(s) == s \cup UNION {Parents(p) : p \in s}
Part(k, s) == [q \in Above(s) |-> k[q]]
Copy(k, p, t) == IF k[p] = "dir" THEN MkdirAll(t, p) ELSE Create(t, p)

LEMMA PartGrows ==
  ASSUME NEW k, IsTree(k), NEW s \in SUBSET DOMAIN k, NEW p \in s
  PROVE  Copy(k, p, Part(k, s \ {p})) = Part(k, s)
<1> DEFINE b == Above(s \ {p})
           t == Part(k, s \ {p})
<1>1. Above(s) = b \cup Parents(p) \cup {p}
  <2>1. \A x : x \in Above(s) <=> x \in s \/ \E y \in s : x \in Parents(y)
    BY DEF Above
  <2>2. \A x : x \in b <=> x \in s \ {p} \/ \E y \in s \ {p} : x \in Parents(y)
    BY DEF Above
  <2> HIDE DEF b
  <2> QED
    BY <2>1, <2>2
<1>2. /\ DOMAIN t = b /\ \A q \in b : t[q] = k[q]
  BY DEF Part
<1>3. k[p] \in {"file", "dir"} /\ \A q \in Parents(p) : k[q] = "dir"
  BY DEF IsTree
<1> HIDE DEF b, t
<1>4. CASE k[p] = "dir"
  <2>1. MkdirAll(t, p) = [q \in b \cup Parents(p) \cup {p} |-> k[q]]
    BY <1>2, <1>3, <1>4 DEF MkdirAll
  <2> QED
    BY <1>1, <1>4, <2>1 DEF Copy, Part, t
<1>5. CASE k[p] = "file"
  <2>1. Create(t, p) = [q \in b \cup Parents(p) \cup {p} |-> k[q]]
    BY <1>2, <1>3, <1>5 DEF Create
  <2> QED
    BY <1>1, <1>5, <2>1 DEF Copy, Part, t
<1> QED
  BY <1>3, <1>4, <1>5

LEMMA CopiesAreWhole ==
  ASSUME NEW k, IsTree(k)
  PROVE  CopyAssets(k) = k
<1> DEFINE T == DOMAIN k
           last(s) == CHOOSE p \in s : \A q \in s : Len(q) <= Len(p)
           F(h) == [s \in SUBSET T |->
                      IF s = {} THEN <<>> ELSE Copy(k, last(s), h[s \ {last(s)}])]
           g == CHOOSE h : h = F(h)
           w == [s \in SUBSET T |-> Part(k, s)]
<1>1. IsFiniteSet(T) /\ T \subseteq Paths
  BY DEF IsTree
<1>2. \A s \in SUBSET T : s # {} => last(s) \in s
  <2>1. ASSUME NEW s \in SUBSET T, s # {} PROVE last(s) \in s
    <3>1. s \in SUBSET Paths /\ IsFiniteSet(s)
      BY <1>1, FS_Subset
    <3>2. \E p \in s : \A q \in s : Len(q) <= Len(p)
      <4> HIDE DEF T
      <4> QED
        BY <2>1, <3>1, ALongestPath
    <3> QED
      BY <3>2
  <2> QED
    BY <2>1
<1>3. CopyAssets(k) = g[T]
  BY DEF CopyAssets, MapThenFoldSet, Copy
<1>4. Part(k, {}) = <<>>
  BY DEF Part, Above
<1> HIDE DEF last, T
<1>5. \A s \in SUBSET T : s # {} => Part(k, s) = Copy(k, last(s), Part(k, s \ {last(s)}))
  BY <1>2, PartGrows DEF T
<1>6. w = F(w)
  <2>1. \A s \in SUBSET T : s # {} => s \ {last(s)} \in SUBSET T
    OBVIOUS
  <2>2. \A s \in SUBSET T : Part(k, s) = IF s = {} THEN <<>> ELSE Copy(k, last(s), w[s \ {last(s)}])
    BY <1>4, <1>5, <2>1
  <2> QED
    BY <2>2
<1>7. g = F(g)
  BY <1>6
<1> HIDE DEF g, w
<1> DEFINE Q == {s \in SUBSET T : g[s] = Part(k, s)}
<1>8. {} \in Q
  BY <1>4, <1>7
<1>9. ASSUME NEW s \in SUBSET T, s # {}, \A x \in s : s \ {x} \in Q PROVE s \in Q
  <2>1. g[s] = Copy(k, last(s), g[s \ {last(s)}])
    BY <1>7, <1>9
  <2>2. g[s \ {last(s)}] = Part(k, s \ {last(s)})
    BY <1>2, <1>9
  <2> QED
    BY <1>5, <1>9, <2>1, <2>2
<1>10. g[T] = Part(k, T)
  <2> HIDE DEF Q
  <2>1. SUBSET T \subseteq Q
    BY <1>1, <1>8, <1>9, Gathering
  <2> QED
    BY <2>1 DEF Q
<1>11. Part(k, T) = k
  <2>1. Above(T) = T
    BY DEF IsTree, Above, T
  <2>2. k = [q \in T |-> k[q]]
    BY DEF IsTree, T
  <2> QED
    BY <2>1, <2>2 DEF Part
<1> QED
  BY <1>3, <1>10, <1>11

LEMMA ParentsOfParents ==
  ASSUME NEW n \in Paths, NEW q \in Parents(n), NEW r \in Parents(q)
  PROVE  r \in Parents(n)
<1>1. Len(n) \in Nat /\ \A i \in 1 .. Len(n) : n[i] \in Segments
  BY LenProperties DEF Paths
<1>2. PICK i \in 1 .. Len(n) - 1 : q = SubSeq(n, 1, i)
  BY DEF Parents
<1>3. /\ i \in Nat /\ i < Len(n) /\ Len(q) = i
      /\ \A x \in 1 .. i : q[x] = n[x] /\ q[x] \in Segments
  <2>1. i \in Nat /\ i < Len(n) /\ \A x \in 1 .. i : n[x] \in Segments
    BY <1>1, <1>2
  <2> QED
    BY <1>2, <2>1, SubSeqProperties DEF Paths
<1>4. PICK j \in 1 .. i - 1 : r = SubSeq(q, 1, j)
  BY <1>3 DEF Parents
<1>5. r = SubSeq(n, 1, j)
  <2>1. j \in Nat /\ j < i /\ j \in 1 .. Len(n) - 1
    BY <1>1, <1>3, <1>4
  <2>2. \A x \in 1 .. j : q[x] = n[x] /\ q[x] \in Segments /\ n[x] \in Segments
    BY <1>3, <2>1
  <2>3. /\ r \in Seq(Segments) /\ Len(r) = j /\ \A x \in 1 .. j : r[x] = q[x]
    BY <1>4, <2>1, <2>2, SubSeqProperties
  <2> DEFINE u == SubSeq(n, 1, j)
  <2>4. /\ u \in Seq(Segments) /\ Len(u) = j /\ \A x \in 1 .. j : u[x] = n[x]
    BY <2>1, <2>2, SubSeqProperties
  <2> HIDE DEF u
  <2>5. r = u
    BY <2>2, <2>3, <2>4, SeqEqual
  <2> QED
    BY <2>5 DEF u
<1>6. j \in 1 .. Len(n) - 1
  BY <1>1, <1>3, <1>4
<1> QED
  BY <1>5, <1>6 DEF Parents

LEMMA MadeIsFinite ==
  ASSUME NEW a, NEW C, IsFiniteSet(C), \A i \in C : a[i] \in AnyEntry, NEW type
  PROVE  IsFiniteSet(Made(a, C, type)) /\ Made(a, C, type) \subseteq Paths
<1> DEFINE J == {j \in C : a[j].type = type}
           f == [i \in J |-> Trimmed(a[i])]
<1>1. IsFiniteSet(J)
  BY FS_Subset
<1>2. f \in Surjection(J, Made(a, C, type))
  BY DEF Made, Surjection
<1>3. Made(a, C, type) \subseteq Paths
  BY TrimmedFacts DEF Made
<1> HIDE DEF J, f
<1> QED
  BY <1>1, <1>2, <1>3, FS_Surjection

LEMMA MadeDirsAreFinite ==
  ASSUME NEW a, NEW C, IsFiniteSet(C), \A i \in C : a[i] \in AnyEntry
  PROVE  IsFiniteSet(MadeDirs(a, C)) /\ MadeDirs(a, C) \subseteq Paths
<1> DEFINE N == Made(a, C, "file") \cup Made(a, C, "dir")
           P == {Parents(n) : n \in N}
           f == [n \in N |-> Parents(n)]
<1>1. /\ IsFiniteSet(Made(a, C, "file")) /\ Made(a, C, "file") \subseteq Paths
      /\ IsFiniteSet(Made(a, C, "dir")) /\ Made(a, C, "dir") \subseteq Paths
  BY MadeIsFinite
<1>2. IsFiniteSet(N) /\ N \subseteq Paths
  BY <1>1, FS_Union
<1>3. f \in Surjection(N, P)
  BY DEF Surjection
<1>4. MadeDirs(a, C) = Made(a, C, "dir") \cup UNION P
  BY DEF MadeDirs
<1> HIDE DEF N, f
<1>5. (\A x \in P : IsFiniteSet(x)) /\ UNION P \subseteq Paths
  BY <1>2, ParentsFacts
<1> HIDE DEF P
<1>6. IsFiniteSet(P)
  BY <1>2, <1>3, FS_Surjection
<1>7. IsFiniteSet(UNION P)
  BY <1>5, <1>6, FS_UNION
<1> QED
  BY <1>1, <1>4, <1>5, <1>7, FS_Union

\* What fine entries make is a tree.
LEMMA FineMakesATree ==
  ASSUME NEW a, NEW C, IsFiniteSet(C), \A i \in C : a[i] \in AnyEntry, Fine(a, C)
  PROVE  IsTree(TreeOf(Made(a, C, "file"), MadeDirs(a, C)))
<1> DEFINE F == Made(a, C, "file")
           M == Made(a, C, "dir")
           D == MadeDirs(a, C)
           k == TreeOf(F, D)
<1>1. /\ IsFiniteSet(F) /\ F \subseteq Paths /\ IsFiniteSet(M) /\ M \subseteq Paths
      /\ IsFiniteSet(D) /\ D \subseteq Paths
  BY MadeIsFinite, MadeDirsAreFinite
<1>2. IsFiniteSet(F \cup D)
  BY <1>1, FS_Union
<1>3. \A x : x \in D <=> x \in M \/ \E y \in F \cup M : x \in Parents(y)
  BY DEF MadeDirs
<1>4. F \cap D = {}
  <2>1. SUFFICES ASSUME NEW x \in F, x \in D PROVE FALSE
    OBVIOUS
  <2>2. PICK i \in C : a[i].type = "file" /\ x = Trimmed(a[i])
    BY DEF Made
  <2>3. PICK j \in C : \/ a[j].type = "dir" /\ x = Trimmed(a[j])
                       \/ x \in Parents(Trimmed(a[j]))
    BY <1>3, <2>1 DEF Made
  <2>4. i # j
    <3>1. Trimmed(a[i]) \in Paths
      BY TrimmedFacts
    <3>2. Trimmed(a[i]) \notin Parents(Trimmed(a[i]))
      BY <3>1, ParentsFacts
    <3> QED
      BY <2>2, <2>3, <3>2
  <2> QED
    BY <2>2, <2>3, <2>4 DEF Fine
<1>5. \A p \in F \cup D : \A q \in Parents(p) : q \in D
  <2> HIDE DEF F, M, D
  <2>1. SUFFICES ASSUME NEW p \in F \cup D, NEW q \in Parents(p) PROVE q \in D
    OBVIOUS
  <2>2. CASE p \in F \cup M
    BY <1>3, <2>2
  <2>3. CASE \E y \in F \cup M : p \in Parents(y)
    <3>1. PICK y \in F \cup M : p \in Parents(y)
      BY <2>3
    <3>2. y \in Paths
      BY <1>1
    <3>3. q \in Parents(y)
      BY <3>1, <3>2, ParentsOfParents
    <3> QED
      BY <1>3, <3>3
  <2> QED
    BY <1>3, <2>2, <2>3
<1> HIDE DEF F, M, D
<1>6. DOMAIN k = F \cup D /\ \A p \in F \cup D : k[p] = IF p \in F THEN "file" ELSE "dir"
  BY DEF TreeOf
<1>7. k \in [DOMAIN k -> {"file", "dir"}]
  BY DEF TreeOf
<1> HIDE DEF k
<1>8. IsTree(k)
  BY <1>1, <1>2, <1>4, <1>5, <1>6, <1>7 DEF IsTree
<1> QED
  BY <1>8 DEF k, F, D

\* The code in that tree.
Coded(t, f) ==
  [p \in DOMAIN t \cup Parents(f) \cup {f} |->
     IF p = f THEN "code" ELSE IF p \in DOMAIN t THEN t[p] ELSE "dir"]

LEMMA CodeIsWritten ==
  ASSUME NEW F, NEW D, NEW t, t = TreeOf(F, D), NEW f
  PROVE  /\ CanWriteCode(t, f) <=> (f \in DOMAIN t => f \in F) /\ Parents(f) \cap F = {}
         /\ WriteCode(t, f) = Coded(t, f)
<1>1. DOMAIN t = F \cup D /\ \A p \in F \cup D : t[p] = IF p \in F THEN "file" ELSE "dir"
  BY DEF TreeOf
<1>2. CanWriteCode(t, f) <=> (f \in DOMAIN t => f \in F) /\ Parents(f) \cap F = {}
  BY <1>1 DEF CanWriteCode
<1>3. WriteCode(t, f) = Coded(t, f)
  BY DEF WriteCode, Create, Coded
<1> QED
  BY <1>2, <1>3

\* What the runs enumerate.
LEMMA WorkspaceInputs ==
  /\ Archives \subseteq Seq(AnyEntry)
  /\ \A archive : Filenames(archive) \subseteq Paths \ {<<>>}
<1>1. Names \subseteq Paths \ {<<>>}
  BY BoundedIsSeq, EntriesAssumption DEF Names, Paths
<1>2. CodeNames \subseteq Paths \ {<<>>}
  BY EntriesAssumption DEF AnyName, Paths
<1>3. Entries \subseteq AnyEntry
  BY EntriesAssumption
<1>4. [type : {"file", "dir"}, name : Names] \subseteq AnyEntry
  BY <1>1 DEF AnyEntry, AnyName, Paths
<1>5. \A x \in Archives : x \in Seq(AnyEntry)
  <2>1. ASSUME NEW x \in BoundedSeq(Entries, MaxArchive) PROVE x \in Seq(AnyEntry)
    <3>1. x \in Seq(Entries)
      BY BoundedIsSeq, EntriesAssumption
    <3> QED
      BY <1>3, <3>1, MoreSeqs
  <2>2. ASSUME NEW e \in [type : {"file", "dir"}, name : Names] PROVE <<e>> \in Seq(AnyEntry)
    <3>1. e \in AnyEntry
      BY <1>4
    <3> QED
      BY <3>1
  <2> QED
    BY <2>1, <2>2 DEF Archives
<1>6. \A archive : Filenames(archive) \subseteq Paths \ {<<>>}
  BY <1>1, <1>2 DEF Filenames
<1> QED
  BY <1>5, <1>6

LEMMA OneWorkspace ==
  ASSUME NEW a \in Seq(AnyEntry)
  PROVE  /\ ExtractAssets(a).verdict = IF Acceptable(a) THEN "ok" ELSE "invalid"
         /\ Acceptable(a) =>
              \E F, D : /\ ExtractAssets(a).files = F /\ ExtractAssets(a).disk = TreeOf(F, D)
                       /\ Tree(a) = TreeOf(F, D) /\ IsTree(TreeOf(F, D))
<1> DEFINE C == Counted(a)
           F == Made(a, C, "file")
           D == MadeDirs(a, C)
<1>1. IsFiniteSet(C) /\ \A i \in C : a[i] \in AnyEntry
  <2>1. Len(a) \in Nat /\ DOMAIN a = 1 .. Len(a) /\ \A i \in 1 .. Len(a) : a[i] \in AnyEntry
    BY LenProperties
  <2>2. C \subseteq 1 .. Len(a)
    BY <2>1 DEF Counted
  <2> HIDE DEF C
  <2>3. IsFiniteSet(1 .. Len(a))
    BY <2>1, FS_Interval
  <2>4. IsFiniteSet(C)
    BY <2>2, <2>3, FS_Subset
  <2> QED
    BY <2>1, <2>2, <2>4
<1>2. Acceptable(a) <=> Fine(a, C)
  BY AcceptableIsFine
<1>3. Tree(a) = TreeOf(F, D)
  BY AcceptableIsFine
<1>4. IF Fine(a, C) THEN ExtractAssets(a) = Reached(a, C) ELSE ExtractAssets(a).verdict = "invalid"
  BY Extracted
<1> HIDE DEF C
<1>5. /\ Reached(a, C).verdict = "ok" /\ Reached(a, C).files = F
      /\ Reached(a, C).disk = TreeOf(F, D)
  BY StateFields DEF Reached
<1>6. Fine(a, C) => IsTree(TreeOf(F, D))
  BY <1>1, FineMakesATree
<1> HIDE DEF F, D
<1>7. ExtractAssets(a).verdict = IF Acceptable(a) THEN "ok" ELSE "invalid"
  BY <1>2, <1>4, <1>5
<1> QED
  BY <1>2, <1>3, <1>4, <1>5, <1>6, <1>7

\* Every archive, then every lint in what it makes.
LEMMA EveryWorkspace == ArchivesMakeTrees
<1> SUFFICES ASSUME NEW a \in Archives
             PROVE  LET end == ExtractAssets(a)
                        t == CopyAssets(end.disk) IN
                    /\ end.verdict = IF Acceptable(a) THEN "ok" ELSE "invalid"
                    /\ end.verdict = "ok" =>
                         /\ t = Tree(a)
                         /\ \A f \in Filenames(a) :
                              /\ CheckFilename(f) <=>
                                   Range(f) \subseteq Proper \ {"back"} /\ f[1] \notin {"-a", "zinc"}
                              /\ CanWriteCode(t, f) <=>
                                   (f \in DOMAIN t => f \in end.files) /\ Parents(f) \cap end.files = {}
                              /\ CanWriteCode(t, f) =>
                                   WriteCode(t, f) = [p \in DOMAIN t \cup Parents(f) \cup {f} |->
                                                         IF p = f THEN "code"
                                                         ELSE IF p \in DOMAIN t THEN t[p] ELSE "dir"]
  BY DEF ArchivesMakeTrees
<1> DEFINE end == ExtractAssets(a)
           t == CopyAssets(end.disk)
<1>1. a \in Seq(AnyEntry) /\ \A f \in Filenames(a) : f \in Paths /\ f # <<>>
  BY WorkspaceInputs
<1>2. end.verdict = IF Acceptable(a) THEN "ok" ELSE "invalid"
  BY <1>1, OneWorkspace
<1>3. ASSUME end.verdict = "ok" PROVE \E F, D : end.files = F /\ t = TreeOf(F, D) /\ t = Tree(a)
  <2>1. Acceptable(a)
    BY <1>2, <1>3
  <2> HIDE DEF end
  <2>2. PICK F, D : /\ end.files = F /\ end.disk = TreeOf(F, D)
                    /\ Tree(a) = TreeOf(F, D) /\ IsTree(TreeOf(F, D))
    BY <1>1, <2>1, OneWorkspace DEF end
  <2>3. CopyAssets(TreeOf(F, D)) = TreeOf(F, D)
    BY <2>2, CopiesAreWhole
  <2> QED
    BY <2>2, <2>3
<1>4. \A f \in Filenames(a) : CheckFilename(f) <=>
                                 Range(f) \subseteq Proper \ {"back"} /\ f[1] \notin {"-a", "zinc"}
  BY <1>1, NamesAreChecked
<1> HIDE DEF end, t
<1>5. ASSUME end.verdict = "ok", NEW f
      PROVE  /\ CanWriteCode(t, f) <=>
                  (f \in DOMAIN t => f \in end.files) /\ Parents(f) \cap end.files = {}
             /\ CanWriteCode(t, f) =>
                  WriteCode(t, f) = [p \in DOMAIN t \cup Parents(f) \cup {f} |->
                                        IF p = f THEN "code"
                                        ELSE IF p \in DOMAIN t THEN t[p] ELSE "dir"]
  <2>1. PICK F, D : end.files = F /\ t = TreeOf(F, D)
    BY <1>3, <1>5
  <2>2. /\ CanWriteCode(t, f) <=> (f \in DOMAIN t => f \in F) /\ Parents(f) \cap F = {}
        /\ WriteCode(t, f) = Coded(t, f)
    BY <2>1, CodeIsWritten
  <2> QED
    BY <2>1, <2>2 DEF Coded
<1>6. end.verdict = "ok" => t = Tree(a)
  BY <1>3
<1> QED
  BY <1>2, <1>4, <1>5, <1>6 DEF end, t
==============================================================================
