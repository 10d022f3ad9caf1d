----------------------------- MODULE DataflowProofs -----------------------------
(***************************************************************************)
(* Proofs about HW3: for every number of registers and opcodes, latency    *)
(* file and length of program, what is analysed is what the files say, and *)
(* the dependences found in one pass are the last writers of the sources.  *)
(***************************************************************************)
EXTENDS DflowMain, FiniteSetTheorems, WellFoundedInduction, TLAPS

LEMMA MaxIs ==
  ASSUME NEW S \in SUBSET Int, NEW x \in S, \A y \in S : x >= y
  PROVE  Max(S) = x
<1>1. Max(S) \in S /\ \A y \in S : Max(S) >= y
  BY DEF Max
<1>2. Max(S) \in Int /\ x \in Int /\ Max(S) >= x /\ x >= Max(S)
  BY <1>1
<1> QED
  BY <1>2

LEMMA InductiveSet ==
  ASSUME NEW T, 0 \in T, \A n \in Nat : n \in T => n + 1 \in T
  PROVE  Nat \subseteq T
<1> DEFINE Missing == Nat \ T
<1>1. SUFFICES ASSUME Missing # {} PROVE FALSE
  OBVIOUS
<1>2. PICK x \in Missing : \A y \in Missing : ~(<<y, x>> \in OpToRel(<, Nat))
  <2>1. Missing \subseteq Nat
    OBVIOUS
  <2> HIDE DEF Missing
  <2>2. QED BY <1>1, <2>1, NatLessThanWellFounded, WFMin
<1>3. x \in Nat /\ x # 0 /\ x - 1 \in Nat
  OBVIOUS
<1>4. <<x - 1, x>> \in OpToRel(<, Nat)
  BY <1>3 DEF OpToRel
<1>5. x - 1 \in T
  BY <1>2, <1>3, <1>4
<1>6. x - 1 + 1 \in T
  BY <1>3, <1>5
<1>7. QED BY <1>3, <1>6

-----------------------------------------------------------------------------
(* The sum of the weights of a finite set, in whatever order they are      *)
(* added.                                                                  *)

Any(s) == CHOOSE x \in s : TRUE

Small(S, k) == {s \in SUBSET S : Cardinality(s) <= k}

Sums(f, w, S, k) ==
  f = [s \in Small(S, k) |-> IF s = {} THEN 0 ELSE w[Any(s)] + f[s \ {Any(s)}]]

LEMMA Smaller ==
  ASSUME NEW S, IsFiniteSet(S), NEW k \in Nat, NEW s \in Small(S, k + 1), NEW x \in s
  PROVE  s \ {x} \in Small(S, k)
<1>1. IsFiniteSet(s) /\ Cardinality(s) \in Nat /\ Cardinality(s) <= k + 1
  BY FS_Subset, FS_CardinalityType DEF Small
<1>2. Cardinality(s \ {x}) = Cardinality(s) - 1
  BY <1>1, FS_RemoveElement
<1> QED
  BY <1>1, <1>2 DEF Small

LEMMA SumsAt ==
  ASSUME NEW f, NEW w, NEW S, NEW k, Sums(f, w, S, k), NEW s \in Small(S, k)
  PROVE  f[s] = IF s = {} THEN 0 ELSE w[Any(s)] + f[s \ {Any(s)}]
BY DEF Sums

LEMMA AnyIn ==
  ASSUME NEW s, s # {}
  PROVE  Any(s) \in s
BY DEF Any

LEMMA SumsExist ==
  ASSUME NEW w, NEW S, IsFiniteSet(S), NEW k \in Nat
  PROVE  \E f : Sums(f, w, S, k)
<1> DEFINE T == {n \in Nat : \E f : Sums(f, w, S, n)}
<1>1. 0 \in T
  <2> DEFINE f == [s \in Small(S, 0) |-> 0]
  <2>1. \A s \in Small(S, 0) : s = {}
    BY FS_Subset, FS_EmptySet, FS_CardinalityType DEF Small
  <2>2. [s \in Small(S, 0) |-> IF s = {} THEN 0 ELSE w[Any(s)] + f[s \ {Any(s)}]]
          = [s \in Small(S, 0) |-> 0]
    BY <2>1, Zenon
  <2>3. Sums(f, w, S, 0)
    BY <2>2 DEF Sums
  <2> QED
    BY <2>3
<1>2. ASSUME NEW n \in Nat, n \in T PROVE n + 1 \in T
  <2>1. PICK f : Sums(f, w, S, n)
    BY <1>2
  <2> DEFINE next(s) == IF s = {} THEN 0 ELSE w[Any(s)] + f[s \ {Any(s)}]
             g == [s \in Small(S, n + 1) |-> next(s)]
  <2>2. ASSUME NEW s \in Small(S, n) PROVE g[s] = f[s]
    <3>1. s \in Small(S, n + 1)
      BY FS_Subset, FS_CardinalityType DEF Small
    <3> QED
      BY <3>1, <2>1, SumsAt
  <2>3. ASSUME NEW s \in Small(S, n + 1)
        PROVE  next(s) = IF s = {} THEN 0 ELSE w[Any(s)] + g[s \ {Any(s)}]
    <3>1. CASE s = {}
      BY <3>1
    <3>2. CASE s # {}
      <4>1. s \ {Any(s)} \in Small(S, n)
        BY <3>2, AnyIn, Smaller
      <4>2. g[s \ {Any(s)}] = f[s \ {Any(s)}]
        BY <4>1, <2>2
      <4> HIDE DEF g
      <4> QED
        BY <3>2, <4>2
    <3> QED
      BY <3>1, <3>2
  <2>4. g = [s \in Small(S, n + 1) |->
               IF s = {} THEN 0 ELSE w[Any(s)] + g[s \ {Any(s)}]]
    <3> DEFINE again(s) == IF s = {} THEN 0 ELSE w[Any(s)] + g[s \ {Any(s)}]
    <3>1. \A s \in Small(S, n + 1) : next(s) = again(s)
      BY <2>3
    <3> HIDE DEF next, again
    <3>2. g = [s \in Small(S, n + 1) |-> again(s)]
      BY <3>1
    <3> QED
      BY <3>2 DEF again
  <2>5. Sums(g, w, S, n + 1)
    BY <2>4 DEF Sums
  <2> QED
    BY <2>5
<1>3. Nat \subseteq T
  <2> HIDE DEF T
  <2> QED
    BY <1>1, <1>2, InductiveSet
<1> QED
  BY <1>3

LEMMA SumsOrder ==
  ASSUME NEW S, IsFiniteSet(S), NEW w, \A x \in S : w[x] \in Nat,
         NEW n \in Nat, NEW f, Sums(f, w, S, n),
         NEW s \in Small(S, n)
  PROVE  f[s] \in Nat /\ \A x \in s : f[s] = w[x] + f[s \ {x}]
<1> DEFINE P(t) == f[t] \in Nat /\ \A x \in t : f[t] = w[x] + f[t \ {x}]
           T == {k \in Nat : k <= n => \A t \in Small(S, k) : P(t)}
<1>1. 0 \in T
  <2>1. ASSUME NEW t \in Small(S, 0) PROVE t = {} /\ t \in Small(S, n)
    BY FS_Subset, FS_EmptySet, FS_CardinalityType DEF Small
  <2>2. ASSUME NEW t \in Small(S, 0) PROVE P(t)
    <3>1. f[t] = 0
      BY <2>1, SumsAt
    <3> QED
      BY <3>1, <2>1
  <2> QED
    BY <2>2
<1>2. ASSUME NEW k \in Nat, k \in T PROVE k + 1 \in T
  <2>1. SUFFICES ASSUME k + 1 <= n, NEW t \in Small(S, k + 1) PROVE P(t)
    OBVIOUS
  <2>2. \A u \in Small(S, k) : P(u)
    BY <1>2, <2>1
  <2>3. t \in Small(S, n) /\ t \subseteq S
    <3>1. IsFiniteSet(t) /\ Cardinality(t) \in Nat /\ Cardinality(t) <= k + 1
      BY FS_Subset, FS_CardinalityType DEF Small
    <3> QED
      BY <3>1, <2>1 DEF Small
  <2>4. CASE t = {}
    <3>1. f[t] = 0
      BY <2>3, <2>4, SumsAt
    <3> QED
      BY <3>1, <2>4
  <2>5. CASE t # {}
    <3>1. PICK c \in t : f[t] = w[c] + f[t \ {c}]
      BY <2>3, <2>5, SumsAt, AnyIn
    <3>2. \A x \in t : /\ w[x] \in Nat /\ t \ {x} \in Small(S, k) /\ P(t \ {x})
                      /\ f[t \ {x}] \in Nat
      <4>1. ASSUME NEW x \in t PROVE t \ {x} \in Small(S, k)
        BY Smaller
      <4>2. \A x \in t : P(t \ {x})
        <5> HIDE DEF P
        <5> QED
          BY <4>1, <2>2
      <4> QED
        BY <4>1, <4>2, <2>3
    <3>3. f[t] \in Nat
      BY <3>1, <3>2
    <3>4. ASSUME NEW x \in t, x # c PROVE f[t] = w[x] + f[t \ {x}]
      <4>1. (t \ {c}) \ {x} = (t \ {x}) \ {c}
        OBVIOUS
      <4>2. f[t \ {c}] = w[x] + f[(t \ {c}) \ {x}]
        BY <3>2, <3>4
      <4>3. f[t \ {x}] = w[c] + f[(t \ {c}) \ {x}]
        BY <3>2, <3>4, <4>1
      <4>4. (t \ {c}) \ {x} \in Small(S, k)
        <5>1. t \ {c} \in Small(S, k)
          BY <3>2
        <5>2. IsFiniteSet(t \ {c}) /\ (t \ {c}) \ {x} \in SUBSET (t \ {c})
          BY <5>1, FS_Subset DEF Small
        <5>3. /\ Cardinality((t \ {c}) \ {x}) <= Cardinality(t \ {c})
              /\ Cardinality((t \ {c}) \ {x}) \in Nat /\ Cardinality(t \ {c}) \in Nat
          BY <5>2, FS_Subset, FS_CardinalityType
        <5> QED
          BY <5>1, <5>3 DEF Small
      <4>5. f[(t \ {c}) \ {x}] \in Nat
        BY <4>4, <2>2
      <4> QED
        <5>1. w[c] \in Nat /\ w[x] \in Nat
          BY <2>3
        <5> QED
          BY <5>1, <3>1, <4>2, <4>3, <4>5
    <3> QED
      BY <3>1, <3>3, <3>4
  <2> QED
    BY <2>4, <2>5
<1>3. Nat \subseteq T
  <2> HIDE DEF T
  <2> QED
    BY <1>1, <1>2, InductiveSet
<1> QED
  BY <1>3

LEMMA SumsAgree ==
  ASSUME NEW S, IsFiniteSet(S), NEW w, NEW n \in Nat, NEW f, Sums(f, w, S, n),
         NEW R, NEW m \in Nat, NEW g, Sums(g, w, R, m),
         R \subseteq S, NEW s \in Small(R, m), m <= n
  PROVE  f[s] = g[s]
<1>0. ASSUME NEW k \in Nat, NEW t \in Small(R, k), k <= m
      PROVE  t \in Small(R, m) /\ t \in Small(S, n)
  <2>1. IsFiniteSet(t) /\ Cardinality(t) \in Nat /\ Cardinality(t) <= k
    BY FS_Subset, FS_CardinalityType DEF Small
  <2> QED
    BY <1>0, <2>1 DEF Small
<1> DEFINE T == {k \in Nat : k <= m => \A t \in Small(R, k) : f[t] = g[t]}
<1>1. 0 \in T
  <2>1. ASSUME NEW t \in Small(R, 0) PROVE f[t] = g[t]
    <3>1. t = {}
      BY FS_Subset, FS_EmptySet, FS_CardinalityType DEF Small
    <3>2. t \in Small(R, m) /\ t \in Small(S, n)
      BY <1>0
    <3>3. f[t] = 0 /\ g[t] = 0
      BY <3>1, <3>2, SumsAt
    <3> QED
      BY <3>3
  <2> QED
    BY <2>1
<1>2. ASSUME NEW k \in Nat, k \in T PROVE k + 1 \in T
  <2>1. SUFFICES ASSUME k + 1 <= m, NEW t \in Small(R, k + 1) PROVE f[t] = g[t]
    OBVIOUS
  <2>2. \A u \in Small(R, k) : f[u] = g[u]
    BY <1>2, <2>1
  <2>3. t \in Small(R, m) /\ t \in Small(S, n)
    BY <1>0, <2>1
  <2>4. /\ f[t] = IF t = {} THEN 0 ELSE w[Any(t)] + f[t \ {Any(t)}]
        /\ g[t] = IF t = {} THEN 0 ELSE w[Any(t)] + g[t \ {Any(t)}]
    BY <2>3, SumsAt
  <2>5. ASSUME t # {} PROVE f[t \ {Any(t)}] = g[t \ {Any(t)}]
    <3>1. IsFiniteSet(R)
      BY FS_Subset
    <3> QED
      BY <2>5, <3>1, AnyIn, Smaller, <2>2
  <2> QED
    BY <2>4, <2>5
<1>3. Nat \subseteq T
  <2> HIDE DEF T
  <2> QED
    BY <1>1, <1>2, InductiveSet
<1> QED
  BY <1>3

(* The sum over the whole of S.                                            *)
Totals(f, w, S) == IsFiniteSet(S) /\ Sums(f, w, S, Cardinality(S))

LEMMA WholeIsSmall ==
  ASSUME NEW S, IsFiniteSet(S)
  PROVE  S \in Small(S, Cardinality(S)) /\ Cardinality(S) \in Nat
BY FS_CardinalityType DEF Small

LEMMA TotalOrder ==
  ASSUME NEW S, NEW w, \A x \in S : w[x] \in Nat, NEW f, Totals(f, w, S)
  PROVE  /\ f[S] \in Nat /\ (S = {} => f[S] = 0)
         /\ \A x \in S : f[S \ {x}] \in Nat /\ f[S] = w[x] + f[S \ {x}]
<1>1. IsFiniteSet(S) /\ Sums(f, w, S, Cardinality(S))
  BY DEF Totals
<1>2. PICK n \in Nat : n = Cardinality(S)
  BY <1>1, WholeIsSmall
<1>3. S \in Small(S, n) /\ Sums(f, w, S, n)
  BY <1>1, <1>2, WholeIsSmall
<1>4. f[S] \in Nat /\ \A x \in S : f[S] = w[x] + f[S \ {x}]
  BY <1>1, <1>3, SumsOrder
<1>5. S = {} => f[S] = 0
  BY <1>3, SumsAt
<1>6. ASSUME NEW x \in S PROVE f[S \ {x}] \in Nat
  <2>1. Cardinality(S \ {x}) = n - 1
    BY <1>1, <1>2, FS_RemoveElement
  <2>2. S \ {x} \in Small(S, n)
    BY <2>1 DEF Small
  <2> QED
    BY <1>1, <1>3, <2>2, SumsOrder
<1> QED
  BY <1>4, <1>5, <1>6

LEMMA TotalAgree ==
  ASSUME NEW S, NEW w, NEW f, Totals(f, w, S),
         NEW R \in SUBSET S, NEW g, Totals(g, w, R)
  PROVE  f[R] = g[R]
<1>1. /\ IsFiniteSet(S) /\ Sums(f, w, S, Cardinality(S))
      /\ IsFiniteSet(R) /\ Sums(g, w, R, Cardinality(R))
  BY DEF Totals
<1>2. PICK n \in Nat, m \in Nat : n = Cardinality(S) /\ m = Cardinality(R) /\ m <= n
  BY <1>1, WholeIsSmall, FS_Subset
<1>3. R \in Small(R, m) /\ Sums(f, w, S, n) /\ Sums(g, w, R, m)
  BY <1>1, <1>2, WholeIsSmall
<1> QED
  BY <1>1, <1>2, <1>3, SumsAgree

Weighted(w, S) == \A x \in S : w[x] \in Nat
Without(R, S, x) == x \in S /\ R = S \ {x}
AddsUp(f, S, w, x, g, R) == f[S] = w[x] + g[R]

LEMMA TotalRemove ==
  ASSUME NEW S, NEW w, Weighted(w, S), NEW f, Totals(f, w, S),
         NEW R, NEW x, Without(R, S, x), NEW g, Totals(g, w, R)
  PROVE  AddsUp(f, S, w, x, g, R)
<1>1. x \in S /\ R = S \ {x} /\ \A y \in S : w[y] \in Nat
  BY DEF Weighted, Without
<1>2. f[S] = w[x] + f[R]
  BY <1>1, TotalOrder
<1>3. f[R] = g[R]
  BY <1>1, TotalAgree
<1> QED
  BY <1>2, <1>3 DEF AddsUp

Latency(m) == opsLatency[insts[m].inst.opcode]

LEMMA DurationIs ==
  ASSUME NEW S \in SUBSET (0 .. i - 1), IsFiniteSet(S)
  PROVE  \E f : /\ Totals(f, [m \in 0 .. i - 1 |-> Latency(m)], S)
                /\ Duration(S) = f[S]
<1> DEFINE w == [m \in 0 .. i - 1 |-> Latency(m)]
           body(g) == [s \in SUBSET S |->
                         IF s = {} THEN 0
                         ELSE opsLatency[insts[Any(s)].inst.opcode] + g[s \ {Any(s)}]]
           f == CHOOSE g : g = body(g)
<1>1. Duration(S) = f[S]
  BY DEF Duration, MapThenSumSet, MapThenFoldSet, Any
<1>2. Cardinality(S) \in Nat
  BY FS_CardinalityType
<1>3. Small(S, Cardinality(S)) = SUBSET S
  BY FS_Subset DEF Small
<1>4. ASSUME NEW g PROVE Sums(g, w, S, Cardinality(S)) <=> g = body(g)
  <2>1. \A s \in SUBSET S : s # {} => w[Any(s)] = opsLatency[insts[Any(s)].inst.opcode]
    BY AnyIn DEF Latency
  <2> HIDE DEF w
  <2>2. [s \in SUBSET S |-> IF s = {} THEN 0 ELSE w[Any(s)] + g[s \ {Any(s)}]] = body(g)
    BY <2>1
  <2> QED
    BY <2>2, <1>3 DEF Sums
<1>5. \E g : Sums(g, w, S, Cardinality(S))
  BY <1>2, SumsExist
<1> HIDE DEF w, body
<1>6. f = body(f)
  BY <1>4, <1>5
<1> HIDE DEF f
<1>7. Sums(f, w, S, Cardinality(S))
  BY <1>4, <1>6
<1> QED
  BY <1>1, <1>7 DEF w, Totals

-----------------------------------------------------------------------------
(* Chains of instructions, and how they grow.                              *)

LEMMA MinIs ==
  ASSUME NEW S \in SUBSET Int, NEW x \in S, \A y \in S : x <= y
  PROVE  Min(S) = x
<1>1. Min(S) \in S /\ \A y \in S : Min(S) <= y
  BY DEF Min
<1>2. Min(S) \in Int /\ x \in Int /\ Min(S) <= x /\ x <= Min(S)
  BY <1>1
<1> QED
  BY <1>2

LEMMA HasMin ==
  ASSUME NEW S \in SUBSET Nat, S # {}
  PROVE  \E x \in S : \A y \in S : x <= y
<1>1. PICK x \in S : \A y \in S : ~(<<y, x>> \in OpToRel(<, Nat))
  BY NatLessThanWellFounded, WFMin
<1>2. ASSUME NEW y \in S PROVE x <= y
  <2>1. x \in Nat /\ y \in Nat
    OBVIOUS
  <2>2. y < x => <<y, x>> \in OpToRel(<, Nat)
    BY <2>1 DEF OpToRel
  <2>3. ~(y < x)
    BY <1>1, <2>2, Zenon
  <2> QED
    BY <2>1, <2>3
<1> QED
  BY <1>2

LEMMA HasMax ==
  ASSUME NEW n \in Nat, NEW S \in SUBSET (0 .. n), S # {}
  PROVE  \E x \in S : \A y \in S : x >= y
<1> DEFINE Below == {n - x : x \in S}
<1>1. PICK b \in Below : \A c \in Below : b <= c
  <2>1. Below \in SUBSET Nat
    OBVIOUS
  <2>2. Below # {}
    <3>1. PICK x \in S : TRUE
      OBVIOUS
    <3>2. n - x \in Below
      BY <3>1
    <3> QED
      BY <3>2
  <2> HIDE DEF Below
  <2> QED
    BY <2>1, <2>2, HasMin
<1>2. PICK x \in S : b = n - x
  OBVIOUS
<1>3. ASSUME NEW y \in S PROVE x >= y
  <2>1. n - y \in Below
    OBVIOUS
  <2>2. n - x <= n - y
    BY <1>1, <1>2, <2>1
  <2> QED
    BY <2>2
<1> QED
  BY <1>3

LEMMA ChainIs ==
  ASSUME NEW n \in Nat, NEW S
  PROVE  S \in Chains(n) <=>
           /\ S \in SUBSET (0 .. n) /\ n \in S
           /\ \A m \in S \ {n} : Reads(Min({k \in S : k > m}), m)
BY DEF Chains

LEMMA ChainOne ==
  ASSUME NEW n \in Nat
  PROVE  {n} \in Chains(n)
BY ChainIs

LEMMA ChainLonger ==
  ASSUME NEW n \in Nat, NEW m \in 0 .. n - 1, Reads(n, m), NEW C \in Chains(m)
  PROVE  C \cup {n} \in Chains(n) /\ n \notin C
<1>1. /\ C \in SUBSET (0 .. m) /\ m \in C
      /\ \A k \in C \ {m} : Reads(Min({j \in C : j > k}), k)
  BY ChainIs
<1>2. n \notin C /\ C \cup {n} \in SUBSET (0 .. n) /\ m \in Int /\ C \in SUBSET Int
  BY <1>1
<1>3. ASSUME NEW k \in C PROVE Reads(Min({j \in C \cup {n} : j > k}), k)
  <2>1. CASE k = m
    <3>1. {j \in C \cup {n} : j > k} = {n}
      <4>1. n > m /\ \A j \in C : ~(j > m)
        BY <1>1, <1>2
      <4> QED
        BY <2>1, <4>1
    <3>2. Min({n}) = n
      BY MinIs
    <3> QED
      BY <2>1, <3>1, <3>2
  <2>2. CASE k # m
    <3> DEFINE later == {j \in C : j > k}
               longer == {j \in C \cup {n} : j > k}
    <3>1. m \in later /\ later \in SUBSET Nat /\ \A j \in later : j < n
      <4>1. k \in 0 .. m /\ k < m
        BY <1>1, <1>2, <2>2
      <4>2. \A j \in C : j \in Nat /\ j < n
        BY <1>1, <1>2
      <4> QED
        BY <1>1, <4>1, <4>2
    <3>2. PICK x \in later : \A j \in later : x <= j
      <4> HIDE DEF later
      <4> QED
        BY <3>1, HasMin
    <3>3. x \in Int /\ x \in longer /\ longer \in SUBSET Int /\ \A j \in longer : x <= j
      BY <1>1, <3>1, <3>2
    <3>4. Min(later) = x /\ Min(longer) = x
      <4>1. later \in SUBSET Int
        BY <3>1
      <4> HIDE DEF later, longer
      <4> QED
        BY <4>1, <3>2, <3>3, MinIs
    <3>5. Reads(Min(later), k)
      BY <1>1, <2>2
    <3> QED
      BY <3>4, <3>5
  <2> QED
    BY <2>1, <2>2
<1> QED
  BY <1>2, <1>3, ChainIs

LEMMA ChainShorter ==
  ASSUME NEW n \in Nat, NEW S \in Chains(n), S # {n}
  PROVE  \E m \in 0 .. n - 1 : Reads(n, m) /\ S \ {n} \in Chains(m)
<1>1. /\ S \in SUBSET (0 .. n) /\ n \in S
      /\ \A m \in S \ {n} : Reads(Min({k \in S : k > m}), m)
  BY ChainIs
<1>2. PICK m \in S \ {n} : \A y \in S \ {n} : m >= y
  <2>1. S \ {n} \in SUBSET (0 .. n) /\ S \ {n} # {}
    BY <1>1
  <2> QED
    BY <2>1, HasMax
<1>3. m \in 0 .. n - 1 /\ S \ {n} \in SUBSET (0 .. m)
  BY <1>1, <1>2
<1>4. Reads(n, m)
  <2>1. {k \in S : k > m} = {n}
    <3>1. n > m /\ \A k \in S \ {n} : ~(k > m)
      BY <1>1, <1>3
    <3> QED
      BY <1>1, <3>1
  <2>2. Min({n}) = n
    BY MinIs
  <2>3. Reads(Min({k \in S : k > m}), m)
    BY <1>1
  <2> QED
    BY <2>1, <2>2, <2>3
<1>5. ASSUME NEW k \in (S \ {n}) \ {m}
      PROVE  Reads(Min({j \in S \ {n} : j > k}), k)
  <2> DEFINE shorter == {j \in S \ {n} : j > k}
             later == {j \in S : j > k}
  <2>1. m \in shorter /\ shorter \in SUBSET Nat /\ \A j \in shorter : j < n
    <3>1. k \in 0 .. m /\ m \in Int /\ k < m
      BY <1>3
    <3>2. \A j \in S \ {n} : j \in Nat /\ j < n
      BY <1>3
    <3> QED
      BY <1>2, <3>1, <3>2
  <2>2. PICK x \in shorter : \A j \in shorter : x <= j
    <3> HIDE DEF shorter
    <3> QED
      BY <2>1, HasMin
  <2>3. x \in later /\ later \in SUBSET Int /\ \A j \in later : x <= j
    BY <1>1, <2>1, <2>2
  <2>4. Min(shorter) = x /\ Min(later) = x
    <3>1. shorter \in SUBSET Int
      BY <2>1
    <3> HIDE DEF shorter, later
    <3> QED
      BY <3>1, <2>2, <2>3, MinIs
  <2>5. Reads(Min(later), k)
    BY <1>1
  <2> QED
    BY <2>4, <2>5
<1>6. S \ {n} \in Chains(m)
  <2>1. m \in Nat
    BY <1>3
  <2> QED
    BY <1>2, <1>3, <1>5, <2>1, ChainIs
<1> QED
  BY <1>3, <1>4, <1>6

-----------------------------------------------------------------------------
(* How long chains take.                                                   *)

LEMMA LatencyType ==
  ASSUME TypeOK, NEW m \in 0 .. i - 1
  PROVE  Latency(m) \in Nat /\ insts[m].depth \in Nat
BY DEF TypeOK, Latency, InstInfo

LEMMA DurationOf ==
  ASSUME TypeOK, NEW S \in SUBSET (0 .. i - 1)
  PROVE  /\ Duration(S) \in Nat
         /\ S = {} => Duration(S) = 0
         /\ \A x \in S : Duration(S) = Latency(x) + Duration(S \ {x})
<1>0. PICK w : w = [m \in 0 .. i - 1 |-> Latency(m)]
  OBVIOUS
<1>1. IsFiniteSet(S)
  <2>1. IsFiniteSet(0 .. i - 1)
    BY FS_Interval DEF TypeOK
  <2> QED
    BY <2>1, FS_Subset
<1>2. PICK f : Totals(f, w, S) /\ Duration(S) = f[S]
  BY <1>0, <1>1, DurationIs
<1>3. \A x \in S : w[x] = Latency(x) /\ w[x] \in Nat
  BY <1>0, LatencyType
<1>4. \A x \in S : w[x] \in Nat
  BY <1>3
<1>5. f[S] \in Nat /\ (S = {} => f[S] = 0)
  BY <1>2, <1>4, TotalOrder
<1>6. ASSUME NEW x \in S PROVE Duration(S) = Latency(x) + Duration(S \ {x})
  <2>1. PICK R : R = S \ {x}
    OBVIOUS
  <2>2. R \in SUBSET (0 .. i - 1) /\ IsFiniteSet(R)
    BY <1>1, <2>1, FS_Subset
  <2>3. PICK g : Totals(g, w, R) /\ Duration(R) = g[R]
    BY <1>0, <2>2, DurationIs
  <2>4. Weighted(w, S) /\ Without(R, S, x)
    BY <1>4, <2>1 DEF Weighted, Without
  <2>5. AddsUp(f, S, w, x, g, R)
    BY <1>2, <2>3, <2>4, TotalRemove
  <2> QED
    BY <1>2, <1>3, <2>1, <2>3, <2>5 DEF AddsUp
<1> QED
  BY <1>2, <1>5, <1>6

LEMMA ReadsDeps ==
  ASSUME TypeOK, DepsAreLastWriters, NEW n \in 0 .. i - 1, NEW m \in Nat
  PROVE  Reads(n, m) <=> m \in {insts[n].src1Dep, insts[n].src2Dep}
BY DEF DepsAreLastWriters, getInstDeps, Reads

(* The chains of an instruction, seen from the depth of the instruction.   *)
Deepest(n) ==
  /\ \A S \in Chains(n) : Duration(S \ {n}) <= insts[n].depth
  /\ \E S \in Chains(n) : Duration(S \ {n}) = insts[n].depth

LEMMA ChainTime ==
  ASSUME TypeOK, NEW m \in 0 .. i - 1, NEW C \in Chains(m)
  PROVE  /\ C \in SUBSET (0 .. i - 1) /\ Duration(C \ {m}) \in Nat
         /\ Duration(C) = Latency(m) + Duration(C \ {m})
<1>1. C \in SUBSET (0 .. m) /\ m \in C /\ i \in Int
  BY ChainIs DEF TypeOK
<1>2. C \in SUBSET (0 .. i - 1) /\ C \ {m} \in SUBSET (0 .. i - 1)
  BY <1>1
<1> QED
  BY <1>1, <1>2, DurationOf

LEMMA DeepestStep ==
  ASSUME TypeOK, DepsAreLastWriters, DepthsFollow, NEW n \in 0 .. i - 1,
         \A m \in 0 .. n - 1 : Deepest(m)
  PROVE  Deepest(n)
<1> DEFINE deps == {insts[n].src1Dep, insts[n].src2Dep}
<1>1. deps \subseteq {Entry} \cup 0 .. n - 1 /\ i \in Int
  BY DEF TypeOK
<1>2. ASSUME NEW d \in deps, d # Entry
      PROVE  /\ d \in 0 .. n - 1 /\ d \in 0 .. i - 1 /\ d \in Nat
             /\ Reads(n, d)
             /\ Ready(d) = insts[d].depth + Latency(d)
  <2>1. d \in 0 .. n - 1 /\ d \in 0 .. i - 1 /\ d \in Nat
    BY <1>1, <1>2
  <2> QED
    BY <1>2, <2>1, ReadsDeps DEF Ready, Latency
<1>3. \A d \in deps : Ready(d) \in Nat
  <2>1. Ready(Entry) \in Nat
    BY DEF Ready
  <2> QED
    BY <1>2, <2>1, LatencyType
<1>4. /\ \E d \in deps : insts[n].depth = Ready(d)
      /\ \A d \in deps : Ready(d) <= insts[n].depth
  <2>1. insts[n].depth = Larger(Ready(insts[n].src1Dep), Ready(insts[n].src2Dep))
    BY DEF DepthsFollow
  <2> QED
    BY <1>3, <2>1 DEF Larger
<1>5. insts[n].depth \in Nat
  BY LatencyType
<1>6. Duration({}) = 0
  BY DurationOf
<1>7. ASSUME NEW S \in Chains(n) PROVE Duration(S \ {n}) <= insts[n].depth
  <2>1. CASE S = {n}
    <3>1. S \ {n} = {}
      BY <2>1
    <3>2. Duration(S \ {n}) = 0
      BY <1>6, <3>1, Zenon
    <3> QED
      BY <1>5, <3>2
  <2>2. CASE S # {n}
    <3>1. PICK m \in 0 .. n - 1 : Reads(n, m) /\ S \ {n} \in Chains(m)
      <4>1. n \in Nat
        OBVIOUS
      <4> QED
        BY <2>2, <4>1, ChainShorter
    <3>2. m \in Nat /\ m # Entry /\ m \in 0 .. i - 1
      BY <1>1 DEF Entry
    <3>3. m \in deps
      BY <3>1, <3>2, ReadsDeps
    <3>4. Ready(m) = insts[m].depth + Latency(m) /\ Ready(m) <= insts[n].depth
      BY <1>2, <1>4, <3>2, <3>3
    <3>5. /\ Duration(S \ {n}) = Latency(m) + Duration((S \ {n}) \ {m})
          /\ Duration((S \ {n}) \ {m}) \in Nat
      BY <3>1, <3>2, ChainTime
    <3>6. Duration((S \ {n}) \ {m}) <= insts[m].depth
      BY <3>1 DEF Deepest
    <3>7. Latency(m) \in Nat /\ insts[m].depth \in Nat
      BY <3>2, LatencyType
    <3> QED
      BY <1>5, <3>4, <3>5, <3>6, <3>7
  <2> QED
    BY <2>1, <2>2
<1>8. \E S \in Chains(n) : Duration(S \ {n}) = insts[n].depth
  <2>1. PICK d \in deps : insts[n].depth = Ready(d)
    BY <1>4
  <2>2. CASE d = Entry
    <3>1. insts[n].depth = 0
      BY <2>1, <2>2 DEF Ready
    <3>2. {n} \in Chains(n) /\ {n} \ {n} = {}
      BY ChainOne
    <3> QED
      BY <1>6, <3>1, <3>2
  <2>3. CASE d # Entry
    <3>1. /\ d \in 0 .. n - 1 /\ d \in 0 .. i - 1 /\ d \in Nat
          /\ Reads(n, d) /\ Ready(d) = insts[d].depth + Latency(d)
      BY <1>2, <2>3
    <3>2. PICK C \in Chains(d) : Duration(C \ {d}) = insts[d].depth
      BY <3>1 DEF Deepest
    <3>3. Duration(C) = Latency(d) + insts[d].depth
      BY <3>1, <3>2, ChainTime
    <3>4. C \cup {n} \in Chains(n) /\ (C \cup {n}) \ {n} = C
      BY <3>1, ChainLonger
    <3>5. Latency(d) \in Nat /\ insts[d].depth \in Nat
      BY <3>1, LatencyType
    <3>6. Duration((C \cup {n}) \ {n}) = insts[n].depth
      <4>1. Duration((C \cup {n}) \ {n}) = Duration(C)
        BY <3>4, Zenon
      <4> QED
        BY <2>1, <3>1, <3>3, <3>5, <4>1
    <3> QED
      BY <3>4, <3>6
  <2> QED
    BY <2>2, <2>3
<1> QED
  BY <1>7, <1>8 DEF Deepest

LEMMA AllDeepest ==
  ASSUME TypeOK, DepsAreLastWriters, DepthsFollow
  PROVE  \A n \in 0 .. i - 1 : Deepest(n)
<1> DEFINE T == {k \in Nat : \A n \in 0 .. i - 1 : n < k => Deepest(n)}
<1>0. i \in Nat
  BY DEF TypeOK
<1>1. 0 \in T
  OBVIOUS
<1>2. ASSUME NEW k \in Nat, k \in T PROVE k + 1 \in T
  <2>1. SUFFICES ASSUME NEW n \in 0 .. i - 1, n < k + 1 PROVE Deepest(n)
    OBVIOUS
  <2>2. \A m \in 0 .. n - 1 : Deepest(m)
    BY <1>0, <1>2, <2>1
  <2> QED
    BY <2>2, DeepestStep
<1>3. Nat \subseteq T
  <2> HIDE DEF T
  <2> QED
    BY <1>1, <1>2, InductiveSet
<1>4. i \in T
  BY <1>0, <1>3
<1> QED
  BY <1>4

LEMMA DepthsAreLongest ==
  ASSUME TypeOK, DepsAreLastWriters, DepthsFollow
  PROVE  DepthIsLongestChain
<1> SUFFICES ASSUME NEW n \in 0 .. i - 1
             PROVE  insts[n].depth = Max({Duration(S \ {n}) : S \in Chains(n)})
  BY DEF DepthIsLongestChain, getInstDepth
<1> DEFINE times == {Duration(S \ {n}) : S \in Chains(n)}
<1>1. /\ \A S \in Chains(n) : Duration(S \ {n}) <= insts[n].depth
      /\ \E S \in Chains(n) : Duration(S \ {n}) = insts[n].depth
  BY AllDeepest DEF Deepest
<1>2. times \in SUBSET Int
  <2>1. \A S \in Chains(n) : Duration(S \ {n}) \in Nat
    BY ChainTime
  <2>2. ASSUME NEW t \in times PROVE t \in Int
    <3>1. PICK S \in Chains(n) : t = Duration(S \ {n})
      OBVIOUS
    <3>2. Duration(S \ {n}) \in Nat
      BY <2>1
    <3> QED
      BY <3>1, <3>2
  <2> QED
    BY <2>2
<1>3. insts[n].depth \in times /\ \A t \in times : insts[n].depth >= t
  BY <1>1, <1>2, LatencyType
<1> HIDE DEF times
<1>4. Max(times) = insts[n].depth
  BY <1>2, <1>3, MaxIs
<1> QED
  BY <1>4 DEF times

LEMMA ProgIsLongest ==
  ASSUME TypeOK, DepsAreLastWriters, DepthsFollow, i > 0
  PROVE  progDepth = Max({Duration(S) : S \in UNION {Chains(n) : n \in 0 .. i - 1}})
<1> DEFINE all == UNION {Chains(n) : n \in 0 .. i - 1}
           times == {Duration(S) : S \in all}
<1>0. i \in Nat
  BY DEF TypeOK
<1>1. ASSUME NEW n \in 0 .. i - 1, NEW S \in Chains(n)
      PROVE  /\ Duration(S) = Latency(n) + Duration(S \ {n})
             /\ Duration(S \ {n}) \in Nat /\ Latency(n) \in Nat /\ insts[n].depth \in Nat
             /\ Ready(n) = insts[n].depth + Latency(n)
             /\ Duration(S \ {n}) <= insts[n].depth
             /\ Ready(n) <= progDepth
  <2>1. n # Entry
    BY DEF Entry
  <2>2. Ready(n) = insts[n].depth + Latency(n)
    BY <2>1 DEF Ready, Latency
  <2>3. Duration(S \ {n}) <= insts[n].depth
    BY AllDeepest DEF Deepest
  <2> QED
    BY <2>2, <2>3, ChainTime, LatencyType DEF DepthsFollow
<1>2. progDepth \in Nat
  BY DEF TypeOK
<1>3. ASSUME NEW S \in all PROVE Duration(S) \in Nat /\ Duration(S) <= progDepth
  <2>1. PICK n \in 0 .. i - 1 : S \in Chains(n)
    OBVIOUS
  <2>2. /\ Duration(S) = Latency(n) + Duration(S \ {n})
        /\ Duration(S \ {n}) \in Nat /\ Latency(n) \in Nat /\ insts[n].depth \in Nat
        /\ Ready(n) = insts[n].depth + Latency(n)
        /\ Duration(S \ {n}) <= insts[n].depth
        /\ Ready(n) <= progDepth
    BY <1>1, <2>1
  <2> QED
    BY <1>2, <2>2
<1>4. \E S \in all : Duration(S) = progDepth
  <2>1. PICK n \in 0 .. i - 1 : Ready(n) = progDepth
    BY <1>0 DEF DepthsFollow
  <2>2. PICK S \in Chains(n) : Duration(S \ {n}) = insts[n].depth
    BY AllDeepest DEF Deepest
  <2>3. Duration(S) = progDepth
    BY <1>1, <2>1, <2>2
  <2> QED
    BY <2>2, <2>3
<1> HIDE DEF all
<1>5. times \in SUBSET Int /\ progDepth \in times /\ \A t \in times : progDepth >= t
  BY <1>2, <1>3, <1>4
<1> HIDE DEF times
<1>6. Max(times) = progDepth
  BY <1>5, MaxIs
<1> QED
  BY <1>6 DEF times, all

-----------------------------------------------------------------------------
LEMMA OpcodesCounted == Cardinality(Opcodes) \in Nat /\ Opcodes \subseteq Nat
<1>1. Cardinality(Opcodes) \in Nat
  BY FS_CardinalityType, MainAssumption
<1> QED
  BY <1>1, MainAssumption

LEMMA InitInv == MainInit => MainInv
<1> SUFFICES ASSUME MainInit PROVE MainInv
  OBVIOUS
<1> USE DEF MainInit, InitAnalysis
<1>1. TypeOK
  BY SizesAssumption DEF TypeOK, InstInfo
<1>2. DriverOK
  <2>1. opcodeFile \in Seq(Nat \cup {NotANumber})
    BY MainAssumption
  <2> QED
    BY <2>1, SizesAssumption DEF DriverOK
<1>3. LatenciesSoFar
  BY OpcodesCounted, MainAssumption DEF LatenciesSoFar
<1>4. InputsArrive
  BY DEF InputsArrive, ProgramFitsBuffer, LatenciesAsInFile
<1>5. WritesRecorded
  BY DEF WritesRecorded, Dependence, LastWriter, Writers
<1>6. DepsAreLastWriters
  BY DEF DepsAreLastWriters
<1> QED
  BY <1>1, <1>2, <1>3, <1>4, <1>5, <1>6 DEF MainInv

-----------------------------------------------------------------------------
(* One turn of the loop of analyzeProg.                                    *)

LEMMA AnalyzeStep ==
  ASSUME TypeOK, WritesRecorded, DepsAreLastWriters,
         NEW inst \in InstInfo, Analyze(inst)
  PROVE  TypeOK' /\ WritesRecorded' /\ DepsAreLastWriters'
<1> DEFINE latency == opsLatency[inst.opcode]
           depth   == Larger(SrcLatency(inst.src1Idx), SrcLatency(inst.src2Idx))
           data    == [inst |-> inst, instLatency |-> latency, depth |-> depth,
                       src1Dep |-> Dependence(inst.src1Idx),
                       src2Dep |-> Dependence(inst.src2Idx)]
<1>1. /\ i \in Nat /\ i < numOfInsts /\ i' = i + 1
      /\ UNCHANGED <<opsLatency, numOfInsts, phase>>
      /\ insts' = [n \in 0 .. i |-> IF n = i THEN data ELSE insts[n]]
      /\ RecordWrite(inst.dstIdx, depth, latency)
      /\ ExtendProg(depth, latency)
  BY DEF Analyze, TypeOK
<1>2. /\ inst.opcode \in Opcodes /\ inst.dstIdx \in Regs
      /\ inst.src1Idx \in Regs /\ inst.src2Idx \in Regs
  BY DEF InstInfo
<1>3. /\ Dependence(inst.src1Idx) \in {Entry} \cup 0 .. i - 1
      /\ Dependence(inst.src2Idx) \in {Entry} \cup 0 .. i - 1
  BY <1>2 DEF WritesRecorded
<1>4. latency \in Nat /\ depth \in Nat
  <2>1. \A r \in Regs : SrcLatency(r) \in Nat
    BY DEF TypeOK, SrcLatency
  <2> QED
    BY <1>2, <2>1 DEF TypeOK, Larger
<1> HIDE DEF latency, depth
<1>5. insts'[i] = data /\ \A n \in 0 .. i - 1 : insts'[n] = insts[n]
  BY <1>1
<1>6. TypeOK'
  <2>1. data \in [inst : InstInfo, instLatency : Nat, depth : Nat,
                  src1Dep : Int, src2Dep : Int]
    BY <1>1, <1>3, <1>4 DEF Entry
  <2> HIDE DEF data
  <2>2. insts' \in [0 .. i' - 1 -> [inst : InstInfo, instLatency : Nat, depth : Nat,
                                    src1Dep : Int, src2Dep : Int]]
    BY <1>1, <2>1 DEF TypeOK
  <2>3. \A n \in 0 .. i' - 1 :
          {insts'[n].src1Dep, insts'[n].src2Dep} \subseteq {Entry} \cup 0 .. n - 1
    <3> SUFFICES ASSUME NEW n \in 0 .. i
                 PROVE  {insts'[n].src1Dep, insts'[n].src2Dep}
                          \subseteq {Entry} \cup 0 .. n - 1
      BY <1>1
    <3>1. CASE n = i
      BY <3>1, <1>3, <1>5 DEF data
    <3>2. CASE n # i
      BY <3>2, <1>1, <1>5 DEF TypeOK
    <3> QED
      BY <3>1, <3>2
  <2>4. lastWrite' \in [Regs -> [valid : BOOLEAN, idx : Nat, instLatency : Nat,
                                 depth : Nat]]
    BY <1>1, <1>4 DEF TypeOK, RecordWrite
  <2>5. progDepth' \in Nat
    BY <1>1, <1>4 DEF TypeOK, ExtendProg, Larger
  <2> QED
    BY <1>1, <2>2, <2>3, <2>4, <2>5 DEF TypeOK
<1>7. \A r \in Regs, n \in 0 .. i : Writers(r, n)' = Writers(r, n)
  BY <1>1, <1>5 DEF Writers
<1>8. \A r \in Regs, n \in 0 .. i : LastWriter(r, n)' = LastWriter(r, n)
  BY <1>7 DEF LastWriter
<1>9. WritesRecorded'
  <2> SUFFICES ASSUME NEW r \in Regs
               PROVE  /\ Dependence(r)' = LastWriter(r, i)'
                      /\ Dependence(r)' \in {Entry} \cup 0 .. i' - 1
    BY DEF WritesRecorded
  <2>1. CASE r = inst.dstIdx
    <3>1. Dependence(r)' = i
      BY <1>1, <2>1 DEF Dependence, RecordWrite, TypeOK
    <3>2. i \in Writers(r, i)' /\ \A m \in Writers(r, i)' : i >= m
      BY <1>1, <1>5, <2>1 DEF Writers
    <3>3. Writers(r, i)' \in SUBSET Int
      BY <1>1 DEF Writers
    <3>4. Max(Writers(r, i)') = i
      BY <3>2, <3>3, MaxIs
    <3>5. LastWriter(r, i)' = i
      BY <3>2, <3>4 DEF LastWriter
    <3> QED
      BY <1>1, <3>1, <3>5
  <2>2. CASE r # inst.dstIdx
    <3>1. Dependence(r)' = Dependence(r)
      BY <1>1, <2>2 DEF Dependence, RecordWrite, TypeOK
    <3>2. Writers(r, i)' = Writers(r, i)
      BY <1>1, <1>5, <2>2 DEF Writers
    <3>3. LastWriter(r, i)' = LastWriter(r, i)
      BY <3>2 DEF LastWriter
    <3> QED
      BY <1>1, <3>1, <3>3 DEF WritesRecorded
  <2> QED
    BY <2>1, <2>2
<1>10. DepsAreLastWriters'
  <2> SUFFICES ASSUME NEW n \in 0 .. i
               PROVE  << insts'[n].src1Dep, insts'[n].src2Dep >> =
                        << LastWriter(insts[n].inst.src1Idx, n)',
                           LastWriter(insts[n].inst.src2Idx, n)' >>
    BY <1>1 DEF DepsAreLastWriters, getInstDeps
  <2> DEFINE laterOf(r) == {k \in 0 .. n - 1 : insts'[k].inst.dstIdx = r}
             Last(S) == IF S = {} THEN Entry ELSE Max(S)
  <2>1. /\ LastWriter(insts[n].inst.src1Idx, n)' = Last(laterOf(insts'[n].inst.src1Idx))
        /\ LastWriter(insts[n].inst.src2Idx, n)' = Last(laterOf(insts'[n].inst.src2Idx))
    BY DEF LastWriter, Writers
  <2>2. \A r \in Regs : Last(laterOf(r)) = LastWriter(r, n)
    BY <1>8 DEF LastWriter, Writers
  <2> HIDE DEF Last, laterOf
  <2>3. CASE n = i
    <3>1. /\ insts'[n].inst = inst
          /\ insts'[n].src1Dep = Dependence(inst.src1Idx)
          /\ insts'[n].src2Dep = Dependence(inst.src2Idx)
      BY <2>3, <1>5
    <3>2. /\ LastWriter(insts[n].inst.src1Idx, n)' = LastWriter(inst.src1Idx, i)
          /\ LastWriter(insts[n].inst.src2Idx, n)' = LastWriter(inst.src2Idx, i)
      BY <2>1, <2>3, <2>2, <3>1, <1>2
    <3> QED
      BY <3>1, <3>2, <1>2 DEF WritesRecorded
  <2>4. CASE n # i
    <3>1. n \in 0 .. i - 1 /\ insts'[n] = insts[n]
      BY <2>4, <1>1, <1>5
    <3>2. insts[n].inst.src1Idx \in Regs /\ insts[n].inst.src2Idx \in Regs
      BY <3>1 DEF TypeOK, InstInfo
    <3> QED
      BY <2>1, <2>2, <3>1, <3>2 DEF DepsAreLastWriters, getInstDeps
  <2> QED
    BY <2>3, <2>4
<1> QED
  BY <1>6, <1>9, <1>10

-----------------------------------------------------------------------------
(* Steps that leave the analysis alone keep what is known about it.        *)

LEMMA AnalysisKept ==
  ASSUME TypeOK, WritesRecorded, DepsAreLastWriters,
         opsLatency' \in [Opcodes -> Nat],
         numOfInsts' \in i .. MaxInsts,
         phase' \in {"analyze", "query", "freed"},
         UNCHANGED <<i, insts, lastWrite, progDepth>>
  PROVE  TypeOK' /\ WritesRecorded' /\ DepsAreLastWriters'
<1>1. TypeOK'
  BY DEF TypeOK
<1>2. WritesRecorded'
  BY DEF WritesRecorded, Dependence, LastWriter, Writers
<1>3. DepsAreLastWriters'
  BY DEF DepsAreLastWriters, getInstDeps, LastWriter, Writers
<1> QED
  BY <1>1, <1>2, <1>3

LEMMA StepInv == MainInv /\ [MainNext]_mainVars => MainInv'
<1> SUFFICES ASSUME MainInv, [MainNext]_mainVars PROVE MainInv'
  OBVIOUS
<1> USE DEF MainInv
<1>0. /\ opcodeFile \in Seq(Nat \cup {NotANumber})
      /\ Len(opcodeFile) \in Nat
      /\ Quota \in Nat \ {0}
  BY MainAssumption DEF DriverOK
<1>1. ASSUME ReadLatency PROVE MainInv'
  <2> USE <1>1
  <2>1. DriverOK'
    BY <1>0 DEF ReadLatency, DriverOK, exit, analysisVars
  <2>2. CASE numOps \in Opcodes /\ opcodeFile[numOps + 1] # NotANumber
    <3>1. /\ stage = "latencies" /\ UNCHANGED stage
          /\ numOps \in Nat /\ numOps' = numOps + 1
          /\ numOps < Cardinality(Opcodes)
          /\ UNCHANGED <<numOfInsts, i, insts, lastWrite, progDepth, phase,
                         opcodeFile, lineNum, maxInsts>>
          /\ opcodeFile[numOps + 1] \in Nat
          /\ opsLatency' = [opsLatency EXCEPT ![numOps] = opcodeFile[numOps + 1]]
      BY <2>2, <1>0, MainAssumption, OpcodesCounted
         DEF ReadLatency, DriverOK, analysisVars
    <3>2. TypeOK' /\ WritesRecorded' /\ DepsAreLastWriters'
      <4>1. opsLatency' \in [Opcodes -> Nat]
        BY <3>1 DEF TypeOK
      <4> QED
        BY <4>1, <3>1, AnalysisKept, SMTT(30) DEF TypeOK
    <3>3. LatenciesSoFar'
      <4> SUFFICES ASSUME NEW op \in Opcodes
                   PROVE  opsLatency'[op] =
                            IF op < numOps + 1 THEN opcodeFile[op + 1] ELSE 0
        BY <3>1, OpcodesCounted DEF LatenciesSoFar
      <4>1. op \in Nat
        BY OpcodesCounted
      <4> QED
        BY <4>1, <3>1 DEF LatenciesSoFar, TypeOK
    <3>4. InputsArrive'
      BY <3>1 DEF InputsArrive, ProgramFitsBuffer, LatenciesAsInFile
    <3> QED
      BY <2>1, <3>2, <3>3, <3>4
  <2>3. CASE ~(numOps \in Opcodes /\ opcodeFile[numOps + 1] # NotANumber)
    <3>1. /\ stage' = "exited"
          /\ UNCHANGED <<opsLatency, numOfInsts, i, insts, lastWrite, progDepth,
                         phase, lineNum, maxInsts>>
      BY <2>3 DEF ReadLatency, exit, analysisVars
    <3>2. TypeOK' /\ WritesRecorded' /\ DepsAreLastWriters'
      BY <3>1, AnalysisKept DEF TypeOK
    <3> QED
      BY <2>1, <3>1, <3>2 DEF LatenciesSoFar, InputsArrive, ProgramFitsBuffer,
                              LatenciesAsInFile
  <2> QED
    BY <2>2, <2>3
<1>2. ASSUME LatenciesRead PROVE MainInv'
  <2>1. /\ stage = "latencies" /\ numOps = Len(opcodeFile) /\ stage' = "program"
        /\ UNCHANGED <<opsLatency, numOfInsts, i, insts, lastWrite, progDepth, phase,
                       opcodeFile, numOps, lineNum, maxInsts, status>>
    BY <1>2 DEF LatenciesRead, vars, analysisVars, driverVars
  <2>2. TypeOK' /\ WritesRecorded' /\ DepsAreLastWriters'
    <3>1. /\ opsLatency' \in [Opcodes -> Nat] /\ numOfInsts' \in i .. MaxInsts
          /\ phase' \in {"analyze", "query", "freed"}
      BY <2>1, SizesAssumption DEF TypeOK
    <3> QED
      BY <2>1, <3>1, AnalysisKept
  <2> QED
    BY <2>1, <2>2 DEF DriverOK, LatenciesSoFar, InputsArrive, ProgramFitsBuffer,
                      LatenciesAsInFile
<1>3. ASSUME ReadInstruction \/ SkipLine \/ BadLine PROVE MainInv'
  <2>1. /\ stage = "program" /\ stage' \in {"program", "exited"}
        /\ maxInsts' = IF lineNum = maxInsts THEN maxInsts + Quota ELSE maxInsts
        /\ \/ lineNum < MaxInsts /\ lineNum' = lineNum + 1
           \/ lineNum' = lineNum
        /\ UNCHANGED <<opsLatency, numOfInsts, i, insts, lastWrite, progDepth, phase,
                       opcodeFile, numOps>>
    BY <1>3 DEF ReadInstruction, SkipLine, BadLine, exit, Grown, vars, analysisVars
  <2>2. TypeOK' /\ WritesRecorded' /\ DepsAreLastWriters'
    BY <2>1, AnalysisKept DEF TypeOK
  <2>3. DriverOK' /\ ProgramFitsBuffer'
    BY <2>1, <1>0, SizesAssumption
       DEF DriverOK, ProgramFitsBuffer, InputsArrive
  <2>4. LatenciesSoFar' /\ LatenciesAsInFile'
    BY <2>1 DEF LatenciesSoFar, LatenciesAsInFile, InputsArrive
  <2> QED
    BY <2>2, <2>3, <2>4 DEF InputsArrive
<1>4. ASSUME ProgramRead PROVE MainInv'
  <2>1. /\ stage = "program" /\ i = 0
        /\ numOfInsts' \in {0, lineNum} /\ stage' \in {"context", "exited"}
        /\ UNCHANGED <<opsLatency, i, insts, lastWrite, progDepth, phase,
                       opcodeFile, numOps, lineNum, maxInsts>>
    BY <1>4 DEF ProgramRead, DriverOK, exit, analysisVars, driverVars
  <2>2. numOfInsts' \in i .. MaxInsts
    BY <2>1, SizesAssumption DEF DriverOK
  <2>3. TypeOK' /\ WritesRecorded' /\ DepsAreLastWriters'
    BY <2>1, <2>2, AnalysisKept DEF TypeOK
  <2> QED
    BY <2>1, <2>3 DEF DriverOK, LatenciesSoFar, InputsArrive, ProgramFitsBuffer,
                      LatenciesAsInFile
<1>5. ASSUME Analysis PROVE MainInv'
  <2>1. /\ stage = "context"
        /\ UNCHANGED <<stage, opcodeFile, numOps, lineNum, maxInsts>>
    BY <1>5 DEF Analysis, driverVars
  <2>2. /\ UNCHANGED <<opsLatency, numOfInsts>>
        /\ TypeOK' /\ WritesRecorded' /\ DepsAreLastWriters'
    <3>1. ASSUME NEW inst \in InstInfo, Analyze(inst)
          PROVE  /\ UNCHANGED <<opsLatency, numOfInsts>>
                 /\ TypeOK' /\ WritesRecorded' /\ DepsAreLastWriters'
      BY <3>1, AnalyzeStep DEF Analyze
    <3>2. CASE Analyzed
      <4>1. /\ phase' = "query"
            /\ UNCHANGED <<opsLatency, numOfInsts, i, insts, lastWrite, progDepth>>
        BY <3>2 DEF Analyzed
      <4>2. opsLatency' \in [Opcodes -> Nat] /\ numOfInsts' \in i .. MaxInsts
        BY <4>1, SizesAssumption DEF TypeOK
      <4> QED
        BY <4>1, <4>2, AnalysisKept
    <3> QED
      BY <1>5, <3>1, <3>2 DEF Analysis
  <2> QED
    BY <2>1, <2>2 DEF DriverOK, LatenciesSoFar, InputsArrive, ProgramFitsBuffer,
                      LatenciesAsInFile
<1>6. ASSUME BadQuery \/ Finish PROVE MainInv'
  <2>1. /\ stage' = "exited" /\ phase' \in {"query", "freed"}
        /\ UNCHANGED <<opsLatency, numOfInsts, i, insts, lastWrite, progDepth,
                       opcodeFile, numOps, lineNum, maxInsts>>
    BY <1>6 DEF BadQuery, Finish, freeProgCtx, exit, vars, analysisVars, driverVars
  <2>2. TypeOK' /\ WritesRecorded' /\ DepsAreLastWriters'
    BY <2>1, AnalysisKept DEF TypeOK
  <2> QED
    BY <2>1, <2>2 DEF DriverOK, LatenciesSoFar, InputsArrive, ProgramFitsBuffer,
                      LatenciesAsInFile
<1>7. CASE Exited \/ UNCHANGED mainVars
  <2>1. UNCHANGED <<opsLatency, numOfInsts, i, insts, lastWrite, progDepth, phase,
                    stage, opcodeFile, numOps, lineNum, maxInsts>>
    BY <1>7 DEF Exited, mainVars, vars, analysisVars, driverVars
  <2>2. TypeOK' /\ WritesRecorded' /\ DepsAreLastWriters'
    <3>1. /\ opsLatency' \in [Opcodes -> Nat] /\ numOfInsts' \in i .. MaxInsts
          /\ phase' \in {"analyze", "query", "freed"}
      BY <2>1, SizesAssumption DEF TypeOK
    <3> QED
      BY <2>1, <3>1, AnalysisKept
  <2> QED
    BY <2>1, <2>2 DEF DriverOK, LatenciesSoFar, InputsArrive, ProgramFitsBuffer,
                      LatenciesAsInFile
<1> QED
  BY <1>1, <1>2, <1>3, <1>4, <1>5, <1>6, <1>7 DEF MainNext

-----------------------------------------------------------------------------
(* The depths, step by step.                                               *)

LEMMA DepthInit == MainInit => DepthInv
<1> SUFFICES ASSUME MainInit PROVE DepthInv
  OBVIOUS
<1> USE DEF MainInit, InitAnalysis
<1>1. DepthsFollow
  BY DEF DepthsFollow, SrcLatency, Dependence, Ready, Entry
<1>2. NeverEmpty
  BY DEF NeverEmpty
<1> QED
  BY <1>1, <1>2 DEF DepthInv

LEMMA AnalyzeDepth ==
  ASSUME TypeOK, WritesRecorded, DepthsFollow, NEW inst \in InstInfo, Analyze(inst)
  PROVE  DepthsFollow'
<1> DEFINE data == [inst |-> inst, instLatency |-> opsLatency[inst.opcode],
                    depth |-> Larger(SrcLatency(inst.src1Idx), SrcLatency(inst.src2Idx)),
                    src1Dep |-> Dependence(inst.src1Idx),
                    src2Dep |-> Dependence(inst.src2Idx)]
<1>1. PICK latency, depth :
        /\ latency = opsLatency[inst.opcode]
        /\ depth = Larger(SrcLatency(inst.src1Idx), SrcLatency(inst.src2Idx))
  OBVIOUS
<1>2. /\ i \in Nat /\ i < numOfInsts /\ i' = i + 1
      /\ opsLatency' = opsLatency
      /\ insts' = [n \in 0 .. i |-> IF n = i THEN data ELSE insts[n]]
      /\ RecordWrite(inst.dstIdx, depth, latency)
      /\ ExtendProg(depth, latency)
  BY <1>1 DEF Analyze, TypeOK
<1>3. /\ inst.opcode \in Opcodes /\ inst.dstIdx \in Regs
      /\ inst.src1Idx \in Regs /\ inst.src2Idx \in Regs
  BY DEF InstInfo
<1>4. latency \in Nat /\ depth \in Nat /\ progDepth \in Nat
  <2>1. \A r \in Regs : SrcLatency(r) \in Nat
    BY DEF TypeOK, SrcLatency
  <2> QED
    BY <1>1, <1>3, <2>1 DEF TypeOK, Larger
<1>5. /\ insts'[i].inst = inst /\ insts'[i].depth = depth
      /\ insts'[i].src1Dep = Dependence(inst.src1Idx)
      /\ insts'[i].src2Dep = Dependence(inst.src2Idx)
      /\ \A n \in 0 .. i - 1 : insts'[n] = insts[n]
  BY <1>1, <1>2
<1> DEFINE Known == {Entry} \cup 0 .. i - 1
           ReadyNow(d) == IF d = Entry THEN 0
                          ELSE insts'[d].depth + opsLatency'[insts'[d].inst.opcode]
<1>6. ReadyNow(i) = depth + latency
  BY <1>1, <1>2, <1>5 DEF Entry
<1>7. \A d \in Known : ReadyNow(d) = Ready(d)
  BY <1>2, <1>5 DEF Ready
<1>8. /\ \A r \in Regs : Dependence(r) \in Known
      /\ \A n \in 0 .. i - 1 : insts[n].src1Dep \in Known /\ insts[n].src2Dep \in Known
  BY <1>2 DEF WritesRecorded, TypeOK
<1>9. depth = Larger(Ready(Dependence(inst.src1Idx)), Ready(Dependence(inst.src2Idx)))
  BY <1>1, <1>3 DEF DepthsFollow
<1> HIDE DEF Known
<1>10. ASSUME NEW n \in 0 .. i
       PROVE  insts'[n].depth = Larger(ReadyNow(insts'[n].src1Dep),
                                       ReadyNow(insts'[n].src2Dep))
  <2> HIDE DEF ReadyNow
  <2>1. CASE n = i
    BY <1>3, <1>5, <1>7, <1>8, <1>9, <2>1
  <2>2. CASE n # i
    <3>1. n \in 0 .. i - 1 /\ insts'[n] = insts[n]
      BY <1>2, <1>5, <2>2
    <3>2. insts[n].depth = Larger(Ready(insts[n].src1Dep), Ready(insts[n].src2Dep))
      BY <3>1 DEF DepthsFollow
    <3> QED
      BY <1>7, <1>8, <3>1, <3>2
  <2> QED
    BY <2>1, <2>2
<1>11. ASSUME NEW r \in Regs
       PROVE  SrcLatency(r)' = ReadyNow(Dependence(r)')
  <2>1. CASE r = inst.dstIdx
    <3>1. SrcLatency(r)' = depth + latency /\ Dependence(r)' = i
      BY <1>2, <2>1 DEF SrcLatency, Dependence, RecordWrite, TypeOK
    <3> HIDE DEF ReadyNow
    <3> QED
      BY <1>6, <3>1
  <2>2. CASE r # inst.dstIdx
    <3>1. SrcLatency(r)' = SrcLatency(r) /\ Dependence(r)' = Dependence(r)
      BY <1>2, <2>2 DEF SrcLatency, Dependence, RecordWrite, TypeOK
    <3> HIDE DEF ReadyNow
    <3> QED
      BY <1>7, <1>8, <3>1 DEF DepthsFollow
  <2> QED
    BY <2>1, <2>2
<1>12. progDepth' = Larger(progDepth, ReadyNow(i))
  BY <1>2, <1>6 DEF ExtendProg
<1>13. \A n \in 0 .. i - 1 : ReadyNow(n) = Ready(n) /\ Ready(n) \in Nat
  <2>1. \A n \in 0 .. i - 1 : Ready(n) \in Nat
    BY LatencyType DEF Ready, Entry, Latency
  <2> QED
    BY <1>7, <2>1 DEF Known
<1>14. ReadyNow(i) \in Nat
  BY <1>4, <1>6
<1> HIDE DEF ReadyNow
<1>15. \A n \in 0 .. i : ReadyNow(n) <= progDepth'
  BY <1>2, <1>4, <1>12, <1>13, <1>14 DEF Larger, DepthsFollow
<1>16. \E n \in 0 .. i : ReadyNow(n) = progDepth'
  <2>1. CASE i = 0
    <3>1. progDepth = 0
      BY <2>1 DEF DepthsFollow
    <3> QED
      BY <1>12, <1>14, <2>1, <3>1 DEF Larger
  <2>2. CASE i > 0
    BY <1>2, <1>4, <1>12, <1>13, <1>14, <2>2 DEF Larger, DepthsFollow
  <2> QED
    BY <1>2, <2>1, <2>2
<1>17. /\ \A n \in 0 .. i :
            insts'[n].depth = Larger(Ready(insts[n].src1Dep)', Ready(insts[n].src2Dep)')
       /\ \A r \in Regs : SrcLatency(r)' = Ready(Dependence(r))'
       /\ \A n \in 0 .. i : Ready(n)' <= progDepth'
       /\ \E n \in 0 .. i : Ready(n)' = progDepth'
  BY <1>10, <1>11, <1>15, <1>16 DEF Ready, ReadyNow
<1> QED
  BY <1>2, <1>17 DEF DepthsFollow

LEMMA DepthKept ==
  ASSUME TypeOK, WritesRecorded, DepthsFollow,
         UNCHANGED <<i, insts, lastWrite, progDepth>>,
         i = 0 \/ opsLatency' = opsLatency
  PROVE  DepthsFollow'
<1>1. CASE opsLatency' = opsLatency
  BY <1>1 DEF DepthsFollow, SrcLatency, Dependence, Ready
<1>2. CASE i = 0
  <2>1. \A r \in Regs : Dependence(r) = Entry
    BY <1>2 DEF WritesRecorded
  <2>2. \A r \in Regs : SrcLatency(r)' = 0 /\ Dependence(r)' = Entry
    BY <2>1 DEF DepthsFollow, SrcLatency, Dependence, Ready
  <2> QED
    BY <1>2, <2>2 DEF DepthsFollow, Ready
<1> QED
  BY <1>1, <1>2

LEMMA DepthStep == MainInv /\ DepthInv /\ [MainNext]_mainVars => DepthInv'
<1> SUFFICES ASSUME MainInv, DepthInv, [MainNext]_mainVars PROVE DepthInv'
  OBVIOUS
<1> USE DEF MainInv, DepthInv
<1>1. CASE Analysis
  <2>1. stage = "context" /\ UNCHANGED stage
    BY <1>1 DEF Analysis
  <2>2. ASSUME NEW inst \in InstInfo, Analyze(inst) PROVE DepthInv'
    <3>1. DepthsFollow'
      BY <2>2, AnalyzeDepth
    <3>2. NeverEmpty'
      BY <2>1, <2>2 DEF Analyze, NeverEmpty
    <3> QED
      BY <3>1, <3>2
  <2>3. CASE Analyzed
    <3>1. DepthsFollow'
      BY <2>3, DepthKept DEF Analyzed
    <3>2. NeverEmpty'
      BY <2>1, <2>3 DEF Analyzed, NeverEmpty
    <3> QED
      BY <3>1, <3>2
  <2> QED
    BY <1>1, <2>2, <2>3 DEF Analysis
<1>2. CASE ~Analysis
  <2>1. /\ UNCHANGED <<i, insts, lastWrite, progDepth>>
        /\ i = 0 \/ opsLatency' = opsLatency
    BY <1>2 DEF MainNext, mainVars, vars, analysisVars, driverVars, DriverOK,
                ReadLatency, LatenciesRead, ReadInstruction, SkipLine, BadLine,
                ProgramRead, BadQuery, Finish, freeProgCtx, Exited
  <2>2. DepthsFollow'
    BY <2>1, DepthKept
  <2>3. CASE ProgramRead
    <3>1. /\ stage = "program" /\ phase' = phase
          /\ lineNum \in Nat
          /\ \/ stage' = "exited"
             \/ lineNum # 0 /\ numOfInsts' = lineNum
      BY <2>3 DEF ProgramRead, DriverOK, exit, analysisVars
    <3>2. NeverEmpty'
      BY <3>1 DEF NeverEmpty, DriverOK
    <3> QED
      BY <2>2, <3>2
  <2>4. CASE ~ProgramRead
    <3>1. /\ UNCHANGED numOfInsts /\ (stage' = stage \/ stage' # "context")
          /\ phase' = phase \/ (phase' = "freed" /\ phase = "query")
      BY <1>2, <2>4
         DEF MainNext, mainVars, vars, analysisVars, driverVars, exit,
             ReadLatency, LatenciesRead, ReadInstruction, SkipLine, BadLine,
             BadQuery, Finish, freeProgCtx, Exited
    <3>2. NeverEmpty'
      BY <2>1, <3>1 DEF NeverEmpty
    <3> QED
      BY <2>2, <3>2
  <2> QED
    BY <2>2, <2>3, <2>4
<1> QED
  BY <1>1, <1>2

-----------------------------------------------------------------------------
(* What the driver has read and what the analysis has computed so far.     *)
THEOREM DflowInvariance == MainSpec => []MainInv
BY InitInv, StepInv, PTL DEF MainSpec

(* The dependences and depths are numbers of instructions of the program   *)
(* before the one they belong to, of every program the driver reads.       *)
THEOREM DflowTypes == MainSpec => []TypeOK
<1>1. MainInv => TypeOK
  BY DEF MainInv
<1> QED
  BY <1>1, DflowInvariance, PTL

(* One record per register is enough to find, for every instruction, the   *)
(* last writers of both its sources (dflow_calc.cpp:87-107).               *)
THEOREM DflowDependences == MainSpec => []DepsAreLastWriters
<1>1. MainInv => DepsAreLastWriters
  BY DEF MainInv
<1> QED
  BY <1>1, DflowInvariance, PTL

(* The program stays inside its buffer and the latencies used are those of *)
(* the file, for every quota and every file (dflow_main.c:50-114).         *)
THEOREM DflowInputs == MainSpec => []InputsArrive
<1>1. MainInv => InputsArrive
  BY DEF MainInv
<1> QED
  BY <1>1, DflowInvariance, PTL

LEMMA DepthInvariance == MainSpec => []DepthInv
<1>1. MainInit => DepthInv
  BY DepthInit
<1>2. MainInv /\ DepthInv /\ [MainNext]_mainVars => DepthInv'
  BY DepthStep
<1> QED
  BY <1>1, <1>2, DflowInvariance, PTL DEF MainSpec

(* The depth found from one number per register is the duration of the     *)
(* longest chain of instructions it waits for, of every instruction of     *)
(* every program (dflow_calc.h:44).                                        *)
THEOREM DflowDepths == MainSpec => []DepthIsLongestChain
<1>1. MainInv /\ DepthInv => DepthIsLongestChain
  BY DepthsAreLongest DEF MainInv, DepthInv
<1> QED
  BY <1>1, DflowInvariance, DepthInvariance, PTL

(* The depth of the program is that of its longest chain, and there always *)
(* is one: an empty program is not analysed (dflow_calc.h:61).             *)
THEOREM DflowProgDepth == MainSpec => []ProgDepthIsLongest
<1>1. MainInv /\ DepthInv => ProgDepthIsLongest
  <2> SUFFICES ASSUME MainInv, DepthInv, phase = "query"
               PROVE  progDepth = Max({Duration(S) :
                                         S \in UNION {Chains(n) : n \in 0 .. i - 1}})
    BY DEF ProgDepthIsLongest, getProgDepth
  <2>1. i > 0
    BY DEF DepthInv, NeverEmpty
  <2> QED
    BY <2>1, ProgIsLongest DEF MainInv, DepthInv
<1> QED
  BY <1>1, DflowInvariance, DepthInvariance, PTL
=============================================================================
