------------------------- MODULE BranchPredictorProofs -------------------------
(***************************************************************************)
(* Proofs about the predictor, for every size of its buffer, histories and *)
(* tags, all kinds of predictor and traces of any length: what it finds in *)
(* its entries and tables is what the trace says.                          *)
(***************************************************************************)
EXTENDS BranchPredictor, FiniteSetTheorems, WellFoundedInduction, TLAPS

-----------------------------------------------------------------------------
(* Numbers.                                                                *)

(* Induction over the naturals, for a set instead of a predicate.          *)
LEMMA InductiveSet ==
  ASSUME NEW T, 0 \in T, \A n \in Nat : n \in T => n + 1 \in T
  PROVE  Nat \subseteq T
<1> DEFINE Missing == Nat \ T
<1>1. SUFFICES ASSUME Missing # {} PROVE FALSE
  OBVIOUS
<1>2. PICK x \in Missing : \A y \in Missing : ~(<<y, x>> \in OpToRel(<, Nat))
  <2>1. Missing \subseteq Nat
    OBVIOUS
  <2> HIDE DEF Missing
  <2>2. QED BY <1>1, <2>1, NatLessThanWellFounded, WFMin
<1>3. x \in Nat /\ x # 0 /\ x - 1 \in Nat
  OBVIOUS
<1>4. <<x - 1, x>> \in OpToRel(<, Nat)
  BY <1>3 DEF OpToRel
<1>5. x - 1 \in T
  BY <1>2, <1>3, <1>4
<1>6. x - 1 + 1 \in T
  BY <1>3, <1>5
<1>7. QED BY <1>3, <1>6

(* A power of two is the number of subsets, so it is positive.             *)
LEMMA PowerPositive ==
  ASSUME NEW n \in Nat
  PROVE  2^n \in Nat \ {0}
<1> DEFINE S == 1 .. n
<1>1. IsFiniteSet(S) /\ Cardinality(S) = n
  BY FS_Interval
<1>2. IsFiniteSet(SUBSET S) /\ Cardinality(SUBSET S) = 2^n
  BY <1>1, FS_SUBSET
<1>3. SUBSET S # {}
  OBVIOUS
<1>4. QED BY <1>2, <1>3, FS_CardinalityType, FS_EmptySet

LEMMA Remainder ==
  ASSUME NEW x \in Nat, NEW m \in Nat \ {0}
  PROVE  x % m \in 0 .. m - 1 /\ x \div m \in Nat
OBVIOUS

-----------------------------------------------------------------------------
(* The reference counter, unfolded.                                        *)

Counts(f, start, branches, S, n) ==
  f = [j \in 0 .. n |->
         IF j = 0 THEN start
         ELSE IF j \in S THEN Saturate(f[j - 1], branches[j].taken)
         ELSE f[j - 1]]

LEMMA CountsExtended ==
  ASSUME NEW start, NEW branches, NEW S, NEW n \in Nat,
         NEW f, Counts(f, start, branches, S, n)
  PROVE  \E g : Counts(g, start, branches, S, n + 1)
<1> DEFINE next == IF n + 1 \in S THEN Saturate(f[n], branches[n + 1].taken) ELSE f[n]
           g == [j \in 0 .. n + 1 |-> IF j = n + 1 THEN next ELSE f[j]]
<1>1. \A j \in 0 .. n : f[j] = IF j = 0 THEN start
                               ELSE IF j \in S THEN Saturate(f[j - 1], branches[j].taken)
                               ELSE f[j - 1]
  BY DEF Counts
<1>2. ASSUME NEW j \in 0 .. n + 1
      PROVE  g[j] = IF j = 0 THEN start
                    ELSE IF j \in S THEN Saturate(g[j - 1], branches[j].taken)
                    ELSE g[j - 1]
  <2>1. CASE j = n + 1
    <3>1. j # 0 /\ j - 1 = n /\ n \in 0 .. n + 1 /\ n # n + 1
      BY <2>1
    <3>2. g[j] = next /\ g[j - 1] = f[n]
      BY <2>1, <3>1
    <3>3. QED BY <2>1, <3>1, <3>2
  <2>2. CASE j = 0
    <3>1. 0 \in 0 .. n /\ 0 # n + 1
      OBVIOUS
    <3>2. g[j] = f[0] /\ f[0] = start
      BY <1>1, <2>2, <3>1
    <3>3. QED BY <2>2, <3>2
  <2>3. CASE j \in 1 .. n
    <3>1. j \in 0 .. n /\ j - 1 \in 0 .. n + 1 /\ j # n + 1 /\ j - 1 # n + 1 /\ j # 0
      BY <2>3
    <3>2. g[j] = f[j] /\ g[j - 1] = f[j - 1]
      BY <3>1
    <3> HIDE DEF g
    <3>3. QED BY <1>1, <3>1, <3>2
  <2>4. QED BY <2>1, <2>2, <2>3
<1>3. Counts(g, start, branches, S, n + 1)
  <2>1. g = [j \in 0 .. n + 1 |-> g[j]]
    OBVIOUS
  <2> HIDE DEF g
  <2>2. QED BY <1>2, <2>1, Zenon DEF Counts
<1>4. QED BY <1>3

LEMMA CountsExist ==
  ASSUME NEW start, NEW branches, NEW S, NEW n \in Nat
  PROVE  \E f : Counts(f, start, branches, S, n)
<1> DEFINE T == {m \in Nat : \E f : Counts(f, start, branches, S, m)}
<1>1. 0 \in T
  <2> DEFINE f == [j \in 0 .. 0 |-> start]
  <2>1. Counts(f, start, branches, S, 0)
    <3>1. \A j \in 0 .. 0 : j = 0
      OBVIOUS
    <3>2. [j \in 0 .. 0 |-> IF j = 0 THEN start
                            ELSE IF j \in S THEN Saturate(f[j - 1], branches[j].taken)
                            ELSE f[j - 1]] = [j \in 0 .. 0 |-> start]
      BY <3>1, Zenon
    <3>3. QED BY <3>2 DEF Counts
  <2>2. QED BY <2>1
<1>2. \A m \in Nat : m \in T => m + 1 \in T
  BY CountsExtended
<1>3. Nat \subseteq T
  <2> HIDE DEF T
  <2>1. QED BY <1>1, <1>2, InductiveSet
<1>4. QED BY <1>3

(* Two counters agree as far as the branches counted do.                   *)
LEMMA CountsAgree ==
  ASSUME NEW start, NEW branches, NEW S, NEW m \in Nat, NEW f,
         Counts(f, start, branches, S, m),
         NEW others, NEW R, NEW n \in Nat, NEW g,
         Counts(g, start, others, R, n),
         NEW k \in Nat, k <= m, k <= n,
         \A j \in 1 .. k : (j \in S <=> j \in R) /\ branches[j].taken = others[j].taken
  PROVE  f[k] = g[k]
<1> DEFINE T == {j \in Nat : j <= k => f[j] = g[j]}
<1>0. /\ \A j \in 0 .. m : f[j] = IF j = 0 THEN start
                               ELSE IF j \in S THEN Saturate(f[j - 1], branches[j].taken)
                               ELSE f[j - 1]
      /\ \A j \in 0 .. n : g[j] = IF j = 0 THEN start
                               ELSE IF j \in R THEN Saturate(g[j - 1], others[j].taken)
                               ELSE g[j - 1]
  BY DEF Counts
<1>1. 0 \in T
  <2>1. f[0] = start /\ g[0] = start
    BY <1>0
  <2>2. QED BY <2>1
<1>2. ASSUME NEW j \in Nat, j \in T PROVE j + 1 \in T
  <2>1. SUFFICES ASSUME j + 1 <= k PROVE f[j + 1] = g[j + 1]
    OBVIOUS
  <2>2. f[j] = g[j]
    BY <1>2, <2>1
  <2>3. j + 1 \in 1 .. k /\ j + 1 \in 0 .. m /\ j + 1 \in 0 .. n /\ j + 1 # 0 /\ j + 1 - 1 = j
    BY <2>1
  <2>4. /\ f[j + 1] = IF j + 1 \in S THEN Saturate(f[j], branches[j + 1].taken) ELSE f[j]
        /\ g[j + 1] = IF j + 1 \in R THEN Saturate(g[j], others[j + 1].taken) ELSE g[j]
    BY <1>0, <2>3
  <2>5. QED BY <2>2, <2>3, <2>4
<1>3. Nat \subseteq T
  <2> HIDE DEF T
  <2>1. QED BY <1>1, <1>2, InductiveSet
<1>4. QED BY <1>3

LEMMA CountIs ==
  ASSUME NEW start, NEW branches, NEW S, NEW n \in Nat
  PROVE  \E f : /\ Counts(f, start, branches, S, n)
                /\ CountOutcomes(start, branches, S, n) = f[n]
<1> DEFINE f == CHOOSE f : Counts(f, start, branches, S, n)
<1>1. Counts(f, start, branches, S, n)
  BY CountsExist
<1>2. CountOutcomes(start, branches, S, n) = f[n]
  BY DEF CountOutcomes, Counts
<1>3. QED BY <1>1, <1>2

(* What the counter does with one branch more, and that it sees no more    *)
(* than the branches up to it.                                             *)
LEMMA CountNone ==
  ASSUME NEW start, NEW branches, NEW S, NEW n \in Nat, S \cap (1 .. n) = {}
  PROVE  CountOutcomes(start, branches, S, n) = start
<1>1. PICK f : Counts(f, start, branches, S, n) /\ CountOutcomes(start, branches, S, n) = f[n]
  BY CountIs
<1> DEFINE T == {j \in Nat : j <= n => f[j] = start}
<1>2. \A j \in 0 .. n : f[j] = IF j = 0 THEN start
                               ELSE IF j \in S THEN Saturate(f[j - 1], branches[j].taken)
                               ELSE f[j - 1]
  BY <1>1 DEF Counts
<1>3. 0 \in T
  BY <1>2
<1>4. ASSUME NEW j \in Nat, j \in T PROVE j + 1 \in T
  <2>1. SUFFICES ASSUME j + 1 <= n PROVE f[j + 1] = start
    OBVIOUS
  <2>2. j + 1 \in 0 .. n /\ j + 1 \notin S /\ j + 1 # 0 /\ j + 1 - 1 = j
    BY <2>1
  <2>3. f[j] = start
    BY <1>4, <2>1
  <2>4. QED BY <1>2, <2>2, <2>3
<1>5. Nat \subseteq T
  <2> HIDE DEF T
  <2>1. QED BY <1>3, <1>4, InductiveSet
<1>6. QED BY <1>1, <1>5

LEMMA CountSame ==
  ASSUME NEW start, NEW branches, NEW others, NEW S, NEW R, NEW n \in Nat,
         \A j \in 1 .. n : (j \in S <=> j \in R) /\ branches[j].taken = others[j].taken
  PROVE  CountOutcomes(start, branches, S, n) = CountOutcomes(start, others, R, n)
<1>1. PICK f : Counts(f, start, branches, S, n) /\ CountOutcomes(start, branches, S, n) = f[n]
  BY CountIs
<1>2. PICK g : Counts(g, start, others, R, n) /\ CountOutcomes(start, others, R, n) = g[n]
  BY CountIs
<1>3. f[n] = g[n]
  BY <1>1, <1>2, CountsAgree
<1>4. QED BY <1>1, <1>2, <1>3

LEMMA CountStep ==
  ASSUME NEW start, NEW branches, NEW S, NEW n \in Nat
  PROVE  CountOutcomes(start, branches, S, n + 1) =
           IF n + 1 \in S
           THEN Saturate(CountOutcomes(start, branches, S, n), branches[n + 1].taken)
           ELSE CountOutcomes(start, branches, S, n)
<1>1. PICK f : Counts(f, start, branches, S, n) /\ CountOutcomes(start, branches, S, n) = f[n]
  BY CountIs
<1>2. PICK g : /\ Counts(g, start, branches, S, n + 1)
               /\ CountOutcomes(start, branches, S, n + 1) = g[n + 1]
  BY CountIs
<1>3. f[n] = g[n]
  BY <1>1, <1>2, CountsAgree
<1>4. g[n + 1] = IF n + 1 \in S THEN Saturate(g[n], branches[n + 1].taken) ELSE g[n]
  <2>1. n + 1 \in 0 .. n + 1 /\ n + 1 # 0 /\ n + 1 - 1 = n
    OBVIOUS
  <2>2. QED BY <1>2, <2>1 DEF Counts
<1>5. QED BY <1>1, <1>2, <1>3, <1>4

LEMMA CountType ==
  ASSUME NEW start \in SNT .. ST, NEW branches, NEW S, NEW n \in Nat
  PROVE  CountOutcomes(start, branches, S, n) \in SNT .. ST
<1> DEFINE c(m) == CountOutcomes(start, branches, S, m)
           T == {m \in Nat : c(m) \in SNT .. ST}
<1>1. 0 \in T
  <2>1. S \cap (1 .. 0) = {}
    OBVIOUS
  <2>2. QED BY <2>1, CountNone
<1>2. ASSUME NEW m \in Nat, m \in T PROVE m + 1 \in T
  <2>1. c(m) \in SNT .. ST
    BY <1>2
  <2>2. c(m + 1) = IF m + 1 \in S THEN Saturate(c(m), branches[m + 1].taken) ELSE c(m)
    BY CountStep
  <2> HIDE DEF c
  <2>3. c(m + 1) \in SNT .. ST
    BY <2>1, <2>2 DEF Saturate, SNT, ST
  <2>4. QED BY <2>3
<1>3. Nat \subseteq T
  <2> HIDE DEF T
  <2>1. QED BY <1>1, <1>2, InductiveSet
<1>4. QED BY <1>3

-----------------------------------------------------------------------------
(* The reference history, for a given length and trace.                    *)

Hist(h, branches, S) ==
  [i \in 0 .. h - 1 |->
     \E j \in S : Cardinality({k \in S : k > j}) = h - 1 - i /\ branches[j].taken]

LEMMA HistSame ==
  ASSUME NEW h, NEW branches, NEW others, NEW S, \A j \in S : others[j] = branches[j]
  PROVE  Hist(h, others, S) = Hist(h, branches, S)
BY DEF Hist

LEMMA HistEmpty ==
  ASSUME NEW h, NEW branches
  PROVE  Hist(h, branches, {}) = [i \in 0 .. h - 1 |-> FALSE]
BY DEF Hist

(* Of a set of branches, how many are later than one of them.              *)
LEMMA Later ==
  ASSUME NEW n \in Nat, NEW S, S \subseteq 1 .. n, NEW j \in S
  PROVE  /\ IsFiniteSet({k \in S : k > j})
         /\ Cardinality({k \in S : k > j}) \in Nat
         /\ Cardinality({k \in S \cup {n + 1} : k > j}) = Cardinality({k \in S : k > j}) + 1
         /\ Cardinality({k \in S \cup {n + 1} : k > n + 1}) = 0
<1>1. IsFiniteSet(1 .. n)
  BY FS_Interval
<1>2. IsFiniteSet({k \in S : k > j})
  BY <1>1, FS_Subset
<1>3. {k \in S \cup {n + 1} : k > j} = {k \in S : k > j} \cup {n + 1}
  OBVIOUS
<1>4. n + 1 \notin {k \in S : k > j}
  OBVIOUS
<1>5. {k \in S \cup {n + 1} : k > n + 1} = {}
  <2>1. \A k \in S \cup {n + 1} : ~(k > n + 1)
    OBVIOUS
  <2>2. QED BY <2>1, Zenon
<1>6. QED
  BY <1>2, <1>3, <1>4, <1>5, FS_AddElement, FS_CardinalityType, FS_EmptySet

Shift(h, hist, taken) ==
  [i \in 0 .. h - 1 |-> IF i + 1 \in 0 .. h - 1 THEN hist[i + 1] ELSE taken]

(* One trace goes on as another one does up to its branch n.               *)
Follows(h, n, S, branches, others) ==
  /\ h \in Nat \ {0} /\ n \in Nat /\ S \subseteq 1 .. n
  /\ \A j \in 1 .. n : others[j] = branches[j]
  /\ others[n + 1].taken \in BOOLEAN

(* One branch more shifts the history by one outcome.                      *)
LEMMA HistShift ==
  ASSUME NEW h, NEW n, NEW S, NEW branches, NEW others, Follows(h, n, S, branches, others)
  PROVE  Hist(h, others, S \cup {n + 1}) =
           Shift(h, Hist(h, branches, S), others[n + 1].taken)
<1> DEFINE later(R, j) == Cardinality({k \in R : k > j})
           R == S \cup {n + 1}
<1>0. /\ h \in Nat \ {0} /\ n \in Nat /\ S \subseteq 1 .. n
      /\ \A j \in 1 .. n : others[j] = branches[j]
      /\ others[n + 1].taken \in BOOLEAN
  BY DEF Follows
<1> USE <1>0
<1>1. /\ \A j \in S : later(S, j) \in Nat /\ later(R, j) = later(S, j) + 1
      /\ later(R, n + 1) = 0
  <2>1. \A j \in S : later(S, j) \in Nat /\ later(R, j) = later(S, j) + 1
    BY Later
  <2>2. later(R, n + 1) = 0
    <3>1. \A k \in R : ~(k > n + 1)
      OBVIOUS
    <3>2. {k \in R : k > n + 1} = {}
      BY <3>1, Zenon
    <3>3. QED BY <3>2, FS_EmptySet
  <2>3. QED BY <2>1, <2>2
<1>2. ASSUME NEW i \in 0 .. h - 1
      PROVE  (\E j \in R : later(R, j) = h - 1 - i /\ others[j].taken)
               = IF i + 1 \in 0 .. h - 1
                 THEN \E j \in S : later(S, j) = h - 1 - (i + 1) /\ branches[j].taken
                 ELSE others[n + 1].taken
  <2> HIDE DEF later
  <2>1. CASE i + 1 \in 0 .. h - 1
    <3>1. h - 1 - i > 0 /\ h - 1 - (i + 1) = h - 1 - i - 1 /\ h - 1 - i \in Nat
      BY <2>1
    <3>2. \A j \in S : later(R, j) = h - 1 - i <=> later(S, j) = h - 1 - (i + 1)
      BY <1>1, <3>1
    <3>3. later(R, n + 1) # h - 1 - i
      BY <1>1, <3>1
    <3>4. \A j \in S : others[j] = branches[j]
      OBVIOUS
    <3>5. QED BY <2>1, <3>2, <3>3, <3>4
  <2>2. CASE i + 1 \notin 0 .. h - 1
    <3>1. h - 1 - i = 0
      BY <2>2
    <3>2. \A j \in S : later(R, j) # 0
      <4>1. \A c \in Nat : c + 1 # 0
        OBVIOUS
      <4>2. QED BY <1>1, <4>1
    <3>3. QED BY <1>1, <2>2, <3>1, <3>2
  <2>3. QED BY <2>1, <2>2
<1>3. \A i \in 0 .. h - 1 : i + 1 \in 0 .. h - 1 =>
        Hist(h, branches, S)[i + 1]
          = \E j \in S : later(S, j) = h - 1 - (i + 1) /\ branches[j].taken
  BY DEF Hist
<1>4. Hist(h, others, R) =
        [i \in 0 .. h - 1 |-> \E j \in R : later(R, j) = h - 1 - i /\ others[j].taken]
  BY DEF Hist
<1>5. QED
  <2> HIDE DEF later
  <2>1. QED BY <1>2, <1>3, <1>4 DEF Shift

(* The last h branches are all in S, and have gone the same way.           *)
Steady(h, n, S, branches, taken) ==
  /\ h \in Nat \ {0} /\ n \in Nat /\ h <= n
  /\ S \subseteq 1 .. n /\ n - h + 1 .. n \subseteq S
  /\ taken \in BOOLEAN /\ \A j \in n - h + 1 .. n : branches[j].taken = taken

(* Then so says the history.                                               *)
LEMMA HistSteady ==
  ASSUME NEW h, NEW n, NEW S, NEW branches, NEW taken, Steady(h, n, S, branches, taken)
  PROVE  Hist(h, branches, S) = [i \in 0 .. h - 1 |-> taken]
<1> DEFINE later(j) == {k \in S : k > j}
<1>0. /\ h \in Nat \ {0} /\ n \in Nat /\ h <= n
      /\ S \subseteq 1 .. n /\ n - h + 1 .. n \subseteq S
      /\ taken \in BOOLEAN /\ \A j \in n - h + 1 .. n : branches[j].taken = taken
  BY DEF Steady
<1> USE <1>0
<1>1. ASSUME NEW i \in 0 .. h - 1
      PROVE  (\E j \in S : Cardinality(later(j)) = h - 1 - i /\ branches[j].taken) = taken
  <2>1. CASE taken
    <3> DEFINE j == n - (h - 1 - i)
    <3>1. j \in n - h + 1 .. n /\ j \in Int
      OBVIOUS
    <3>2. later(j) = j + 1 .. n
      <4>1. ASSUME NEW k \in S, k > j PROVE k \in j + 1 .. n
        <5>1. k \in 1 .. n
          OBVIOUS
        <5>2. QED BY <3>1, <4>1, <5>1
      <4>2. ASSUME NEW k \in j + 1 .. n PROVE k \in S /\ k > j
        <5>1. k \in n - h + 1 .. n
          BY <3>1
        <5>2. QED BY <3>1, <5>1
      <4> HIDE DEF j
      <4>3. QED BY <4>1, <4>2
    <3>3. Cardinality(later(j)) = h - 1 - i
      <4>1. Cardinality(j + 1 .. n) = IF j + 1 > n THEN 0 ELSE n - (j + 1) + 1
        <5>1. j + 1 \in Int /\ n \in Int
          BY <3>1
        <5> HIDE DEF j
        <5>2. QED BY <5>1, FS_Interval
      <4>2. (IF j + 1 > n THEN 0 ELSE n - (j + 1) + 1) = h - 1 - i
        OBVIOUS
      <4>3. QED BY <3>2, <4>1, <4>2
    <3>4. j \in S /\ branches[j].taken
      BY <2>1, <3>1
    <3>5. QED BY <2>1, <3>3, <3>4
  <2>2. CASE ~taken
    <3>1. ASSUME NEW j \in S, Cardinality(later(j)) = h - 1 - i, branches[j].taken
          PROVE  FALSE
      <4>1. j < n - h + 1
        BY <2>2, <3>1
      <4>2. n - h + 1 .. n \subseteq later(j)
        BY <4>1
      <4>3. IsFiniteSet(later(j))
        <5>1. IsFiniteSet(1 .. n)
          BY FS_Interval
        <5>2. later(j) \subseteq 1 .. n
          OBVIOUS
        <5>3. QED BY <5>1, <5>2, FS_Subset
      <4>4. Cardinality(n - h + 1 .. n) = h
        BY FS_Interval
      <4>5. Cardinality(n - h + 1 .. n) <= Cardinality(later(j))
        BY <4>2, <4>3, FS_Subset
      <4>6. QED BY <3>1, <4>4, <4>5
    <3>2. QED BY <2>2, <3>1
  <2>3. QED BY <2>1, <2>2
<1>2. QED BY <1>1 DEF Hist

-----------------------------------------------------------------------------
(* Places in the buffer and the tables.                                    *)

LEMMA PowersOfZeroAndOne == 2^0 = 1 /\ 2^1 = 2
OBVIOUS

LEMMA Configuration ==
  ASSUME TypeOK
  PROVE  /\ config \in Config
         /\ config.btbIndexSize \in Nat /\ config.historySize \in Nat \ {0}
         /\ config.tagSize \in Nat /\ config.fsmState \in SNT .. ST
         /\ config.isGlobalHist \in BOOLEAN /\ config.isGlobalTable \in BOOLEAN
<1>1. config \in Config
  BY ConfigsAssumption DEF TypeOK
<1>2. QED BY <1>1 DEF Config, SNT, ST

LEMMA Lines ==
  ASSUME NEW b \in Branches
  PROVE  b \in Branch /\ b.pc \in Nat /\ b.targetPc \in Nat /\ b.taken \in BOOLEAN
BY BranchesAssumption DEF Branch

LEMMA Places ==
  ASSUME TypeOK, NEW b \in Branches
  PROVE  pc2btbIndex(b.pc) \in Entries /\ pc2tag(b.pc) \in Nat
<1> DEFINE word == b.pc \div 4
           size == config.btbIndexSize
<1>1. size \in Nat /\ config.tagSize \in Nat /\ b.pc \in Nat
  BY Configuration, Lines
<1>2. word \in Nat
  BY <1>1
<1>3. LowBits(word, size) \in 0 .. 2^size - 1
  <2>1. CASE size = 0
    <3>1. word % 2 = 0
      BY <2>1, BranchesAssumption DEF TypeOK, InBtb
    <3>2. 2^1 = 2 /\ 2^0 = 1
      BY PowersOfZeroAndOne
    <3>3. LowBits(word, size) = word % 2^1
      BY <2>1 DEF LowBits
    <3> HIDE DEF word, size
    <3>4. QED BY <2>1, <3>1, <3>2, <3>3
  <2>2. CASE size # 0
    <3>1. LowBits(word, size) = word % 2^size
      BY <2>2 DEF LowBits
    <3>2. 2^size \in Nat \ {0}
      BY <1>1, PowerPositive
    <3> HIDE DEF word, size
    <3>3. QED BY <1>2, <3>1, <3>2, Remainder
  <2>3. QED BY <2>1, <2>2
<1>4. pc2tag(b.pc) \in Nat
  <2> DEFINE bits == IF config.tagSize = 0 THEN 1 ELSE config.tagSize
             rest == b.pc \div 2^(2 + size)
  <2>1. 2^(2 + size) \in Nat \ {0} /\ 2^bits \in Nat \ {0}
    <3>1. 2 + size \in Nat /\ bits \in Nat
      BY <1>1
    <3>2. QED BY <3>1, PowerPositive
  <2>2. rest \in Nat
    BY <1>1, <2>1, Remainder
  <2>3. rest % 2^bits \in 0 .. 2^bits - 1
    <3> HIDE DEF rest, bits
    <3>1. QED BY <2>1, <2>2, Remainder
  <2>4. rest % 2^bits \in Nat
    <3> HIDE DEF rest, bits
    <3>1. QED BY <2>1, <2>3
  <2>5. QED BY <2>4 DEF pc2tag, LowBits
<1>5. QED BY <1>3, <1>4 DEF pc2btbIndex, Entries

LEMMA FoundTypes ==
  ASSUME TypeOK, NEW b \in Branches
  PROVE  /\ btb[pc2btbIndex(b.pc)] \in [isBranch : BOOLEAN, tag : Nat, target : Nat]
         /\ HistSlot(b.pc) \in DOMAIN history /\ TableSlot(b.pc) \in DOMAIN fsmTable
         /\ FoundHist(b.pc) \in [Bits -> BOOLEAN]
         /\ FoundTable(b.pc) \in [[Bits -> BOOLEAN] -> SNT .. ST]
<1>1. pc2btbIndex(b.pc) \in Entries
  BY Places
<1>2. initHist \in [Bits -> BOOLEAN] /\ initFsmTable \in [[Bits -> BOOLEAN] -> SNT .. ST]
  BY Configuration DEF initHist, initFsmTable
<1>3. btb[pc2btbIndex(b.pc)] \in [isBranch : BOOLEAN, tag : Nat, target : Nat]
  BY <1>1 DEF TypeOK
<1>4. /\ HistSlot(b.pc) \in DOMAIN history
      /\ history[HistSlot(b.pc)] \in [Bits -> BOOLEAN]
  BY <1>1 DEF TypeOK, HistSlot
<1>5. /\ TableSlot(b.pc) \in DOMAIN fsmTable
      /\ fsmTable[TableSlot(b.pc)] \in [[Bits -> BOOLEAN] -> SNT .. ST]
  BY <1>1 DEF TypeOK, TableSlot
<1>6. QED BY <1>2, <1>3, <1>4, <1>5 DEF FoundHist, FoundTable

LEMMA IndexType ==
  ASSUME NEW hist, NEW pc
  PROVE  tableIdxHandler(hist, pc) \in [Bits -> BOOLEAN]
BY DEF tableIdxHandler

LEMMA ShiftType ==
  ASSUME NEW hist \in [Bits -> BOOLEAN], NEW taken \in BOOLEAN
  PROVE  updateHist(hist, taken) \in [Bits -> BOOLEAN]
BY DEF updateHist

(* One step of the state machine is one step of the saturating counter.    *)
LEMMA Saturates ==
  ASSUME NEW c \in SNT .. ST, NEW taken \in BOOLEAN
  PROVE  /\ updateFSM(c, fsmStateMapping(c) = taken) = Saturate(c, taken)
         /\ Saturate(c, taken) \in SNT .. ST
<1>1. c \in {0, 1, 2, 3}
  BY DEF SNT, ST
<1>2. QED BY <1>1 DEF updateFSM, fsmStateMapping, Saturate, SNT, WNT, WT, ST

-----------------------------------------------------------------------------
(* The branches that matter.                                               *)

Base(global, pc, n) == IF global THEN 1 .. n ELSE Stint(pc, n)

LEMMA StintType ==
  ASSUME NEW pc, NEW n \in Nat
  PROVE  /\ Stint(pc, n) \subseteq 1 .. n
         /\ \A global : Base(global, pc, n) \subseteq 1 .. n
BY DEF Stint, SameBranch, SameEntry, Base

LEMMA OutcomesAre ==
  ASSUME NEW pc, NEW n
  PROVE  Outcomes(pc, n) = Hist(config.historySize, trace, Base(config.isGlobalHist, pc, n))
BY DEF Outcomes, OutcomesOf, Hist, Base, Bits

LEMMA TrainersAre ==
  ASSUME NEW pc, NEW n, NEW idx
  PROVE  Trainers(pc, n, idx) =
           {j \in Base(config.isGlobalTable, pc, n) : Index(trace[j].pc, j - 1) = idx}
BY DEF Trainers, Base

LEMMA Newest1 ==
  ASSUME NEW n \in Nat, NEW S, S \subseteq 1 .. n
  PROVE  Newest(S \cup {n + 1}) = n + 1
<1> DEFINE R == S \cup {n + 1}
<1>1. n + 1 \in R /\ \A k \in R : k <= n + 1
  OBVIOUS
<1>2. ASSUME NEW j \in R, \A k \in R : k <= j PROVE j = n + 1
  BY <1>2
<1>3. (CHOOSE j \in R : \A k \in R : k <= j) = n + 1
  <2> HIDE DEF R
  <2>1. QED BY <1>1, <1>2
<1>4. QED BY <1>3 DEF Newest

-----------------------------------------------------------------------------
(* What the trace says of its first branches does not change when it grows *)

Grown(b) ==
  /\ trace \in Seq(Branch) /\ b \in Branch
  /\ config' = config /\ trace' = Append(trace, b)

LEMMA GrownTrace ==
  ASSUME NEW b, Grown(b)
  PROVE  /\ Len(trace) \in Nat /\ Len(trace)' = Len(trace) + 1
         /\ \A j \in 1 .. Len(trace) : trace'[j] = trace[j] /\ trace[j] \in Branch
         /\ trace'[Len(trace) + 1] = b
BY DEF Grown

LEMMA GrownPlaces ==
  ASSUME NEW b, Grown(b)
  PROVE  /\ Bits' = Bits /\ Global' = Global
         /\ \A pc : pc2btbIndex(pc)' = pc2btbIndex(pc)
         /\ \A pc : pc2tag(pc)' = pc2tag(pc)
         /\ \A hist, pc : tableIdxHandler(hist, pc)' = tableIdxHandler(hist, pc)
<1>1. config' = config
  BY DEF Grown
<1>2. Bits' = Bits /\ Global' = Global
  BY <1>1 DEF Bits, Global
<1>3. \A pc : pc2btbIndex(pc)' = pc2btbIndex(pc) /\ pc2tag(pc)' = pc2tag(pc)
  BY <1>1 DEF pc2btbIndex, pc2tag
<1>4. \A hist, pc : tableIdxHandler(hist, pc)' = tableIdxHandler(hist, pc)
  BY <1>1, <1>2 DEF tableIdxHandler, shareHandler
<1>5. QED BY <1>2, <1>3, <1>4

LEMMA GrownStints ==
  ASSUME NEW b, Grown(b), NEW n \in 0 .. Len(trace)
  PROVE  /\ \A pc : SameEntry(pc, n)' = SameEntry(pc, n)
         /\ \A pc : SameBranch(pc, n)' = SameBranch(pc, n)
         /\ \A pc : Stint(pc, n)' = Stint(pc, n)
<1>1. \A j \in 1 .. n : trace'[j] = trace[j]
  BY GrownTrace
<1>2. /\ \A pc : pc2btbIndex(pc)' = pc2btbIndex(pc)
      /\ \A pc : pc2tag(pc)' = pc2tag(pc)
  BY GrownPlaces
<1>3. \A pc : SameEntry(pc, n)' = SameEntry(pc, n)
  BY <1>1, <1>2 DEF SameEntry
<1>4. \A pc : SameBranch(pc, n)' = SameBranch(pc, n)
  <2>1. \A pc : \A j \in SameEntry(pc, n) : trace'[j] = trace[j]
    BY <1>1 DEF SameEntry
  <2>2. QED BY <1>2, <1>3, <2>1 DEF SameBranch
<1>5. \A pc : Stint(pc, n)' = Stint(pc, n)
  BY <1>3, <1>4 DEF Stint
<1>6. QED BY <1>3, <1>4, <1>5

LEMMA GrownOutcomes ==
  ASSUME NEW b, Grown(b), NEW n \in 0 .. Len(trace), NEW pc
  PROVE  /\ \A global : Base(global, pc, n)' = Base(global, pc, n)
         /\ Outcomes(pc, n)' = Outcomes(pc, n)
         /\ Index(pc, n)' = Index(pc, n)
<1> DEFINE S == Base(config.isGlobalHist, pc, n)
<1>1. config' = config
  BY DEF Grown
<1>2. \A global : Base(global, pc, n)' = Base(global, pc, n)
  BY GrownStints DEF Base
<1>3. \A j \in S : trace'[j] = trace[j]
  <2>1. n \in Nat /\ n <= Len(trace)
    BY GrownTrace
  <2>2. S \subseteq 1 .. n
    BY <2>1, StintType
  <2> HIDE DEF S
  <2>3. QED BY <2>1, <2>2, GrownTrace
<1>4. Outcomes(pc, n)' = Outcomes(pc, n)
  <2>1. Outcomes(pc, n) = Hist(config.historySize, trace, S)
    BY OutcomesAre
  <2>2. Outcomes(pc, n)' = Hist(config.historySize', trace', S')
    BY DEF Outcomes, OutcomesOf, Hist, Base, Bits
  <2>3. S' = S
    BY <1>1, <1>2
  <2>4. Hist(config.historySize, trace', S) = Hist(config.historySize, trace, S)
    <3> HIDE DEF S
    <3>1. QED BY <1>3, HistSame
  <2> HIDE DEF S
  <2>5. QED BY <1>1, <2>1, <2>2, <2>3, <2>4
<1>5. Index(pc, n)' = Index(pc, n)
  BY <1>4, GrownPlaces DEF Index
<1>6. QED BY <1>2, <1>4, <1>5

LEMMA GrownCounters ==
  ASSUME NEW b, Grown(b), NEW n \in 0 .. Len(trace), NEW pc, NEW idx
  PROVE  /\ Trainers(pc, n, idx)' = Trainers(pc, n, idx)
         /\ Counter(pc, n, idx)' = Counter(pc, n, idx)
<1>1. config' = config
  BY DEF Grown
<1>2. Trainers(pc, n, idx)' = Trainers(pc, n, idx)
  <2> DEFINE S == Base(config.isGlobalTable, pc, n)
  <2>1. S' = S
    BY <1>1, GrownOutcomes
  <2>2. ASSUME NEW j \in S PROVE (Index(trace[j].pc, j - 1) = idx)' = (Index(trace[j].pc, j - 1) = idx)
    <3>1. j \in 1 .. n /\ j - 1 \in 0 .. Len(trace)
      <4>1. n \in Nat /\ n <= Len(trace) /\ Len(trace) \in Nat
        BY GrownTrace
      <4>2. S \subseteq 1 .. n
        BY <4>1, StintType
      <4> HIDE DEF S
      <4>3. QED BY <2>2, <4>1, <4>2
    <3>2. \A p : Index(p, j - 1)' = Index(p, j - 1)
      BY <3>1, GrownOutcomes
    <3>3. trace'[j] = trace[j]
      BY <3>1, GrownTrace
    <3>4. QED BY <3>2, <3>3
  <2>3. Trainers(pc, n, idx) = {j \in S : Index(trace[j].pc, j - 1) = idx}
    BY TrainersAre
  <2>4. Trainers(pc, n, idx)' = {j \in S' : (Index(trace[j].pc, j - 1) = idx)'}
    BY DEF Trainers, Base
  <2> HIDE DEF S
  <2>5. QED BY <2>1, <2>2, <2>3, <2>4
<1>3. Counter(pc, n, idx)' = Counter(pc, n, idx)
  <2> DEFINE S == Trainers(pc, n, idx)
             count(tr) == CountOutcomes(config.fsmState, tr, S, n)
  <2>1. n \in Nat /\ \A j \in 1 .. n : trace'[j].taken = trace[j].taken
    BY GrownTrace
  <2>2. count(trace') = count(trace)
    <3> HIDE DEF S
    <3>1. QED BY <2>1, CountSame
  <2>3. Counter(pc, n, idx) = count(trace) /\ Counter(pc, n, idx)' = count(trace')
    <3> HIDE DEF S
    <3>1. S' = S
      BY <1>2 DEF S
    <3>2. Counter(pc, n, idx) = count(trace)
      BY DEF Counter, S
    <3>3. Counter(pc, n, idx)' = CountOutcomes(config.fsmState', trace', S', n)
      BY DEF Counter, S
    <3>4. QED BY <1>1, <3>1, <3>2, <3>3
  <2>4. QED BY <2>2, <2>3
<1>4. QED BY <1>2, <1>3

-----------------------------------------------------------------------------
(* What one branch more does to the branches that matter for another one.  *)

Here(pc, other) == pc2btbIndex(pc) = pc2btbIndex(other)
Same(pc, other) == Here(pc, other) /\ pc2tag(pc) = pc2tag(other)

LEMMA NextEntry ==
  ASSUME NEW b, Grown(b), NEW pc, NEW n, n = Len(trace)
  PROVE  /\ SameEntry(pc, n + 1)' = SameEntry(pc, n) \cup IF Here(pc, b.pc) THEN {n + 1} ELSE {}
         /\ SameBranch(pc, n + 1)' = SameBranch(pc, n) \cup IF Same(pc, b.pc) THEN {n + 1} ELSE {}
<1>1. /\ n \in Nat /\ \A j \in 1 .. n : trace'[j] = trace[j]
      /\ trace'[n + 1] = b
      /\ 1 .. n + 1 = (1 .. n) \cup {n + 1} /\ n + 1 \notin 1 .. n
  BY GrownTrace
<1>2. /\ \A p : pc2btbIndex(p)' = pc2btbIndex(p)
      /\ \A p : pc2tag(p)' = pc2tag(p)
  BY GrownPlaces
<1>3. SameEntry(pc, n + 1)' = {j \in 1 .. n + 1 : pc2btbIndex(trace'[j].pc) = pc2btbIndex(pc)}
  BY <1>2 DEF SameEntry
<1>4. SameEntry(pc, n + 1)' = SameEntry(pc, n) \cup IF Here(pc, b.pc) THEN {n + 1} ELSE {}
  BY <1>1, <1>3 DEF SameEntry, Here
<1>5. SameBranch(pc, n + 1)' = {j \in SameEntry(pc, n + 1)' : pc2tag(trace'[j].pc) = pc2tag(pc)}
  BY <1>2 DEF SameBranch
<1>6. SameEntry(pc, n) \subseteq 1 .. n
  BY DEF SameEntry
<1>7. SameBranch(pc, n + 1)' = SameBranch(pc, n) \cup IF Same(pc, b.pc) THEN {n + 1} ELSE {}
  BY <1>1, <1>4, <1>5, <1>6 DEF SameBranch, Same
<1>8. QED BY <1>4, <1>7

LEMMA NextStint ==
  ASSUME NEW b, Grown(b), NEW pc, NEW n, n = Len(trace)
  PROVE  Stint(pc, n + 1)' = IF Same(pc, b.pc) THEN Stint(b.pc, n) \cup {n + 1}
                             ELSE IF Here(pc, b.pc) THEN {} ELSE Stint(pc, n)
<1> DEFINE entry == SameEntry(pc, n)
           branch == SameBranch(pc, n)
<1>1. n \in Nat /\ entry \subseteq 1 .. n /\ branch \subseteq entry
  BY GrownTrace DEF SameEntry, SameBranch
<1>2. Stint(pc, n + 1)' = {j \in SameBranch(pc, n + 1)' :
                            \A k \in SameEntry(pc, n + 1)' \ SameBranch(pc, n + 1)' : k < j}
  BY DEF Stint
<1>3. Stint(pc, n) = {j \in branch : \A k \in entry \ branch : k < j}
  BY DEF Stint
<1>4. /\ SameEntry(pc, n + 1)' = entry \cup IF Here(pc, b.pc) THEN {n + 1} ELSE {}
      /\ SameBranch(pc, n + 1)' = branch \cup IF Same(pc, b.pc) THEN {n + 1} ELSE {}
  BY NextEntry
<1> HIDE DEF entry, branch
<1>5. CASE Same(pc, b.pc)
  <2>1. Stint(pc, n) = Stint(b.pc, n)
    BY <1>5 DEF Same, Here, Stint, SameEntry, SameBranch
  <2>2. SameEntry(pc, n + 1)' = entry \cup {n + 1} /\ SameBranch(pc, n + 1)' = branch \cup {n + 1}
    BY <1>4, <1>5 DEF Same
  <2>3. (entry \cup {n + 1}) \ (branch \cup {n + 1}) = entry \ branch
    BY <1>1
  <2>4. \A k \in entry \ branch : k < n + 1
    BY <1>1
  <2>5. Stint(pc, n + 1)' = {j \in branch \cup {n + 1} : \A k \in entry \ branch : k < j}
    BY <1>2, <2>2, <2>3
  <2>6. Stint(pc, n + 1)' = Stint(pc, n) \cup {n + 1}
    BY <1>3, <2>4, <2>5
  <2>7. QED BY <1>5, <2>1, <2>6
<1>6. CASE Here(pc, b.pc) /\ ~Same(pc, b.pc)
  <2>1. SameEntry(pc, n + 1)' = entry \cup {n + 1} /\ SameBranch(pc, n + 1)' = branch
    BY <1>4, <1>6
  <2>2. n + 1 \in (entry \cup {n + 1}) \ branch
    BY <1>1
  <2>3. \A j \in branch : ~(n + 1 < j)
    BY <1>1
  <2>4. QED BY <1>2, <1>6, <2>1, <2>2, <2>3
<1>7. CASE ~Here(pc, b.pc)
  BY <1>2, <1>3, <1>4, <1>7 DEF Same
<1>8. QED BY <1>5, <1>6, <1>7

LEMMA NextOutcomes ==
  ASSUME NEW b, Grown(b), TypeOK, NEW pc, NEW n, n = Len(trace)
  PROVE  Outcomes(pc, n + 1)' =
           IF config.isGlobalHist \/ Same(pc, b.pc) THEN updateHist(Outcomes(b.pc, n), b.taken)
           ELSE IF Here(pc, b.pc) THEN initHist ELSE Outcomes(pc, n)
<1> DEFINE h == config.historySize
           S == Base(config.isGlobalHist, b.pc, n)
           R == Base(config.isGlobalHist, pc, n)
           T == Base(config.isGlobalHist, pc, n + 1)'
<1>1. /\ h \in Nat \ {0} /\ h = config.historySize /\ config.isGlobalHist \in BOOLEAN /\ config' = config
      /\ n \in Nat /\ \A j \in 1 .. n : trace'[j] = trace[j]
      /\ trace'[n + 1] = b /\ b.taken \in BOOLEAN
  BY Configuration, GrownTrace DEF Grown, Branch
<1>2. S \subseteq 1 .. n /\ R \subseteq 1 .. n
  BY <1>1, StintType
<1>3. Outcomes(b.pc, n) = Hist(h, trace, S) /\ Outcomes(pc, n) = Hist(h, trace, R)
  BY OutcomesAre
<1>4. Outcomes(pc, n + 1)' = Hist(h, trace', T)
  BY <1>1 DEF Outcomes, OutcomesOf, Hist, Base, Bits
<1>5. T = IF config.isGlobalHist \/ Same(pc, b.pc) THEN S \cup {n + 1}
          ELSE IF Here(pc, b.pc) THEN {} ELSE R
  <2>1. T = IF config.isGlobalHist THEN 1 .. n + 1 ELSE Stint(pc, n + 1)'
    BY <1>1 DEF Base
  <2>2. 1 .. n + 1 = (1 .. n) \cup {n + 1}
    BY <1>1
  <2>3. QED BY <2>1, <2>2, NextStint DEF Base
<1> HIDE DEF S, R, T, h
<1>6. Hist(h, trace', S \cup {n + 1}) = updateHist(Hist(h, trace, S), b.taken)
  <2>1. \A j \in 1 .. n : trace'[j] = trace[j]
    BY <1>1
  <2>2. trace'[n + 1].taken \in BOOLEAN
    BY <1>1
  <2>3. h \in Nat \ {0} /\ n \in Nat /\ S \subseteq 1 .. n
    BY <1>1, <1>2
  <2>4. Hist(h, trace', S \cup {n + 1}) = Shift(h, Hist(h, trace, S), trace'[n + 1].taken)
    <3>1. Follows(h, n, S, trace, trace')
      BY <2>1, <2>2, <2>3 DEF Follows
    <3>2. QED BY <3>1, HistShift
  <2>5. QED BY <1>1, <2>4 DEF updateHist, Bits, Shift
<1>7. Hist(h, trace', {}) = initHist
  BY HistEmpty DEF initHist, Bits, h
<1>8. Hist(h, trace', R) = Hist(h, trace, R)
  <2>1. \A j \in R : trace'[j] = trace[j]
    BY <1>1, <1>2
  <2>2. QED BY <2>1, HistSame
<1>9. QED BY <1>3, <1>4, <1>5, <1>6, <1>7, <1>8

LEMMA NextTrainers ==
  ASSUME NEW b, Grown(b), TypeOK, NEW pc, NEW n, n = Len(trace), NEW idx
  PROVE  Trainers(pc, n + 1, idx)' =
           IF config.isGlobalTable \/ Same(pc, b.pc)
           THEN Trainers(b.pc, n, idx) \cup IF idx = Index(b.pc, n) THEN {n + 1} ELSE {}
           ELSE IF Here(pc, b.pc) THEN {} ELSE Trainers(pc, n, idx)
<1> DEFINE S == Base(config.isGlobalTable, b.pc, n)
           R == Base(config.isGlobalTable, pc, n)
           T == Base(config.isGlobalTable, pc, n + 1)'
           trains(j) == Index(trace[j].pc, j - 1) = idx
           trainsNow(j) == (Index(trace[j].pc, j - 1) = idx)'
<1>1. /\ config.isGlobalTable \in BOOLEAN /\ config' = config
      /\ n \in Nat /\ \A j \in 1 .. n : trace'[j] = trace[j]
      /\ trace'[n + 1] = b
  BY Configuration, GrownTrace DEF Grown
<1>2. S \subseteq 1 .. n /\ R \subseteq 1 .. n
  BY <1>1, StintType
<1>3. /\ Trainers(b.pc, n, idx) = {j \in S : trains(j)}
      /\ Trainers(pc, n, idx) = {j \in R : trains(j)}
  BY TrainersAre
<1>4. Trainers(pc, n + 1, idx)' = {j \in T : trainsNow(j)}
  BY <1>1 DEF Trainers, Base
<1>5. T = IF config.isGlobalTable \/ Same(pc, b.pc) THEN S \cup {n + 1}
          ELSE IF Here(pc, b.pc) THEN {} ELSE R
  <2>1. T = IF config.isGlobalTable THEN 1 .. n + 1 ELSE Stint(pc, n + 1)'
    BY <1>1 DEF Base
  <2>2. 1 .. n + 1 = (1 .. n) \cup {n + 1}
    BY <1>1
  <2>3. QED BY <2>1, <2>2, NextStint DEF Base
<1>6. ASSUME NEW j \in 1 .. n PROVE trainsNow(j) = trains(j)
  <2>1. j - 1 \in 0 .. Len(trace)
    BY <1>1
  <2>2. \A p : Index(p, j - 1)' = Index(p, j - 1)
    BY <2>1, GrownOutcomes
  <2>3. QED BY <1>1, <2>2
<1>7. trainsNow(n + 1) <=> idx = Index(b.pc, n)
  <2>1. n \in 0 .. Len(trace) /\ n + 1 - 1 = n
    BY <1>1
  <2>2. Index(b.pc, n)' = Index(b.pc, n)
    BY <2>1, GrownOutcomes
  <2>3. trainsNow(n + 1) <=> Index(trace[n + 1].pc, n)' = idx
    BY <2>1
  <2>4. QED BY <1>1, <2>2, <2>3
<1> HIDE DEF S, R, T, trains, trainsNow
<1>8. {j \in S \cup {n + 1} : trainsNow(j)} =
        {j \in S : trains(j)} \cup IF idx = Index(b.pc, n) THEN {n + 1} ELSE {}
  BY <1>2, <1>6, <1>7
<1>9. {j \in R : trainsNow(j)} = {j \in R : trains(j)}
  BY <1>2, <1>6
<1>10. QED BY <1>3, <1>4, <1>5, <1>8, <1>9

LEMMA NextCounter ==
  ASSUME NEW b, Grown(b), TypeOK, NEW pc, NEW n, n = Len(trace), NEW idx
  PROVE  Counter(pc, n + 1, idx)' =
           IF config.isGlobalTable \/ Same(pc, b.pc)
           THEN IF idx = Index(b.pc, n) THEN Saturate(Counter(b.pc, n, idx), b.taken)
                ELSE Counter(b.pc, n, idx)
           ELSE IF Here(pc, b.pc) THEN config.fsmState ELSE Counter(pc, n, idx)
<1> DEFINE count(S, m) == CountOutcomes(config.fsmState, trace', S, m)
           before(S) == CountOutcomes(config.fsmState, trace, S, n)
           S == Trainers(b.pc, n, idx)
           R == Trainers(pc, n, idx)
           T == Trainers(pc, n + 1, idx)'
<1>1. /\ config' = config /\ n \in Nat /\ trace'[n + 1] = b
      /\ \A j \in 1 .. n : trace'[j] = trace[j]
  BY GrownTrace DEF Grown
<1>2. S \subseteq 1 .. n /\ R \subseteq 1 .. n
  BY <1>1, StintType, TrainersAre
<1>3. Counter(b.pc, n, idx) = before(S) /\ Counter(pc, n, idx) = before(R)
  BY DEF Counter
<1>4. Counter(pc, n + 1, idx)' = count(T, n + 1)
  BY <1>1 DEF Counter
<1>5. T = IF config.isGlobalTable \/ Same(pc, b.pc)
          THEN S \cup IF idx = Index(b.pc, n) THEN {n + 1} ELSE {}
          ELSE IF Here(pc, b.pc) THEN {} ELSE R
  BY NextTrainers
<1> HIDE DEF S, R, T
<1>6. ASSUME NEW U, U \subseteq 1 .. n
      PROVE  count(U, n + 1) = before(U) /\ count(U \cup {n + 1}, n + 1) = Saturate(before(U), b.taken)
  <2>1. count(U, n + 1) = count(U, n)
    <3>1. n + 1 \notin U
      BY <1>1, <1>6
    <3>2. QED BY <1>1, <3>1, CountStep
  <2>2. count(U \cup {n + 1}, n + 1) = Saturate(count(U \cup {n + 1}, n), b.taken)
    <3>1. n + 1 \in U \cup {n + 1}
      OBVIOUS
    <3>2. count(U \cup {n + 1}, n + 1) = Saturate(count(U \cup {n + 1}, n), trace'[n + 1].taken)
      BY <1>1, <3>1, CountStep
    <3>3. QED BY <1>1, <3>2
  <2>3. count(U, n) = before(U) /\ count(U \cup {n + 1}, n) = before(U)
    <3>1. \A j \in 1 .. n : (j \in U <=> j \in U \cup {n + 1}) /\ trace[j].taken = trace'[j].taken
      BY <1>1
    <3>2. QED BY <1>1, <3>1, CountSame
  <2> HIDE DEF count, before
  <2>4. QED BY <2>1, <2>2, <2>3
<1>7. count({}, n + 1) = config.fsmState
  BY <1>1, CountNone
<1> HIDE DEF count, before
<1>8. QED BY <1>2, <1>3, <1>4, <1>5, <1>6, <1>7

-----------------------------------------------------------------------------
(* What the predictor says follows from what it has found.                 *)

LEMMA HasNewest ==
  ASSUME NEW n \in Nat, NEW S, S \subseteq 1 .. n, S # {}
  PROVE  Newest(S) \in S /\ \A k \in S : k <= Newest(S)
<1> DEFINE Below == {n - j : j \in S}
<1>1. Below \subseteq Nat /\ Below # {}
  <2>1. \A j \in S : n - j \in Nat
    OBVIOUS
  <2>2. \E j : j \in S
    OBVIOUS
  <2>3. QED BY <2>1, <2>2
<1>2. PICK x \in Below : \A y \in Below : ~(<<y, x>> \in OpToRel(<, Nat))
  <2> HIDE DEF Below
  <2>1. QED BY <1>1, NatLessThanWellFounded, WFMin
<1>3. \A y \in Below : x <= y
  <2> HIDE DEF Below
  <2>1. TAKE y \in Below
  <2>2. x \in Nat /\ y \in Nat
    BY <1>1, <1>2
  <2>3. y < x => <<y, x>> \in OpToRel(<, Nat)
    BY <2>2 DEF OpToRel
  <2>4. ~(y < x)
    BY <1>2, <2>3
  <2>5. QED BY <2>2, <2>4
<1>4. PICK j \in S : x = n - j
  OBVIOUS
<1>5. \A k \in S : k <= j
  <2>1. TAKE k \in S
  <2>2. n - j <= n - k
    BY <1>3, <1>4
  <2>3. j \in 1 .. n /\ k \in 1 .. n
    OBVIOUS
  <2> HIDE DEF Below
  <2>4. QED BY <2>2, <2>3
<1>6. QED BY <1>5 DEF Newest

LEMMA PredictionKnown ==
  ASSUME TypeOK, NEW b \in Branches, KnownOf(b.pc)
  PROVE  /\ PredictTaken(b.pc) = ShouldTake(b.pc, Len(trace))
         /\ PredictDst(b.pc) = ShouldGo(b.pc, Len(trace))
<1> DEFINE pc == b.pc
           n == Len(trace)
           entry == btb[pc2btbIndex(pc)]
           c == Counter(pc, n, Index(pc, n))
<1>1. /\ entry \in [isBranch : BOOLEAN, tag : Nat, target : Nat]
      /\ n \in Nat /\ config.fsmState \in SNT .. ST
  <2>1. trace \in Seq(Branch)
    BY DEF TypeOK
  <2>2. n \in Nat
    BY <2>1
  <2> HIDE DEF n
  <2>3. QED BY <2>2, FoundTypes, Configuration
<1>2. /\ Fresh(pc) <=> Stint(pc, n) = {}
      /\ ~Fresh(pc) => entry.target = trace[Newest(Stint(pc, n))].targetPc
      /\ FoundHist(pc) = Outcomes(pc, n)
      /\ \A idx \in [Bits -> BOOLEAN] : FoundTable(pc)[idx] = Counter(pc, n, idx)
  BY DEF KnownOf
<1>3. Fresh(pc) <=> ~(entry.isBranch /\ entry.tag = pc2tag(pc))
  BY DEF Fresh, TakesOver
<1>4. c \in SNT .. ST
  <2>1. c = CountOutcomes(config.fsmState, trace, Trainers(pc, n, Index(pc, n)), n)
    BY DEF Counter
  <2> HIDE DEF c, n
  <2>2. QED BY <1>1, <2>1, CountType
<1>5. ASSUME ~Fresh(pc) PROVE fsmTable[TableSlot(pc)][tableIdxHandler(history[HistSlot(pc)], pc)] = c
  <2>1. history[HistSlot(pc)] = Outcomes(pc, n)
    BY <1>2, <1>5 DEF FoundHist
  <2>2. tableIdxHandler(history[HistSlot(pc)], pc) = Index(pc, n)
    BY <2>1 DEF Index
  <2>3. Index(pc, n) \in [Bits -> BOOLEAN]
    BY IndexType DEF Index
  <2>4. FoundTable(pc)[Index(pc, n)] = c
    BY <1>2, <2>3
  <2>5. FoundTable(pc) = fsmTable[TableSlot(pc)]
    BY <1>5 DEF FoundTable
  <2> HIDE DEF c
  <2>6. QED BY <2>2, <2>4, <2>5
<1>6. fsmStateMapping(c) <=> c >= WT
  <2> HIDE DEF c
  <2>1. QED BY <1>4 DEF fsmStateMapping, SNT, WT, ST
<1>7. PredictTaken(pc) <=> ~Fresh(pc) /\ fsmStateMapping(c)
  <2> HIDE DEF c, entry
  <2>1. PredictTaken(pc) <=>
          /\ entry.isBranch /\ entry.tag = pc2tag(pc)
          /\ fsmStateMapping(fsmTable[TableSlot(pc)][tableIdxHandler(history[HistSlot(pc)], pc)])
    BY DEF PredictTaken, entry
  <2>2. QED BY <1>3, <1>5, <2>1
<1>8. ShouldTake(pc, n) <=> ~Fresh(pc) /\ c >= WT
  BY <1>2 DEF ShouldTake
<1>9. PredictTaken(pc) \in BOOLEAN /\ ShouldTake(pc, n) \in BOOLEAN
  BY DEF PredictTaken, ShouldTake
<1>10. PredictTaken(pc) = ShouldTake(pc, n)
  <2> HIDE DEF c
  <2>1. QED BY <1>6, <1>7, <1>8, <1>9
<1>11. PredictDst(pc) = ShouldGo(pc, n)
  <2> HIDE DEF c
  <2>1. PredictTaken(pc) => entry.target = trace[Newest(Stint(pc, n))].targetPc
    BY <1>2, <1>7
  <2>2. QED BY <1>10, <2>1 DEF PredictDst, ShouldGo
<1>12. QED BY <1>10, <1>11

LEMMA GrownGoals ==
  ASSUME NEW b, Grown(b), NEW n \in 0 .. Len(trace), NEW pc
  PROVE  ShouldGo(pc, n)' = ShouldGo(pc, n)
<1> DEFINE S == Stint(pc, n)
<1>1. S' = S
  BY GrownStints
<1>2. \A idx : Counter(pc, n, idx)' = Counter(pc, n, idx)
  BY GrownCounters
<1>3. Index(pc, n)' = Index(pc, n)
  BY GrownOutcomes
<1>4. Counter(pc, n, Index(pc, n))' = Counter(pc, n, Index(pc, n))
  BY <1>2, <1>3
<1>5. ShouldTake(pc, n)' = ShouldTake(pc, n)
  BY <1>1, <1>4 DEF ShouldTake, WT
<1>6. ASSUME S # {} PROVE trace'[Newest(S)] = trace[Newest(S)]
  <2>1. n \in Nat /\ n <= Len(trace)
    BY GrownTrace
  <2>2. S \subseteq 1 .. n
    BY <2>1, StintType
  <2> HIDE DEF S
  <2>3. Newest(S) \in S
    BY <1>6, <2>1, <2>2, HasNewest
  <2>4. Newest(S) \in 1 .. n
    BY <2>2, <2>3
  <2>5. Len(trace) \in Nat
    BY GrownTrace
  <2>6. Newest(S) \in 1 .. Len(trace)
    BY <2>1, <2>4, <2>5
  <2>7. QED BY <2>6, GrownTrace
<1>7. ShouldTake(pc, n) => S # {}
  BY DEF ShouldTake
<1>8. ShouldGo(pc, n) = IF ShouldTake(pc, n) THEN trace[Newest(S)].targetPc ELSE pc + 4
  BY DEF ShouldGo
<1>9. ShouldGo(pc, n)' = IF ShouldTake(pc, n)' THEN trace'[Newest(S')].targetPc ELSE pc + 4
  BY DEF ShouldGo
<1> HIDE DEF S
<1>10. QED BY <1>1, <1>5, <1>6, <1>7, <1>8, <1>9

-----------------------------------------------------------------------------
(* BP_update, in terms of what the predictor has found.                    *)

NewTable(b) ==
  [FoundTable(b.pc) EXCEPT ![Index(b.pc, Len(trace))] = Saturate(@, b.taken)]

Updated(b) ==
  /\ b \in Branches /\ Grown(b)
  /\ btb' = [btb EXCEPT ![pc2btbIndex(b.pc)] =
               [isBranch |-> TRUE, tag |-> pc2tag(b.pc), target |-> b.targetPc]]
  /\ fsmTable' = [fsmTable EXCEPT ![TableSlot(b.pc)] = NewTable(b)]
  /\ history' = [history EXCEPT ![HistSlot(b.pc)] = updateHist(FoundHist(b.pc), b.taken)]

LEMMA UpdateDoes ==
  ASSUME PredictorInv, BP_update
  PROVE  Updated(line.branch)
<1> DEFINE b == line.branch
           pc == b.pc
           table == FoundTable(pc)
           idx == Index(pc, Len(trace))
<1>1. b \in Branches /\ KnownOf(pc) /\ TypeOK
  BY DEF PredictorInv, PredictedNow, BP_update
<1>2. Grown(b)
  BY <1>1, Lines DEF Grown, BP_update, TypeOK
<1>3. /\ btb' = [btb EXCEPT ![pc2btbIndex(pc)] =
                   [isBranch |-> TRUE, tag |-> pc2tag(pc), target |-> b.targetPc]]
      /\ history' = [history EXCEPT ![HistSlot(pc)] = updateHist(FoundHist(pc), b.taken)]
  BY DEF BP_update, FoundHist, Fresh
<1>4. tableIdxHandler(FoundHist(pc), pc) = idx
  BY <1>1 DEF KnownOf, Index
<1>5. fsmTable' = [fsmTable EXCEPT ![TableSlot(pc)] =
                     [table EXCEPT ![idx] =
                        updateFSM(table[idx], fsmStateMapping(table[idx]) = b.taken)]]
  <2>1. fsmTable' = [fsmTable EXCEPT ![TableSlot(pc)] =
                       [table EXCEPT ![tableIdxHandler(FoundHist(pc), pc)] =
                          updateFSM(table[tableIdxHandler(FoundHist(pc), pc)],
                            fsmStateMapping(table[tableIdxHandler(FoundHist(pc), pc)]) = b.taken)]]
    BY DEF BP_update, FoundHist, FoundTable, Fresh
  <2>2. QED BY <1>4, <2>1
<1>6. table \in [[Bits -> BOOLEAN] -> SNT .. ST] /\ idx \in [Bits -> BOOLEAN]
  BY <1>1, FoundTypes, IndexType DEF Index
<1>7. table[idx] \in SNT .. ST
  <2> HIDE DEF table, idx
  <2>1. QED BY <1>6
<1>8. updateFSM(table[idx], fsmStateMapping(table[idx]) = b.taken) = Saturate(table[idx], b.taken)
  <2> HIDE DEF table, idx
  <2>1. QED BY <1>1, <1>7, Lines, Saturates
<1>9. NewTable(b) = [table EXCEPT ![idx] = Saturate(table[idx], b.taken)]
  BY DEF NewTable
<1>10. fsmTable' = [fsmTable EXCEPT ![TableSlot(pc)] = NewTable(b)]
  <2> HIDE DEF table, idx
  <2>1. QED BY <1>5, <1>8, <1>9
<1>11. QED BY <1>1, <1>2, <1>3, <1>10 DEF Updated

LEMMA UpdatedTypes ==
  ASSUME TypeOK, NEW b, Updated(b)
  PROVE  /\ btb' \in [Entries -> [isBranch : BOOLEAN, tag : Nat, target : Nat]]
         /\ history' \in [(IF config.isGlobalHist THEN {Global} ELSE Entries) ->
                            [Bits -> BOOLEAN]]
         /\ fsmTable' \in [(IF config.isGlobalTable THEN {Global} ELSE Entries) ->
                             [[Bits -> BOOLEAN] -> SNT .. ST]]
<1>1. /\ b \in Branches /\ b.pc \in Nat /\ b.targetPc \in Nat /\ b.taken \in BOOLEAN
      /\ pc2btbIndex(b.pc) \in Entries /\ pc2tag(b.pc) \in Nat
  BY Lines, Places DEF Updated
<1>2. /\ FoundHist(b.pc) \in [Bits -> BOOLEAN]
      /\ FoundTable(b.pc) \in [[Bits -> BOOLEAN] -> SNT .. ST]
  BY <1>1, FoundTypes
<1>3. updateHist(FoundHist(b.pc), b.taken) \in [Bits -> BOOLEAN]
  BY <1>1, <1>2, ShiftType
<1>4. NewTable(b) \in [[Bits -> BOOLEAN] -> SNT .. ST]
  <2> DEFINE idx == Index(b.pc, Len(trace))
             table == FoundTable(b.pc)
  <2>1. idx \in [Bits -> BOOLEAN]
    BY IndexType DEF Index
  <2> HIDE DEF idx, table
  <2>2. table[idx] \in SNT .. ST
    BY <1>2, <2>1 DEF table
  <2>3. Saturate(table[idx], b.taken) \in SNT .. ST
    BY <1>1, <2>2, Saturates
  <2>4. NewTable(b) = [table EXCEPT ![idx] = Saturate(table[idx], b.taken)]
    BY DEF NewTable, idx, table
  <2>5. QED BY <1>2, <2>3, <2>4 DEF table
<1>5. btb' \in [Entries -> [isBranch : BOOLEAN, tag : Nat, target : Nat]]
  BY <1>1 DEF TypeOK, Updated
<1>6. history' \in [(IF config.isGlobalHist THEN {Global} ELSE Entries) -> [Bits -> BOOLEAN]]
  BY <1>3 DEF TypeOK, Updated
<1>7. fsmTable' \in [(IF config.isGlobalTable THEN {Global} ELSE Entries) ->
                       [[Bits -> BOOLEAN] -> SNT .. ST]]
  BY <1>4 DEF TypeOK, Updated
<1>8. QED BY <1>5, <1>6, <1>7

(* What is found after it, for any branch.                                 *)
LEMMA FoundAfter ==
  ASSUME TypeOK, NEW b, Updated(b), NEW c \in Branches
  PROVE  /\ Fresh(c.pc)' <=> IF Here(c.pc, b.pc) THEN ~Same(c.pc, b.pc) ELSE Fresh(c.pc)
         /\ btb'[pc2btbIndex(c.pc)].target =
              IF Here(c.pc, b.pc) THEN b.targetPc ELSE btb[pc2btbIndex(c.pc)].target
         /\ FoundHist(c.pc)' =
              IF config.isGlobalHist \/ Same(c.pc, b.pc) THEN updateHist(FoundHist(b.pc), b.taken)
              ELSE IF Here(c.pc, b.pc) THEN initHist ELSE FoundHist(c.pc)
         /\ FoundTable(c.pc)' =
              IF config.isGlobalTable \/ Same(c.pc, b.pc) THEN NewTable(b)
              ELSE IF Here(c.pc, b.pc) THEN initFsmTable ELSE FoundTable(c.pc)
<1> DEFINE i == pc2btbIndex(b.pc)
           k == pc2btbIndex(c.pc)
<1>1. /\ b \in Branches /\ i \in Entries /\ k \in Entries
      /\ btb \in [Entries -> [isBranch : BOOLEAN, tag : Nat, target : Nat]]
      /\ config' = config
  BY Places DEF Updated, Grown, TypeOK
<1>2. /\ pc2btbIndex(c.pc)' = k /\ pc2tag(c.pc)' = pc2tag(c.pc)
  BY GrownPlaces DEF Updated
<1>3. HistSlot(c.pc)' = HistSlot(c.pc) /\ TableSlot(c.pc)' = TableSlot(c.pc)
  BY <1>1, <1>2 DEF HistSlot, TableSlot, Global
<1>4. initHist' = initHist /\ initFsmTable' = initFsmTable
  BY <1>1 DEF initHist, initFsmTable, Bits
<1>5. btb'[k] = IF k = i
                THEN [isBranch |-> TRUE, tag |-> pc2tag(b.pc), target |-> b.targetPc]
                ELSE btb[k]
  <2> HIDE DEF i, k
  <2>1. btb' = [btb EXCEPT ![i] =
                  [isBranch |-> TRUE, tag |-> pc2tag(b.pc), target |-> b.targetPc]]
    BY DEF Updated, i
  <2>2. QED BY <1>1, <2>1
<1>6. Fresh(c.pc)' <=> ~btb'[k].isBranch \/ btb'[k].tag # pc2tag(c.pc)
  BY <1>2 DEF Fresh, TakesOver
<1>7. Fresh(c.pc)' <=> IF Here(c.pc, b.pc) THEN ~Same(c.pc, b.pc) ELSE Fresh(c.pc)
  <2>1. CASE k = i
    BY <1>5, <1>6, <2>1 DEF Here, Same
  <2>2. CASE k # i
    BY <1>5, <1>6, <2>2 DEF Here, Fresh, TakesOver
  <2>3. QED BY <2>1, <2>2
<1>8. btb'[k].target = IF Here(c.pc, b.pc) THEN b.targetPc ELSE btb[k].target
  BY <1>5 DEF Here
<1>9. FoundHist(c.pc)' =
        IF config.isGlobalHist \/ Same(c.pc, b.pc) THEN updateHist(FoundHist(b.pc), b.taken)
        ELSE IF Here(c.pc, b.pc) THEN initHist ELSE FoundHist(c.pc)
  <2> DEFINE new == updateHist(FoundHist(b.pc), b.taken)
  <2>1. FoundHist(c.pc)' = IF Fresh(c.pc)' /\ ~config.isGlobalHist THEN initHist
                           ELSE history'[HistSlot(c.pc)]
    BY <1>1, <1>3, <1>4 DEF FoundHist
  <2>2. HistSlot(c.pc) \in DOMAIN history
    BY FoundTypes
  <2>3. history'[HistSlot(c.pc)] = IF HistSlot(c.pc) = HistSlot(b.pc) THEN new
                                   ELSE history[HistSlot(c.pc)]
    <3> HIDE DEF new
    <3>1. history' = [history EXCEPT ![HistSlot(b.pc)] = new]
      BY DEF Updated, new
    <3>2. QED BY <2>2, <3>1
  <2>4. HistSlot(c.pc) = HistSlot(b.pc) <=> config.isGlobalHist \/ Here(c.pc, b.pc)
    BY DEF HistSlot, Here
  <2> HIDE DEF new
  <2>5. QED BY <1>7, <2>1, <2>3, <2>4 DEF FoundHist, Same, new
<1>10. FoundTable(c.pc)' =
         IF config.isGlobalTable \/ Same(c.pc, b.pc) THEN NewTable(b)
         ELSE IF Here(c.pc, b.pc) THEN initFsmTable ELSE FoundTable(c.pc)
  <2>1. FoundTable(c.pc)' = IF Fresh(c.pc)' /\ ~config.isGlobalTable THEN initFsmTable
                            ELSE fsmTable'[TableSlot(c.pc)]
    BY <1>1, <1>3, <1>4 DEF FoundTable
  <2>2. TableSlot(c.pc) \in DOMAIN fsmTable
    BY FoundTypes
  <2>3. fsmTable'[TableSlot(c.pc)] = IF TableSlot(c.pc) = TableSlot(b.pc) THEN NewTable(b)
                                     ELSE fsmTable[TableSlot(c.pc)]
    <3>1. fsmTable' = [fsmTable EXCEPT ![TableSlot(b.pc)] = NewTable(b)]
      BY DEF Updated
    <3>2. QED BY <2>2, <3>1
  <2>4. TableSlot(c.pc) = TableSlot(b.pc) <=> config.isGlobalTable \/ Here(c.pc, b.pc)
    BY DEF TableSlot, Here
  <2>5. QED BY <1>7, <2>1, <2>3, <2>4 DEF FoundTable, Same
<1>11. QED BY <1>7, <1>8, <1>9, <1>10

LEMMA KnownAfter ==
  ASSUME TypeOK, NEW b, Updated(b), KnownOf(b.pc), NEW c \in Branches, KnownOf(c.pc)
  PROVE  KnownOf(c.pc)'
<1> DEFINE q == c.pc
<1>0. PICK n : n = Len(trace)
  OBVIOUS
<1> DEFINE m == n + 1
<1>1. /\ n = Len(trace)
      /\ Grown(b) /\ b \in Branches /\ n \in Nat /\ Len(trace)' = m
      /\ trace'[m] = b /\ \A j \in 1 .. n : trace'[j] = trace[j]
  BY <1>0, GrownTrace DEF Updated
<1>2. Stint(q, m)' = IF Same(q, b.pc) THEN Stint(b.pc, n) \cup {m}
                     ELSE IF Here(q, b.pc) THEN {} ELSE Stint(q, n)
  BY <1>1, NextStint
<1>3. Same(q, b.pc) => Here(q, b.pc)
  BY DEF Same
<1>4. Fresh(q)' <=> Stint(q, m)' = {}
  <2>1. Fresh(q)' <=> IF Here(q, b.pc) THEN ~Same(q, b.pc) ELSE Fresh(q)
    BY FoundAfter
  <2>2. Fresh(q) <=> Stint(q, n) = {}
    BY <1>1 DEF KnownOf
  <2> HIDE DEF q, m
  <2>3. QED BY <1>2, <1>3, <2>1, <2>2
<1>5. ASSUME ~Fresh(q)'
      PROVE  btb'[pc2btbIndex(q)'].target = trace'[Newest(Stint(q, m)')].targetPc
  <2>1. pc2btbIndex(q)' = pc2btbIndex(q)
    BY <1>1, GrownPlaces
  <2>2. btb'[pc2btbIndex(q)].target = IF Here(q, b.pc) THEN b.targetPc
                                      ELSE btb[pc2btbIndex(q)].target
    BY FoundAfter
  <2>3. CASE Same(q, b.pc)
    <3>1. Stint(b.pc, n) \subseteq 1 .. n
      BY <1>1, StintType
    <3>2. Newest(Stint(b.pc, n) \cup {m}) = m
      BY <1>1, <3>1, Newest1
    <3>3. Newest(Stint(q, m)') = m
      BY <1>2, <2>3, <3>2
    <3>4. QED BY <1>1, <1>3, <2>1, <2>2, <2>3, <3>3
  <2>4. CASE ~Same(q, b.pc)
    <3>1. Stint(q, m)' # {}
      BY <1>4, <1>5
    <3>2. ~Here(q, b.pc) /\ Stint(q, m)' = Stint(q, n)
      BY <1>2, <2>4, <3>1
    <3>3. btb[pc2btbIndex(q)].target = trace[Newest(Stint(q, n))].targetPc
      BY <1>1, <3>1, <3>2 DEF KnownOf
    <3>4. Stint(q, n) \subseteq 1 .. n
      BY <1>1, StintType
    <3>5. Newest(Stint(q, n)) \in Stint(q, n)
      BY <1>1, <3>1, <3>2, <3>4, HasNewest
    <3>6. trace'[Newest(Stint(q, n))] = trace[Newest(Stint(q, n))]
      BY <1>1, <3>4, <3>5
    <3>7. QED BY <2>1, <2>2, <3>2, <3>3, <3>6
  <2>5. QED BY <2>3, <2>4
<1>6. FoundHist(q)' = Outcomes(q, m)'
  <2>1. /\ FoundHist(b.pc) = Outcomes(b.pc, n)
        /\ FoundHist(q) = Outcomes(q, n)
    BY <1>1 DEF KnownOf
  <2>2. Outcomes(q, m)' =
           IF config.isGlobalHist \/ Same(q, b.pc) THEN updateHist(Outcomes(b.pc, n), b.taken)
           ELSE IF Here(q, b.pc) THEN initHist ELSE Outcomes(q, n)
    BY <1>1, NextOutcomes
  <2>3. FoundHist(q)' =
           IF config.isGlobalHist \/ Same(q, b.pc) THEN updateHist(FoundHist(b.pc), b.taken)
           ELSE IF Here(q, b.pc) THEN initHist ELSE FoundHist(q)
    BY FoundAfter
  <2> HIDE DEF q, m
  <2>4. QED BY <2>1, <2>2, <2>3
<1>7. \A idx \in [Bits -> BOOLEAN] : FoundTable(q)'[idx] = Counter(q, m, idx)'
  <2>1. TAKE idx \in [Bits -> BOOLEAN]
  <2>2. /\ FoundTable(b.pc)[idx] = Counter(b.pc, n, idx)
        /\ FoundTable(q)[idx] = Counter(q, n, idx)
    BY <1>1 DEF KnownOf
  <2>3. Counter(q, m, idx)' =
           IF config.isGlobalTable \/ Same(q, b.pc)
           THEN IF idx = Index(b.pc, n) THEN Saturate(Counter(b.pc, n, idx), b.taken)
                ELSE Counter(b.pc, n, idx)
           ELSE IF Here(q, b.pc) THEN config.fsmState ELSE Counter(q, n, idx)
    BY <1>1, NextCounter, SMTT(40)
  <2>4. FoundTable(q)' =
           IF config.isGlobalTable \/ Same(q, b.pc) THEN NewTable(b)
           ELSE IF Here(q, b.pc) THEN initFsmTable ELSE FoundTable(q)
    BY FoundAfter
  <2>5. initFsmTable[idx] = config.fsmState
    BY DEF initFsmTable
  <2>6. NewTable(b)[idx] = IF idx = Index(b.pc, n) THEN Saturate(FoundTable(b.pc)[idx], b.taken)
                           ELSE FoundTable(b.pc)[idx]
    <3>1. FoundTable(b.pc) \in [[Bits -> BOOLEAN] -> SNT .. ST]
      BY <1>1, FoundTypes
    <3>2. QED BY <1>1, <3>1 DEF NewTable
  <2> HIDE DEF q, m
  <2>7. QED BY <2>2, <2>3, <2>4, <2>5, <2>6
<1>8. \A idx \in [Bits' -> BOOLEAN] : FoundTable(q)'[idx] = Counter(q, m, idx)'
  <2>1. Bits' = Bits
    BY <1>1, GrownPlaces
  <2>2. QED BY <1>7, <2>1
<1> HIDE DEF q, m
<1>9. KnownOf(q)' = /\ Fresh(q)' <=> Stint(q, m)' = {}
                    /\ ~Fresh(q)' => btb'[pc2btbIndex(q)'].target = trace'[Newest(Stint(q, m)')].targetPc
                    /\ FoundHist(q)' = Outcomes(q, m)'
                    /\ \A idx \in [Bits' -> BOOLEAN] : FoundTable(q)'[idx] = Counter(q, m, idx)'
  BY <1>1 DEF KnownOf, q, m
<1>10. KnownOf(q)'
  BY <1>4, <1>5, <1>6, <1>8, <1>9
<1>11. QED BY <1>10 DEF q

(* The flushes so far, and whether the next branch is one of them.         *)
Flushes == {j \in DOMAIN trace : ShouldGo(trace[j].pc, j - 1) # NextPc(trace[j])}

LEMMA FlushesAfter ==
  ASSUME NEW b, Grown(b)
  PROVE  /\ Flushes' = Flushes \cup IF ShouldGo(b.pc, Len(trace)) # NextPc(b)
                                    THEN {Len(trace) + 1} ELSE {}
         /\ IsFiniteSet(Flushes) /\ Len(trace) + 1 \notin Flushes
<1>0. PICK n : n = Len(trace)
  OBVIOUS
<1> DEFINE flush(j) == ShouldGo(trace[j].pc, j - 1) # NextPc(trace[j])
           flushNow(j) == (ShouldGo(trace[j].pc, j - 1) # NextPc(trace[j]))'
<1>1. /\ n = Len(trace) /\ n \in Nat /\ trace'[n + 1] = b /\ \A j \in 1 .. n : trace'[j] = trace[j]
      /\ DOMAIN trace = 1 .. n /\ DOMAIN trace' = 1 .. n + 1
  BY <1>0, GrownTrace DEF Grown
<1>2. ASSUME NEW j \in 1 .. n PROVE flushNow(j) = flush(j)
  <2>1. j - 1 \in 0 .. Len(trace)
    BY <1>1
  <2>2. \A p : ShouldGo(p, j - 1)' = ShouldGo(p, j - 1)
    BY <2>1, GrownGoals
  <2>3. QED BY <1>1, <2>2 DEF NextPc
<1>3. flushNow(n + 1) <=> ShouldGo(b.pc, n) # NextPc(b)
  <2>1. n \in 0 .. Len(trace) /\ n + 1 - 1 = n
    BY <1>1
  <2>2. ShouldGo(b.pc, n)' = ShouldGo(b.pc, n)
    BY <2>1, GrownGoals
  <2>3. flushNow(n + 1) <=> (ShouldGo(trace[n + 1].pc, n) # NextPc(trace[n + 1]))'
    BY <2>1
  <2>4. QED BY <1>1, <2>2, <2>3 DEF NextPc
<1>4. Flushes = {j \in 1 .. n : flush(j)} /\ Flushes' = {j \in 1 .. n + 1 : flushNow(j)}
  BY <1>1 DEF Flushes
<1> HIDE DEF flush, flushNow
<1>5. 1 .. n + 1 = (1 .. n) \cup {n + 1} /\ n + 1 \notin 1 .. n
  BY <1>1
<1>6. IsFiniteSet(1 .. n)
  BY <1>1, FS_Interval
<1>7. IsFiniteSet(Flushes) /\ n + 1 \notin Flushes
  <2>1. Flushes \subseteq 1 .. n
    BY <1>4
  <2>2. QED BY <1>5, <1>6, <2>1, FS_Subset
<1>8. Flushes' = Flushes \cup IF ShouldGo(b.pc, n) # NextPc(b) THEN {n + 1} ELSE {}
  BY <1>2, <1>3, <1>4, <1>5
<1>9. QED BY <1>0, <1>7, <1>8

LEMMA CountedAfter ==
  ASSUME PredictorInv, BP_update
  PROVE  FlushesCounted' /\ stats' \in [br_num : Nat, flush_num : Nat, size : Nat]
<1> DEFINE b == line.branch
           n == Len(trace)
           new == ShouldGo(b.pc, n) # NextPc(b)
<1>1. Updated(b) /\ Grown(b) /\ b \in Branches /\ TypeOK /\ KnownOf(b.pc)
  BY UpdateDoes DEF Updated, PredictorInv
<1>2. line.dst = ShouldGo(b.pc, n)
  BY <1>1, PredictionKnown DEF PredictorInv, PredictedNow, BP_update
<1>3. Flush(b, line.dst) <=> new
  <2>1. b.taken \in BOOLEAN
    BY <1>1, Lines
  <2>2. QED BY <1>2, <2>1 DEF Flush, NextPc
<1>4. /\ stats \in [br_num : Nat, flush_num : Nat, size : Nat]
      /\ stats.br_num = n /\ stats.flush_num = Cardinality(Flushes)
  BY <1>1 DEF TypeOK, PredictorInv, FlushesCounted, Flushes
<1>5. stats' = [stats EXCEPT !.br_num = @ + 1,
                             !.flush_num = @ + IF Flush(b, line.dst) THEN 1 ELSE 0]
  BY DEF BP_update
<1>6. /\ stats' \in [br_num : Nat, flush_num : Nat, size : Nat]
      /\ stats'.br_num = n + 1
      /\ stats'.flush_num = Cardinality(Flushes) + IF new THEN 1 ELSE 0
  <2> DEFINE more == IF Flush(b, line.dst) THEN 1 ELSE 0
  <2>1. more = IF new THEN 1 ELSE 0
    <3> HIDE DEF b, new
    <3>1. QED BY <1>3
  <2>2. more \in Nat
    OBVIOUS
  <2>3. stats' = [stats EXCEPT !.br_num = @ + 1, !.flush_num = @ + more]
    BY <1>5
  <2> HIDE DEF b, n, new, more
  <2>4. stats' \in [br_num : Nat, flush_num : Nat, size : Nat]
    <3>1. stats.br_num + 1 \in Nat /\ stats.flush_num + more \in Nat
      BY <1>4, <2>2
    <3>2. QED BY <1>4, <2>3, <3>1
  <2>5. stats'.br_num = n + 1 /\ stats'.flush_num = Cardinality(Flushes) + more
    BY <1>4, <2>3
  <2>6. QED BY <2>1, <2>4, <2>5
<1>7. Cardinality(Flushes') = Cardinality(Flushes) + IF new THEN 1 ELSE 0
  <2>1. /\ Flushes' = Flushes \cup IF new THEN {n + 1} ELSE {}
        /\ IsFiniteSet(Flushes) /\ n + 1 \notin Flushes
    BY <1>1, FlushesAfter
  <2>2. Cardinality(Flushes) \in Nat
    BY <2>1, FS_CardinalityType
  <2> HIDE DEF new, n
  <2>3. CASE new
    <3>1. Flushes' = Flushes \cup {n + 1}
      BY <2>1, <2>3
    <3>2. Cardinality(Flushes \cup {n + 1}) = Cardinality(Flushes) + 1
      BY <2>1, FS_AddElement
    <3>3. QED BY <2>3, <3>1, <3>2
  <2>4. CASE ~new
    <3>1. Flushes' = Flushes
      BY <2>1, <2>4
    <3>2. QED BY <2>2, <2>4, <3>1
  <2>5. QED BY <2>3, <2>4
<1>8. Len(trace)' = n + 1
  BY <1>1, GrownTrace
<1>9. FlushesCounted'
  <2>1. FlushesCounted' = (stats'.br_num = Len(trace)' /\ stats'.flush_num = Cardinality(Flushes'))
    BY DEF FlushesCounted, Flushes
  <2> HIDE DEF new, n
  <2>2. QED BY <1>6, <1>7, <1>8, <2>1
<1>10. QED BY <1>6, <1>9

-----------------------------------------------------------------------------
(* A step that leaves the tables and the trace alone.                      *)

LEMMA IdleTrace ==
  ASSUME config' = config, trace' = trace
  PROVE  /\ Bits' = Bits /\ Flushes' = Flushes
         /\ \A pc : pc2btbIndex(pc)' = pc2btbIndex(pc)
         /\ \A pc : pc2tag(pc)' = pc2tag(pc)
         /\ \A pc, n : Stint(pc, n)' = Stint(pc, n)
         /\ \A pc, n : Outcomes(pc, n)' = Outcomes(pc, n)
         /\ \A pc, n, idx : Counter(pc, n, idx)' = Counter(pc, n, idx)
<1>1. Bits' = Bits
  BY DEF Bits
<1>2. \A pc : pc2btbIndex(pc)' = pc2btbIndex(pc) /\ pc2tag(pc)' = pc2tag(pc)
  BY DEF pc2btbIndex, pc2tag
<1>3. \A pc, n : SameEntry(pc, n)' = SameEntry(pc, n)
  BY <1>2 DEF SameEntry
<1>4. \A pc, n : SameBranch(pc, n)' = SameBranch(pc, n)
  BY <1>2, <1>3 DEF SameBranch
<1>5. \A pc, n : Stint(pc, n)' = Stint(pc, n)
  BY <1>3, <1>4 DEF Stint
<1>6. \A pc, n : Outcomes(pc, n)' = Outcomes(pc, n)
  BY <1>1, <1>5 DEF Outcomes, OutcomesOf
<1>7. \A hist, pc : tableIdxHandler(hist, pc)' = tableIdxHandler(hist, pc)
  BY <1>1 DEF tableIdxHandler, shareHandler
<1>8. \A pc, n : Index(pc, n)' = Index(pc, n)
  BY <1>6, <1>7 DEF Index
<1>9. \A pc, n, idx : Trainers(pc, n, idx)' = Trainers(pc, n, idx)
  BY <1>5, <1>8 DEF Trainers
<1>10. \A pc, n, idx : Counter(pc, n, idx)' = Counter(pc, n, idx)
  BY <1>9 DEF Counter
<1>11. \A pc, n : ShouldTake(pc, n)' = ShouldTake(pc, n)
  BY <1>5, <1>8, <1>10 DEF ShouldTake, WT
<1>12. \A pc, n : ShouldGo(pc, n)' = ShouldGo(pc, n)
  BY <1>5, <1>11 DEF ShouldGo
<1>13. Flushes' = Flushes
  BY <1>12 DEF Flushes, NextPc
<1>14. QED BY <1>1, <1>2, <1>5, <1>6, <1>10, <1>13

LEMMA IdleKnown ==
  ASSUME UNCHANGED <<config, btb, history, fsmTable, trace>>, NEW pc, KnownOf(pc)
  PROVE  KnownOf(pc)'
<1>0. PICK n : n = Len(trace)
  OBVIOUS
<1>1. /\ Bits' = Bits /\ pc2btbIndex(pc)' = pc2btbIndex(pc) /\ pc2tag(pc)' = pc2tag(pc)
      /\ Stint(pc, n)' = Stint(pc, n) /\ Outcomes(pc, n)' = Outcomes(pc, n)
      /\ \A idx : Counter(pc, n, idx)' = Counter(pc, n, idx)
      /\ n = Len(trace)'
  BY <1>0, IdleTrace
<1>2. Fresh(pc)' = Fresh(pc)
  BY <1>1 DEF Fresh, TakesOver
<1>3. FoundHist(pc)' = FoundHist(pc)
  BY <1>1, <1>2 DEF FoundHist, initHist, HistSlot, Global
<1>4. FoundTable(pc)' = FoundTable(pc)
  BY <1>1, <1>2 DEF FoundTable, initFsmTable, TableSlot, Global
<1>5. KnownOf(pc)' = /\ Fresh(pc)' <=> Stint(pc, n)' = {}
                     /\ ~Fresh(pc)' => btb'[pc2btbIndex(pc)'].target
                                         = trace'[Newest(Stint(pc, n)')].targetPc
                     /\ FoundHist(pc)' = Outcomes(pc, n)'
                     /\ \A idx \in [Bits' -> BOOLEAN] : FoundTable(pc)'[idx] = Counter(pc, n, idx)'
  BY <1>1 DEF KnownOf
<1>6. KnownOf(pc) <=> /\ Fresh(pc) <=> Stint(pc, n) = {}
                      /\ ~Fresh(pc) => btb[pc2btbIndex(pc)].target
                                         = trace[Newest(Stint(pc, n))].targetPc
                      /\ FoundHist(pc) = Outcomes(pc, n)
                      /\ \A idx \in [Bits -> BOOLEAN] : FoundTable(pc)[idx] = Counter(pc, n, idx)
  BY <1>0 DEF KnownOf
<1>7. QED BY <1>1, <1>2, <1>3, <1>4, <1>5, <1>6

-----------------------------------------------------------------------------
(* The size of the predictor.                                              *)

LEMMA Products ==
  ASSUME NEW x \in Nat, NEW y \in Nat
  PROVE  x * y \in Nat
OBVIOUS

LEMMA SizeIs ==
  ASSUME TypeOK
  PROVE  /\ TheoreticalSize \in Nat
         /\ LET entries   == 2^config.btbIndexSize
                histSize  == config.historySize
                tableSize == FSM_STATE_SIZE * 2^config.historySize
            IN  TheoreticalSize =
                  entries * (VALID_SIZE + config.tagSize + INST_SIZE)
                  + (IF config.isGlobalHist THEN histSize ELSE entries * histSize)
                  + (IF config.isGlobalTable THEN tableSize ELSE entries * tableSize)
<1> DEFINE p == 2^config.btbIndexSize
           h == config.historySize
           t == FSM_STATE_SIZE * 2^config.historySize
           g == config.tagSize
           e == (IF config.isGlobalHist THEN 0 ELSE h) + (IF config.isGlobalTable THEN 0 ELSE t)
           a == (IF config.isGlobalHist THEN h ELSE 0) + (IF config.isGlobalTable THEN t ELSE 0)
<1>1. p \in Nat /\ h \in Nat /\ t \in Nat /\ g \in Nat
  <2>1. 2^config.btbIndexSize \in Nat /\ 2^config.historySize \in Nat
    BY Configuration, PowerPositive
  <2>2. QED BY <2>1, Configuration DEF FSM_STATE_SIZE
<1>2. config.isGlobalHist \in BOOLEAN /\ config.isGlobalTable \in BOOLEAN
  BY Configuration
<1> HIDE DEF p, h, t, g
<1>3. e \in Nat /\ a \in Nat
  BY <1>1
<1>4. TheoreticalSize = Size(e, a)
  <2>1. TheoreticalSize =
          CASE config.isGlobalHist /\ config.isGlobalTable   -> Size(0, h + t)
            [] ~config.isGlobalHist /\ config.isGlobalTable  -> Size(h, t)
            [] config.isGlobalHist /\ ~config.isGlobalTable  -> Size(t, h)
            [] ~config.isGlobalHist /\ ~config.isGlobalTable -> Size(t + h, 0)
    BY DEF TheoreticalSize, h, t
  <2>2. CASE config.isGlobalHist /\ config.isGlobalTable
    <3>1. e = 0 /\ a = h + t
      BY <1>1, <2>2
    <3> HIDE DEF e, a
    <3>2. QED BY <2>1, <2>2, <3>1
  <2>3. CASE ~config.isGlobalHist /\ config.isGlobalTable
    <3>1. e = h /\ a = t
      BY <1>1, <2>3
    <3> HIDE DEF e, a
    <3>2. QED BY <2>1, <2>3, <3>1
  <2>4. CASE config.isGlobalHist /\ ~config.isGlobalTable
    <3>1. e = t /\ a = h
      BY <1>1, <2>4
    <3> HIDE DEF e, a
    <3>2. QED BY <2>1, <2>4, <3>1
  <2>5. CASE ~config.isGlobalHist /\ ~config.isGlobalTable
    <3>1. e = t + h /\ a = 0
      BY <1>1, <2>5
    <3> HIDE DEF e, a
    <3>2. QED BY <2>1, <2>5, <3>1
  <2>6. QED BY <1>2, <2>2, <2>3, <2>4, <2>5
<1>5. Size(e, a) = p * (g + INST_SIZE + VALID_SIZE + e) + a
  BY DEF Size, p, g
<1> DEFINE fixed == VALID_SIZE + g + INST_SIZE
<1>6. fixed \in Nat /\ g + INST_SIZE + VALID_SIZE + e = fixed + e
  <2> HIDE DEF e
  <2>1. QED BY <1>1, <1>3 DEF VALID_SIZE, INST_SIZE
<1>7. TheoreticalSize = p * (fixed + e) + a
  BY <1>4, <1>5, <1>6
<1> HIDE DEF fixed
<1>8. TheoreticalSize \in Nat
  <2>1. fixed + e \in Nat
    <3> HIDE DEF e
    <3>1. QED BY <1>3, <1>6
  <2> DEFINE q == p * (fixed + e)
  <2>2. q \in Nat
    BY <1>1, <2>1, Products
  <2> HIDE DEF q
  <2>3. q + a \in Nat
    BY <1>3, <2>2
  <2>4. QED BY <1>7, <2>3 DEF q
<1>9. p * (fixed + e) = p * fixed + p * e
  BY <1>1, <1>3, <1>6
<1>10. p * e = (IF config.isGlobalHist THEN 0 ELSE p * h) + (IF config.isGlobalTable THEN 0 ELSE p * t)
  <2>1. p * 0 = 0 /\ p * (h + t) = p * h + p * t
    BY <1>1
  <2>2. p * h \in Nat /\ p * t \in Nat
    BY <1>1, Products
  <2> DEFINE ph == p * h
             pt == p * t
             hs == IF config.isGlobalHist THEN 0 ELSE h
             ts == IF config.isGlobalTable THEN 0 ELSE t
  <2>3. p * hs = IF config.isGlobalHist THEN 0 ELSE ph
    BY <2>1
  <2>4. p * ts = IF config.isGlobalTable THEN 0 ELSE pt
    BY <2>1
  <2>5. p * (hs + ts) = p * hs + p * ts
    <3>1. hs \in Nat /\ ts \in Nat
      BY <1>1
    <3> HIDE DEF hs, ts
    <3>2. QED BY <1>1, <3>1
  <2>6. p * e = p * hs + p * ts
    BY <2>5
  <2> HIDE DEF hs, ts, e, ph, pt
  <2>7. p * e = (IF config.isGlobalHist THEN 0 ELSE ph) + (IF config.isGlobalTable THEN 0 ELSE pt)
    BY <2>3, <2>4, <2>6
  <2>8. QED BY <2>7 DEF ph, pt
<1>11. TheoreticalSize = p * fixed + (IF config.isGlobalHist THEN h ELSE p * h)
                                   + (IF config.isGlobalTable THEN t ELSE p * t)
  <2> DEFINE ph == p * h
             pt == p * t
             pf == p * fixed
  <2>1. ph \in Nat /\ pt \in Nat /\ pf \in Nat
    BY <1>1, <1>6, Products
  <2>2. TheoreticalSize = pf + (IF config.isGlobalHist THEN 0 ELSE ph)
                             + (IF config.isGlobalTable THEN 0 ELSE pt) + a
    <3> DEFINE pe == p * e
    <3>1. TheoreticalSize = pf + pe + a
      BY <1>7, <1>9
    <3>2. pe = (IF config.isGlobalHist THEN 0 ELSE ph) + (IF config.isGlobalTable THEN 0 ELSE pt)
      BY <1>10
    <3> HIDE DEF pe, ph, pt, pf, a, e
    <3>3. QED BY <1>3, <2>1, <3>1, <3>2
  <2> HIDE DEF ph, pt, pf
  <2>3. TheoreticalSize = pf + (IF config.isGlobalHist THEN h ELSE ph)
                             + (IF config.isGlobalTable THEN t ELSE pt)
    BY <1>1, <1>2, <2>1, <2>2
  <2>4. QED BY <2>3 DEF ph, pt, pf
<1>12. QED BY <1>8, <1>11 DEF p, h, t, g, fixed

-----------------------------------------------------------------------------
(* The invariant, of every configuration and for every trace.              *)

LEMMA PredictorInit ==
  ASSUME Init
  PROVE  PredictorInv
<1>1. config \in Configs /\ config \in Config /\ trace = <<>> /\ Len(trace) = 0
  BY ConfigsAssumption DEF Init
<1>2. config.fsmState \in SNT .. ST
  BY <1>1 DEF Config, SNT, ST
<1>3. initHist \in [Bits -> BOOLEAN] /\ initFsmTable \in [[Bits -> BOOLEAN] -> SNT .. ST]
  BY <1>2 DEF initHist, initFsmTable
<1>4. TypeOK
  <2>1. btb \in [Entries -> [isBranch : BOOLEAN, tag : Nat, target : Nat]]
    BY DEF Init
  <2>2. history \in [(IF config.isGlobalHist THEN {Global} ELSE Entries) -> [Bits -> BOOLEAN]]
    BY <1>3 DEF Init
  <2>3. fsmTable \in [(IF config.isGlobalTable THEN {Global} ELSE Entries) ->
                        [[Bits -> BOOLEAN] -> SNT .. ST]]
    BY <1>3 DEF Init
  <2>4. stats \in [br_num : Nat, flush_num : Nat, size : Nat]
    BY DEF Init
  <2>5. trace \in Seq(Branch)
    BY <1>1
  <2>6. phase \in {"line", "update", "end", "failed"}
    BY DEF Init
  <2>7. QED BY <1>1, <2>1, <2>2, <2>3, <2>4, <2>5, <2>6 DEF TypeOK
<1>5. ASSUME NEW c \in Branches PROVE KnownOf(c.pc)
  <2> DEFINE pc == c.pc
  <2>1. pc2btbIndex(pc) \in Entries
    BY <1>4, Places
  <2>2. btb = [i \in Entries |-> [isBranch |-> FALSE, tag |-> 0, target |-> 0]]
    BY DEF Init
  <2>3. Fresh(pc)
    BY <2>1, <2>2 DEF Fresh, TakesOver
  <2>4. 1 .. 0 = {}
    OBVIOUS
  <2>5. Stint(pc, 0) = {}
    BY <2>4, StintType
  <2>6. FoundHist(pc) = initHist
    BY <2>3 DEF FoundHist, HistSlot, Init
  <2>7. Outcomes(pc, 0) = initHist
    <3>1. Base(config.isGlobalHist, pc, 0) = {}
      BY <2>4, <2>5 DEF Base
    <3>2. Outcomes(pc, 0) = Hist(config.historySize, trace, {})
      BY <3>1, OutcomesAre
    <3>3. QED BY <3>2, HistEmpty DEF initHist, Bits
  <2>8. FoundTable(pc) = initFsmTable
    BY <2>3 DEF FoundTable, TableSlot, Init
  <2>9. ASSUME NEW idx \in [Bits -> BOOLEAN]
        PROVE  FoundTable(pc)[idx] = Counter(pc, 0, idx)
    <3>1. initFsmTable[idx] = config.fsmState
      BY DEF initFsmTable
    <3>2. Counter(pc, 0, idx) = config.fsmState
      BY <2>4, CountNone DEF Counter
    <3>3. QED BY <2>8, <3>1, <3>2
  <2>10. QED BY <1>1, <2>3, <2>5, <2>6, <2>7, <2>9 DEF KnownOf
<1>6. FlushesCounted
  <2>1. DOMAIN trace = {}
    BY <1>1
  <2>2. Flushes = {}
    BY <2>1 DEF Flushes
  <2>3. stats.br_num = 0 /\ stats.flush_num = 0
    BY DEF Init
  <2>4. QED BY <1>1, <2>2, <2>3, FS_EmptySet DEF FlushesCounted, Flushes
<1>7. QED BY <1>1, <1>4, <1>5, <1>6 DEF PredictorInv, PredictedNow, Init

LEMMA PredictorStep ==
  ASSUME PredictorInv, [Next]_vars
  PROVE  PredictorInv'
<1>0. /\ TypeOK /\ trace \in Seq(Branches) /\ FlushesCounted
      /\ \A c \in Branches : KnownOf(c.pc)
  BY DEF PredictorInv
<1>1. ASSUME UNCHANGED <<config, btb, history, fsmTable, trace>>,
             stats' \in [br_num : Nat, flush_num : Nat, size : Nat],
             stats'.br_num = stats.br_num, stats'.flush_num = stats.flush_num,
             phase' \in {"line", "update", "end", "failed"}, PredictedNow'
      PROVE  PredictorInv'
  <2>1. TypeOK'
    BY <1>0, <1>1 DEF TypeOK, Entries, Bits, Global, SNT, ST
  <2>2. \A c \in Branches : KnownOf(c.pc)'
    BY <1>0, <1>1, IdleKnown
  <2>3. FlushesCounted'
    <3>1. Flushes' = Flushes
      BY <1>1, IdleTrace
    <3>2. FlushesCounted' = (stats'.br_num = Len(trace') /\ stats'.flush_num = Cardinality(Flushes'))
      BY DEF FlushesCounted, Flushes
    <3>3. QED BY <1>0, <1>1, <3>1, <3>2 DEF FlushesCounted, Flushes
  <2>4. QED BY <1>0, <1>1, <2>1, <2>2, <2>3 DEF PredictorInv
<1>2. ASSUME NEW b \in Branches, BP_predict(b) PROVE PredictorInv'
  <2>1. UNCHANGED <<config, btb, history, fsmTable, stats, trace>> /\ phase' = "update"
    BY <1>2 DEF BP_predict
  <2>2. line' = [branch |-> b, taken |-> PredictTaken(b.pc), dst |-> PredictDst(b.pc)]
    BY <1>2 DEF BP_predict
  <2>3. \A pc : PredictTaken(pc)' = PredictTaken(pc) /\ PredictDst(pc)' = PredictDst(pc)
    <3>1. \A pc : pc2btbIndex(pc)' = pc2btbIndex(pc) /\ pc2tag(pc)' = pc2tag(pc)
      BY <2>1, IdleTrace
    <3>2. \A hist, pc : tableIdxHandler(hist, pc)' = tableIdxHandler(hist, pc)
      BY <2>1 DEF tableIdxHandler, shareHandler, Bits
    <3>3. \A pc : HistSlot(pc)' = HistSlot(pc) /\ TableSlot(pc)' = TableSlot(pc)
      BY <2>1, <3>1 DEF HistSlot, TableSlot, Global
    <3>4. \A pc : PredictTaken(pc)' = PredictTaken(pc)
      BY <2>1, <3>1, <3>2, <3>3 DEF PredictTaken, fsmStateMapping, WT, ST
    <3>5. QED BY <2>1, <3>1, <3>4 DEF PredictDst
  <2>4. PredictedNow'
    BY <2>2, <2>3 DEF PredictedNow
  <2>5. QED BY <1>0, <1>1, <2>1, <2>4 DEF TypeOK
<1>3. ASSUME BP_update PROVE PredictorInv'
  <2> DEFINE b == line.branch
  <2>1. Updated(b) /\ b \in Branches /\ b \in Branch
    BY <1>3, UpdateDoes DEF Updated, Grown
  <2>2. config' = config /\ trace' = Append(trace, b)
    BY <2>1 DEF Updated, Grown
  <2>3. phase' = "line"
    BY <1>3 DEF BP_update
  <2> HIDE DEF b
  <2>4. FlushesCounted' /\ stats' \in [br_num : Nat, flush_num : Nat, size : Nat]
    BY <1>3, CountedAfter
  <2>5. TypeOK'
    <3>1. Entries' = Entries /\ Bits' = Bits /\ Global' = Global
      BY <2>2 DEF Entries, Bits, Global
    <3>2. trace' \in Seq(Branch) /\ config' \in Configs
      BY <1>0, <2>1, <2>2 DEF TypeOK
    <3>3. QED BY <1>0, <2>1, <2>2, <2>3, <2>4, <3>1, <3>2, UpdatedTypes DEF TypeOK, SNT, ST
  <2>6. trace' \in Seq(Branches)
    BY <1>0, <2>1, <2>2
  <2>7. \A c \in Branches : KnownOf(c.pc)'
    BY <1>0, <2>1, KnownAfter
  <2>8. PredictedNow'
    BY <2>3 DEF PredictedNow
  <2>9. QED BY <2>4, <2>5, <2>6, <2>7, <2>8 DEF PredictorInv
<1>4. ASSUME BP_GetStats PROVE PredictorInv'
  <2>1. TheoreticalSize \in Nat
    BY <1>0, SizeIs
  <2>2. stats' = [stats EXCEPT !.size = TheoreticalSize]
    BY <1>4 DEF BP_GetStats
  <2>3. stats \in [br_num : Nat, flush_num : Nat, size : Nat]
    BY <1>0 DEF TypeOK
  <2>4. /\ stats' \in [br_num : Nat, flush_num : Nat, size : Nat]
        /\ stats'.br_num = stats.br_num /\ stats'.flush_num = stats.flush_num
    BY <2>1, <2>2, <2>3
  <2>5. PredictedNow'
    BY <1>4 DEF BP_GetStats, PredictedNow
  <2>6. QED BY <1>1, <1>4, <2>4, <2>5 DEF BP_GetStats
<1>5. ASSUME BadTrace PROVE PredictorInv'
  <2>1. PredictedNow'
    BY <1>5 DEF BadTrace, PredictedNow
  <2>2. QED BY <1>0, <1>1, <1>5, <2>1 DEF BadTrace, TypeOK
<1>6. ASSUME UNCHANGED vars PROVE PredictorInv'
  <2>1. UNCHANGED <<config, btb, history, fsmTable, stats, phase, line, trace>>
    BY <1>6 DEF vars
  <2>2. \A pc : PredictTaken(pc)' = PredictTaken(pc) /\ PredictDst(pc)' = PredictDst(pc)
    <3>1. \A pc : pc2btbIndex(pc)' = pc2btbIndex(pc) /\ pc2tag(pc)' = pc2tag(pc)
      BY <2>1, IdleTrace
    <3>2. \A hist, pc : tableIdxHandler(hist, pc)' = tableIdxHandler(hist, pc)
      BY <2>1 DEF tableIdxHandler, shareHandler, Bits
    <3>3. \A pc : HistSlot(pc)' = HistSlot(pc) /\ TableSlot(pc)' = TableSlot(pc)
      BY <2>1, <3>1 DEF HistSlot, TableSlot, Global
    <3>4. \A pc : PredictTaken(pc)' = PredictTaken(pc)
      BY <2>1, <3>1, <3>2, <3>3 DEF PredictTaken, fsmStateMapping, WT, ST
    <3>5. QED BY <2>1, <3>1, <3>4 DEF PredictDst
  <2>3. PredictedNow'
    BY <2>1, <2>2 DEF PredictorInv, PredictedNow
  <2>4. QED BY <1>0, <1>1, <2>1, <2>3 DEF TypeOK
<1>7. QED
  BY <1>2, <1>3, <1>4, <1>5, <1>6 DEF Next, Ended

-----------------------------------------------------------------------------
(* The size counts what is kept.                                           *)

LEMMA AllIndices ==
  ASSUME NEW S, IsFiniteSet(S)
  PROVE  IsFiniteSet([S -> BOOLEAN]) /\ Cardinality([S -> BOOLEAN]) = 2^Cardinality(S)
<1> DEFINE F == [R \in SUBSET S |-> [i \in S |-> i \in R]]
<1>1. F \in [SUBSET S -> [S -> BOOLEAN]]
  OBVIOUS
<1>2. ASSUME NEW R \in SUBSET S, NEW Q \in SUBSET S, F[R] = F[Q] PROVE R = Q
  <2>1. \A i \in S : (i \in R) = (i \in Q)
    <3>1. TAKE i \in S
    <3>2. F[R][i] = (i \in R) /\ F[Q][i] = (i \in Q)
      OBVIOUS
    <3> HIDE DEF F
    <3>3. QED BY <1>2, <3>2
  <2>2. QED BY <2>1
<1>3. ASSUME NEW f \in [S -> BOOLEAN] PROVE \E R \in SUBSET S : F[R] = f
  <2> DEFINE R == {i \in S : f[i]}
  <2>1. R \in SUBSET S
    OBVIOUS
  <2>2. F[R] = [i \in S |-> i \in R]
    BY <2>1
  <2>3. \A i \in S : (i \in R) = f[i]
    OBVIOUS
  <2>4. [i \in S |-> i \in R] = f
    BY <2>3
  <2> HIDE DEF F, R
  <2>5. QED BY <2>1, <2>2, <2>4
<1>4. ExistsBijection(SUBSET S, [S -> BOOLEAN])
  <2> HIDE DEF F
  <2>1. F \in Injection(SUBSET S, [S -> BOOLEAN])
    BY <1>1, <1>2 DEF Injection, IsInjective
  <2>2. F \in Surjection(SUBSET S, [S -> BOOLEAN])
    BY <1>1, <1>3 DEF Surjection
  <2>3. QED BY <2>1, <2>2 DEF ExistsBijection, Bijection
<1>5. QED BY <1>4, FS_SUBSET, FS_Bijection

Cells(f) == UNION {{slot} \X DOMAIN f[slot] : slot \in DOMAIN f}

LEMMA CellsCounted ==
  ASSUME NEW S, IsFiniteSet(S), NEW T, IsFiniteSet(T),
         NEW f, DOMAIN f = S, \A slot \in S : DOMAIN f[slot] = T
  PROVE  Cardinality(Cells(f)) = Cardinality(S) * Cardinality(T)
<1>1. \A x : x \in Cells(f) <=> \E slot \in S : x \in {slot} \X T
  BY DEF Cells
<1>2. \A x : x \in S \X T <=> \E slot \in S : x \in {slot} \X T
  OBVIOUS
<1>3. Cells(f) = S \X T
  BY <1>1, <1>2
<1>4. QED BY <1>3, FS_Product

LEMMA StorageCounted ==
  ASSUME TypeOK
  PROVE  TheoreticalSize =
           Cardinality(DOMAIN btb) * (VALID_SIZE + config.tagSize + INST_SIZE)
           + Cardinality(Cells(history)) + FSM_STATE_SIZE * Cardinality(Cells(fsmTable))
<1> DEFINE p == 2^config.btbIndexSize
           h == config.historySize
           t == 2^config.historySize
           fixed == VALID_SIZE + config.tagSize + INST_SIZE
           S == IF config.isGlobalHist THEN {Global} ELSE Entries
           T == IF config.isGlobalTable THEN {Global} ELSE Entries
<1>1. /\ p \in Nat \ {0} /\ h \in Nat \ {0} /\ t \in Nat
      /\ config.isGlobalHist \in BOOLEAN /\ config.isGlobalTable \in BOOLEAN
  BY Configuration, PowerPositive
<1>2. IsFiniteSet(Entries) /\ Cardinality(Entries) = p
  <2> HIDE DEF p
  <2>1. Entries = 0 .. p - 1
    BY DEF Entries, p
  <2>2. QED BY <1>1, <2>1, FS_Interval
<1>3. IsFiniteSet(Bits) /\ Cardinality(Bits) = h
  <2> HIDE DEF h
  <2>1. Bits = 0 .. h - 1
    BY DEF Bits, h
  <2>2. QED BY <1>1, <2>1, FS_Interval
<1>4. IsFiniteSet([Bits -> BOOLEAN]) /\ Cardinality([Bits -> BOOLEAN]) = t
  BY <1>3, AllIndices
<1>5. /\ IsFiniteSet(S) /\ Cardinality(S) = IF config.isGlobalHist THEN 1 ELSE p
      /\ IsFiniteSet(T) /\ Cardinality(T) = IF config.isGlobalTable THEN 1 ELSE p
  <2> HIDE DEF p
  <2>1. QED BY <1>2, FS_Singleton
<1> HIDE DEF p, h, t, S, T, fixed
<1>6. DOMAIN history = S /\ \A slot \in S : DOMAIN history[slot] = Bits
  BY DEF TypeOK, S
<1>7. DOMAIN fsmTable = T /\ \A slot \in T : DOMAIN fsmTable[slot] = [Bits -> BOOLEAN]
  BY DEF TypeOK, T
<1>8. DOMAIN btb = Entries
  BY DEF TypeOK
<1>9. Cardinality(Cells(history)) = Cardinality(S) * h
  BY <1>3, <1>5, <1>6, CellsCounted
<1>10. Cardinality(Cells(fsmTable)) = Cardinality(T) * t
  BY <1>4, <1>5, <1>7, CellsCounted
<1>11. Cardinality(S) * h = IF config.isGlobalHist THEN h ELSE p * h
  <2>1. 1 * h = h
    BY <1>1
  <2>2. QED BY <1>5, <2>1
<1>12. 2 * (Cardinality(T) * t) = IF config.isGlobalTable THEN 2 * t ELSE p * (2 * t)
  <2>1. 2 * (1 * t) = 2 * t /\ 2 * (p * t) = p * (2 * t)
    BY <1>1
  <2>2. QED BY <1>5, <2>1
<1>13. TheoreticalSize = p * fixed + (IF config.isGlobalHist THEN h ELSE p * h)
                                   + (IF config.isGlobalTable THEN 2 * t ELSE p * (2 * t))
  BY SizeIs DEF p, h, t, fixed, FSM_STATE_SIZE
<1> DEFINE pf == p * fixed
           hs == Cardinality(Cells(history))
           ts == 2 * Cardinality(Cells(fsmTable))
<1>14. /\ hs = IF config.isGlobalHist THEN h ELSE p * h
       /\ ts = IF config.isGlobalTable THEN 2 * t ELSE p * (2 * t)
  BY <1>9, <1>10, <1>11, <1>12
<1>15. pf = Cardinality(DOMAIN btb) * fixed
  BY <1>2, <1>8
<1>16. TheoreticalSize = pf + hs + ts
  <2>1. TheoreticalSize = pf + (IF config.isGlobalHist THEN h ELSE p * h)
                             + (IF config.isGlobalTable THEN 2 * t ELSE p * (2 * t))
    BY <1>13
  <2> HIDE DEF pf, hs, ts
  <2>2. QED BY <1>14, <2>1
<1> HIDE DEF pf
<1>17. QED BY <1>15, <1>16 DEF fixed, FSM_STATE_SIZE

-----------------------------------------------------------------------------
(* A branch that has done the same often enough is predicted right.        *)

LEMMA SteadyStint ==
  ASSUME NEW m \in Nat, NEW first \in 1 .. m, NEW pc,
         \A j \in first .. m : trace[j].pc = pc
  PROVE  first .. m \subseteq Stint(pc, m)
<1>1. ASSUME NEW j \in first .. m PROVE j \in SameBranch(pc, m)
  <2>1. j \in 1 .. m /\ trace[j].pc = pc
    OBVIOUS
  <2>2. QED BY <2>1 DEF SameBranch, SameEntry
<1>2. ASSUME NEW k \in SameEntry(pc, m) \ SameBranch(pc, m) PROVE k < first
  <2>1. k \in 1 .. m
    BY DEF SameEntry
  <2>2. k \notin first .. m
    BY <1>1
  <2>3. QED BY <2>1, <2>2
<1>3. ASSUME NEW j \in first .. m PROVE j \in Stint(pc, m)
  <2>1. j \in SameBranch(pc, m)
    BY <1>1
  <2>2. ASSUME NEW k \in SameEntry(pc, m) \ SameBranch(pc, m) PROVE k < j
    <3>1. k < first /\ k \in 1 .. m
      BY <1>2 DEF SameEntry
    <3>2. QED BY <3>1
  <2>3. QED BY <2>1, <2>2 DEF Stint
<1>4. QED BY <1>3

(* The same branch does the same at least historySize times, up to m.      *)
Repeats(first, m, pc, taken) ==
  /\ m \in Nat /\ first \in 1 .. m /\ first + config.historySize <= m + 1
  /\ taken \in BOOLEAN
  /\ \A j \in first .. m : trace[j].pc = pc /\ trace[j].taken = taken

LEMMA SteadyIndex ==
  ASSUME TypeOK, NEW first, NEW m, NEW pc, NEW taken, Repeats(first, m, pc, taken)
  PROVE  Index(pc, m) = tableIdxHandler([i \in Bits |-> taken], pc)
<1> DEFINE h == config.historySize
           S == Base(config.isGlobalHist, pc, m)
<1>0. /\ m \in Nat /\ first \in 1 .. m /\ first + h <= m + 1 /\ taken \in BOOLEAN
      /\ \A j \in first .. m : trace[j].pc = pc /\ trace[j].taken = taken
  BY DEF Repeats
<1>1. h \in Nat \ {0}
  BY Configuration
<1> HIDE DEF h
<1>2. h <= m /\ m - h + 1 \in first .. m
  BY <1>0, <1>1
<1>3. first .. m \subseteq S
  <2>1. first .. m \subseteq Stint(pc, m)
    BY <1>0, SteadyStint
  <2>2. first .. m \subseteq 1 .. m
    BY <1>0
  <2>3. QED BY <2>1, <2>2 DEF Base
<1>4. S \subseteq 1 .. m
  BY <1>0, StintType
<1> HIDE DEF S
<1>5. m - h + 1 .. m \subseteq S
  BY <1>0, <1>1, <1>2, <1>3
<1>6. \A j \in m - h + 1 .. m : trace[j].taken = taken
  <2>1. \A j \in m - h + 1 .. m : j \in first .. m
    BY <1>0, <1>1, <1>2
  <2>2. QED BY <1>0, <2>1
<1>7. Hist(h, trace, S) = [i \in 0 .. h - 1 |-> taken]
  <2>1. Steady(h, m, S, trace, taken)
    BY <1>0, <1>1, <1>2, <1>4, <1>5, <1>6 DEF Steady
  <2>2. QED BY <2>1, HistSteady
<1>8. Outcomes(pc, m) = [i \in Bits |-> taken]
  BY <1>7, OutcomesAre DEF S, h, Bits
<1>9. QED BY <1>8 DEF Index

LEMMA SaturatesTwice ==
  ASSUME NEW c \in SNT .. ST, NEW taken \in BOOLEAN
  PROVE  Saturate(Saturate(c, taken), taken) >= WT <=> taken
<1>1. c \in {0, 1, 2, 3}
  BY DEF SNT, ST
<1>2. QED BY <1>1 DEF Saturate, SNT, WT, ST

LEMMA TrainedGoal ==
  ASSUME TypeOK, NEW n, n = Len(trace), n >= config.historySize + 2,
         \A j \in n - (config.historySize + 2) + 1 .. n : trace[j] = trace[n]
  PROVE  ShouldGo(trace[n].pc, n) = NextPc(trace[n])
<1> DEFINE h == config.historySize
           b == trace[n]
           pc == b.pc
           first == n - h - 1
           idx == tableIdxHandler([i \in Bits |-> b.taken], pc)
           S == Trainers(pc, n, idx)
           count(m) == CountOutcomes(config.fsmState, trace, S, m)
<1>1. h \in Nat \ {0} /\ config.fsmState \in SNT .. ST /\ trace \in Seq(Branch)
  BY Configuration DEF TypeOK
<1>2. n \in Nat /\ DOMAIN trace = 1 .. n
  BY <1>1
<1>3. /\ n >= h + 2 /\ n - (h + 2) + 1 = first /\ first \in 1 .. n
      /\ n - 1 \in first .. n /\ n - 2 \in first .. n /\ n \in first .. n
      /\ first \in 1 .. n - 2 /\ first \in 1 .. n - 1 /\ n - 1 \in Nat /\ n - 2 \in Nat
  <2>1. h \in Nat /\ h >= 1 /\ n >= h + 2
    BY <1>1
  <2> HIDE DEF h
  <2>2. first \in Nat /\ first >= 1 /\ first <= n - 2 /\ n - (h + 2) + 1 = first
    BY <1>2, <2>1
  <2> HIDE DEF first
  <2>3. QED BY <1>2, <2>1, <2>2
<1>4. \A j \in first .. n : trace[j] = b
  BY <1>3
<1>5. b \in Branch /\ b.taken \in BOOLEAN
  <2>1. n \in 1 .. n
    BY <1>3
  <2>2. b \in Branch
    BY <1>1, <1>2, <2>1
  <2>3. QED BY <2>2 DEF Branch
<1>6. /\ first + h <= n - 2 + 1 /\ first + h <= n - 1 + 1 /\ first + h <= n + 1
  BY <1>1, <1>2
<1> HIDE DEF h, b, first
<1>7. \A j \in first .. n : trace[j].pc = pc /\ trace[j].taken = b.taken
  BY <1>4
<1>8. ASSUME NEW m \in {n - 2, n - 1, n} PROVE Index(pc, m) = idx
  <2>1. m \in Nat /\ m <= n /\ first \in 1 .. m /\ first + h <= m + 1
    BY <1>1, <1>2, <1>3, <1>6
  <2>2. \A j \in first .. m : trace[j].pc = pc /\ trace[j].taken = b.taken
    BY <1>2, <1>3, <1>7, <2>1
  <2>3. Repeats(first, m, pc, b.taken)
    BY <1>5, <2>1, <2>2 DEF Repeats, h
  <2> HIDE DEF pc
  <2>4. Index(pc, m) = tableIdxHandler([i \in Bits |-> b.taken], pc)
    BY <2>3, SteadyIndex, ZenonT(30)
  <2>5. QED BY <2>4
<1>9. first .. n \subseteq Stint(pc, n)
  <2>1. \A j \in first .. n : trace[j].pc = pc
    BY <1>7
  <2>2. first \in 1 .. n
    BY <1>2, <1>3
  <2> HIDE DEF pc
  <2>3. QED BY <1>2, <2>1, <2>2, SteadyStint
<1>10. n - 1 \in S /\ n \in S
  <2> DEFINE R == Base(config.isGlobalTable, pc, n)
  <2>1. n - 1 \in R /\ n \in R
    BY <1>2, <1>3, <1>9 DEF Base
  <2>2. trace[n - 1].pc = pc /\ trace[n].pc = pc
    BY <1>3, <1>7
  <2>3. n - 1 - 1 = n - 2 /\ Index(pc, n - 2) = idx /\ Index(pc, n - 1) = idx
    BY <1>2, <1>8
  <2>4. S = {j \in R : Index(trace[j].pc, j - 1) = idx}
    BY TrainersAre
  <2> HIDE DEF R, S, idx, pc
  <2>5. QED BY <2>1, <2>2, <2>3, <2>4
<1>11. Counter(pc, n, Index(pc, n)) = count(n)
  <2>1. Index(pc, n) = idx
    BY <1>8
  <2>2. QED BY <2>1 DEF Counter
<1>12. count(n - 2) \in SNT .. ST
  <2> HIDE DEF S
  <2>1. QED BY <1>1, <1>3, CountType
<1>13. count(n - 1) = Saturate(count(n - 2), b.taken)
  <2> HIDE DEF S
  <2>1. \A m \in Nat : count(m + 1) = IF m + 1 \in S THEN Saturate(count(m), trace[m + 1].taken)
                                      ELSE count(m)
    BY CountStep
  <2>2. n - 2 + 1 = n - 1 /\ trace[n - 1].taken = b.taken
    BY <1>2, <1>3, <1>7
  <2> HIDE DEF count
  <2>3. QED BY <1>3, <1>10, <2>1, <2>2
<1>14. count(n) = Saturate(count(n - 1), b.taken)
  <2> HIDE DEF S
  <2>1. \A m \in Nat : count(m + 1) = IF m + 1 \in S THEN Saturate(count(m), trace[m + 1].taken)
                                      ELSE count(m)
    BY CountStep
  <2>2. n - 1 + 1 = n /\ trace[n].taken = b.taken
    BY <1>2, <1>3, <1>7
  <2> HIDE DEF count
  <2>3. QED BY <1>3, <1>10, <2>1, <2>2
<1>15. count(n) >= WT <=> b.taken
  <2> HIDE DEF count
  <2>1. QED BY <1>5, <1>12, <1>13, <1>14, SaturatesTwice
<1>16. Stint(pc, n) # {} /\ Newest(Stint(pc, n)) = n
  <2>1. n \in Stint(pc, n)
    BY <1>3, <1>9
  <2>2. Stint(pc, n) \subseteq 1 .. n
    BY <1>2, StintType
  <2>3. Newest(Stint(pc, n)) \in Stint(pc, n) /\ \A k \in Stint(pc, n) : k <= Newest(Stint(pc, n))
    BY <1>2, <2>1, <2>2, HasNewest
  <2>4. n <= Newest(Stint(pc, n)) /\ Newest(Stint(pc, n)) \in 1 .. n
    BY <2>1, <2>2, <2>3
  <2>5. QED BY <1>2, <2>1, <2>4
<1>17. ShouldTake(pc, n) <=> b.taken
  <2> HIDE DEF count
  <2>1. QED BY <1>11, <1>15, <1>16 DEF ShouldTake
<1>18. ShouldGo(pc, n) = NextPc(b)
  BY <1>16, <1>17 DEF ShouldGo, NextPc, b
<1>19. QED BY <1>18 DEF b

-----------------------------------------------------------------------------
(* For every configuration and every trace, what an entry, a history and a *)
(* counter hold is what the trace since they were last reset warrants.     *)
THEOREM PredictorInvariance == Spec => []PredictorInv
<1>1. Init => PredictorInv
  BY PredictorInit
<1>2. PredictorInv /\ [Next]_vars => PredictorInv'
  BY PredictorStep
<1>3. QED BY <1>1, <1>2, PTL DEF Spec

(* Entries, histories and counters stay what they are declared to be       *)
(* (bp.cpp:40).                                                            *)
THEOREM PredictorTypes == Spec => []TypeOK
<1>1. PredictorInv => TypeOK
  BY DEF PredictorInv
<1>2. QED BY <1>1, PredictorInvariance, PTL

(* Every prediction is what the trace so far warrants (bp.cpp:239-325).    *)
THEOREM PredictionsRight == Spec => []PredictionsFollowTrace
<1>1. ASSUME PredictorInv PROVE PredictionsFollowTrace
  <2>1. SUFFICES ASSUME phase = "update"
                 PROVE  /\ line.taken = ShouldTake(line.branch.pc, Len(trace))
                        /\ line.dst = ShouldGo(line.branch.pc, Len(trace))
    BY DEF PredictionsFollowTrace
  <2>2. /\ line.branch \in Branches /\ line.taken = PredictTaken(line.branch.pc)
        /\ line.dst = PredictDst(line.branch.pc)
    BY <1>1, <2>1 DEF PredictorInv, PredictedNow
  <2>3. TypeOK /\ KnownOf(line.branch.pc)
    BY <1>1, <2>2 DEF PredictorInv
  <2>4. QED BY <2>2, <2>3, PredictionKnown
<1>2. QED BY <1>1, PredictorInvariance, PTL

(* What BP_GetStats reports: the flushes are the branches after which the  *)
(* program went on elsewhere than predicted, and each of the four formulas *)
(* counts what is kept (bp.cpp:317-346).                                   *)
SizeReported == phase = "end" => stats.size = TheoreticalSize

LEMMA SizeReportedInvariance == Spec => []SizeReported
<1>1. Init => SizeReported
  BY DEF Init, SizeReported
<1>2. ASSUME PredictorInv, SizeReported, [Next]_vars PROVE SizeReported'
  <2>1. ASSUME config' = config, stats'.size = TheoreticalSize PROVE SizeReported'
    <3>1. TheoreticalSize' = TheoreticalSize
      BY <2>1 DEF TheoreticalSize, Size, INST_SIZE, VALID_SIZE, FSM_STATE_SIZE
    <3>2. QED BY <2>1, <3>1 DEF SizeReported
  <2>2. CASE BP_GetStats
    <3>1. stats \in [br_num : Nat, flush_num : Nat, size : Nat]
      BY <1>2 DEF PredictorInv, TypeOK
    <3> DEFINE s == TheoreticalSize
    <3>2. stats' = [stats EXCEPT !.size = s] /\ config' = config
      BY <2>2 DEF BP_GetStats
    <3> HIDE DEF s
    <3>3. stats'.size = s
      BY <3>1, <3>2
    <3>4. QED BY <2>1, <3>2, <3>3 DEF s
  <2>3. CASE \E b \in Branches : BP_predict(b)
    BY <2>3 DEF BP_predict, SizeReported
  <2>4. CASE BP_update
    BY <2>4 DEF BP_update, SizeReported
  <2>5. CASE BadTrace
    BY <2>5 DEF BadTrace, SizeReported
  <2>6. CASE UNCHANGED vars
    <3>1. config' = config /\ stats' = stats /\ phase' = phase
      BY <2>6 DEF vars
    <3>2. CASE phase = "end"
      BY <1>2, <2>1, <3>1, <3>2 DEF SizeReported
    <3>3. CASE phase # "end"
      BY <3>1, <3>3 DEF SizeReported
    <3>4. QED BY <3>2, <3>3
  <2>7. QED BY <1>2, <2>2, <2>3, <2>4, <2>5, <2>6 DEF Next, Ended
<1>3. QED BY <1>1, <1>2, PredictorInvariance, PTL DEF Spec

(* The flushes counted are the wrong predictions, and the size reported is *)
(* that of the state kept (bp.cpp:317, 331-346).                           *)
THEOREM Statistics == Spec => []StatisticsRight
<1>1. ASSUME PredictorInv, SizeReported PROVE StatisticsRight
  <2>1. TypeOK /\ FlushesCounted
    BY <1>1 DEF PredictorInv
  <2>2. TheoreticalSize =
           Cardinality(DOMAIN btb) * (VALID_SIZE + config.tagSize + INST_SIZE)
           + Cardinality(Cells(history)) + FSM_STATE_SIZE * Cardinality(Cells(fsmTable))
    BY <2>1, StorageCounted
  <2>3. SizeIsStorage
    BY <1>1, <2>2, Zenon DEF SizeIsStorage, SizeReported, Cells
  <2>4. QED BY <2>1, <2>3 DEF StatisticsRight
<1>2. QED BY <1>1, PredictorInvariance, SizeReportedInvariance, PTL

(* A branch that does the same historySize + 2 times in a row is predicted *)
(* right the next time (bp.cpp:290-325).                                   *)
THEOREM TrainedRight == Spec => []Trained
<1>1. ASSUME PredictorInv PROVE Trained
  <2>1. SUFFICES ASSUME Len(trace) >= config.historySize + 2,
                        \A j \in Len(trace) - (config.historySize + 2) + 1 .. Len(trace) :
                          trace[j] = trace[Len(trace)]
                 PROVE  PredictDst(trace[Len(trace)].pc) = NextPc(trace[Len(trace)])
    BY DEF Trained
  <2>2. PICK n : n = Len(trace)
    OBVIOUS
  <2>3. TypeOK /\ trace \in Seq(Branches)
    BY <1>1 DEF PredictorInv
  <2>4. n \in Nat /\ config.historySize \in Nat \ {0}
    BY <2>2, <2>3, Configuration
  <2>5. trace[n] \in Branches
    <3>1. n \in 1 .. n
      BY <2>1, <2>2, <2>4
    <3>2. QED BY <2>2, <2>3, <3>1
  <2>6. PredictDst(trace[n].pc) = ShouldGo(trace[n].pc, n)
    BY <1>1, <2>2, <2>3, <2>5, PredictionKnown DEF PredictorInv
  <2>7. ShouldGo(trace[n].pc, n) = NextPc(trace[n])
    BY <2>1, <2>2, <2>3, TrainedGoal
  <2>8. QED BY <2>2, <2>6, <2>7
<1>2. QED BY <1>1, PredictorInvariance, PTL
===============================================================================
