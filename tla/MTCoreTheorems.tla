---------------------------- MODULE MTCoreTheorems ----------------------------
(***************************************************************************)
(* Facts about the operators of MTCore that the proofs about the cores     *)
(* cite.                                                                   *)
(***************************************************************************)
EXTENDS MTCore, WellFoundedInduction, TLAPS

(* A nonempty set of naturals has a least element.                         *)
LEMMA LeastNatural ==
  ASSUME NEW T, T \subseteq Nat, T # {}
  PROVE  \E x \in T : \A y \in T : x <= y
<1>1. \E x \in T : \A y \in T : ~(<<y, x>> \in OpToRel(<, Nat))
  BY NatLessThanWellFounded, WFMin
<1>2. PICK x \in T : \A y \in T : ~(<<y, x>> \in OpToRel(<, Nat))
  BY <1>1
<1>3. ASSUME NEW y \in T PROVE x <= y
  <2>1. y \in Nat /\ x \in Nat
    OBVIOUS
  <2>2. <<y, x>> \in OpToRel(<, Nat) <=> y < x
    BY <2>1 DEF OpToRel
  <2>3. ~(y < x)
    BY <1>2, <2>2, Zenon
  <2>4. QED BY <2>1, <2>3
<1>4. QED BY <1>2, <1>3

(* Induction over the naturals, for a set instead of a predicate.          *)
LEMMA InductiveNaturals ==
  ASSUME NEW T, 0 \in T, \A n \in Nat : n \in T => n + 1 \in T
  PROVE  Nat \subseteq T
<1> DEFINE Missing == Nat \ T
<1>1. SUFFICES ASSUME Missing # {} PROVE FALSE
  OBVIOUS
<1>2. PICK x \in Missing : \A y \in Missing : x <= y
  <2>1. Missing \subseteq Nat
    OBVIOUS
  <2> HIDE DEF Missing
  <2>2. QED BY <1>1, <2>1, LeastNatural
<1>3. x \in Nat /\ x # 0 /\ x - 1 \in Nat /\ x - 1 + 1 = x
  OBVIOUS
<1>4. x - 1 \in T
  BY <1>2, <1>3
<1>5. QED BY <1>3, <1>4

-----------------------------------------------------------------------------
(* Round robin.                                                            *)

(* RRDistance numbers the threads 0 .. N-1 without repetition.             *)
LEMMA DistanceInjective ==
  ASSUME NEW from \in Threads
  PROVE  /\ \A t \in Threads : RRDistance(from, t) \in 0 .. N - 1
         /\ \A t, u \in Threads :
              RRDistance(from, t) = RRDistance(from, u) => t = u
BY SizesAssumption DEF Threads, RRDistance

(* RRpolicy stays among the threads.                                       *)
LEMMA RRpolicyThread ==
  ASSUME NEW t \in Threads
  PROVE  RRpolicy(t) \in Threads
BY SizesAssumption DEF Threads, RRpolicy

(* Among live threads there is a first one in the order of Before, and     *)
(* only one.                                                               *)
LEMMA FirstExists ==
  ASSUME NEW from \in Threads,
         NEW timer \in [Threads -> Nat],
         NEW done \in [Threads -> BOOLEAN],
         isRunningThreads(done)
  PROVE  \E t \in Threads :
           ~done[t] /\ \A u \in Threads : ~done[u] => Before(from, timer, t, u)
<1> DEFINE Live == {t \in Threads : ~done[t]}
           Times == {timer[t] : t \in Live}
<1>1. Times # {} /\ Times \subseteq Nat
  BY DEF isRunningThreads
<1>2. PICK m \in Times : \A x \in Times : m <= x
  BY <1>1, LeastNatural
<1> DEFINE Soonest == {t \in Live : timer[t] = m}
           Places  == {RRDistance(from, t) : t \in Soonest}
<1>3. Places # {} /\ Places \subseteq Nat
  BY <1>2, DistanceInjective
<1>4. PICK d \in Places : \A x \in Places : d <= x
  <2> HIDE DEF Places
  <2> QED BY <1>3, LeastNatural
<1>5. PICK t \in Soonest : RRDistance(from, t) = d
  BY <1>4
<1>6. ASSUME NEW u \in Threads, ~done[u]
      PROVE  Before(from, timer, t, u)
  <2>1. timer[t] = m /\ timer[u] \in Times
    BY <1>5, <1>6
  <2>2. m <= timer[u] /\ m \in Nat /\ timer[u] \in Nat
    BY <2>1, <1>1, <1>2
  <2>3. CASE timer[u] = m
    <3>1. RRDistance(from, u) \in Places
      BY <2>3, <1>6
    <3>2. QED BY <3>1, <2>1, <2>3, <1>4, <1>5 DEF Before
  <2>4. CASE timer[u] # m
    <3>1. timer[t] < timer[u]
      BY <2>1, <2>2, <2>4
    <3>2. QED BY <3>1 DEF Before
  <2>5. QED BY <2>3, <2>4
<1>7. QED BY <1>5, <1>6

LEMMA FirstUnique ==
  ASSUME NEW from \in Threads,
         NEW timer \in [Threads -> Nat],
         NEW t \in Threads, NEW u \in Threads,
         Before(from, timer, t, u), Before(from, timer, u, t)
  PROVE  t = u
<1>1. RRDistance(from, t) \in Nat /\ RRDistance(from, u) \in Nat
  BY DistanceInjective
<1>2. timer[t] \in Nat /\ timer[u] \in Nat
  OBVIOUS
<1>3. RRDistance(from, t) = RRDistance(from, u)
  BY <1>1, <1>2 DEF Before
<1>4. QED BY <1>3, DistanceInjective

(* What the cores rely on: FirstReady returns a live thread, and no live   *)
(* thread would be ready sooner.                                           *)
LEMMA FirstReadyIsFirst ==
  ASSUME NEW from \in Threads,
         NEW timer \in [Threads -> Nat],
         NEW done \in [Threads -> BOOLEAN],
         isRunningThreads(done)
  PROVE  LET t == FirstReady(from, timer, done) IN
         /\ t \in Threads
         /\ ~done[t]
         /\ \A u \in Threads : ~done[u] => Before(from, timer, t, u)
<1>1. FirstReady(from, timer, done) =
        CHOOSE t \in Threads :
          ~done[t] /\ \A u \in Threads : ~done[u] => Before(from, timer, t, u)
  BY DEF FirstReady
<1>2. QED BY <1>1, FirstExists

(* Whoever is first is what FirstReady returns.                            *)
LEMMA FirstReadyIs ==
  ASSUME NEW from \in Threads,
         NEW timer \in [Threads -> Nat],
         NEW done \in [Threads -> BOOLEAN],
         NEW t \in Threads, ~done[t],
         \A u \in Threads : ~done[u] => Before(from, timer, t, u)
  PROVE  FirstReady(from, timer, done) = t
<1> DEFINE f == FirstReady(from, timer, done)
<1>1. isRunningThreads(done)
  BY DEF isRunningThreads
<1>2. /\ f \in Threads
      /\ ~done[f]
      /\ \A u \in Threads : ~done[u] => Before(from, timer, f, u)
  BY <1>1, FirstReadyIsFirst
<1>3. QED
  <2> HIDE DEF f
  <2>1. Before(from, timer, t, f) /\ Before(from, timer, f, t)
    BY <1>2
  <2>2. f = t
    BY <1>2, <2>1, FirstUnique
  <2>3. QED BY <2>2 DEF f

-----------------------------------------------------------------------------
(* Timers.                                                                 *)

(* Timers stay natural numbers.                                            *)
LEMMA HandlerType ==
  ASSUME NEW timer \in [Threads -> Nat], NEW time \in Int
  PROVE  /\ sbTimerHandler(timer, time) \in [Threads -> Nat]
         /\ \A t \in Threads :
              sbTimerHandler(timer, time)[t] =
                IF timer[t] > time THEN timer[t] - time ELSE 0
BY DEF sbTimerHandler

(* At the end of an iteration with penalty pen every timer is down by      *)
(* pen + 1, or zero.                                                       *)
LEMMA EndOfIteration ==
  ASSUME NEW timer \in [Threads -> Nat], NEW pen \in Nat
  PROVE  LET left == sbTimerHandler(sbTimerHandler(timer, pen), 1) IN
         /\ left \in [Threads -> Nat]
         /\ \A t \in Threads :
              left[t] = IF timer[t] > pen + 1 THEN timer[t] - (pen + 1) ELSE 0
<1>1. PICK mid \in [Threads -> Nat] :
        /\ mid = sbTimerHandler(timer, pen)
        /\ \A t \in Threads : mid[t] = IF timer[t] > pen THEN timer[t] - pen ELSE 0
  BY HandlerType
<1>2. /\ sbTimerHandler(mid, 1) \in [Threads -> Nat]
      /\ \A t \in Threads :
           sbTimerHandler(mid, 1)[t] = IF mid[t] > 1 THEN mid[t] - 1 ELSE 0
  BY HandlerType
<1>3. QED BY <1>1, <1>2

(* Instructions produce words.                                             *)
LEMMA WrapWord ==
  ASSUME NEW x \in Int
  PROVE  Wrap(x) \in Word
<1> DEFINE H == HalfWord
<1>1. H \in Nat /\ H > 0
  BY SizesAssumption
<1>2. (x + H) % (2 * H) \in 0 .. 2 * H - 1
  <2>1. x + H \in Int /\ 2 * H \in Nat /\ 2 * H > 0
    BY <1>1
  <2>2. \A a \in Int, b \in Nat : b > 0 => a % b \in 0 .. b - 1
    OBVIOUS
  <2>3. QED BY <2>1, <2>2
<1>3. QED BY <1>1, <1>2 DEF Wrap, Word

LEMMA OperandWords ==
  ASSUME NEW in, WellFormedInstruction(in), NEW r \in [Regs -> Word]
  PROVE  /\ r[in.src1] \in Word /\ r[in.dst] \in Word
         /\ Src2(in, r) \in Word
         /\ in.dst \in Regs /\ in.src1 \in Regs
         /\ in.opcode \in {"ADD", "SUB"} => r[in.src2] \in Word
<1>1. /\ in.dst \in Regs /\ in.src1 \in Regs /\ in.src2 \in Word
      /\ ~in.isSrc2Imm \/ in.opcode \in {"ADD", "SUB"} => in.src2 \in Regs
  BY DEF WellFormedInstruction, Instruction
<1>2. QED BY <1>1 DEF Src2

LEMMA AluWord ==
  ASSUME NEW in, WellFormedInstruction(in), NEW r \in [Regs -> Word],
         in.opcode \in AluOps
  PROVE  AluResult(in, r) \in Word
<1>1. /\ r[in.src1] \in Int /\ Src2(in, r) \in Int
      /\ in.opcode \in {"ADD", "SUB"} => r[in.src2] \in Int
  BY OperandWords, SizesAssumption DEF Word
<1>2. CASE in.opcode = "ADD"
  BY <1>1, <1>2, WrapWord DEF AluResult
<1>3. CASE in.opcode = "SUB"
  BY <1>1, <1>3, WrapWord DEF AluResult
<1>4. CASE in.opcode = "ADDI"
  BY <1>1, <1>4, WrapWord DEF AluResult
<1>5. CASE in.opcode = "SUBI"
  BY <1>1, <1>5, WrapWord DEF AluResult
<1>6. QED BY <1>2, <1>3, <1>4, <1>5 DEF AluOps

LEMMA MemoryWords ==
  ASSUME NEW mem \in [Cells -> Word], NEW addr, InData(addr), NEW val \in Word
  PROVE  /\ SIM_MemDataRead(mem, addr) \in Word
         /\ SIM_MemDataWrite(mem, addr, val) \in [Cells -> Word]
BY DEF InData, SIM_MemDataRead, SIM_MemDataWrite
=============================================================================
