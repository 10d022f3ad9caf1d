----------------------------- MODULE CacheVersions -----------------------------
(***************************************************************************)
(* The two simulators, HW2_NEW and HW2, held to the same specification.  A *)
(* behaviour is that of one of them.  The history variable recency is the  *)
(* order in which commands used the blocks of L1; that L1 keeps the most   *)
(* recent ones is up to its LRU fields, which valid and invalid cells      *)
(* share.                                                                  *)
(***************************************************************************)
EXTENDS OldCache

VARIABLE recency

allVars == <<vars, recency>>

InitBoth == Init /\ recency = {}

Resident(l1) == {b \in Blocks : InL1(l1, b)}
Below(l2)    == {b \in Blocks : InL2(l2, b)}

(* A command uses its block if it finds it in L1 or brings it there.  In   *)
(* the order of use a block that is used comes last.                       *)
UsesIf(condition, b) ==
  recency' = IF condition
             THEN {p \in Resident(L1') \X Resident(L1') :
                     p[1] # b /\ (p[2] = b \/ p \in recency)}
             ELSE recency

NewCommand(b, operation) ==
  /\ config.version = "HW2_NEW"
  /\ cmdParser(b, operation)
  /\ UsesIf(InL1(L1, b) \/ Allocates(operation), b)

(* The older simulator also brings in blocks it says it leaves out: that   *)
(* is AllocatesAsSaid.  Here, what is in L1 after a command is used by it. *)
OldCommand(b, operation) ==
  /\ config.version = "HW2"
  /\ cacheMemHandler(b, operation)
  /\ UsesIf(InL1(L1', b), b)

NextBoth ==
  \E b \in Blocks, operation \in Operations :
    NewCommand(b, operation) \/ OldCommand(b, operation)

SpecBoth == InitBoth /\ [][NextBoth]_allVars

-----------------------------------------------------------------------------
LRU == INSTANCE LRUCache WITH
         resident <- Resident(L1),
         below <- Below(L2)

(* L1 keeps the most recently used blocks of each set, although it is      *)
(* filled from the first empty way, loses blocks to L2 evictions, and its  *)
(* ranks are corrected at each of these events (HW2_NEW/cacheSim.cpp:      *)
(* 169-224) or left to invalid cells (HW2/cacheSim.cpp:167-216).           *)
L1IsLRU == LRU!Spec

(* What makes it so: of two valid cells of a set the one with the lower    *)
(* rank holds the block used earlier; and what L2 holds are blocks of the  *)
(* trace, as one of them leaves a full set.                                *)
RanksInOrder(l1, order) ==
  \A set \in DOMAIN l1 : \A v, w \in DOMAIN l1[set] :
    l1[set][v].valid /\ l1[set][w].valid /\ v # w =>
      (<<l1[set][v].address, l1[set][w].address>> \in order
       <=> l1[set][v].LRU < l1[set][w].LRU)

Tags2(set) == {Tag2(b) : b \in {c \in Blocks : Set2(c) = set}}

HoldsBlocks(l2) ==
  \A set \in DOMAIN l2 : \A way \in DOMAIN l2[set] :
    l2[set][way].valid => l2[set][way].tag \in Tags2(set)

LRUInv == CacheInv /\ RanksInOrder(L1, recency) /\ HoldsBlocks(L2)

(* In HW2 every block of L1 is also in L2 (HW2/cacheSim.cpp:330-352), so   *)
(* what leaves L1 dirty is always found there.                             *)
OldInclusive == config.version = "HW2" => Inclusive

DirtyIn(cells, tag) == \E way \in Holding(cells, tag) : cells[way].dirty
Dirty(b) == DirtyIn(L1[Set1(b)], Tag1(b)) \/ DirtyIn(L2[Set2(b)], Tag2(b))

(* Written data is not forgotten: as long as L2 keeps a block, one of the  *)
(* levels keeps it dirty, whichever block a command replaces where (HW2_   *)
(* NEW/cacheSim.cpp:303-349, HW2/cacheSim.cpp:295-305, 331-372).           *)
DirtyKept ==
  [][\A b \in Blocks : Dirty(b) /\ InL2(L2, b) /\ InL2(L2, b)' => Dirty(b)']_allVars

(* A miss of both levels in HW2: the condition of cacheSim.cpp:325 assigns *)
(* 'r' to the operation instead of comparing it, and is always true.       *)
AssignedRead(b) == config.version = "HW2" /\ ~InL1(L1, b) /\ ~InL2(L2, b)

(* Blocks come to L1 "only if (writeAlloc and w) or just a (r)" (HW2/      *)
(* cacheSim.cpp:286, 324; HW2_NEW/cacheSim.cpp:396, 406) - and, against    *)
(* these comments, in one more case: on a miss of both levels in HW2.  Any *)
(* other command leaves at most fewer blocks in L1.                        *)
AllocatesAsSaid ==
  [][\/ Resident(L1') \subseteq Resident(L1)
     \/ \A b \in Blocks, operation \in Operations :
          ~Allocates(operation) /\ ~AssignedRead(b) =>
            ~NewCommand(b, operation) /\ ~OldCommand(b, operation)]_allVars
=============================================================================
