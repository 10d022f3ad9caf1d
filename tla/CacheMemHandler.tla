---------------------------- MODULE CacheMemHandler ----------------------------
(***************************************************************************)
(* class CacheMemHandler of HW2_NEW: a first and a second level cache over *)
(* one memory.  Each line of the trace is one command, handled as a whole. *)
(***************************************************************************)
EXTENDS Cache

CONSTANTS
  Configs,      \* the command lines and traces a simulation may be run with
  CounterSize   \* the counters count modulo this (2^32)

(* Which simulator is run, and its command line: geometry and --wr-alloc.  *)
(* The trace touches the given blocks.                                     *)
Config == [version : {"HW2_NEW", "HW2"},
           L1Sets : Nat \ {0}, L1Ways : Nat \ {0},
           L2Sets : Nat \ {0}, L2Ways : Nat \ {0},
           writeAlloc : BOOLEAN, blocks : SUBSET Nat]

ASSUME ConfigsAssumption == \A c \in Configs : c \in Config
ASSUME CounterAssumption == CounterSize \in Nat \ {0}

VARIABLES config, L1, L2, results

vars == <<config, L1, L2, results>>

Blocks == config.blocks

Tag1(b) == TagOf(b, config.L1Sets)
Set1(b) == SetOf(b, config.L1Sets)
Tag2(b) == TagOf(b, config.L2Sets)
Set2(b) == SetOf(b, config.L2Sets)

InL1(l1, b) == exists(Tag1(b), l1[Set1(b)])
InL2(l2, b) == exists(Tag2(b), l2[Set2(b)])

Init ==
  /\ config \in Configs
  /\ L1 = NewCache(config.L1Sets, config.L1Ways)
  /\ L2 = NewCache(config.L2Sets, config.L2Ways)
  /\ results = [L1_hits |-> 0, L1_misses |-> 0, L2_hits |-> 0,
                L2_misses |-> 0, mem_access |-> 0]

-----------------------------------------------------------------------------
(* A dirty block evicted from L1 is written to L2, if it is there.         *)
WriteBack(l2, b) ==
  IF InL2(l2, b)
  THEN [l2 EXCEPT ![Set2(b)] = updateLRU(Tag2(b), updateDirty(Tag2(b), @))]
  ELSE l2

(* addToL2.  To make room in a full set, the block whose address the LRU   *)
(* cell holds is evicted from L1, then the LRU cell from L2.  The call     *)
(* evictLRU(set, &address) leaves the address of the evicted cell in       *)
(* `address', which is what the new cell gets.  If L1 holds a dirty block  *)
(* that evict does not find, dirtyAddress is read uninitialised: junk.     *)
addToL2(l1, l2, b, junk) ==
  LET set   == Set2(b)
      cells == l2[set]
  IN  IF isEmpty(cells)
      THEN [L1 |-> l1, L2 |-> [l2 EXCEPT ![set] = Fill(Tag2(b), b, @)]]
      ELSE LET old     == getLRU(cells)
               cells1  == l1[Set1(old)]
               inL1    == InL1(l1, old)
               dirtyL1 == inL1 /\ isDirty(Tag1(old), cells1)
               dirtyAddress ==
                 IF Evictable(Tag1(old), cells1) THEN cells1[0].address ELSE junk
               filled  == [l2 EXCEPT ![set] = Fill(Tag2(b), old, evictLRU(@))]
           IN  [L1 |-> IF inL1
                       THEN [l1 EXCEPT ![Set1(old)] = evict(Tag1(old), @)]
                       ELSE l1,
                L2 |-> IF dirtyL1 THEN WriteBack(filled, dirtyAddress)
                       ELSE filled]

(* Mistake: the new cell gets the address of the evicted one.              *)
addToL1_OldAddress(l1, l2, b) ==
  LET set    == Set1(b)
      cells  == l1[set]
      victim == cells[First(Oldest(cells))]
  IN  IF isEmpty(cells)
      THEN [L1 |-> [l1 EXCEPT ![set] = Fill(Tag1(b), b, @)], L2 |-> l2]
      ELSE [L1 |-> [l1 EXCEPT ![set] = Fill(Tag1(b), victim.address, evictLRU(@))],
            L2 |-> IF victim.dirty THEN WriteBack(l2, victim.address) ELSE l2]

(* addToL1.  To make room in a full set the LRU cell is evicted and, if    *)
(* dirty, written to L2.                                                   *)
addToL1(l1, l2, b) ==
  LET set    == Set1(b)
      cells  == l1[set]
      victim == cells[First(Oldest(cells))]
  IN  IF isEmpty(cells)
      THEN [L1 |-> [l1 EXCEPT ![set] = Fill(Tag1(b), b, @)], L2 |-> l2]
      ELSE [L1 |-> [l1 EXCEPT ![set] = Fill(Tag1(b), b, evictLRU(@))],
            L2 |-> IF victim.dirty THEN WriteBack(l2, victim.address) ELSE l2]

Count(counters) ==
  /\ results' = [name \in DOMAIN results |->
                   IF name \in counters THEN (results[name] + 1) % CounterSize
                   ELSE results[name]]
  /\ UNCHANGED config

(* Mistake: a hit does not make its block the newest.                      *)
TouchL1_NoUpdate(b) == L1

TouchL1(b) == [L1 EXCEPT ![Set1(b)] = updateLRU(Tag1(b), @)]
TouchL2(l2, b) == [l2 EXCEPT ![Set2(b)] = updateLRU(Tag2(b), @)]
DirtyL1(l1, b) == [l1 EXCEPT ![Set1(b)] = updateDirty(Tag1(b), @)]
DirtyL2(l2, b) == [l2 EXCEPT ![Set2(b)] = updateDirty(Tag2(b), @)]

-----------------------------------------------------------------------------
(* readHandler *)

ReadL1Hit(b) ==
  /\ InL1(L1, b)
  /\ L1' = TouchL1(b)
  /\ Count({"L1_hits"})
  /\ UNCHANGED L2

(* Mistake: a hit in L2 does not count as a miss in L1.                    *)
ReadL2Hit_NoMiss(b) ==
  LET after == addToL1(L1, TouchL2(L2, b), b) IN
  /\ ~InL1(L1, b) /\ InL2(L2, b)
  /\ L1' = after.L1
  /\ L2' = after.L2
  /\ Count({"L2_hits"})

ReadL2Hit(b) ==
  LET after == addToL1(L1, TouchL2(L2, b), b) IN
  /\ ~InL1(L1, b) /\ InL2(L2, b)
  /\ L1' = after.L1
  /\ L2' = after.L2
  /\ Count({"L1_misses", "L2_hits"})

ReadMiss(b) ==
  /\ ~InL1(L1, b) /\ ~InL2(L2, b)
  /\ \E junk \in Blocks :
       LET mid   == addToL2(L1, L2, b, junk)
           after == addToL1(mid.L1, mid.L2, b)
       IN  L1' = after.L1 /\ L2' = after.L2
  /\ Count({"L1_misses", "L2_misses", "mem_access"})

(* writeHandler *)

WriteL1Hit(b) ==
  /\ InL1(L1, b)
  /\ L1' = [L1 EXCEPT ![Set1(b)] = updateLRU(Tag1(b), updateDirty(Tag1(b), @))]
  /\ Count({"L1_hits"})
  /\ UNCHANGED L2

WriteL2Hit(b) ==
  LET touched == TouchL2(DirtyL2(L2, b), b)
      after   == addToL1(L1, touched, b)
  IN
  /\ ~InL1(L1, b) /\ InL2(L2, b)
  /\ L1' = IF config.writeAlloc THEN DirtyL1(after.L1, b) ELSE L1
  /\ L2' = IF config.writeAlloc THEN after.L2 ELSE touched
  /\ Count({"L1_misses", "L2_hits"})

WriteMissAlloc(b) ==
  /\ config.writeAlloc
  /\ ~InL1(L1, b) /\ ~InL2(L2, b)
  /\ \E junk \in Blocks :
       LET mid   == addToL2(L1, L2, b, junk)
           after == addToL1(mid.L1, DirtyL2(mid.L2, b), b)
       IN  L1' = DirtyL1(after.L1, b) /\ L2' = after.L2
  /\ Count({"L1_misses", "L2_misses", "mem_access"})

WriteMissNoAlloc(b) ==
  /\ ~config.writeAlloc
  /\ ~InL1(L1, b) /\ ~InL2(L2, b)
  /\ Count({"L1_misses", "L2_misses", "mem_access"})
  /\ UNCHANGED <<L1, L2>>

Read(b)  == ReadL1Hit(b) \/ ReadL2Hit(b) \/ ReadMiss(b)
Write(b) == WriteL1Hit(b) \/ WriteL2Hit(b) \/ WriteMissAlloc(b) \/ WriteMissNoAlloc(b)

(* A letter other than r and w does nothing.                               *)
cmdParser(b, operation) ==
  (operation = "r" /\ Read(b)) \/ (operation = "w" /\ Write(b))

Operations == {"r", "w", "other"}

Next == \E b \in Blocks, operation \in Operations : cmdParser(b, operation)

Spec == Init /\ [][Next]_vars

-----------------------------------------------------------------------------
TypeOK ==
  /\ config \in Configs
  /\ L1 \in [0 .. config.L1Sets - 1 ->
              [0 .. config.L1Ways - 1 -> Cell(config.L1Ways, Blocks)]]
  /\ L2 \in [0 .. config.L2Sets - 1 ->
              [0 .. config.L2Ways - 1 -> Cell(config.L2Ways, Blocks)]]
  /\ DOMAIN results = {"L1_hits", "L1_misses", "L2_hits", "L2_misses", "mem_access"}
  /\ \A name \in DOMAIN results : results[name] \in 0 .. CounterSize - 1

Lines == {L1[set] : set \in DOMAIN L1} \cup {L2[set] : set \in DOMAIN L2}

(* The LRU fields of a set are a permutation of 0 .. ways-1, through hits, *)
(* fills and both kinds of eviction: there is exactly one oldest cell, and *)
(* the cell emptied by evictLRU always exists (cacheSim.cpp:169-224).      *)
RanksArePermutation == \A cells \in Lines : RanksDiffer(cells)

(* updateLRU and isDirty look for a tag without looking at valid           *)
(* (cacheSim.cpp:172, 240), and evicted cells keep their tag; still the    *)
(* first cell they find is the valid one.                                  *)
SearchesFindValid == \A cells \in Lines : FirstIsValid(cells)

(* A valid L1 cell holds the address of its own block, so its write-back   *)
(* goes to the right L2 block; a valid L2 cell at least holds an address   *)
(* of its own set (cacheSim.cpp:308, 337).                                 *)
AddressesFit ==
  /\ \A set \in DOMAIN L1, way \in 0 .. config.L1Ways - 1 :
       LET cell == L1[set][way]
       IN  cell.valid => Tag1(cell.address) = cell.tag /\ Set1(cell.address) = set
  /\ \A set \in DOMAIN L2, way \in 0 .. config.L2Ways - 1 :
       L2[set][way].valid => Set2(L2[set][way].address) = set

(* The rates and the average access time (cacheSim.cpp:519-521) rest on    *)
(* each L1 miss being one L2 access and each L2 miss one memory access.    *)
CountersAgree ==
  /\ results.L1_misses = (results.L2_hits + results.L2_misses) % CounterSize
  /\ results.mem_access = results.L2_misses

-----------------------------------------------------------------------------
(* What makes these properties inductive.                                  *)

Fits1(set) == {fit \in Nat \X Blocks : Set1(fit[2]) = set /\ Tag1(fit[2]) = fit[1]}
(* Only the older simulator gives a cell of L2 the address of its block.   *)
Fits2(set) ==
  {fit \in Nat \X Blocks :
     Set2(fit[2]) = set /\ (config.version = "HW2" => Tag2(fit[2]) = fit[1])}

L1OK(l1) ==
  /\ l1 \in [0 .. config.L1Sets - 1 ->
              [0 .. config.L1Ways - 1 -> Cell(config.L1Ways, Blocks)]]
  /\ \A set \in 0 .. config.L1Sets - 1 : SetOK(l1[set], Fits1(set))

L2OK(l2) ==
  /\ l2 \in [0 .. config.L2Sets - 1 ->
              [0 .. config.L2Ways - 1 -> Cell(config.L2Ways, Blocks)]]
  /\ \A set \in 0 .. config.L2Sets - 1 : SetOK(l2[set], Fits2(set))

CacheInv == TypeOK /\ L1OK(L1) /\ L2OK(L2) /\ CountersAgree

-----------------------------------------------------------------------------
(* What a comment promises and the code does not do: the block evicted     *)
(* from L2 "if exists also in L1 shoud be first evicted from there"        *)
(* (cacheSim.cpp:302), so what L1 holds L2 holds.                          *)
Inclusive == \A b \in Blocks : InL1(L1, b) => InL2(L2, b)
=============================================================================
