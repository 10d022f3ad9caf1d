-------------------------------- MODULE OldCache --------------------------------
(***************************************************************************)
(* The older simulator, HW2: the same two levels and counters, one         *)
(* function for all commands, and its own ways to search, touch and remove *)
(* cells.  Operators on cells take one set, as in Cache.                   *)
(***************************************************************************)
EXTENDS CacheMemHandler

(* L2 is once indexed with a set of L1, so it must have at least as many   *)
(* sets (BringToL2); otherwise the code reads outside the cache.           *)
ASSUME OldConfigsAssumption ==
  \A c \in Configs : c.version = "HW2" => c.L1Sets <= c.L2Sets

(* updateLRU, once the way is found; ranks move by position, not by tag.   *)
Touch(way, cells) ==
  [w \in Ways(cells) |->
     IF w = way THEN [cells[w] EXCEPT !.LRU = Cardinality(Ways(cells)) - 1]
     ELSE IF cells[w].LRU > cells[way].LRU THEN [cells[w] EXCEPT !.LRU = @ - 1]
     ELSE cells[w]]

Touched(tag, cells) == Touch(First(WithTag(cells, tag)), cells)

Dirtied(tag, cells) == [cells EXCEPT ![First(WithTag(cells, tag))].dirty = TRUE]

(* remove keeps the rank: an invalid cell may be newer than valid ones.    *)
Removed(way, cells) == [cells EXCEPT ![way].valid = FALSE, ![way].dirty = FALSE]

(* addToCache and the updateLRU that follows it everywhere.                *)
Added(tag, b, cells) ==
  Touched(tag, [cells EXCEPT ![emptyCell(cells)] =
                  [tag |-> tag, dirty |-> FALSE, valid |-> TRUE,
                   address |-> b, LRU |-> @.LRU]])

(* Mistake: the block is marked dirty only if it is the newest of its set. *)
SaveInL2_Newest(l2, b) ==
  LET cells == l2[Set2(b)] IN
  IF \E way \in WithTag(cells, Tag2(b)) : cells[way].LRU = Cardinality(Ways(cells)) - 1
  THEN [l2 EXCEPT ![Set2(b)] = Dirtied(Tag2(b), @)]
  ELSE l2

(* A dirty block leaves L1: L2 searches it by tag alone.                   *)
SaveInL2(l2, b) ==
  IF WithTag(l2[Set2(b)], Tag2(b)) # {}
  THEN [l2 EXCEPT ![Set2(b)] = Touched(Tag2(b), Dirtied(Tag2(b), @))]
  ELSE l2

BringToL1(l1, l2, b, write) ==
  LET cells  == l1[Set1(b)]
      lru    == First(Oldest(cells))
      full   == ~isEmpty(cells)
      added  == Added(Tag1(b), b, IF full THEN Removed(lru, cells) ELSE cells)
  IN  [L1 |-> [l1 EXCEPT ![Set1(b)] = IF write THEN Dirtied(Tag1(b), added) ELSE added],
       L2 |-> IF full /\ cells[lru].dirty THEN SaveInL2(l2, cells[lru].address) ELSE l2]

(* Mistake: the block that leaves L2 stays in L1.                          *)
BringToL2_KeepL1(l1, l2, b, idxInSet) ==
  LET cells == l2[Set2(b)]
      room  == IF isEmpty(cells) THEN cells ELSE Removed(First(Oldest(cells)), cells)
  IN  [L1 |-> l1, L2 |-> [l2 EXCEPT ![Set2(b)] = Added(Tag2(b), b, room)]]

(* The block that leaves a full set of L2 leaves L1 first.  If it is dirty *)
(* there, updateLRU of L2 is called with the set and tag it has in L1; if  *)
(* no way of that set has the tag, idxInSet is never assigned (any way; a  *)
(* number that is no way, which indexes outside the vector, is left out).  *)
BringToL2(l1, l2, b, idxInSet) ==
  LET cells   == l2[Set2(b)]
      lru     == First(Oldest(cells))
      old     == cells[lru].address
      set     == Set1(old)
      tag     == Tag1(old)
      idx     == First(WithTag(l1[set], tag))
      found   == WithTag(l2[set], tag)
      touched == [l2 EXCEPT ![set] =
                    Touch(IF found # {} THEN First(found) ELSE idxInSet, @)]
      moved   == IF InL1(l1, old) /\ l1[set][idx].dirty THEN touched ELSE l2
  IN  IF isEmpty(cells)
      THEN [L1 |-> l1, L2 |-> [l2 EXCEPT ![Set2(b)] = Added(Tag2(b), b, @)]]
      ELSE [L1 |-> IF InL1(l1, old) THEN [l1 EXCEPT ![set] = Removed(idx, @)] ELSE l1,
            L2 |-> [moved EXCEPT ![Set2(b)] = Added(Tag2(b), b, Removed(lru, @))]]

-----------------------------------------------------------------------------
(* cacheMemHandler *)

Allocates(operation) == operation = "r" \/ (operation = "w" /\ config.writeAlloc)

OldL1Hit(b, operation) ==
  LET touched == Touched(Tag1(b), L1[Set1(b)]) IN
  /\ InL1(L1, b)
  /\ L1' = [L1 EXCEPT ![Set1(b)] = IF operation = "w" THEN Dirtied(Tag1(b), touched)
                                   ELSE touched]
  /\ Count({"L1_hits"})
  /\ UNCHANGED L2

(* Mistake: here too the operation is assigned where it is compared.       *)
OldL2Hit_Assigned(b, operation) ==
  LET touched == [L2 EXCEPT ![Set2(b)] = Touched(Tag2(b), @)]
      after   == BringToL1(L1, touched, b, operation = "w")
  IN
  /\ ~InL1(L1, b) /\ InL2(L2, b)
  /\ L1' = after.L1
  /\ L2' = after.L2
  /\ Count({"L1_misses", "L2_hits"})

OldL2Hit(b, operation) ==
  LET touched == [L2 EXCEPT ![Set2(b)] = Touched(Tag2(b), @)]
      after   == BringToL1(L1, touched, b, operation = "w")
  IN
  /\ ~InL1(L1, b) /\ InL2(L2, b)
  /\ L1' = IF Allocates(operation) THEN after.L1 ELSE L1
  /\ L2' = IF Allocates(operation) THEN after.L2 ELSE touched
  /\ Count({"L1_misses", "L2_hits"})

(* Where the operation should be compared it is assigned: one that does    *)
(* not allocate becomes a read, which does.                                *)
OldMiss(b, operation) ==
  LET write == operation = "w" /\ config.writeAlloc IN
  /\ ~InL1(L1, b) /\ ~InL2(L2, b)
  /\ \E idxInSet \in 0 .. config.L2Ways - 1 :
       LET mid   == BringToL2(L1, L2, b, idxInSet)
           after == BringToL1(mid.L1, mid.L2, b, write)
       IN  L1' = after.L1 /\ L2' = after.L2
  /\ Count({"L1_misses", "L2_misses", "mem_access"})

cacheMemHandler(b, operation) ==
  OldL1Hit(b, operation) \/ OldL2Hit(b, operation) \/ OldMiss(b, operation)

OldNext == \E b \in Blocks, operation \in Operations : cacheMemHandler(b, operation)

OldSpec == Init /\ [][OldNext]_vars
=============================================================================
