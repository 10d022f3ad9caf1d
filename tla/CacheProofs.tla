------------------------------ MODULE CacheProofs ------------------------------
(***************************************************************************)
(* Proofs about the cache simulators: for every geometry, set of blocks    *)
(* and size of the counters, CacheInv holds in both versions, written data *)
(* is not forgotten, and the first level is an LRU cache.                  *)
(***************************************************************************)
EXTENDS CacheVersions, FiniteSetTheorems, WellFoundedInduction, TLAPS

-----------------------------------------------------------------------------
(* What the methods of the caches do to one set: each keeps SetOK, for any *)
(* number of ways.  The searches of both simulators meet the right cell,   *)
(* so that both kinds of updateLRU move the same ranks.                    *)

LEMMA LeastWay ==
  ASSUME NEW ways \in Nat, NEW S \in SUBSET (0 .. ways - 1), S # {}
  PROVE  First(S) \in S /\ \A other \in S : First(S) <= other
<1>1. \E x \in S : \A y \in S : ~(<<y, x>> \in OpToRel(<, Nat))
  <2>1. S \subseteq Nat
    OBVIOUS
  <2> QED
    BY <2>1, NatLessThanWellFounded, WFMin
<1>2. PICK x \in S : \A y \in S : ~(<<y, x>> \in OpToRel(<, Nat))
  BY <1>1
<1>3. ASSUME NEW y \in S PROVE x <= y
  <2>1. y \in Nat /\ x \in Nat
    OBVIOUS
  <2>2. <<y, x>> \in OpToRel(<, Nat) <=> y < x
    BY <2>1 DEF OpToRel
  <2>3. ~(y < x)
    BY <1>2, <2>2, Zenon
  <2> QED
    BY <2>1, <2>3
<1> QED
  BY <1>3 DEF First

LEMMA LeastWayIs ==
  ASSUME NEW ways \in Nat, NEW S \in SUBSET (0 .. ways - 1),
         NEW way \in S, \A other \in S : way <= other
  PROVE  First(S) = way
<1>1. First(S) \in S /\ First(S) <= way
  BY LeastWay
<1>2. First(S) \in 0 .. ways - 1 /\ way \in 0 .. ways - 1 /\ way <= First(S)
  BY <1>1
<1> QED
  BY <1>1, <1>2

(* There is an oldest cell.                                                *)
LEMMA OldestExists ==
  ASSUME NEW ways \in Nat \ {0}, NEW blocks,
         NEW cells \in [0 .. ways - 1 -> Cell(ways, blocks)], RanksDiffer(cells)
  PROVE  First(Oldest(cells)) \in 0 .. ways - 1 /\ cells[First(Oldest(cells))].LRU = 0
<1> DEFINE rank == [way \in 0 .. ways - 1 |-> cells[way].LRU]
<1>1. rank \in [0 .. ways - 1 -> 0 .. ways - 1]
  BY DEF Cell
<1>2. rank \in Injection(0 .. ways - 1, 0 .. ways - 1)
  BY <1>1 DEF RanksDiffer, Ways, Injection, IsInjective
<1>3. rank \in Surjection(0 .. ways - 1, 0 .. ways - 1)
  BY <1>2, FS_Interval, FS_Injection
<1>4. \A t \in 0 .. ways - 1 : \E way \in 0 .. ways - 1 : rank[way] = t
  BY <1>3 DEF Surjection
<1>5. PICK way \in 0 .. ways - 1 : rank[way] = 0
  <2>1. 0 \in 0 .. ways - 1
    OBVIOUS
  <2> HIDE DEF rank
  <2> QED
    BY <2>1, <1>4
<1>6. way \in Oldest(cells)
  BY <1>5 DEF Oldest, Ways
<1>7. Oldest(cells) \in SUBSET (0 .. ways - 1)
  BY DEF Oldest, Ways
<1>8. First(Oldest(cells)) \in Oldest(cells)
  BY <1>6, <1>7, LeastWay
<1> QED
  BY <1>8 DEF Oldest, Ways

-----------------------------------------------------------------------------
(* Searches.                                                               *)

LEMMA HitFound ==
  ASSUME NEW ways \in Nat \ {0}, NEW blocks, NEW fits, NEW tag,
         NEW cells \in [0 .. ways - 1 -> Cell(ways, blocks)], SetOK(cells, fits),
         exists(tag, cells)
  PROVE  /\ First(WithTag(cells, tag)) \in 0 .. ways - 1
         /\ Holds(cells[First(WithTag(cells, tag))], tag)
         /\ First(Holding(cells, tag)) = First(WithTag(cells, tag))
         /\ \A way \in 0 .. ways - 1 :
              Holds(cells[way], tag) => way = First(WithTag(cells, tag))
<1>1. PICK hit \in 0 .. ways - 1 : Holds(cells[hit], tag)
  BY DEF exists, Holding, Ways
<1>2. \A way \in 0 .. ways - 1 : cells[way].tag = tag =>
        hit <= way /\ (way # hit => ~cells[way].valid)
  BY <1>1 DEF SetOK, ValidFirst, Ways, Holds
<1>3. First(WithTag(cells, tag)) = hit
  <2>1. /\ WithTag(cells, tag) \in SUBSET (0 .. ways - 1)
        /\ hit \in WithTag(cells, tag)
        /\ \A other \in WithTag(cells, tag) : hit <= other
    BY <1>1, <1>2 DEF WithTag, Ways, Holds
  <2> QED
    BY <2>1, LeastWayIs
<1>4. First(Holding(cells, tag)) = hit
  <2>1. /\ Holding(cells, tag) \in SUBSET (0 .. ways - 1)
        /\ hit \in Holding(cells, tag)
        /\ \A other \in Holding(cells, tag) : hit <= other
    BY <1>1, <1>2 DEF Holding, Ways, Holds
  <2> QED
    BY <2>1, LeastWayIs
<1> QED
  BY <1>1, <1>2, <1>3, <1>4 DEF Holds

LEMMA EmptyFound ==
  ASSUME NEW ways \in Nat \ {0}, NEW blocks,
         NEW cells \in [0 .. ways - 1 -> Cell(ways, blocks)], isEmpty(cells)
  PROVE  /\ emptyCell(cells) \in 0 .. ways - 1
         /\ ~cells[emptyCell(cells)].valid
         /\ \A way \in 0 .. ways - 1 : ~cells[way].valid => emptyCell(cells) <= way
<1>1. Invalid(cells) \in SUBSET (0 .. ways - 1) /\ Invalid(cells) # {}
  BY DEF Invalid, isEmpty, Ways
<1> QED
  BY <1>1, LeastWay DEF emptyCell, Invalid, Ways

-----------------------------------------------------------------------------
(* Ranks.                                                                  *)

LEMMA TouchKeeps ==
  ASSUME NEW ways \in Nat \ {0}, NEW blocks, NEW fits, NEW way \in 0 .. ways - 1,
         NEW cells \in [0 .. ways - 1 -> Cell(ways, blocks)], SetOK(cells, fits)
  PROVE  /\ Touch(way, cells) \in [0 .. ways - 1 -> Cell(ways, blocks)]
         /\ SetOK(Touch(way, cells), fits)
         /\ \A t : exists(t, Touch(way, cells)) <=> exists(t, cells)
         /\ \A t, w : w \in WithTag(Touch(way, cells), t) <=> w \in WithTag(cells, t)
         /\ \A t, w : w \in Holding(Touch(way, cells), t) <=> w \in Holding(cells, t)
<1> DEFINE after == Touch(way, cells)
<1>1. Cardinality(Ways(cells)) = ways
  BY FS_Interval DEF Ways
<1>2. /\ Ways(cells) = 0 .. ways - 1
      /\ after = [w \in 0 .. ways - 1 |->
            IF w = way THEN [cells[w] EXCEPT !.LRU = ways - 1]
            ELSE IF cells[w].LRU > cells[way].LRU THEN [cells[w] EXCEPT !.LRU = @ - 1]
            ELSE cells[w]]
  BY <1>1 DEF Touch, Ways
<1> HIDE DEF after
<1>3. \A w \in 0 .. ways - 1 :
        /\ after[w] \in Cell(ways, blocks)
        /\ after[w].tag = cells[w].tag
        /\ after[w].valid = cells[w].valid
        /\ after[w].address = cells[w].address
        /\ after[w].LRU = IF w = way THEN ways - 1
                          ELSE IF cells[w].LRU > cells[way].LRU THEN cells[w].LRU - 1
                          ELSE cells[w].LRU
  <2> SUFFICES ASSUME NEW w \in 0 .. ways - 1
               PROVE  /\ after[w] \in Cell(ways, blocks)
                      /\ after[w].tag = cells[w].tag
                      /\ after[w].valid = cells[w].valid
                      /\ after[w].address = cells[w].address
                      /\ after[w].LRU =
                           IF w = way THEN ways - 1
                           ELSE IF cells[w].LRU > cells[way].LRU THEN cells[w].LRU - 1
                           ELSE cells[w].LRU
    OBVIOUS
  <2>1. cells[w] \in Cell(ways, blocks) /\ cells[way].LRU \in 0 .. ways - 1
    BY DEF Cell
  <2>2. CASE w = way
    BY <1>2, <2>1, <2>2 DEF Cell
  <2>3. CASE w # way /\ cells[w].LRU > cells[way].LRU
    <3>1. after[w] = [cells[w] EXCEPT !.LRU = @ - 1]
      BY <1>2, <2>3
    <3> QED
      BY <2>1, <2>3, <3>1 DEF Cell
  <2>4. CASE w # way /\ ~(cells[w].LRU > cells[way].LRU)
    <3>1. after[w] = cells[w]
      BY <1>2, <2>4
    <3> QED
      BY <2>1, <2>4, <3>1
  <2> QED
    BY <2>2, <2>3, <2>4
<1>4. after \in [0 .. ways - 1 -> Cell(ways, blocks)] /\ Ways(after) = 0 .. ways - 1
  BY <1>2, <1>3 DEF Ways
<1>5. RanksDiffer(after)
  <2> SUFFICES ASSUME NEW v \in 0 .. ways - 1, NEW w \in 0 .. ways - 1,
                      after[v].LRU = after[w].LRU
               PROVE  v = w
    BY <1>4 DEF RanksDiffer
  <2>1. \A u \in 0 .. ways - 1 : cells[u].LRU \in 0 .. ways - 1
    BY DEF Cell
  <2>2. \A u \in 0 .. ways - 1, x \in 0 .. ways - 1 : cells[u].LRU = cells[x].LRU => u = x
    BY <1>2 DEF SetOK, RanksDiffer
  <2> QED
    BY <1>3, <2>1, <2>2, SMTT(30)
<1>6. ValidFirst(after)
  BY <1>2, <1>3, <1>4 DEF ValidFirst, SetOK
<1>7. SetOK(after, fits)
  BY <1>2, <1>3, <1>4, <1>5, <1>6 DEF SetOK
<1>10. \A t : Holding(after, t) = Holding(cells, t)
  BY <1>2, <1>3, <1>4, ZenonT(40) DEF Holding, Holds
<1>8. \A t : exists(t, after) <=> exists(t, cells)
  BY <1>10 DEF exists
<1>9. \A t : WithTag(after, t) = WithTag(cells, t)
  BY <1>2, <1>3, <1>4 DEF WithTag
<1> QED
  BY <1>4, <1>7, <1>8, <1>9, <1>10 DEF after

(* updateLRU by tag is Touch by position, when the set holds the tag.      *)
UpdatesAlike(tag, cells) == updateLRU(tag, cells) = Touched(tag, cells)

LEMMA UpdateIsTouched ==
  ASSUME NEW ways \in Nat \ {0}, NEW blocks, NEW fits, NEW tag,
         NEW cells \in [0 .. ways - 1 -> Cell(ways, blocks)], SetOK(cells, fits),
         exists(tag, cells)
  PROVE  /\ First(WithTag(cells, tag)) \in 0 .. ways - 1
         /\ UpdatesAlike(tag, cells)
<1> DEFINE hit    == First(WithTag(cells, tag))
           old    == cells[hit].LRU
           raised == [cells EXCEPT ![hit].LRU = Cardinality(Ways(cells)) - 1]
           moves(cell) == ~Holds(cell, tag) /\ cell.LRU > old
<1>1. /\ hit \in 0 .. ways - 1 /\ Holds(cells[hit], tag)
      /\ \A way \in 0 .. ways - 1 : Holds(cells[way], tag) => way = hit
  BY HitFound
<1>2. /\ Ways(cells) = 0 .. ways - 1
      /\ updateLRU(tag, cells) =
           [way \in Ways(cells) |->
              IF moves(raised[way]) THEN [raised[way] EXCEPT !.LRU = @ - 1]
              ELSE raised[way]]
      /\ Touched(tag, cells) =
           [w \in Ways(cells) |->
              IF w = hit THEN [cells[w] EXCEPT !.LRU = Cardinality(Ways(cells)) - 1]
              ELSE IF cells[w].LRU > old THEN [cells[w] EXCEPT !.LRU = @ - 1]
              ELSE cells[w]]
  BY DEF updateLRU, Touched, Touch, Ways
<1> HIDE DEF hit
<1>3. \A way \in 0 .. ways - 1 : way # hit =>
        raised[way] = cells[way] /\ (moves(raised[way]) <=> cells[way].LRU > old)
  BY <1>1, <1>2
<1>4. /\ raised[hit] = [cells[hit] EXCEPT !.LRU = Cardinality(Ways(cells)) - 1]
      /\ ~moves(raised[hit])
  BY <1>1, <1>2 DEF Holds, Cell
<1>5. \A way \in 0 .. ways - 1 :
        (IF moves(raised[way]) THEN [raised[way] EXCEPT !.LRU = @ - 1] ELSE raised[way])
        = IF way = hit THEN [cells[way] EXCEPT !.LRU = Cardinality(Ways(cells)) - 1]
          ELSE IF cells[way].LRU > old THEN [cells[way] EXCEPT !.LRU = @ - 1]
          ELSE cells[way]
  <2> HIDE DEF moves, raised
  <2> QED
    BY <1>3, <1>4
<1> HIDE DEF moves, raised
<1> QED
  BY <1>1, <1>2, <1>5 DEF hit, UpdatesAlike

LEMMA UpdateKeeps ==
  ASSUME NEW ways \in Nat \ {0}, NEW blocks, NEW fits, NEW tag,
         NEW cells \in [0 .. ways - 1 -> Cell(ways, blocks)], SetOK(cells, fits),
         exists(tag, cells)
  PROVE  /\ updateLRU(tag, cells) \in [0 .. ways - 1 -> Cell(ways, blocks)]
         /\ SetOK(updateLRU(tag, cells), fits)
         /\ \A t : exists(t, updateLRU(tag, cells)) <=> exists(t, cells)
<1> DEFINE hit == First(WithTag(cells, tag))
<1>1. ways \in Nat \ {0} /\ hit \in 0 .. ways - 1
  BY UpdateIsTouched
<1>2. updateLRU(tag, cells) = Touch(hit, cells)
  <2>1. UpdatesAlike(tag, cells)
    BY UpdateIsTouched
  <2> QED
    BY <2>1 DEF UpdatesAlike, Touched
<1> HIDE DEF hit
<1>3. /\ Touch(hit, cells) \in [0 .. ways - 1 -> Cell(ways, blocks)]
      /\ SetOK(Touch(hit, cells), fits)
      /\ \A t : exists(t, Touch(hit, cells)) <=> exists(t, cells)
  BY <1>1, TouchKeeps, Zenon
<1> QED
  BY <1>2, <1>3, Zenon

-----------------------------------------------------------------------------
(* Marking cells dirty or invalid.                                         *)

LEMMA FewerValid ==
  ASSUME NEW ways \in Nat \ {0}, NEW blocks, NEW fits,
         NEW cells \in [0 .. ways - 1 -> Cell(ways, blocks)], SetOK(cells, fits),
         NEW after \in [0 .. ways - 1 -> Cell(ways, blocks)],
         \A way \in 0 .. ways - 1 :
           /\ after[way].tag = cells[way].tag
           /\ after[way].address = cells[way].address
           /\ after[way].LRU = cells[way].LRU
           /\ after[way].valid => cells[way].valid
  PROVE  SetOK(after, fits) /\ \A t : exists(t, after) => exists(t, cells)
<1>1. Ways(cells) = 0 .. ways - 1 /\ Ways(after) = 0 .. ways - 1
  BY DEF Ways
<1>2. RanksDiffer(after)
  BY <1>1 DEF SetOK, RanksDiffer
<1>3. ValidFirst(after)
  BY <1>1 DEF SetOK, ValidFirst
<1>4. \A way \in Ways(after) :
        after[way].valid => <<after[way].tag, after[way].address>> \in fits
  BY <1>1 DEF SetOK
<1>5. \A t : Holding(after, t) \subseteq Holding(cells, t)
  BY <1>1 DEF Holding, Holds
<1> QED
  BY <1>2, <1>3, <1>4, <1>5 DEF SetOK, exists

LEMMA DirtyKeeps ==
  ASSUME NEW ways \in Nat \ {0}, NEW blocks, NEW fits, NEW way \in 0 .. ways - 1,
         NEW cells \in [0 .. ways - 1 -> Cell(ways, blocks)], SetOK(cells, fits)
  PROVE  LET after == [cells EXCEPT ![way].dirty = TRUE]
         IN  /\ after \in [0 .. ways - 1 -> Cell(ways, blocks)]
             /\ SetOK(after, fits)
             /\ \A t : exists(t, after) <=> exists(t, cells)
             /\ \A t, w : w \in WithTag(after, t) <=> w \in WithTag(cells, t)
<1> DEFINE after == [cells EXCEPT ![way].dirty = TRUE]
<1>1. /\ after \in [0 .. ways - 1 -> Cell(ways, blocks)]
      /\ \A w \in 0 .. ways - 1 :
           /\ after[w].tag = cells[w].tag
           /\ after[w].address = cells[w].address
           /\ after[w].LRU = cells[w].LRU
           /\ after[w].valid = cells[w].valid
  <2>1. \A w \in 0 .. ways - 1 :
          after[w] = IF w = way THEN [cells[w] EXCEPT !.dirty = TRUE] ELSE cells[w]
    OBVIOUS
  <2>2. \A w \in 0 .. ways - 1 : cells[w] \in Cell(ways, blocks)
    OBVIOUS
  <2> HIDE DEF after
  <2>3. ASSUME NEW w \in 0 .. ways - 1
        PROVE  /\ after[w] \in Cell(ways, blocks)
               /\ after[w].tag = cells[w].tag
               /\ after[w].address = cells[w].address
               /\ after[w].LRU = cells[w].LRU
               /\ after[w].valid = cells[w].valid
    BY <2>1, <2>2, ZenonT(40) DEF Cell
  <2>4. after \in [0 .. ways - 1 -> Cell(ways, blocks)]
    BY <2>3 DEF after
  <2> QED
    BY <2>3, <2>4
<1> HIDE DEF after
<1>2. SetOK(after, fits)
  BY <1>1, FewerValid
<1>3. Ways(cells) = 0 .. ways - 1 /\ Ways(after) = 0 .. ways - 1
  BY <1>1 DEF Ways
<1>4. \A t : Holding(after, t) = Holding(cells, t) /\ WithTag(after, t) = WithTag(cells, t)
  BY <1>1, <1>3 DEF Holding, Holds, WithTag
<1>5. \A t : exists(t, after) <=> exists(t, cells)
  BY <1>4 DEF exists
<1> QED
  BY <1>1, <1>2, <1>4, <1>5 DEF after

LEMMA updateDirtyKeeps ==
  ASSUME NEW ways \in Nat \ {0}, NEW blocks, NEW fits, NEW tag,
         NEW cells \in [0 .. ways - 1 -> Cell(ways, blocks)], SetOK(cells, fits)
  PROVE  /\ updateDirty(tag, cells) \in [0 .. ways - 1 -> Cell(ways, blocks)]
         /\ SetOK(updateDirty(tag, cells), fits)
         /\ \A t : exists(t, updateDirty(tag, cells)) <=> exists(t, cells)
<1>1. CASE exists(tag, cells)
  <2>1. First(Holding(cells, tag)) \in 0 .. ways - 1
    BY <1>1, HitFound
  <2> QED
    BY <1>1, <2>1, DirtyKeeps DEF updateDirty
<1>2. CASE ~exists(tag, cells)
  BY <1>2 DEF updateDirty
<1> QED
  BY <1>1, <1>2

(* A cell made invalid, as evictLRU (dirty kept) and remove (dirty         *)
(* cleared) do it.                                                         *)
LEMMA RemovedKeeps ==
  ASSUME NEW ways \in Nat \ {0}, NEW blocks, NEW fits, NEW way \in 0 .. ways - 1,
         NEW cells \in [0 .. ways - 1 -> Cell(ways, blocks)], SetOK(cells, fits),
         NEW after,
         after = [cells EXCEPT ![way].valid = FALSE] \/ after = Removed(way, cells)
  PROVE  /\ after \in [0 .. ways - 1 -> Cell(ways, blocks)]
         /\ SetOK(after, fits)
         /\ isEmpty(after)
         /\ \A t : exists(t, after) => exists(t, cells)
         /\ \A t : Holds(cells[way], t) => ~exists(t, after)
         /\ \A t : exists(t, cells) /\ t # cells[way].tag => exists(t, after)
<1>1. /\ after \in [0 .. ways - 1 -> Cell(ways, blocks)]
      /\ ~after[way].valid
      /\ \A w \in 0 .. ways - 1 :
           /\ after[w].tag = cells[w].tag
           /\ after[w].address = cells[w].address
           /\ after[w].LRU = cells[w].LRU
           /\ after[w].valid <=> cells[w].valid /\ w # way
  <2>1. CASE after = [cells EXCEPT ![way].valid = FALSE]
    <3>1. \A w \in 0 .. ways - 1 :
            /\ cells[w] \in Cell(ways, blocks)
            /\ after[w] = IF w = way THEN [cells[w] EXCEPT !.valid = FALSE]
                          ELSE cells[w]
      BY <2>1
    <3>2. ASSUME NEW w \in 0 .. ways - 1
          PROVE  /\ after[w] \in Cell(ways, blocks)
                 /\ after[w].tag = cells[w].tag
                 /\ after[w].address = cells[w].address
                 /\ after[w].LRU = cells[w].LRU
                 /\ after[w].valid <=> cells[w].valid /\ w # way
      BY <3>1, ZenonT(40) DEF Cell
    <3>3. after = [w \in 0 .. ways - 1 |-> after[w]]
      BY <2>1
    <3> QED
      BY <3>2, <3>3
  <2>2. CASE after = Removed(way, cells)
    <3>1. \A w \in 0 .. ways - 1 :
            /\ cells[w] \in Cell(ways, blocks)
            /\ after[w] = IF w = way
                          THEN [cells[w] EXCEPT !.valid = FALSE, !.dirty = FALSE]
                          ELSE cells[w]
      BY <2>2 DEF Removed
    <3>2. ASSUME NEW w \in 0 .. ways - 1
          PROVE  /\ after[w] \in Cell(ways, blocks)
                 /\ after[w].tag = cells[w].tag
                 /\ after[w].address = cells[w].address
                 /\ after[w].LRU = cells[w].LRU
                 /\ after[w].valid <=> cells[w].valid /\ w # way
      BY <3>1, ZenonT(40) DEF Cell
    <3>3. after = [w \in 0 .. ways - 1 |-> after[w]]
      BY <2>2 DEF Removed
    <3> QED
      BY <3>2, <3>3
  <2> QED
    BY <2>1, <2>2
<1>2. SetOK(after, fits) /\ \A t : exists(t, after) => exists(t, cells)
  BY <1>1, FewerValid
<1>3. isEmpty(after)
  BY <1>1 DEF isEmpty, Invalid, Ways
<1>4. Ways(cells) = 0 .. ways - 1 /\ Ways(after) = 0 .. ways - 1
  BY <1>1 DEF Ways
<1>5. ASSUME NEW t, Holds(cells[way], t) PROVE ~exists(t, after)
  <2>1. \A w \in 0 .. ways - 1 : ~Holds(after[w], t)
    BY <1>1, <1>4, <1>5 DEF Holds, SetOK, ValidFirst
  <2> QED
    BY <1>4, <2>1 DEF exists, Holding
<1>6. ASSUME NEW t, exists(t, cells), t # cells[way].tag PROVE exists(t, after)
  BY <1>1, <1>4, <1>6 DEF exists, Holding, Holds
<1> QED
  BY <1>1, <1>2, <1>3, <1>5, <1>6

(* Only the tag of the cell is gone from the set.                          *)
LEMMA TagRemoved ==
  ASSUME NEW ways \in Nat \ {0}, NEW blocks, NEW fits, NEW tag, NEW way \in 0 .. ways - 1,
         NEW cells \in [0 .. ways - 1 -> Cell(ways, blocks)], SetOK(cells, fits),
         Holds(cells[way], tag)
  PROVE  /\ Removed(way, cells) \in [0 .. ways - 1 -> Cell(ways, blocks)]
         /\ SetOK(Removed(way, cells), fits)
         /\ \A t : exists(t, Removed(way, cells)) <=> exists(t, cells) /\ t # tag
<1> DEFINE after == Removed(way, cells)
<1>1. after = Removed(way, cells)
  OBVIOUS
<1> HIDE DEF after
<1>2. /\ after \in [0 .. ways - 1 -> Cell(ways, blocks)]
      /\ SetOK(after, fits)
  BY <1>1, RemovedKeeps
<1>3. /\ \A t : exists(t, after) => exists(t, cells)
      /\ \A t : Holds(cells[way], t) => ~exists(t, after)
      /\ \A t : exists(t, cells) /\ t # cells[way].tag => exists(t, after)
  BY <1>1, RemovedKeeps
<1>4. cells[way].tag = tag
  BY DEF Holds
<1> QED
  BY <1>2, <1>3, <1>4 DEF after

LEMMA evictKeeps ==
  ASSUME NEW ways \in Nat \ {0}, NEW blocks, NEW fits, NEW tag,
         NEW cells \in [0 .. ways - 1 -> Cell(ways, blocks)], SetOK(cells, fits)
  PROVE  /\ evict(tag, cells) \in [0 .. ways - 1 -> Cell(ways, blocks)]
         /\ SetOK(evict(tag, cells), fits)
         /\ \A t : exists(t, evict(tag, cells)) => exists(t, cells)
<1> DEFINE after == evict(tag, cells)
<1>1. CASE Evictable(tag, cells)
  <2>1. /\ Ways(cells) = 0 .. ways - 1 /\ 0 \in 0 .. ways - 1
        /\ after = [way \in 0 .. ways - 1 |->
             IF way = 0 THEN [cells[0] EXCEPT !.valid = FALSE, !.LRU = 0]
             ELSE IF cells[way].LRU < cells[0].LRU
                  THEN [cells[way] EXCEPT !.LRU = @ + 1]
                  ELSE cells[way]]
    BY <1>1 DEF evict, Ways
  <2> HIDE DEF after
  <2>2. \A way \in 0 .. ways - 1 :
          /\ after[way] \in Cell(ways, blocks)
          /\ after[way].tag = cells[way].tag
          /\ after[way].address = cells[way].address
          /\ after[way].valid => cells[way].valid
          /\ after[way].LRU = IF way = 0 THEN 0
                              ELSE IF cells[way].LRU < cells[0].LRU
                                   THEN cells[way].LRU + 1
                                   ELSE cells[way].LRU
    <3> SUFFICES ASSUME NEW way \in 0 .. ways - 1
                 PROVE  /\ after[way] \in Cell(ways, blocks)
                        /\ after[way].tag = cells[way].tag
                        /\ after[way].address = cells[way].address
                        /\ after[way].valid => cells[way].valid
                        /\ after[way].LRU = IF way = 0 THEN 0
                                            ELSE IF cells[way].LRU < cells[0].LRU
                                                 THEN cells[way].LRU + 1
                                                 ELSE cells[way].LRU
      OBVIOUS
    <3>1. cells[way] \in Cell(ways, blocks) /\ cells[0].LRU \in 0 .. ways - 1
      BY <2>1 DEF Cell
    <3>2. CASE way = 0
      <4>1. after[way] = [cells[way] EXCEPT !.valid = FALSE, !.LRU = 0]
        BY <2>1, <3>2
      <4> QED
        BY <3>1, <3>2, <4>1 DEF Cell
    <3>3. CASE way # 0 /\ cells[way].LRU < cells[0].LRU
      <4>1. after[way] = [cells[way] EXCEPT !.LRU = @ + 1]
        BY <2>1, <3>3
      <4> QED
        BY <3>1, <3>3, <4>1 DEF Cell
    <3>4. CASE way # 0 /\ ~(cells[way].LRU < cells[0].LRU)
      <4>1. after[way] = cells[way]
        BY <2>1, <3>4
      <4> QED
        BY <3>1, <3>4, <4>1
    <3> QED
      BY <3>2, <3>3, <3>4
  <2>3. after \in [0 .. ways - 1 -> Cell(ways, blocks)] /\ Ways(after) = 0 .. ways - 1
    BY <2>1, <2>2 DEF Ways
  <2>4. RanksDiffer(after)
    <3> SUFFICES ASSUME NEW v \in 0 .. ways - 1, NEW w \in 0 .. ways - 1,
                        after[v].LRU = after[w].LRU
                 PROVE  v = w
      BY <2>3 DEF RanksDiffer
    <3>1. \A u \in 0 .. ways - 1 : cells[u].LRU \in 0 .. ways - 1
      BY DEF Cell
    <3>2. \A u \in 0 .. ways - 1, x \in 0 .. ways - 1 :
            cells[u].LRU = cells[x].LRU => u = x
      BY <2>1 DEF SetOK, RanksDiffer
    <3> QED
      BY <2>1, <2>2, <3>1, <3>2
  <2>5. ValidFirst(after)
    BY <2>1, <2>2, <2>3 DEF ValidFirst, SetOK
  <2>6. SetOK(after, fits)
    BY <2>1, <2>2, <2>3, <2>4, <2>5 DEF SetOK
  <2>7. \A t : Holding(after, t) \subseteq Holding(cells, t)
    BY <2>1, <2>2, <2>3 DEF Holding, Holds
  <2> QED
    BY <2>3, <2>6, <2>7 DEF exists, after
<1>2. CASE ~Evictable(tag, cells)
  BY <1>2 DEF evict
<1> QED
  BY <1>1, <1>2

-----------------------------------------------------------------------------
(* Filling the first empty cell.                                           *)

LEMMA FilledOK ==
  ASSUME NEW ways \in Nat \ {0}, NEW blocks, NEW fits,
         NEW tag \in Nat, NEW b \in blocks, <<tag, b>> \in fits,
         NEW cells \in [0 .. ways - 1 -> Cell(ways, blocks)], SetOK(cells, fits),
         isEmpty(cells), ~exists(tag, cells)
  PROVE  LET filled == [cells EXCEPT ![emptyCell(cells)] =
                          [tag |-> tag, dirty |-> FALSE, valid |-> TRUE,
                           address |-> b, LRU |-> @.LRU]]
         IN  /\ filled \in [0 .. ways - 1 -> Cell(ways, blocks)]
             /\ SetOK(filled, fits)
             /\ \A t : exists(t, filled) <=> t = tag \/ exists(t, cells)
             /\ First(WithTag(filled, tag)) \in 0 .. ways - 1 /\ exists(tag, filled)
<1> DEFINE empty  == emptyCell(cells)
           filled == [cells EXCEPT ![emptyCell(cells)] =
                        [tag |-> tag, dirty |-> FALSE, valid |-> TRUE,
                         address |-> b, LRU |-> @.LRU]]
<1>1. /\ empty \in 0 .. ways - 1 /\ ~cells[empty].valid
      /\ \A way \in 0 .. ways - 1 : ~cells[way].valid => empty <= way
  BY EmptyFound
<1>2. /\ filled \in [0 .. ways - 1 -> Cell(ways, blocks)]
      /\ filled[empty].tag = tag /\ filled[empty].valid
      /\ filled[empty].address = b /\ filled[empty].LRU = cells[empty].LRU
      /\ \A way \in 0 .. ways - 1 : way # empty => filled[way] = cells[way]
  BY <1>1 DEF Cell
<1>3. Ways(cells) = 0 .. ways - 1 /\ Ways(filled) = 0 .. ways - 1
  BY DEF Ways
<1> HIDE DEF filled, empty
<1>4. RanksDiffer(filled)
  BY <1>1, <1>2, <1>3 DEF SetOK, RanksDiffer
<1>5. \A way \in 0 .. ways - 1 : cells[way].tag = tag => ~cells[way].valid
  BY <1>3 DEF exists, Holding, Holds
<1>6. ValidFirst(filled)
  <2> SUFFICES ASSUME NEW v \in 0 .. ways - 1, NEW w \in 0 .. ways - 1,
                      filled[w].valid, filled[v].tag = filled[w].tag, v # w
               PROVE  ~filled[v].valid /\ w < v
    BY <1>3 DEF ValidFirst
  <2>1. CASE w = empty
    BY <2>1, <1>1, <1>2, <1>5
  <2>2. CASE v = empty
    BY <2>2, <1>1, <1>2, <1>5
  <2>3. CASE w # empty /\ v # empty
    BY <2>3, <1>2, <1>3 DEF SetOK, ValidFirst
  <2> QED
    BY <2>1, <2>2, <2>3
<1>7. SetOK(filled, fits)
  BY <1>1, <1>2, <1>3, <1>4, <1>6 DEF SetOK
<1>8. \A t : exists(t, filled) <=> t = tag \/ exists(t, cells)
  <2>1. \A t : Holding(filled, t) = IF t = tag THEN Holding(cells, t) \cup {empty}
                                    ELSE Holding(cells, t)
    BY <1>1, <1>2, <1>3 DEF Holding, Holds
  <2> QED
    BY <2>1 DEF exists
<1>9. First(WithTag(filled, tag)) \in 0 .. ways - 1 /\ exists(tag, filled)
  BY <1>2, <1>7, <1>8, HitFound
<1> QED
  BY <1>2, <1>7, <1>8, <1>9 DEF filled

LEMMA AddedKeeps ==
  ASSUME NEW ways \in Nat \ {0}, NEW blocks, NEW fits,
         NEW tag \in Nat, NEW b \in blocks, <<tag, b>> \in fits,
         NEW cells \in [0 .. ways - 1 -> Cell(ways, blocks)], SetOK(cells, fits),
         isEmpty(cells), ~exists(tag, cells)
  PROVE  /\ Added(tag, b, cells) \in [0 .. ways - 1 -> Cell(ways, blocks)]
         /\ SetOK(Added(tag, b, cells), fits)
         /\ \A t : exists(t, Added(tag, b, cells)) <=> t = tag \/ exists(t, cells)
         /\ Fill(tag, b, cells) \in [0 .. ways - 1 -> Cell(ways, blocks)]
         /\ SetOK(Fill(tag, b, cells), fits)
         /\ \A t : exists(t, Fill(tag, b, cells)) <=> t = tag \/ exists(t, cells)
<1> DEFINE filled == [cells EXCEPT ![emptyCell(cells)] =
                        [tag |-> tag, dirty |-> FALSE, valid |-> TRUE,
                         address |-> b, LRU |-> @.LRU]]
<1>2. filled \in [0 .. ways - 1 -> Cell(ways, blocks)]
  BY FilledOK
<1>7. SetOK(filled, fits)
  BY FilledOK
<1>8. \A t : exists(t, filled) <=> t = tag \/ exists(t, cells)
  BY FilledOK
<1>9. First(WithTag(filled, tag)) \in 0 .. ways - 1 /\ exists(tag, filled)
  BY FilledOK
<1> HIDE DEF filled
<1>10. /\ Added(tag, b, cells) \in [0 .. ways - 1 -> Cell(ways, blocks)]
       /\ SetOK(Added(tag, b, cells), fits)
       /\ \A t : exists(t, Added(tag, b, cells)) <=> exists(t, filled)
  <2> DEFINE hit == First(WithTag(filled, tag))
  <2>1. filled \in [0 .. ways - 1 -> Cell(ways, blocks)] /\ ways \in Nat \ {0}
    BY <1>2
  <2>2. hit \in 0 .. ways - 1
    BY <1>9
  <2> HIDE DEF hit
  <2>3. /\ Touch(hit, filled) \in [0 .. ways - 1 -> Cell(ways, blocks)]
        /\ SetOK(Touch(hit, filled), fits)
        /\ \A t : exists(t, Touch(hit, filled)) <=> exists(t, filled)
    BY <2>1, <2>2, <1>7, TouchKeeps, Zenon
  <2>4. Added(tag, b, cells) = Touch(hit, filled)
    BY DEF Added, Touched, filled, hit
  <2> QED
    BY <2>3, <2>4, Zenon
<1>11. /\ Fill(tag, b, cells) \in [0 .. ways - 1 -> Cell(ways, blocks)]
       /\ SetOK(Fill(tag, b, cells), fits)
       /\ \A t : exists(t, Fill(tag, b, cells)) <=> exists(t, filled)
  <2>1. filled \in [0 .. ways - 1 -> Cell(ways, blocks)] /\ ways \in Nat \ {0}
    BY <1>2
  <2>2. /\ updateLRU(tag, filled) \in [0 .. ways - 1 -> Cell(ways, blocks)]
        /\ SetOK(updateLRU(tag, filled), fits)
        /\ \A t : exists(t, updateLRU(tag, filled)) <=> exists(t, filled)
    BY <2>1, <1>7, <1>9, UpdateKeeps, Zenon
  <2>3. Fill(tag, b, cells) = updateLRU(tag, filled)
    BY DEF Fill, filled
  <2> QED
    BY <2>2, <2>3, Zenon
<1> QED
  BY <1>8, <1>10, <1>11

(* Room for a block: an empty cell, or a cell made empty.                  *)
Room(room, cells) ==
  \/ room = cells /\ isEmpty(cells)
  \/ room = evictLRU(cells)
  \/ \E way \in Ways(cells) : room = Removed(way, cells)

LEMMA RoomFilled ==
  ASSUME NEW ways \in Nat \ {0}, NEW blocks, NEW fits,
         NEW tag \in Nat, NEW b \in blocks, <<tag, b>> \in fits,
         NEW cells \in [0 .. ways - 1 -> Cell(ways, blocks)], SetOK(cells, fits),
         ~exists(tag, cells), NEW room, Room(room, cells)
  PROVE  /\ Fill(tag, b, room) \in [0 .. ways - 1 -> Cell(ways, blocks)]
         /\ SetOK(Fill(tag, b, room), fits)
         /\ exists(tag, Fill(tag, b, room))
         /\ Added(tag, b, room) \in [0 .. ways - 1 -> Cell(ways, blocks)]
         /\ SetOK(Added(tag, b, room), fits)
         /\ \A t : exists(t, Added(tag, b, room)) <=> t = tag \/ exists(t, room)
<1>1. /\ room \in [0 .. ways - 1 -> Cell(ways, blocks)]
      /\ SetOK(room, fits)
      /\ isEmpty(room)
      /\ ~exists(tag, room)
  <2> DEFINE way == First(Oldest(cells))
  <2>1. way \in 0 .. ways - 1
    BY OldestExists DEF SetOK
  <2>2. CASE room = cells /\ isEmpty(cells)
    BY <2>2
  <2>3. CASE room = [cells EXCEPT ![way].valid = FALSE]
    <3> HIDE DEF way
    <3>1. room = [cells EXCEPT ![way].valid = FALSE] \/ room = Removed(way, cells)
      BY <2>3
    <3>2. /\ room \in [0 .. ways - 1 -> Cell(ways, blocks)]
          /\ SetOK(room, fits)
          /\ isEmpty(room)
          /\ \A t : exists(t, room) => exists(t, cells)
      BY <2>1, <3>1, RemovedKeeps, Zenon
    <3> QED
      BY <3>2
  <2>4. room = evictLRU(cells) => room = [cells EXCEPT ![way].valid = FALSE]
    BY DEF evictLRU
  <2>5. ASSUME NEW any \in Ways(cells), room = Removed(any, cells)
        PROVE  /\ room \in [0 .. ways - 1 -> Cell(ways, blocks)]
               /\ SetOK(room, fits)
               /\ isEmpty(room)
               /\ ~exists(tag, room)
    <3>1. any \in 0 .. ways - 1
      BY DEF Ways
    <3> QED
      BY <2>5, <3>1, RemovedKeeps
  <2> QED
    BY <2>2, <2>3, <2>4, <2>5 DEF Room
<1> QED
  BY <1>1, AddedKeeps, ZenonT(40)

-----------------------------------------------------------------------------
(* Searches by tag alone, in the older simulator.                          *)

LEMMA TagFound ==
  ASSUME NEW ways \in Nat \ {0}, NEW blocks, NEW tag,
         NEW cells \in [0 .. ways - 1 -> Cell(ways, blocks)],
         WithTag(cells, tag) # {}
  PROVE  First(WithTag(cells, tag)) \in 0 .. ways - 1
<1>1. WithTag(cells, tag) \in SUBSET (0 .. ways - 1)
  BY DEF WithTag, Ways
<1> QED
  BY <1>1, LeastWay

LEMMA ExistsHasTag ==
  ASSUME NEW cells, NEW tag, exists(tag, cells)
  PROVE  WithTag(cells, tag) # {}
BY DEF exists, Holding, Holds, WithTag

LEMMA TouchedKeeps ==
  ASSUME NEW ways \in Nat \ {0}, NEW blocks, NEW fits, NEW tag,
         NEW cells \in [0 .. ways - 1 -> Cell(ways, blocks)], SetOK(cells, fits),
         WithTag(cells, tag) # {}
  PROVE  /\ Touched(tag, cells) \in [0 .. ways - 1 -> Cell(ways, blocks)]
         /\ SetOK(Touched(tag, cells), fits)
         /\ \A t : exists(t, Touched(tag, cells)) <=> exists(t, cells)
         /\ \A w : w \in WithTag(Touched(tag, cells), tag) <=> w \in WithTag(cells, tag)
<1> DEFINE hit == First(WithTag(cells, tag))
<1>1. hit \in 0 .. ways - 1
  BY TagFound
<1>2. Touched(tag, cells) = Touch(hit, cells)
  BY DEF Touched
<1> HIDE DEF hit
<1>3. /\ Touch(hit, cells) \in [0 .. ways - 1 -> Cell(ways, blocks)]
      /\ SetOK(Touch(hit, cells), fits)
      /\ \A t : exists(t, Touch(hit, cells)) <=> exists(t, cells)
      /\ \A t, w : w \in WithTag(Touch(hit, cells), t) <=> w \in WithTag(cells, t)
  <2>1. ways \in Nat \ {0} /\ cells \in [0 .. ways - 1 -> Cell(ways, blocks)]
    OBVIOUS
  <2>2. /\ Touch(hit, cells) \in [0 .. ways - 1 -> Cell(ways, blocks)]
        /\ SetOK(Touch(hit, cells), fits)
    BY <1>1, <2>1, TouchKeeps, Zenon
  <2>3. \A t : exists(t, Touch(hit, cells)) <=> exists(t, cells)
    BY <1>1, <2>1, TouchKeeps, Zenon
  <2>4. \A t, w : w \in WithTag(Touch(hit, cells), t) <=> w \in WithTag(cells, t)
    BY <1>1, <2>1, TouchKeeps, Zenon
  <2> QED
    BY <2>2, <2>3, <2>4
<1>4. \A w : w \in WithTag(Touched(tag, cells), tag) <=> w \in WithTag(cells, tag)
  BY <1>2, <1>3
<1> QED
  BY <1>2, <1>3, <1>4, Zenon

LEMMA DirtiedKeeps ==
  ASSUME NEW ways \in Nat \ {0}, NEW blocks, NEW fits, NEW tag,
         NEW cells \in [0 .. ways - 1 -> Cell(ways, blocks)], SetOK(cells, fits),
         WithTag(cells, tag) # {}
  PROVE  /\ Dirtied(tag, cells) \in [0 .. ways - 1 -> Cell(ways, blocks)]
         /\ SetOK(Dirtied(tag, cells), fits)
         /\ \A t : exists(t, Dirtied(tag, cells)) <=> exists(t, cells)
         /\ \A w : w \in WithTag(Dirtied(tag, cells), tag) <=> w \in WithTag(cells, tag)
<1> DEFINE hit == First(WithTag(cells, tag))
           after == [cells EXCEPT ![hit].dirty = TRUE]
<1>1. hit \in 0 .. ways - 1
  BY TagFound
<1>2. Dirtied(tag, cells) = after
  BY DEF Dirtied
<1>3. /\ after \in [0 .. ways - 1 -> Cell(ways, blocks)]
      /\ SetOK(after, fits)
      /\ \A t : exists(t, after) <=> exists(t, cells)
      /\ \A t, w : w \in WithTag(after, t) <=> w \in WithTag(cells, t)
  <2> HIDE DEF hit
  <2>1. ways \in Nat \ {0} /\ cells \in [0 .. ways - 1 -> Cell(ways, blocks)]
    OBVIOUS
  <2>2. after \in [0 .. ways - 1 -> Cell(ways, blocks)] /\ SetOK(after, fits)
    BY <1>1, <2>1, DirtyKeeps, Zenon
  <2>3. \A t : exists(t, after) <=> exists(t, cells)
    BY <1>1, <2>1, DirtyKeeps, Zenon
  <2>4. \A t, w : w \in WithTag(after, t) <=> w \in WithTag(cells, t)
    BY <1>1, <2>1, DirtyKeeps, Zenon
  <2> QED
    BY <2>2, <2>3, <2>4
<1> HIDE DEF after
<1>4. \A w : w \in WithTag(Dirtied(tag, cells), tag) <=> w \in WithTag(cells, tag)
  BY <1>2, <1>3
<1> QED
  BY <1>2, <1>3, <1>4, Zenon

-----------------------------------------------------------------------------
(* What SetOK gives the properties.                                        *)
LEMMA SetOKFinds ==
  ASSUME NEW ways \in Nat \ {0}, NEW blocks, NEW fits,
         NEW cells \in [0 .. ways - 1 -> Cell(ways, blocks)], SetOK(cells, fits)
  PROVE  FirstIsValid(cells)
<1> SUFFICES ASSUME NEW way \in 0 .. ways - 1, cells[way].valid
             PROVE  First(WithTag(cells, cells[way].tag)) = way
  BY DEF FirstIsValid, Ways
<1>1. Holds(cells[way], cells[way].tag) /\ exists(cells[way].tag, cells)
  BY DEF Holds, exists, Holding, Ways
<1> QED
  BY <1>1, HitFound

LEMMA NewCellsOK ==
  ASSUME NEW ways \in Nat \ {0}, NEW blocks, NEW fits
  PROVE  /\ NewCells(ways) \in [0 .. ways - 1 -> Cell(ways, blocks)]
         /\ SetOK(NewCells(ways), fits)
<1>1. NewCells(ways) \in [0 .. ways - 1 -> Cell(ways, blocks)]
  BY DEF NewCells, Cell
<1>2. \A way \in 0 .. ways - 1 : ~NewCells(ways)[way].valid /\ NewCells(ways)[way].LRU = way
  BY DEF NewCells
<1>3. Ways(NewCells(ways)) = 0 .. ways - 1
  BY <1>1 DEF Ways
<1> QED
  BY <1>1, <1>2, <1>3 DEF SetOK, RanksDiffer, ValidFirst

-----------------------------------------------------------------------------
(* The two caches.                                                         *)

Cells1 == [0 .. config.L1Ways - 1 -> Cell(config.L1Ways, Blocks)]
Cells2 == [0 .. config.L2Ways - 1 -> Cell(config.L2Ways, Blocks)]

LEMMA ConfigTypes ==
  ASSUME config \in Configs
  PROVE  /\ config.L1Sets \in Nat \ {0} /\ config.L1Ways \in Nat \ {0}
         /\ config.L2Sets \in Nat \ {0} /\ config.L2Ways \in Nat \ {0}
         /\ Blocks \in SUBSET Nat
BY ConfigsAssumption DEF Config, Blocks

LEMMA DivMod ==
  ASSUME NEW a \in Nat, NEW s \in Nat \ {0}
  PROVE  a % s \in 0 .. s - 1 /\ a \div s \in Nat
OBVIOUS

LEMMA Places ==
  ASSUME config \in Configs, NEW b \in Nat
  PROVE  /\ Set1(b) \in 0 .. config.L1Sets - 1 /\ Tag1(b) \in Nat
         /\ Set2(b) \in 0 .. config.L2Sets - 1 /\ Tag2(b) \in Nat
BY ConfigTypes, DivMod DEF Set1, Set2, Tag1, Tag2, SetOf, TagOf

LEMMA SameQuotient ==
  ASSUME NEW s \in Nat \ {0}, NEW a \in Nat, NEW b \in Nat,
         a % s = b % s, a \div s = b \div s
  PROVE  a = b
<1>1. a = s * (a \div s) + (a % s) /\ b = s * (b \div s) + (b % s)
  OBVIOUS
<1> QED
  BY <1>1

(* Two blocks of one set have different tags.                              *)
LEMMA SamePlace ==
  ASSUME config \in Configs, NEW a \in Nat, NEW b \in Nat
  PROVE  /\ Set1(a) = Set1(b) /\ Tag1(a) = Tag1(b) => a = b
         /\ Set2(a) = Set2(b) /\ Tag2(a) = Tag2(b) => a = b
BY ConfigTypes, SameQuotient DEF Set1, Set2, Tag1, Tag2, SetOf, TagOf

(* One set of a cache is replaced.                                         *)
LEMMA L1Change ==
  ASSUME NEW l1, L1OK(l1), NEW set \in 0 .. config.L1Sets - 1,
         NEW cells \in Cells1, SetOK(cells, Fits1(set))
  PROVE  L1OK([l1 EXCEPT ![set] = cells])
BY DEF L1OK, Cells1

LEMMA L2Change ==
  ASSUME NEW l2, L2OK(l2), NEW set \in 0 .. config.L2Sets - 1,
         NEW cells \in Cells2, SetOK(cells, Fits2(set))
  PROVE  L2OK([l2 EXCEPT ![set] = cells])
BY DEF L2OK, Cells2

LEMMA L1Replaced ==
  ASSUME config \in Configs, NEW l1, L1OK(l1), NEW set, NEW cells, NEW c \in Nat
  PROVE  InL1([l1 EXCEPT ![set] = cells], c)
         <=> IF Set1(c) = set THEN exists(Tag1(c), cells) ELSE InL1(l1, c)
BY Places DEF InL1, L1OK

LEMMA L2Replaced ==
  ASSUME config \in Configs, NEW l2, L2OK(l2), NEW set, NEW cells, NEW c \in Nat
  PROVE  InL2([l2 EXCEPT ![set] = cells], c)
         <=> IF Set2(c) = set THEN exists(Tag2(c), cells) ELSE InL2(l2, c)
BY Places DEF InL2, L2OK

LEMMA L1Set ==
  ASSUME NEW l1, L1OK(l1), NEW set \in 0 .. config.L1Sets - 1
  PROVE  l1[set] \in Cells1 /\ SetOK(l1[set], Fits1(set))
BY DEF L1OK, Cells1

LEMMA L2Set ==
  ASSUME NEW l2, L2OK(l2), NEW set \in 0 .. config.L2Sets - 1
  PROVE  l2[set] \in Cells2 /\ SetOK(l2[set], Fits2(set))
BY DEF L2OK, Cells2

LEMMA L1Update ==
  ASSUME config \in Configs, NEW l1, L1OK(l1), NEW b \in Nat, InL1(l1, b)
  PROVE  L1OK([l1 EXCEPT ![Set1(b)] = updateLRU(Tag1(b), @)])
<1> DEFINE cells == l1[Set1(b)]
<1>1. Set1(b) \in 0 .. config.L1Sets - 1 /\ config.L1Ways \in Nat \ {0}
  BY Places, ConfigTypes
<1>2. cells \in Cells1 /\ SetOK(cells, Fits1(Set1(b))) /\ exists(Tag1(b), cells)
  BY <1>1, L1Set DEF InL1
<1> HIDE DEF cells
<1>3. updateLRU(Tag1(b), cells) \in Cells1 /\ SetOK(updateLRU(Tag1(b), cells), Fits1(Set1(b)))
  BY <1>1, <1>2, UpdateKeeps DEF Cells1
<1>4. L1OK([l1 EXCEPT ![Set1(b)] = updateLRU(Tag1(b), cells)])
  BY <1>1, <1>3, L1Change
<1> QED
  BY <1>4 DEF cells

LEMMA L2Update ==
  ASSUME config \in Configs, NEW l2, L2OK(l2), NEW b \in Nat, InL2(l2, b)
  PROVE  L2OK([l2 EXCEPT ![Set2(b)] = updateLRU(Tag2(b), @)])
<1> DEFINE cells == l2[Set2(b)]
<1>1. Set2(b) \in 0 .. config.L2Sets - 1 /\ config.L2Ways \in Nat \ {0}
  BY Places, ConfigTypes
<1>2. cells \in Cells2 /\ SetOK(cells, Fits2(Set2(b))) /\ exists(Tag2(b), cells)
  BY <1>1, L2Set DEF InL2
<1> HIDE DEF cells
<1>3. updateLRU(Tag2(b), cells) \in Cells2 /\ SetOK(updateLRU(Tag2(b), cells), Fits2(Set2(b)))
  BY <1>1, <1>2, UpdateKeeps DEF Cells2
<1>4. L2OK([l2 EXCEPT ![Set2(b)] = updateLRU(Tag2(b), cells)])
  BY <1>1, <1>3, L2Change
<1> QED
  BY <1>4 DEF cells

LEMMA L1Dirty ==
  ASSUME config \in Configs, NEW l1, L1OK(l1), NEW b \in Nat
  PROVE  L1OK(DirtyL1(l1, b)) /\ (InL1(DirtyL1(l1, b), b) <=> InL1(l1, b))
<1> DEFINE cells == l1[Set1(b)]
<1>1. Set1(b) \in 0 .. config.L1Sets - 1 /\ config.L1Ways \in Nat \ {0}
  BY Places, ConfigTypes
<1>2. cells \in Cells1 /\ SetOK(cells, Fits1(Set1(b)))
  BY <1>1, L1Set
<1> HIDE DEF cells
<1>3. /\ updateDirty(Tag1(b), cells) \in Cells1
      /\ SetOK(updateDirty(Tag1(b), cells), Fits1(Set1(b)))
      /\ \A t : exists(t, updateDirty(Tag1(b), cells)) <=> exists(t, cells)
  BY <1>1, <1>2, updateDirtyKeeps DEF Cells1
<1>4. L1OK([l1 EXCEPT ![Set1(b)] = updateDirty(Tag1(b), cells)])
  BY <1>1, <1>3, L1Change
<1>5. DirtyL1(l1, b)[Set1(b)] = updateDirty(Tag1(b), cells)
  BY <1>1 DEF DirtyL1, L1OK, cells
<1> QED
  BY <1>3, <1>4, <1>5 DEF cells, DirtyL1, InL1

LEMMA L2Dirty ==
  ASSUME config \in Configs, NEW l2, L2OK(l2), NEW b \in Nat
  PROVE  L2OK(DirtyL2(l2, b)) /\ (InL2(DirtyL2(l2, b), b) <=> InL2(l2, b))
<1> DEFINE cells == l2[Set2(b)]
<1>1. Set2(b) \in 0 .. config.L2Sets - 1 /\ config.L2Ways \in Nat \ {0}
  BY Places, ConfigTypes
<1>2. cells \in Cells2 /\ SetOK(cells, Fits2(Set2(b)))
  BY <1>1, L2Set
<1> HIDE DEF cells
<1>3. /\ updateDirty(Tag2(b), cells) \in Cells2
      /\ SetOK(updateDirty(Tag2(b), cells), Fits2(Set2(b)))
      /\ \A t : exists(t, updateDirty(Tag2(b), cells)) <=> exists(t, cells)
  BY <1>1, <1>2, updateDirtyKeeps DEF Cells2
<1>4. L2OK([l2 EXCEPT ![Set2(b)] = updateDirty(Tag2(b), cells)])
  BY <1>1, <1>3, L2Change
<1>5. DirtyL2(l2, b)[Set2(b)] = updateDirty(Tag2(b), cells)
  BY <1>1 DEF DirtyL2, L2OK, cells
<1> QED
  BY <1>3, <1>4, <1>5 DEF cells, DirtyL2, InL2

(* An update of the ranks after a block was marked dirty.                  *)
LEMMA DirtyThenUpdate ==
  ASSUME config \in Configs, NEW b \in Nat
  PROVE  /\ \A l1 : L1OK(l1) /\ InL1(l1, b) =>
              L1OK([l1 EXCEPT ![Set1(b)] = updateLRU(Tag1(b), updateDirty(Tag1(b), @))])
         /\ \A l2 : L2OK(l2) /\ InL2(l2, b) =>
              L2OK([l2 EXCEPT ![Set2(b)] = updateLRU(Tag2(b), updateDirty(Tag2(b), @))])
<1>1. ASSUME NEW l1, L1OK(l1), InL1(l1, b)
      PROVE  L1OK([l1 EXCEPT ![Set1(b)] = updateLRU(Tag1(b), updateDirty(Tag1(b), @))])
  <2> DEFINE marked == DirtyL1(l1, b)
  <2>1. L1OK(marked) /\ InL1(marked, b)
    BY <1>1, L1Dirty
  <2>2. [l1 EXCEPT ![Set1(b)] = updateLRU(Tag1(b), updateDirty(Tag1(b), @))]
        = [marked EXCEPT ![Set1(b)] = updateLRU(Tag1(b), @)]
    <3>1. Set1(b) \in DOMAIN l1 /\ l1 = [set \in DOMAIN l1 |-> l1[set]]
      BY <1>1, Places DEF L1OK
    <3> QED
      BY <3>1 DEF DirtyL1
  <2> HIDE DEF marked
  <2>3. L1OK([marked EXCEPT ![Set1(b)] = updateLRU(Tag1(b), @)])
    BY <2>1, L1Update
  <2> QED
    BY <2>2, <2>3, Zenon
<1>2. ASSUME NEW l2, L2OK(l2), InL2(l2, b)
      PROVE  L2OK([l2 EXCEPT ![Set2(b)] = updateLRU(Tag2(b), updateDirty(Tag2(b), @))])
  <2> DEFINE marked == DirtyL2(l2, b)
  <2>1. L2OK(marked) /\ InL2(marked, b)
    BY <1>2, L2Dirty
  <2>2. [l2 EXCEPT ![Set2(b)] = updateLRU(Tag2(b), updateDirty(Tag2(b), @))]
        = [marked EXCEPT ![Set2(b)] = updateLRU(Tag2(b), @)]
    <3>1. Set2(b) \in DOMAIN l2 /\ l2 = [set \in DOMAIN l2 |-> l2[set]]
      BY <1>2, Places DEF L2OK
    <3> QED
      BY <3>1 DEF DirtyL2
  <2> HIDE DEF marked
  <2>3. L2OK([marked EXCEPT ![Set2(b)] = updateLRU(Tag2(b), @)])
    BY <2>1, L2Update
  <2> QED
    BY <2>2, <2>3, Zenon
<1> QED
  BY <1>1, <1>2

LEMMA WriteBackKeeps ==
  ASSUME config \in Configs, NEW l2, L2OK(l2), NEW b \in Nat
  PROVE  L2OK(WriteBack(l2, b))
BY DirtyThenUpdate DEF WriteBack

LEMMA L1Evict ==
  ASSUME config \in Configs, NEW l1, L1OK(l1), NEW old \in Nat
  PROVE  LET after == [l1 EXCEPT ![Set1(old)] = evict(Tag1(old), @)]
         IN  L1OK(after) /\ \A b \in Nat : InL1(after, b) => InL1(l1, b)
<1> DEFINE cells == l1[Set1(old)]
           after == [l1 EXCEPT ![Set1(old)] = evict(Tag1(old), @)]
<1>1. Set1(old) \in 0 .. config.L1Sets - 1 /\ config.L1Ways \in Nat \ {0}
  BY Places, ConfigTypes
<1>2. cells \in Cells1 /\ SetOK(cells, Fits1(Set1(old)))
  BY <1>1, L1Set
<1> HIDE DEF cells
<1>3. /\ evict(Tag1(old), cells) \in Cells1
      /\ SetOK(evict(Tag1(old), cells), Fits1(Set1(old)))
      /\ \A t : exists(t, evict(Tag1(old), cells)) => exists(t, cells)
  BY <1>1, <1>2, evictKeeps DEF Cells1
<1>4. after = [l1 EXCEPT ![Set1(old)] = evict(Tag1(old), cells)]
  BY DEF cells
<1>5. L1OK(after)
  BY <1>1, <1>3, <1>4, L1Change
<1>6. ASSUME NEW b \in Nat, InL1(after, b) PROVE InL1(l1, b)
  <2>1. Set1(b) \in 0 .. config.L1Sets - 1
    BY Places
  <2>2. after[Set1(b)] = IF Set1(b) = Set1(old) THEN evict(Tag1(old), cells)
                         ELSE l1[Set1(b)]
    BY <1>4, <2>1 DEF L1OK
  <2> HIDE DEF after
  <2> QED
    BY <1>3, <1>6, <2>2 DEF InL1, cells
<1> QED
  BY <1>5, <1>6

-----------------------------------------------------------------------------
(* A block enters a cache.                                                 *)

LEMMA L1Fill ==
  ASSUME config \in Configs, NEW l1, L1OK(l1), NEW b \in Blocks, ~InL1(l1, b),
         NEW room, Room(room, l1[Set1(b)])
  PROVE  /\ L1OK([l1 EXCEPT ![Set1(b)] = Fill(Tag1(b), b, room)])
         /\ L1OK([l1 EXCEPT ![Set1(b)] = Added(Tag1(b), b, room)])
         /\ exists(Tag1(b), Added(Tag1(b), b, room))
<1>1. /\ Set1(b) \in 0 .. config.L1Sets - 1 /\ Tag1(b) \in Nat
      /\ config.L1Ways \in Nat \ {0} /\ b \in Nat
  BY Places, ConfigTypes
<1>2. /\ l1[Set1(b)] \in Cells1 /\ SetOK(l1[Set1(b)], Fits1(Set1(b)))
      /\ ~exists(Tag1(b), l1[Set1(b)])
  BY <1>1, L1Set DEF InL1
<1>3. <<Tag1(b), b>> \in Fits1(Set1(b))
  BY <1>1 DEF Fits1
<1> DEFINE filled == Fill(Tag1(b), b, room)
           added  == Added(Tag1(b), b, room)
<1>4. /\ filled \in Cells1 /\ SetOK(filled, Fits1(Set1(b)))
      /\ added \in Cells1 /\ SetOK(added, Fits1(Set1(b))) /\ exists(Tag1(b), added)
  BY <1>1, <1>2, <1>3, RoomFilled, Zenon DEF Cells1
<1> HIDE DEF filled, added
<1>5. L1OK([l1 EXCEPT ![Set1(b)] = filled]) /\ L1OK([l1 EXCEPT ![Set1(b)] = added])
  BY <1>1, <1>4, L1Change
<1> QED
  BY <1>4, <1>5 DEF filled, added

LEMMA L2Fill ==
  ASSUME config \in Configs, NEW l2, L2OK(l2), NEW b \in Blocks, ~InL2(l2, b),
         NEW address \in Blocks, Set2(address) = Set2(b),
         config.version = "HW2" => address = b,
         NEW room, Room(room, l2[Set2(b)])
  PROVE  /\ L2OK([l2 EXCEPT ![Set2(b)] = Fill(Tag2(b), address, room)])
         /\ L2OK([l2 EXCEPT ![Set2(b)] = Added(Tag2(b), address, room)])
         /\ \A c \in Nat :
              InL2([l2 EXCEPT ![Set2(b)] = Added(Tag2(b), address, room)], c)
              <=> IF Set2(c) = Set2(b)
                  THEN Tag2(c) = Tag2(b) \/ exists(Tag2(c), room)
                  ELSE InL2(l2, c)
<1>1. /\ Set2(b) \in 0 .. config.L2Sets - 1 /\ Tag2(b) \in Nat
      /\ config.L2Ways \in Nat \ {0} /\ b \in Nat
  BY Places, ConfigTypes
<1>2. /\ l2[Set2(b)] \in Cells2 /\ SetOK(l2[Set2(b)], Fits2(Set2(b)))
      /\ ~exists(Tag2(b), l2[Set2(b)])
  BY <1>1, L2Set DEF InL2
<1>3. <<Tag2(b), address>> \in Fits2(Set2(b))
  BY <1>1 DEF Fits2
<1> DEFINE filled == Fill(Tag2(b), address, room)
           added  == Added(Tag2(b), address, room)
<1>4. /\ filled \in Cells2 /\ SetOK(filled, Fits2(Set2(b)))
      /\ added \in Cells2 /\ SetOK(added, Fits2(Set2(b)))
      /\ \A t : exists(t, added) <=> t = Tag2(b) \/ exists(t, room)
  BY <1>1, <1>2, <1>3, RoomFilled, Zenon DEF Cells2
<1> HIDE DEF filled, added
<1>5. L2OK([l2 EXCEPT ![Set2(b)] = filled]) /\ L2OK([l2 EXCEPT ![Set2(b)] = added])
  BY <1>1, <1>4, L2Change
<1>6. ASSUME NEW c \in Nat
      PROVE  InL2([l2 EXCEPT ![Set2(b)] = added], c)
             <=> IF Set2(c) = Set2(b) THEN Tag2(c) = Tag2(b) \/ exists(Tag2(c), room)
                 ELSE InL2(l2, c)
  BY <1>4, L2Replaced
<1> QED
  BY <1>5, <1>6 DEF filled, added

(* The cell that makes room in a full set is valid: its address is one of  *)
(* the blocks, and in L2 one of the same set.                              *)
LEMMA L1Victim ==
  ASSUME config \in Configs, NEW l1, L1OK(l1), NEW set \in 0 .. config.L1Sets - 1,
         ~isEmpty(l1[set])
  PROVE  l1[set][First(Oldest(l1[set]))].address \in Blocks
<1> DEFINE cells == l1[set]
           way == First(Oldest(cells))
<1>1. cells \in Cells1 /\ SetOK(cells, Fits1(set)) /\ config.L1Ways \in Nat \ {0}
  BY L1Set, ConfigTypes
<1> HIDE DEF cells
<1>2. way \in 0 .. config.L1Ways - 1
  BY <1>1, OldestExists DEF SetOK, Cells1
<1>3. cells[way].valid /\ way \in Ways(cells)
  BY <1>1, <1>2 DEF isEmpty, Invalid, Ways, Cells1, cells
<1>4. <<cells[way].tag, cells[way].address>> \in Fits1(set)
  BY <1>1, <1>3 DEF SetOK
<1> QED
  BY <1>4 DEF Fits1, cells

LEMMA L2Victim ==
  ASSUME config \in Configs, NEW l2, L2OK(l2), NEW set \in 0 .. config.L2Sets - 1,
         ~isEmpty(l2[set])
  PROVE  /\ l2[set][First(Oldest(l2[set]))].address \in Blocks
         /\ Set2(l2[set][First(Oldest(l2[set]))].address) = set
         /\ config.version = "HW2" =>
              Holds(l2[set][First(Oldest(l2[set]))],
                    Tag2(l2[set][First(Oldest(l2[set]))].address))
<1> DEFINE cells == l2[set]
           way == First(Oldest(cells))
<1>1. cells \in Cells2 /\ SetOK(cells, Fits2(set)) /\ config.L2Ways \in Nat \ {0}
  BY L2Set, ConfigTypes
<1> HIDE DEF cells
<1>2. way \in 0 .. config.L2Ways - 1
  BY <1>1, OldestExists DEF SetOK, Cells2
<1>3. cells[way].valid /\ way \in Ways(cells)
  BY <1>1, <1>2 DEF isEmpty, Invalid, Ways, Cells2, cells
<1>4. <<cells[way].tag, cells[way].address>> \in Fits2(set)
  BY <1>1, <1>3 DEF SetOK
<1> QED
  BY <1>3, <1>4 DEF Fits2, Holds, cells

LEMMA addToL1Keeps ==
  ASSUME config \in Configs, NEW l1, L1OK(l1), NEW l2, L2OK(l2),
         NEW b \in Blocks, ~InL1(l1, b)
  PROVE  L1OK(addToL1(l1, l2, b).L1) /\ L2OK(addToL1(l1, l2, b).L2)
<1> DEFINE set    == Set1(b)
           cells  == l1[set]
           victim == cells[First(Oldest(cells))]
<1>1. set \in 0 .. config.L1Sets - 1 /\ Blocks \subseteq Nat
  BY Places, ConfigTypes
<1>2. CASE isEmpty(cells)
  <2>1. /\ addToL1(l1, l2, b).L1 = [l1 EXCEPT ![set] = Fill(Tag1(b), b, cells)]
        /\ addToL1(l1, l2, b).L2 = l2
    BY <1>2 DEF addToL1
  <2>2. Room(cells, l1[Set1(b)])
    BY <1>2 DEF Room
  <2>3. L1OK([l1 EXCEPT ![Set1(b)] = Fill(Tag1(b), b, cells)])
    BY <2>2, L1Fill, Zenon
  <2> QED
    BY <2>1, <2>3, Zenon
<1>3. CASE ~isEmpty(cells)
  <2>1. /\ addToL1(l1, l2, b).L1 = [l1 EXCEPT ![set] = Fill(Tag1(b), b, evictLRU(cells))]
        /\ addToL1(l1, l2, b).L2 =
             IF victim.dirty THEN WriteBack(l2, victim.address) ELSE l2
    BY <1>3 DEF addToL1
  <2>2. Room(evictLRU(cells), l1[Set1(b)])
    BY DEF Room
  <2>3. victim.address \in Blocks
    BY <1>1, <1>3, L1Victim, Zenon
  <2>4. L1OK(addToL1(l1, l2, b).L1)
    <3>1. L1OK([l1 EXCEPT ![Set1(b)] = Fill(Tag1(b), b, evictLRU(cells))])
      BY <2>2, L1Fill, Zenon
    <3> QED
      BY <2>1, <3>1, Zenon
  <2>5. L2OK(addToL1(l1, l2, b).L2)
    BY <1>1, <2>1, <2>3, WriteBackKeeps
  <2> QED
    BY <2>4, <2>5
<1> QED
  BY <1>2, <1>3

LEMMA addToL2Keeps ==
  ASSUME config \in Configs, NEW l1, L1OK(l1), NEW l2, L2OK(l2),
         NEW b \in Blocks, ~InL2(l2, b), NEW junk \in Blocks,
         config.version # "HW2"
  PROVE  LET mid == addToL2(l1, l2, b, junk)
         IN  /\ L1OK(mid.L1) /\ L2OK(mid.L2)
             /\ \A c \in Blocks : InL1(mid.L1, c) => InL1(l1, c)
<1> DEFINE mid   == addToL2(l1, l2, b, junk)
           set   == Set2(b)
           cells == l2[set]
           old     == getLRU(cells)
           cells1  == l1[Set1(old)]
           inL1    == InL1(l1, old)
           dirtyL1 == inL1 /\ isDirty(Tag1(old), cells1)
           dirtyAddress ==
             IF Evictable(Tag1(old), cells1) THEN cells1[0].address ELSE junk
           filled  == [l2 EXCEPT ![set] = Fill(Tag2(b), old, evictLRU(cells))]
<1>1. set \in 0 .. config.L2Sets - 1 /\ Blocks \subseteq Nat
  BY Places, ConfigTypes
<1>2. CASE isEmpty(cells)
  <2>1. mid.L1 = l1 /\ mid.L2 = [l2 EXCEPT ![set] = Fill(Tag2(b), b, cells)]
    BY <1>2 DEF addToL2
  <2>2. Room(cells, l2[Set2(b)])
    BY <1>2 DEF Room
  <2>3. L2OK([l2 EXCEPT ![set] = Fill(Tag2(b), b, cells)])
    BY <2>2, L2Fill
  <2> QED
    BY <2>1, <2>3
<1>3. CASE ~isEmpty(cells)
  <2>1. /\ mid.L1 = IF inL1 THEN [l1 EXCEPT ![Set1(old)] = evict(Tag1(old), @)] ELSE l1
        /\ mid.L2 = IF dirtyL1 THEN WriteBack(filled, dirtyAddress) ELSE filled
    BY <1>3 DEF addToL2
  <2>2. old \in Blocks /\ Set2(old) = set
    BY <1>1, <1>3, L2Victim, Zenon DEF getLRU
  <2>3. Room(evictLRU(cells), l2[Set2(b)])
    BY DEF Room
  <2>4. L2OK(filled)
    BY <2>2, <2>3, L2Fill
  <2>5. dirtyAddress \in Nat
    <3>1. Set1(old) \in 0 .. config.L1Sets - 1 /\ config.L1Ways \in Nat \ {0}
      BY <1>1, <2>2, Places, ConfigTypes
    <3>2. cells1[0] \in Cell(config.L1Ways, Blocks)
      BY <3>1, L1Set DEF Cells1
    <3>3. cells1[0].address \in Nat
      <4> HIDE DEF cells1
      <4>1. cells1[0].address \in Blocks \cup {0}
        BY <3>2 DEF Cell
      <4>2. Blocks \cup {0} \subseteq Nat
        BY ConfigTypes
      <4>3. QED BY <4>1, <4>2
    <3>4. junk \in Nat
      BY <1>1
    <3> HIDE DEF cells1
    <3> QED
      BY <3>3, <3>4
  <2>6. L1OK(mid.L1) /\ \A c \in Blocks : InL1(mid.L1, c) => InL1(l1, c)
    <3> DEFINE after == [l1 EXCEPT ![Set1(old)] = evict(Tag1(old), @)]
    <3>1. old \in Nat
      BY <1>1, <2>2
    <3>2. L1OK(after) /\ \A c \in Nat : InL1(after, c) => InL1(l1, c)
      BY <3>1, L1Evict, Zenon
    <3> HIDE DEF after, inL1
    <3>3. mid.L1 = after \/ mid.L1 = l1
      BY <2>1 DEF after
    <3> QED
      BY <1>1, <3>2, <3>3
  <2>7. L2OK(mid.L2)
    <3> HIDE DEF filled, dirtyAddress, dirtyL1, mid
    <3> QED
      BY <2>1, <2>4, <2>5, WriteBackKeeps
  <2> QED
    BY <2>6, <2>7
<1> QED
  BY <1>2, <1>3

LEMMA NewCommandKeeps ==
  ASSUME config \in Configs, config.version # "HW2", L1OK(L1), L2OK(L2),
         NEW b \in Blocks, Read(b) \/ Write(b)
  PROVE  L1OK(L1') /\ L2OK(L2')
<1>1. b \in Nat
  BY ConfigTypes
<1>2. CASE ReadL1Hit(b)
  BY <1>1, <1>2, L1Update DEF ReadL1Hit, TouchL1
<1>3. CASE ReadL2Hit(b)
  <2>1. L2OK(TouchL2(L2, b))
    BY <1>1, <1>3, L2Update DEF ReadL2Hit, TouchL2
  <2> QED
    BY <1>3, <2>1, addToL1Keeps DEF ReadL2Hit
<1>4. CASE ReadMiss(b)
  <2>1. PICK junk \in Blocks :
          LET mid   == addToL2(L1, L2, b, junk)
              after == addToL1(mid.L1, mid.L2, b)
          IN  L1' = after.L1 /\ L2' = after.L2
    BY <1>4 DEF ReadMiss
  <2> DEFINE mid == addToL2(L1, L2, b, junk)
  <2>2. L1OK(mid.L1) /\ L2OK(mid.L2) /\ ~InL1(mid.L1, b)
    BY <1>4, addToL2Keeps DEF ReadMiss
  <2> HIDE DEF mid
  <2>3. /\ L1OK(addToL1(mid.L1, mid.L2, b).L1)
        /\ L2OK(addToL1(mid.L1, mid.L2, b).L2)
    BY <2>2, addToL1Keeps
  <2> QED
    BY <2>1, <2>3 DEF mid
<1>5. CASE WriteL1Hit(b)
  BY <1>1, <1>5, DirtyThenUpdate DEF WriteL1Hit
<1>6. CASE WriteL2Hit(b)
  <2> DEFINE marked  == DirtyL2(L2, b)
             touched == TouchL2(marked, b)
             after   == addToL1(L1, touched, b)
  <2>1. ~InL1(L1, b) /\ L2OK(marked) /\ InL2(marked, b)
    BY <1>1, <1>6, L2Dirty DEF WriteL2Hit
  <2>2. L2OK(touched)
    <3> HIDE DEF marked
    <3> QED
      BY <1>1, <2>1, L2Update DEF TouchL2
  <2>3. /\ L1' = IF config.writeAlloc THEN DirtyL1(after.L1, b) ELSE L1
        /\ L2' = IF config.writeAlloc THEN after.L2 ELSE touched
    BY <1>6 DEF WriteL2Hit
  <2> HIDE DEF touched
  <2>4. L1OK(after.L1) /\ L2OK(after.L2)
    BY <2>1, <2>2, addToL1Keeps
  <2> HIDE DEF after
  <2>5. L1OK(DirtyL1(after.L1, b))
    BY <1>1, <2>4, L1Dirty
  <2> QED
    BY <2>2, <2>3, <2>4, <2>5
<1>7. CASE WriteMissAlloc(b)
  <2>1. PICK junk \in Blocks :
          LET mid   == addToL2(L1, L2, b, junk)
              after == addToL1(mid.L1, DirtyL2(mid.L2, b), b)
          IN  L1' = DirtyL1(after.L1, b) /\ L2' = after.L2
    BY <1>7 DEF WriteMissAlloc
  <2> DEFINE mid    == addToL2(L1, L2, b, junk)
             marked == DirtyL2(mid.L2, b)
             after  == addToL1(mid.L1, marked, b)
  <2>2. L1OK(mid.L1) /\ L2OK(mid.L2) /\ ~InL1(mid.L1, b)
    BY <1>7, addToL2Keeps DEF WriteMissAlloc
  <2>3. L1' = DirtyL1(after.L1, b) /\ L2' = after.L2
    BY <2>1
  <2> HIDE DEF mid
  <2>4. L2OK(marked)
    BY <1>1, <2>2, L2Dirty
  <2> HIDE DEF marked
  <2>5. L1OK(after.L1) /\ L2OK(after.L2)
    BY <2>2, <2>4, addToL1Keeps
  <2> HIDE DEF after
  <2>6. L1OK(DirtyL1(after.L1, b))
    BY <1>1, <2>5, L1Dirty
  <2> QED
    BY <2>3, <2>5, <2>6
<1>8. CASE WriteMissNoAlloc(b)
  BY <1>8 DEF WriteMissNoAlloc
<1> QED
  BY <1>2, <1>3, <1>4, <1>5, <1>6, <1>7, <1>8 DEF Read, Write

-----------------------------------------------------------------------------
(* The older simulator.                                                    *)

LEMMA L1Remove ==
  ASSUME config \in Configs, NEW l1, L1OK(l1), NEW old \in Nat, InL1(l1, old)
  PROVE  LET idx   == First(WithTag(l1[Set1(old)], Tag1(old)))
             after == [l1 EXCEPT ![Set1(old)] = Removed(idx, @)]
         IN  /\ L1OK(after)
             /\ \A c \in Nat : InL1(after, c) <=> InL1(l1, c) /\ c # old
<1> DEFINE cells == l1[Set1(old)]
           idx   == First(WithTag(cells, Tag1(old)))
           after == [l1 EXCEPT ![Set1(old)] = Removed(idx, @)]
<1>1. Set1(old) \in 0 .. config.L1Sets - 1 /\ config.L1Ways \in Nat \ {0}
  BY Places, ConfigTypes
<1>2. /\ cells \in [0 .. config.L1Ways - 1 -> Cell(config.L1Ways, Blocks)]
      /\ SetOK(cells, Fits1(Set1(old))) /\ exists(Tag1(old), cells)
  BY <1>1, L1Set DEF InL1, Cells1
<1> HIDE DEF cells
<1>3. idx \in 0 .. config.L1Ways - 1 /\ Holds(cells[idx], Tag1(old))
  BY <1>1, <1>2, HitFound
<1> HIDE DEF idx
<1>4. /\ Removed(idx, cells) \in Cells1
      /\ SetOK(Removed(idx, cells), Fits1(Set1(old)))
  BY <1>1, <1>2, <1>3, RemovedKeeps DEF Cells1
<1>5. \A t : exists(t, Removed(idx, cells)) <=> exists(t, cells) /\ t # Tag1(old)
  BY <1>1, <1>2, <1>3, TagRemoved, Zenon
<1>6. after = [l1 EXCEPT ![Set1(old)] = Removed(idx, cells)]
  BY DEF cells
<1>7. L1OK(after)
  BY <1>1, <1>4, <1>6, L1Change
<1>8. ASSUME NEW c \in Nat PROVE InL1(after, c) <=> InL1(l1, c) /\ c # old
  <2>1. InL1(after, c) <=> IF Set1(c) = Set1(old) THEN exists(Tag1(c), Removed(idx, cells))
                           ELSE InL1(l1, c)
    BY <1>6, L1Replaced
  <2> HIDE DEF after
  <2> QED
    BY <1>5, <2>1, SamePlace DEF InL1, cells
<1> QED
  BY <1>7, <1>8 DEF after, idx, cells

LEMMA SaveKeeps ==
  ASSUME config \in Configs, NEW l2, L2OK(l2), NEW b \in Nat
  PROVE  /\ L2OK(SaveInL2(l2, b))
         /\ \A c \in Nat : InL2(SaveInL2(l2, b), c) <=> InL2(l2, c)
<1> DEFINE cells == l2[Set2(b)]
           after == Touched(Tag2(b), Dirtied(Tag2(b), cells))
<1>1. Set2(b) \in 0 .. config.L2Sets - 1 /\ config.L2Ways \in Nat \ {0}
  BY Places, ConfigTypes
<1>2. CASE WithTag(cells, Tag2(b)) # {}
  <2>1. cells \in Cells2 /\ SetOK(cells, Fits2(Set2(b)))
    BY <1>1, L2Set
  <2> DEFINE marked == Dirtied(Tag2(b), cells)
  <2> HIDE DEF cells
  <2>2. /\ marked \in Cells2 /\ SetOK(marked, Fits2(Set2(b)))
        /\ WithTag(marked, Tag2(b)) # {}
        /\ \A t : exists(t, marked) <=> exists(t, cells)
    <3>1. WithTag(cells, Tag2(b)) # {}
      BY <1>2 DEF cells
    <3>2. marked \in Cells2 /\ SetOK(marked, Fits2(Set2(b)))
      BY <1>1, <2>1, <3>1, DirtiedKeeps, Zenon DEF Cells2
    <3>3. \A w : w \in WithTag(marked, Tag2(b)) <=> w \in WithTag(cells, Tag2(b))
      BY <1>1, <2>1, <3>1, DirtiedKeeps, Zenon DEF Cells2
    <3>4. \A t : exists(t, marked) <=> exists(t, cells)
      BY <1>1, <2>1, <3>1, DirtiedKeeps, Zenon DEF Cells2
    <3> QED
      BY <3>1, <3>2, <3>3, <3>4
  <2> HIDE DEF marked
  <2>3. /\ Touched(Tag2(b), marked) \in Cells2
        /\ SetOK(Touched(Tag2(b), marked), Fits2(Set2(b)))
        /\ \A t : exists(t, Touched(Tag2(b), marked)) <=> exists(t, marked)
    BY <1>1, <2>2, TouchedKeeps DEF Cells2
  <2>4. /\ after \in Cells2 /\ SetOK(after, Fits2(Set2(b)))
        /\ \A t : exists(t, after) <=> exists(t, cells)
    BY <2>2, <2>3 DEF marked
  <2>5. SaveInL2(l2, b) = [l2 EXCEPT ![Set2(b)] = after]
    BY <1>2 DEF SaveInL2, cells
  <2> HIDE DEF after
  <2>6. L2OK([l2 EXCEPT ![Set2(b)] = after])
    BY <1>1, <2>4, L2Change
  <2>7. ASSUME NEW c \in Nat
        PROVE  InL2([l2 EXCEPT ![Set2(b)] = after], c) <=> InL2(l2, c)
    BY <2>4, L2Replaced DEF InL2, cells
  <2> QED
    BY <2>5, <2>6, <2>7, Zenon
<1>3. CASE ~(WithTag(cells, Tag2(b)) # {})
  BY <1>3 DEF SaveInL2
<1> QED
  BY <1>2, <1>3

LEMMA BringToL1Keeps ==
  ASSUME config \in Configs, NEW l1, L1OK(l1), NEW l2, L2OK(l2),
         NEW b \in Blocks, ~InL1(l1, b), NEW write
  PROVE  /\ L1OK(BringToL1(l1, l2, b, write).L1)
         /\ L2OK(BringToL1(l1, l2, b, write).L2)
         /\ \A c \in Nat : InL1(BringToL1(l1, l2, b, write).L1, c) => c = b \/ InL1(l1, c)
         /\ \A c \in Nat : InL2(BringToL1(l1, l2, b, write).L2, c) <=> InL2(l2, c)
<1> DEFINE cells  == l1[Set1(b)]
           lru    == First(Oldest(cells))
           full   == ~isEmpty(cells)
           room   == IF full THEN Removed(lru, cells) ELSE cells
           added  == Added(Tag1(b), b, room)
           after  == BringToL1(l1, l2, b, write)
<1>1. /\ Set1(b) \in 0 .. config.L1Sets - 1 /\ Tag1(b) \in Nat
      /\ config.L1Ways \in Nat \ {0} /\ Blocks \subseteq Nat
  BY Places, ConfigTypes
<1>2. /\ after.L1 = [l1 EXCEPT ![Set1(b)] = IF write THEN Dirtied(Tag1(b), added)
                                            ELSE added]
      /\ after.L2 = IF full /\ cells[lru].dirty THEN SaveInL2(l2, cells[lru].address)
                    ELSE l2
  BY DEF BringToL1
<1>3. cells \in Cells1 /\ SetOK(cells, Fits1(Set1(b))) /\ ~exists(Tag1(b), cells)
  BY <1>1, L1Set DEF InL1
<1>4. lru \in 0 .. config.L1Ways - 1
  <2> HIDE DEF cells
  <2> QED
    BY <1>1, <1>3, OldestExists DEF SetOK, Cells1
<1>5. Room(room, l1[Set1(b)])
  <2>1. lru \in Ways(cells)
    BY <1>3, <1>4 DEF Ways, Cells1
  <2> QED
    BY <2>1 DEF Room
<1>6. <<Tag1(b), b>> \in Fits1(Set1(b))
  BY <1>1 DEF Fits1
<1>7. /\ added \in Cells1 /\ SetOK(added, Fits1(Set1(b))) /\ exists(Tag1(b), added)
      /\ \A t : exists(t, added) => t = Tag1(b) \/ exists(t, cells)
  <2>1. \A t : exists(t, room) => exists(t, cells)
    <3> HIDE DEF cells, lru
    <3>1. full => \A t : exists(t, Removed(lru, cells)) => exists(t, cells)
      BY <1>1, <1>3, <1>4, RemovedKeeps DEF Cells1
    <3> QED
      BY <3>1
  <2> HIDE DEF room
  <2>2. /\ added \in Cells1 /\ SetOK(added, Fits1(Set1(b)))
        /\ \A t : exists(t, added) <=> t = Tag1(b) \/ exists(t, room)
    BY <1>1, <1>3, <1>5, <1>6, RoomFilled, Zenon DEF Cells1
  <2> QED
    BY <2>1, <2>2
<1>8. L1OK(after.L1) /\ \A c \in Nat : InL1(after.L1, c) => c = b \/ InL1(l1, c)
  <2> HIDE DEF added, after
  <2>1. WithTag(added, Tag1(b)) # {}
    BY <1>7, ExistsHasTag
  <2> DEFINE marked == Dirtied(Tag1(b), added)
  <2>2. /\ marked \in Cells1 /\ SetOK(marked, Fits1(Set1(b)))
        /\ \A t : exists(t, marked) <=> exists(t, added)
    BY <1>1, <1>7, <2>1, DirtiedKeeps DEF Cells1
  <2> HIDE DEF marked
  <2>3. L1OK([l1 EXCEPT ![Set1(b)] = marked]) /\ L1OK([l1 EXCEPT ![Set1(b)] = added])
    BY <1>1, <1>7, <2>2, L1Change
  <2>4. ASSUME NEW c \in Nat,
               \/ InL1([l1 EXCEPT ![Set1(b)] = marked], c)
               \/ InL1([l1 EXCEPT ![Set1(b)] = added], c)
        PROVE  c = b \/ InL1(l1, c)
    <3>1. IF Set1(c) = Set1(b) THEN exists(Tag1(c), added) ELSE InL1(l1, c)
      BY <2>2, <2>4, L1Replaced
    <3>2. CASE Set1(c) = Set1(b)
      <4>1. Tag1(c) = Tag1(b) \/ InL1(l1, c)
        BY <1>7, <3>1, <3>2 DEF InL1
      <4>2. b \in Nat
        BY <1>1
      <4> QED
        BY <3>2, <4>1, <4>2, SamePlace
    <3> QED
      BY <3>1, <3>2
  <2> QED
    BY <1>2, <2>3, <2>4 DEF marked
<1>9. L2OK(after.L2) /\ \A c \in Nat : InL2(after.L2, c) <=> InL2(l2, c)
  <2> HIDE DEF after
  <2>1. full => cells[lru].address \in Blocks
    BY <1>1, L1Victim, Zenon
  <2> DEFINE victim == cells[lru].address
  <2> HIDE DEF full, lru, cells
  <2>2. full => /\ L2OK(SaveInL2(l2, victim))
                /\ \A c \in Nat : InL2(SaveInL2(l2, victim), c) <=> InL2(l2, c)
    BY <1>1, <2>1, SaveKeeps
  <2> QED
    BY <1>2, <2>2
<1> QED
  BY <1>8, <1>9

LEMMA BringToL2Keeps ==
  ASSUME config \in Configs, config.version = "HW2",
         NEW l1, L1OK(l1), NEW l2, L2OK(l2),
         NEW b \in Blocks, ~InL2(l2, b), NEW idxInSet \in 0 .. config.L2Ways - 1
  PROVE  LET mid == BringToL2(l1, l2, b, idxInSet)
         IN  /\ L1OK(mid.L1) /\ L2OK(mid.L2)
             /\ \A c \in Blocks : InL1(mid.L1, c) => InL1(l1, c)
             /\ InL2(mid.L2, b)
             /\ \A c \in Blocks : InL1(mid.L1, c) /\ InL2(l2, c) => InL2(mid.L2, c)
             /\ \A c \in Blocks :
                  InL1(l1, c) /\ InL2(mid.L2, c) /\ c # b => InL1(mid.L1, c)
<1> DEFINE mid     == BringToL2(l1, l2, b, idxInSet)
           cells   == l2[Set2(b)]
           lru     == First(Oldest(cells))
           old     == cells[lru].address
           set     == Set1(old)
           tag     == Tag1(old)
           idx     == First(WithTag(l1[set], tag))
           found   == WithTag(l2[set], tag)
           way     == IF found # {} THEN First(found) ELSE idxInSet
           touched == [l2 EXCEPT ![set] = Touch(way, l2[set])]
           moved   == IF InL1(l1, old) /\ l1[set][idx].dirty THEN touched ELSE l2
           room    == Removed(lru, moved[Set2(b)])
<1>1. /\ Set2(b) \in 0 .. config.L2Sets - 1 /\ Tag2(b) \in Nat
      /\ config.L1Ways \in Nat \ {0} /\ config.L2Ways \in Nat \ {0}
      /\ config.L1Sets \in Nat \ {0} /\ config.L2Sets \in Nat \ {0}
      /\ config.L1Sets <= config.L2Sets
      /\ Blocks \subseteq Nat
  BY Places, ConfigTypes, OldConfigsAssumption
<1>2. CASE isEmpty(cells)
  <2>1. mid.L1 = l1 /\ mid.L2 = [l2 EXCEPT ![Set2(b)] = Added(Tag2(b), b, cells)]
    BY <1>2 DEF BringToL2
  <2>2. Room(cells, l2[Set2(b)])
    BY <1>2 DEF Room
  <2>3. /\ L2OK([l2 EXCEPT ![Set2(b)] = Added(Tag2(b), b, cells)])
        /\ \A c \in Nat :
             InL2([l2 EXCEPT ![Set2(b)] = Added(Tag2(b), b, cells)], c)
             <=> IF Set2(c) = Set2(b) THEN Tag2(c) = Tag2(b) \/ exists(Tag2(c), cells)
                 ELSE InL2(l2, c)
    BY <2>2, L2Fill
  <2>4. ASSUME NEW c \in Nat, InL2(l2, c) \/ c = b PROVE InL2(mid.L2, c)
    <3> HIDE DEF mid
    <3> QED
      BY <2>1, <2>3, <2>4 DEF InL2
  <2> QED
    BY <1>1, <2>1, <2>3, <2>4
<1>3. CASE ~isEmpty(cells)
  <2>1. /\ mid.L1 = IF InL1(l1, old) THEN [l1 EXCEPT ![set] = Removed(idx, l1[set])] ELSE l1
        /\ mid.L2 = [moved EXCEPT ![Set2(b)] = Added(Tag2(b), b, room)]
    <3> HIDE DEF way
    <3> QED
      BY <1>3 DEF BringToL2, way
  <2>2. old \in Blocks
    BY <1>1, <1>3, L2Victim, Zenon
  <2>3. /\ set \in 0 .. config.L1Sets - 1 /\ set \in 0 .. config.L2Sets - 1
        /\ tag \in Nat /\ old \in Nat
    <3> HIDE DEF old
    <3> QED
      BY <1>1, <2>2, Places
  <2>4. lru \in 0 .. config.L2Ways - 1
    <3>1. cells \in Cells2 /\ SetOK(cells, Fits2(Set2(b)))
      BY <1>1, L2Set
    <3> HIDE DEF cells
    <3> QED
      BY <1>1, <3>1, OldestExists DEF SetOK, Cells2
  <2>5. /\ L1OK(mid.L1)
        /\ \A c \in Blocks : InL1(mid.L1, c) => InL1(l1, c) /\ c # old
        /\ \A c \in Blocks : InL1(l1, c) /\ c # old => InL1(mid.L1, c)
    <3> HIDE DEF old, set, tag, mid
    <3>1. CASE ~InL1(l1, old)
      BY <2>1, <3>1
    <3>2. CASE InL1(l1, old)
      <4>1. mid.L1 = [l1 EXCEPT ![set] = Removed(idx, @)]
        BY <2>1, <3>2
      <4>2. /\ L1OK([l1 EXCEPT ![set] = Removed(idx, @)])
            /\ \A c \in Nat : InL1([l1 EXCEPT ![set] = Removed(idx, @)], c)
                              <=> InL1(l1, c) /\ c # old
        BY <2>3, <3>2, L1Remove, Zenon DEF set, tag
      <4> QED
        BY <1>1, <4>1, <4>2
    <3> QED
      BY <3>1, <3>2
  <2>6. /\ L2OK(touched) /\ ~InL2(touched, b)
        /\ \A c \in Nat : InL2(touched, c) <=> InL2(l2, c)
        /\ Holds(touched[Set2(b)][lru], Tag2(old))
    <3> DEFINE line  == l2[set]
               after == Touch(way, line)
    <3>0. Holds(cells[lru], Tag2(old))
      BY <1>1, <1>3, L2Victim, Zenon
    <3> HIDE DEF old, set, tag, lru
    <3>1. line \in Cells2 /\ SetOK(line, Fits2(set))
      BY <2>3, L2Set
    <3>2. way \in 0 .. config.L2Ways - 1
      <4> HIDE DEF line
      <4>1. WithTag(line, tag) # {} => First(WithTag(line, tag)) \in 0 .. config.L2Ways - 1
        BY <1>1, <3>1, TagFound DEF Cells2
      <4> QED
        BY <4>1 DEF line
    <3> HIDE DEF way, line
    <3>3. after \in Cells2 /\ SetOK(after, Fits2(set))
      BY <1>1, <3>1, <3>2, TouchKeeps DEF Cells2
    <3>4. /\ \A t : exists(t, after) <=> exists(t, line)
          /\ \A t, w : w \in Holding(after, t) <=> w \in Holding(line, t)
      BY <1>1, <3>1, <3>2, TouchKeeps DEF Cells2
    <3> HIDE DEF after
    <3>5. touched = [l2 EXCEPT ![set] = after]
      BY DEF after, line
    <3>6. L2OK([l2 EXCEPT ![set] = after])
      BY <2>3, <3>3, L2Change
    <3>7. touched[Set2(b)] = IF Set2(b) = set THEN after ELSE l2[Set2(b)]
      BY <1>1, <3>5 DEF L2OK
    <3> HIDE DEF touched
    <3>8. ~InL2(touched, b)
      BY <3>4, <3>5, <3>6, <3>7 DEF InL2, line
    <3>9. ASSUME NEW c \in Nat PROVE InL2(touched, c) <=> InL2(l2, c)
      BY <3>4, <3>5, L2Replaced DEF InL2, line
    <3>10. Holds(touched[Set2(b)][lru], Tag2(old))
      <4>1. CASE Set2(b) = set
        <5>1. lru \in Holding(line, Tag2(old))
          <6>1. Ways(line) = 0 .. config.L2Ways - 1
            BY <3>1 DEF Ways, Cells2
          <6> QED
            BY <2>4, <3>0, <4>1, <6>1 DEF Holding, line
        <5> QED
          BY <3>4, <3>7, <4>1, <5>1 DEF Holding
      <4>2. CASE Set2(b) # set
        BY <3>0, <3>7, <4>2
      <4> QED
        BY <4>1, <4>2
    <3> QED
      BY <3>5, <3>6, <3>8, <3>9, <3>10
  <2>7. /\ L2OK(moved) /\ ~InL2(moved, b)
        /\ \A c \in Nat : InL2(moved, c) <=> InL2(l2, c)
        /\ Holds(moved[Set2(b)][lru], Tag2(old))
    <3>1. Holds(cells[lru], Tag2(old))
      BY <1>1, <1>3, L2Victim, Zenon
    <3> HIDE DEF touched, lru, old
    <3> QED
      BY <2>6, <3>1
  <2> HIDE DEF moved, lru, old
  <2>8. Room(room, moved[Set2(b)])
    <3>1. moved[Set2(b)] \in Cells2
      BY <1>1, <2>7, L2Set
    <3>2. lru \in Ways(moved[Set2(b)])
      BY <2>4, <3>1 DEF Ways, Cells2
    <3> QED
      BY <3>2 DEF Room
  <2>9. /\ L2OK([moved EXCEPT ![Set2(b)] = Added(Tag2(b), b, room)])
        /\ \A c \in Nat :
             InL2([moved EXCEPT ![Set2(b)] = Added(Tag2(b), b, room)], c)
             <=> IF Set2(c) = Set2(b) THEN Tag2(c) = Tag2(b) \/ exists(Tag2(c), room)
                 ELSE InL2(moved, c)
    <3> HIDE DEF room
    <3> QED
      BY <2>7, <2>8, L2Fill
  <2>10. \A t : exists(t, room) <=> exists(t, moved[Set2(b)]) /\ t # Tag2(old)
    <3> DEFINE line == moved[Set2(b)]
    <3>1. line \in Cells2 /\ SetOK(line, Fits2(Set2(b))) /\ Holds(line[lru], Tag2(old))
      BY <1>1, <2>7, L2Set
    <3> HIDE DEF line
    <3>2. \A t : exists(t, Removed(lru, line)) <=> exists(t, line) /\ t # Tag2(old)
      BY <1>1, <2>4, <3>1, TagRemoved, Zenon DEF Cells2
    <3> QED
      BY <3>2 DEF line
  <2> HIDE DEF mid, room
  <2>11. InL2(mid.L2, b)
    BY <1>1, <2>1, <2>9
  <2>12. ASSUME NEW c \in Blocks, InL1(mid.L1, c), InL2(l2, c)
         PROVE  InL2(mid.L2, c)
    <3>1. c \in Nat /\ c # old /\ InL2(moved, c)
      BY <1>1, <2>5, <2>7, <2>12
    <3>2. Set2(old) = Set2(b)
      BY <1>1, <1>3, L2Victim, Zenon DEF old, lru
    <3>3. CASE Set2(c) = Set2(b)
      <4>1. Tag2(c) # Tag2(old)
        BY <2>3, <3>1, <3>2, <3>3, SamePlace
      <4>2. exists(Tag2(c), room)
        BY <2>10, <3>1, <3>3, <4>1 DEF InL2
      <4> QED
        BY <2>1, <2>9, <3>1, <3>3, <4>2
    <3>4. CASE Set2(c) # Set2(b)
      BY <2>1, <2>9, <3>1, <3>4
    <3> QED
      BY <3>3, <3>4
  <2>13. ASSUME NEW c \in Blocks, InL1(l1, c), InL2(mid.L2, c), c # b
         PROVE  InL1(mid.L1, c)
    <3>1. SUFFICES c # old
      BY <2>5, <2>13
    <3>2. SUFFICES ASSUME c = old PROVE FALSE
      OBVIOUS
    <3>3. c \in Nat /\ b \in Nat /\ Set2(c) = Set2(b)
      BY <1>1, <1>3, <3>2, L2Victim, Zenon DEF old, lru
    <3>4. Tag2(c) # Tag2(b)
      BY <2>13, <3>3, SamePlace
    <3>5. exists(Tag2(c), room)
      BY <2>1, <2>9, <2>13, <3>3, <3>4
    <3> QED
      BY <2>10, <3>2, <3>5
  <2>14. /\ L1OK(mid.L1) /\ L2OK(mid.L2)
         /\ \A c \in Blocks : InL1(mid.L1, c) => InL1(l1, c)
    BY <2>1, <2>5, <2>9
  <2> QED
    BY <2>11, <2>12, <2>13, <2>14, Zenon DEF mid
<1> QED
  BY <1>2, <1>3

LEMMA OldCommandKeeps ==
  ASSUME config \in Configs, config.version = "HW2", L1OK(L1), L2OK(L2),
         NEW b \in Blocks, NEW operation, cacheMemHandler(b, operation)
  PROVE  /\ L1OK(L1') /\ L2OK(L2')
         /\ Inclusive => \A c \in Blocks : InL1(L1', c) => InL2(L2', c)
<1>1. /\ b \in Nat /\ config.L1Ways \in Nat \ {0} /\ config.L2Ways \in Nat \ {0}
      /\ Set1(b) \in 0 .. config.L1Sets - 1 /\ Set2(b) \in 0 .. config.L2Sets - 1
  BY ConfigTypes, Places
<1>2. CASE OldL1Hit(b, operation)
  <2> DEFINE cells   == L1[Set1(b)]
             touched == Touched(Tag1(b), cells)
             marked  == Dirtied(Tag1(b), touched)
  <2>1. cells \in Cells1 /\ SetOK(cells, Fits1(Set1(b))) /\ WithTag(cells, Tag1(b)) # {}
    BY <1>1, <1>2, L1Set, ExistsHasTag DEF OldL1Hit, InL1
  <2>2. /\ L1' = [L1 EXCEPT ![Set1(b)] = IF operation = "w" THEN marked ELSE touched]
        /\ L2' = L2
    BY <1>2 DEF OldL1Hit
  <2> HIDE DEF cells
  <2>3. /\ touched \in Cells1 /\ SetOK(touched, Fits1(Set1(b)))
        /\ WithTag(touched, Tag1(b)) # {}
        /\ \A t : exists(t, touched) <=> exists(t, cells)
    <3>1. touched \in Cells1 /\ SetOK(touched, Fits1(Set1(b)))
      BY <1>1, <2>1, TouchedKeeps, Zenon DEF Cells1
    <3>3. \A t : exists(t, touched) <=> exists(t, cells)
      BY <1>1, <2>1, TouchedKeeps, Zenon DEF Cells1
    <3>2. \A w : w \in WithTag(touched, Tag1(b)) <=> w \in WithTag(cells, Tag1(b))
      BY <1>1, <2>1, TouchedKeeps, Zenon DEF Cells1
    <3> QED
      BY <2>1, <3>1, <3>2, <3>3
  <2> HIDE DEF touched
  <2>4. /\ marked \in Cells1 /\ SetOK(marked, Fits1(Set1(b)))
        /\ \A t : exists(t, marked) <=> exists(t, touched)
    BY <1>1, <2>3, DirtiedKeeps DEF Cells1
  <2> HIDE DEF marked
  <2>5. L1OK([L1 EXCEPT ![Set1(b)] = marked]) /\ L1OK([L1 EXCEPT ![Set1(b)] = touched])
    BY <1>1, <2>3, <2>4, L1Change
  <2>6. ASSUME NEW c \in Nat
        PROVE  /\ InL1([L1 EXCEPT ![Set1(b)] = marked], c) <=> InL1(L1, c)
               /\ InL1([L1 EXCEPT ![Set1(b)] = touched], c) <=> InL1(L1, c)
    BY <2>3, <2>4, L1Replaced DEF InL1, cells
  <2>7. Blocks \subseteq Nat
    BY ConfigTypes
  <2> QED
    BY <2>2, <2>5, <2>6, <2>7 DEF Inclusive
<1>3. CASE OldL2Hit(b, operation)
  <2> DEFINE cells   == L2[Set2(b)]
             new     == Touched(Tag2(b), cells)
             touched == [L2 EXCEPT ![Set2(b)] = new]
             after   == BringToL1(L1, touched, b, operation = "w")
  <2>1. /\ cells \in Cells2 /\ SetOK(cells, Fits2(Set2(b)))
        /\ WithTag(cells, Tag2(b)) # {} /\ ~InL1(L1, b)
    BY <1>1, <1>3, L2Set, ExistsHasTag DEF OldL2Hit, InL2
  <2>2. /\ L1' = IF Allocates(operation) THEN after.L1 ELSE L1
        /\ L2' = IF Allocates(operation) THEN after.L2 ELSE touched
    BY <1>3 DEF OldL2Hit
  <2> HIDE DEF cells
  <2>3. /\ new \in Cells2 /\ SetOK(new, Fits2(Set2(b)))
        /\ \A t : exists(t, new) <=> exists(t, cells)
    BY <1>1, <2>1, TouchedKeeps DEF Cells2
  <2> HIDE DEF new
  <2>4. L2OK(touched)
    BY <1>1, <2>3, L2Change
  <2>6. \A c \in Nat : InL2(touched, c) <=> InL2(L2, c)
    BY <2>3, L2Replaced DEF InL2, cells
  <2> HIDE DEF touched
  <2>5. /\ L1OK(after.L1) /\ L2OK(after.L2)
        /\ \A c \in Nat : InL1(after.L1, c) => c = b \/ InL1(L1, c)
        /\ \A c \in Nat : InL2(after.L2, c) <=> InL2(touched, c)
    BY <2>1, <2>4, BringToL1Keeps
  <2> HIDE DEF after
  <2>7. Blocks \subseteq Nat /\ InL2(L2, b)
    BY <1>3, ConfigTypes DEF OldL2Hit
  <2> QED
    BY <2>2, <2>4, <2>5, <2>6, <2>7 DEF Inclusive
<1>4. CASE OldMiss(b, operation)
  <2> DEFINE write == operation = "w" /\ config.writeAlloc
  <2>1. PICK idxInSet \in 0 .. config.L2Ways - 1 :
          LET mid   == BringToL2(L1, L2, b, idxInSet)
              after == BringToL1(mid.L1, mid.L2, b, write)
          IN  L1' = after.L1 /\ L2' = after.L2
    BY <1>4 DEF OldMiss
  <2> DEFINE mid == BringToL2(L1, L2, b, idxInSet)
  <2>2. /\ L1OK(mid.L1) /\ L2OK(mid.L2) /\ ~InL1(mid.L1, b)
        /\ \A c \in Blocks : InL1(mid.L1, c) => InL1(L1, c)
        /\ InL2(mid.L2, b)
        /\ \A c \in Blocks : InL1(mid.L1, c) /\ InL2(L2, c) => InL2(mid.L2, c)
    BY <1>4, BringToL2Keeps DEF OldMiss
  <2> DEFINE after == BringToL1(mid.L1, mid.L2, b, write)
  <2>4. L1' = after.L1 /\ L2' = after.L2
    BY <2>1
  <2> HIDE DEF mid, write
  <2>3. /\ L1OK(after.L1) /\ L2OK(after.L2)
        /\ \A c \in Nat : InL1(after.L1, c) => c = b \/ InL1(mid.L1, c)
        /\ \A c \in Nat : InL2(after.L2, c) <=> InL2(mid.L2, c)
    BY <2>2, BringToL1Keeps
  <2> HIDE DEF after
  <2>5. Blocks \subseteq Nat
    BY ConfigTypes
  <2> QED
    BY <2>2, <2>3, <2>4, <2>5 DEF Inclusive
<1> QED
  BY <1>2, <1>3, <1>4 DEF cacheMemHandler

-----------------------------------------------------------------------------
(* The counters.                                                           *)

CounterNames == {"L1_hits", "L1_misses", "L2_hits", "L2_misses", "mem_access"}

CountersTyped ==
  DOMAIN results = CounterNames /\ \A name \in DOMAIN results : results[name] \in 0 .. CounterSize - 1

(* The sets of counters the commands count.                                *)
Counted == { {"L1_hits"}, {"L1_misses", "L2_hits"},
             {"L1_misses", "L2_misses", "mem_access"} }

LEMMA Reduced ==
  ASSUME NEW n \in Nat \ {0}, NEW a \in 0 .. 2 * n - 1
  PROVE  a % n = IF a < n THEN a ELSE a - n
<1>1. CASE a < n
  BY <1>1
<1>2. CASE ~(a < n)
  <2>1. a - n \in 0 .. n - 1 /\ a = n * 1 + (a - n)
    BY <1>2
  <2> QED
    BY <1>2, <2>1
<1> QED
  BY <1>1, <1>2

LEMMA CountKeeps ==
  ASSUME CountersTyped, CountersAgree, NEW counters \in Counted, Count(counters)
  PROVE  CountersTyped' /\ CountersAgree'
<1> DEFINE Next1(a) == IF a + 1 < CounterSize THEN a + 1 ELSE a + 1 - CounterSize
           Sum(a, b) == IF a + b < CounterSize THEN a + b ELSE a + b - CounterSize
           Range0 == 0 .. CounterSize - 1
<1>1. CounterSize \in Nat \ {0}
  BY CounterAssumption
<1>0. \A c \in 0 .. 2 * CounterSize - 1 :
        c % CounterSize = IF c < CounterSize THEN c ELSE c - CounterSize
  BY <1>1, Reduced
<1>2. \A a \in Range0 : (a + 1) % CounterSize = Next1(a)
  <2> SUFFICES ASSUME NEW a \in Range0 PROVE (a + 1) % CounterSize = Next1(a)
    OBVIOUS
  <2>1. PICK c \in 0 .. 2 * CounterSize - 1 : c = a + 1
    BY <1>1
  <2> QED
    BY <1>0, <1>1, <2>1
<1>3. \A a \in Range0, b \in Range0 : (a + b) % CounterSize = Sum(a, b)
  <2> SUFFICES ASSUME NEW a \in Range0, NEW b \in Range0
               PROVE  (a + b) % CounterSize = Sum(a, b)
    OBVIOUS
  <2>1. PICK c \in 0 .. 2 * CounterSize - 1 : c = a + b
    BY <1>1
  <2> QED
    BY <1>0, <1>1, <2>1
<1>4. /\ DOMAIN results' = CounterNames
      /\ \A name \in CounterNames :
           /\ results[name] \in Range0
           /\ results'[name] = IF name \in counters THEN Next1(results[name])
                               ELSE results[name]
  BY <1>2 DEF Count, CountersTyped
<1>5. \A a \in Range0 : Next1(a) \in Range0
  BY <1>1
<1>6. CountersTyped'
  <2> HIDE DEF Next1, Range0
  <2>1. \A name \in CounterNames : results'[name] \in Range0
    BY <1>4, <1>5
  <2> QED
    BY <1>4, <2>1 DEF CountersTyped, Range0
<1>7. /\ results["L1_misses"] = Sum(results["L2_hits"], results["L2_misses"])
      /\ results["mem_access"] = results["L2_misses"]
  BY <1>3, <1>4 DEF CountersAgree, CounterNames
<1>8. /\ results'["L1_misses"] = Sum(results'["L2_hits"], results'["L2_misses"])
      /\ results'["mem_access"] = results'["L2_misses"]
  <2>1. \A a \in Range0, b \in Range0 :
          Sum(Next1(a), b) = Next1(Sum(a, b)) /\ Sum(a, Next1(b)) = Next1(Sum(a, b))
    BY <1>1
  <2>2. {"L1_misses", "L2_hits", "L2_misses", "mem_access"} \subseteq CounterNames
    BY DEF CounterNames
  <2> HIDE DEF Next1, Range0, Sum
  <2>3. CASE counters = {"L1_hits"}
    BY <1>4, <1>7, <2>2, <2>3
  <2>4. CASE counters = {"L1_misses", "L2_hits"}
    <3>1. /\ results'["L1_misses"] = Next1(results["L1_misses"])
          /\ results'["L2_hits"] = Next1(results["L2_hits"])
          /\ results'["L2_misses"] = results["L2_misses"]
          /\ results'["mem_access"] = results["mem_access"]
      BY <1>4, <2>2, <2>4
    <3> QED
      BY <1>4, <1>7, <2>1, <2>2, <3>1
  <2>5. CASE counters = {"L1_misses", "L2_misses", "mem_access"}
    <3>1. /\ results'["L1_misses"] = Next1(results["L1_misses"])
          /\ results'["L2_hits"] = results["L2_hits"]
          /\ results'["L2_misses"] = Next1(results["L2_misses"])
          /\ results'["mem_access"] = Next1(results["mem_access"])
      BY <1>4, <2>2, <2>5
    <3> QED
      BY <1>4, <1>7, <2>1, <2>2, <3>1
  <2> QED
    BY <2>3, <2>4, <2>5 DEF Counted
<1>9. CountersAgree'
  <2>1. results'["L2_hits"] \in Range0 /\ results'["L2_misses"] \in Range0
    BY <1>4, <1>6 DEF CountersTyped, CounterNames
  <2> QED
    BY <1>3, <1>8, <2>1 DEF CountersAgree
<1> QED
  BY <1>6, <1>9

-----------------------------------------------------------------------------
LEMMA InitHolds == InitBoth => CacheInv
<1> SUFFICES ASSUME InitBoth PROVE CacheInv
  OBVIOUS
<1>1. config \in Configs
  BY DEF InitBoth, Init
<1>2. config.L1Ways \in Nat \ {0} /\ config.L2Ways \in Nat \ {0}
  BY <1>1, ConfigTypes
<1>3. L1OK(L1)
  <2>1. \A set : NewCells(config.L1Ways) \in Cells1 /\ SetOK(NewCells(config.L1Ways), Fits1(set))
    BY <1>2, NewCellsOK DEF Cells1
  <2> QED
    BY <2>1 DEF InitBoth, Init, NewCache, L1OK, Cells1
<1>4. L2OK(L2)
  <2>1. \A set : NewCells(config.L2Ways) \in Cells2 /\ SetOK(NewCells(config.L2Ways), Fits2(set))
    BY <1>2, NewCellsOK DEF Cells2
  <2> QED
    BY <2>1 DEF InitBoth, Init, NewCache, L2OK, Cells2
<1>5. CountersTyped /\ CountersAgree
  <2>1. 0 % CounterSize = 0 /\ 0 \in 0 .. CounterSize - 1
    BY CounterAssumption, Reduced
  <2> QED
    BY <2>1 DEF InitBoth, Init, CountersTyped, CounterNames, CountersAgree
<1> QED
  BY <1>1, <1>3, <1>4, <1>5
     DEF CacheInv, TypeOK, L1OK, L2OK, CountersTyped, CounterNames

LEMMA StepHolds == CacheInv /\ [NextBoth]_allVars => CacheInv'
<1> SUFFICES ASSUME CacheInv, [NextBoth]_allVars PROVE CacheInv'
  OBVIOUS
<1>1. config \in Configs /\ L1OK(L1) /\ L2OK(L2) /\ CountersTyped /\ CountersAgree
  BY DEF CacheInv, TypeOK, CountersTyped, CounterNames
<1>2. ASSUME config' = config, L1OK(L1'), L2OK(L2'), CountersTyped', CountersAgree'
      PROVE  CacheInv'
  <2>1. L1OK(L1)' /\ L2OK(L2)'
    BY <1>2 DEF L1OK, L2OK, Fits1, Fits2, Blocks, Set1, Set2, Tag1, Tag2
  <2> QED
    BY <1>1, <1>2, <2>1 DEF CacheInv, TypeOK, L1OK, L2OK, CountersTyped, CounterNames
<1>3. ASSUME NEW b \in Blocks, NEW operation \in Operations, NewCommand(b, operation)
      PROVE  CacheInv'
  <2>1. (Read(b) \/ Write(b)) /\ config.version # "HW2"
    BY <1>3 DEF NewCommand, cmdParser
  <2>2. \E counters \in Counted : Count(counters)
    BY <2>1 DEF Read, Write, ReadL1Hit, ReadL2Hit, ReadMiss, WriteL1Hit, WriteL2Hit,
                WriteMissAlloc, WriteMissNoAlloc, Counted
  <2> QED
    BY <1>1, <1>2, <2>1, <2>2, NewCommandKeeps, CountKeeps DEF Count
<1>4. ASSUME NEW b \in Blocks, NEW operation \in Operations, OldCommand(b, operation)
      PROVE  CacheInv'
  <2>1. cacheMemHandler(b, operation) /\ config.version = "HW2"
    BY <1>4 DEF OldCommand
  <2>2. \E counters \in Counted : Count(counters)
    BY <2>1 DEF cacheMemHandler, OldL1Hit, OldL2Hit, OldMiss, Counted
  <2> QED
    BY <1>1, <1>2, <2>1, <2>2, OldCommandKeeps, CountKeeps DEF Count
<1>5. CASE UNCHANGED allVars
  <2>1. config' = config /\ L1' = L1 /\ L2' = L2 /\ results' = results
    BY <1>5 DEF allVars, vars
  <2>2. CountersTyped' /\ CountersAgree'
    BY <1>1, <2>1 DEF CountersTyped, CountersAgree
  <2> QED
    BY <1>1, <1>2, <2>1, <2>2
<1> QED
  BY <1>3, <1>4, <1>5 DEF NextBoth

(* The inductive invariant of both simulators: every set stays SetOK, and  *)
(* the counters agree.                                                     *)
THEOREM CacheInvariance == SpecBoth => []CacheInv
BY InitHolds, StepHolds, PTL DEF SpecBoth

(* Cells, ranks, addresses and counters keep their ranges, in both         *)
(* simulators.                                                             *)
THEOREM CacheTypes == SpecBoth => []TypeOK
<1>1. CacheInv => TypeOK
  BY DEF CacheInv
<1> QED
  BY <1>1, CacheInvariance, PTL

(* The LRU fields of a set stay a permutation of its ways, in both         *)
(* simulators and for any number of ways (HW2_NEW/cacheSim.cpp:169-224,    *)
(* HW2/cacheSim.cpp:167-216).                                              *)
THEOREM CacheRanks == SpecBoth => []RanksArePermutation
<1>1. CacheInv => RanksArePermutation
  BY DEF CacheInv, L1OK, L2OK, SetOK, RanksArePermutation, Lines
<1> QED
  BY <1>1, CacheInvariance, PTL

(* In the older simulator, whatever leaves L2 has left L1 first, and what  *)
(* enters L1 is in L2, so that no dirty block leaves L1 for nowhere        *)
(* (HW2/cacheSim.cpp:330-352).                                             *)
THEOREM OldInclusion == SpecBoth => []OldInclusive
<1>1. InitBoth => OldInclusive
  <2> SUFFICES ASSUME InitBoth, NEW c \in Blocks, InL1(L1, c)
               PROVE  InL2(L2, c)
    BY DEF OldInclusive, Inclusive
  <2>1. Set1(c) \in 0 .. config.L1Sets - 1
    BY Places, ConfigTypes DEF InitBoth, Init
  <2>2. L1[Set1(c)] = NewCells(config.L1Ways)
    BY <2>1 DEF InitBoth, Init, NewCache
  <2> QED
    BY <2>2 DEF InL1, exists, Holding, Holds, Ways, NewCells
<1>2. CacheInv /\ OldInclusive /\ [NextBoth]_allVars => OldInclusive'
  <2> SUFFICES ASSUME CacheInv, OldInclusive, [NextBoth]_allVars,
                      config'.version = "HW2"
               PROVE  Inclusive'
    BY DEF OldInclusive
  <2>1. config \in Configs /\ L1OK(L1) /\ L2OK(L2)
    BY DEF CacheInv, TypeOK
  <2>2. CASE UNCHANGED allVars
    BY <2>2 DEF allVars, vars, OldInclusive, Inclusive, InL1, InL2, Blocks,
                Set1, Set2, Tag1, Tag2
  <2>3. ASSUME NEW b \in Blocks, NEW operation \in Operations,
               NewCommand(b, operation) \/ OldCommand(b, operation)
        PROVE  Inclusive'
    <3>1. config' = config
      BY <2>3 DEF NewCommand, OldCommand, cmdParser, Read, Write, ReadL1Hit, ReadL2Hit,
                  ReadMiss, WriteL1Hit, WriteL2Hit, WriteMissAlloc, WriteMissNoAlloc,
                  cacheMemHandler, OldL1Hit, OldL2Hit, OldMiss, Count
    <3>2. cacheMemHandler(b, operation) /\ config.version = "HW2"
      BY <2>3, <3>1 DEF NewCommand, OldCommand
    <3>3. Inclusive
      BY <3>2 DEF OldInclusive
    <3>4. \A c \in Blocks : InL1(L1', c) => InL2(L2', c)
      BY <2>1, <3>2, <3>3, OldCommandKeeps
    <3> QED
      BY <3>1, <3>4 DEF Inclusive, InL1, InL2, Blocks, Set1, Set2, Tag1, Tag2
  <2> QED
    BY <2>2, <2>3 DEF NextBoth
<1> QED
  BY <1>1, <1>2, CacheInvariance, PTL DEF SpecBoth

(* Searches by tag alone find the valid cell of the tag, although evicted  *)
(* cells keep theirs (HW2_NEW/cacheSim.cpp:172, 240).                      *)
THEOREM CacheSearches == SpecBoth => []SearchesFindValid
<1>1. ASSUME CacheInv PROVE SearchesFindValid
  <2>1. config \in Configs /\ L1OK(L1) /\ L2OK(L2)
    BY <1>1 DEF CacheInv, TypeOK
  <2>2. ASSUME NEW set \in DOMAIN L1 PROVE FirstIsValid(L1[set])
    <3>1. /\ L1[set] \in Cells1 /\ SetOK(L1[set], Fits1(set))
          /\ config.L1Ways \in Nat \ {0}
      BY <2>1, ConfigTypes DEF L1OK, Cells1
    <3> QED
      BY <3>1, SetOKFinds DEF Cells1
  <2>3. ASSUME NEW set \in DOMAIN L2 PROVE FirstIsValid(L2[set])
    <3>1. /\ L2[set] \in Cells2 /\ SetOK(L2[set], Fits2(set))
          /\ config.L2Ways \in Nat \ {0}
      BY <2>1, ConfigTypes DEF L2OK, Cells2
    <3> QED
      BY <3>1, SetOKFinds DEF Cells2
  <2> QED
    BY <2>2, <2>3 DEF SearchesFindValid, Lines
<1> QED
  BY <1>1, CacheInvariance, PTL

(* What L1 writes back goes to the L2 block it came from, and the address  *)
(* of an L2 cell is one of its set (HW2_NEW/cacheSim.cpp:308, 337).        *)
THEOREM CacheAddresses == SpecBoth => []AddressesFit
<1>1. ASSUME CacheInv PROVE AddressesFit
  <2>1. L1OK(L1) /\ L2OK(L2)
    BY <1>1 DEF CacheInv
  <2>2. ASSUME NEW set \in DOMAIN L1, NEW way \in 0 .. config.L1Ways - 1,
               L1[set][way].valid
        PROVE  Tag1(L1[set][way].address) = L1[set][way].tag
               /\ Set1(L1[set][way].address) = set
    <3>1. way \in Ways(L1[set]) /\ SetOK(L1[set], Fits1(set))
      BY <2>1 DEF L1OK, Ways
    <3>2. <<L1[set][way].tag, L1[set][way].address>> \in Fits1(set)
      BY <2>2, <3>1 DEF SetOK
    <3> QED
      BY <3>2 DEF Fits1
  <2>3. ASSUME NEW set \in DOMAIN L2, NEW way \in 0 .. config.L2Ways - 1,
               L2[set][way].valid
        PROVE  Set2(L2[set][way].address) = set
    <3>1. way \in Ways(L2[set]) /\ SetOK(L2[set], Fits2(set))
      BY <2>1 DEF L2OK, Ways
    <3>2. <<L2[set][way].tag, L2[set][way].address>> \in Fits2(set)
      BY <2>3, <3>1 DEF SetOK
    <3> QED
      BY <3>2 DEF Fits2
  <2> QED
    BY <2>2, <2>3 DEF AddressesFit
<1> QED
  BY <1>1, CacheInvariance, PTL

(* The counters agree for any width, also when they wrap around            *)
(* (HW2_NEW/cacheSim.cpp:519-521).                                         *)
THEOREM CacheCounters == SpecBoth => []CountersAgree
<1>1. CacheInv => CountersAgree
  BY DEF CacheInv
<1> QED
  BY <1>1, CacheInvariance, PTL

-----------------------------------------------------------------------------
(* Written data is not forgotten.                                          *)

(* What a change of ranks or a mark does to a set: every cell stays what   *)
(* it was, and what was dirty stays so.                                    *)
Dirtier(after, cells) ==
  /\ Ways(after) = Ways(cells)
  /\ \A way \in Ways(cells) :
       /\ after[way].tag = cells[way].tag
       /\ after[way].valid = cells[way].valid
       /\ cells[way].dirty => after[way].dirty

(* What a set that loses or gains other blocks keeps of the one with the   *)
(* given tag: no new cell, and the old one as dirty as it was.             *)
Kept(after, cells, tag) ==
  \A way \in Ways(after) : Holds(after[way], tag) =>
    /\ way \in Ways(cells) /\ Holds(cells[way], tag)
    /\ cells[way].dirty => after[way].dirty

LEMMA DirtierKept ==
  ASSUME NEW cells, NEW after, Dirtier(after, cells)
  PROVE  /\ \A t : Kept(after, cells, t)
         /\ \A t : DirtyIn(cells, t) => DirtyIn(after, t)
         /\ \A t : exists(t, cells) => exists(t, after)
<1>1. \A t : Kept(after, cells, t)
  BY DEF Dirtier, Kept, Holds
<1>2. \A t : DirtyIn(cells, t) => DirtyIn(after, t)
  BY DEF Dirtier, DirtyIn, Holding, Holds
<1>3. \A t : exists(t, cells) => exists(t, after)
  BY DEF Dirtier, exists, Holding, Holds
<1> QED
  BY <1>1, <1>2, <1>3

LEMMA DirtierTwice ==
  ASSUME NEW cells, NEW mid, NEW after, Dirtier(mid, cells), Dirtier(after, mid)
  PROVE  Dirtier(after, cells)
BY DEF Dirtier

LEMMA KeptTwice ==
  ASSUME NEW cells, NEW mid, NEW after, NEW tag,
         Kept(mid, cells, tag), Kept(after, mid, tag)
  PROVE  Kept(after, cells, tag)
BY DEF Kept

LEMMA KeptExists ==
  ASSUME NEW cells, NEW after, NEW tag, Kept(after, cells, tag), exists(tag, after)
  PROVE  exists(tag, cells)
BY DEF Kept, exists, Holding

(* A tag is valid once, so the cell that is still there was the dirty one. *)
LEMMA KeptDirty ==
  ASSUME NEW cells, NEW fits, SetOK(cells, fits), NEW after, NEW tag,
         Kept(after, cells, tag), exists(tag, after), DirtyIn(cells, tag)
  PROVE  DirtyIn(after, tag)
<1>1. PICK way \in Ways(after) : Holds(after[way], tag)
  BY DEF exists, Holding
<1>2. PICK old \in Ways(cells) : Holds(cells[old], tag) /\ cells[old].dirty
  BY DEF DirtyIn, Holding
<1>3. /\ way \in Ways(cells) /\ Holds(cells[way], tag)
      /\ cells[way].dirty => after[way].dirty
  BY <1>1 DEF Kept
<1>4. way = old
  BY <1>2, <1>3 DEF SetOK, ValidFirst, Holds
<1> QED
  BY <1>1, <1>2, <1>3, <1>4 DEF DirtyIn, Holding

LEMMA TouchDirtier ==
  ASSUME NEW ways \in Nat \ {0}, NEW blocks, NEW way,
         NEW cells \in [0 .. ways - 1 -> Cell(ways, blocks)]
  PROVE  Dirtier(Touch(way, cells), cells)
<1>1. Ways(cells) = 0 .. ways - 1 /\ Ways(Touch(way, cells)) = 0 .. ways - 1
  BY DEF Touch, Ways
<1>2. ASSUME NEW w \in 0 .. ways - 1
      PROVE  /\ Touch(way, cells)[w].tag = cells[w].tag
             /\ Touch(way, cells)[w].valid = cells[w].valid
             /\ Touch(way, cells)[w].dirty = cells[w].dirty
  <2>1. Touch(way, cells)[w] =
          IF w = way THEN [cells[w] EXCEPT !.LRU = Cardinality(Ways(cells)) - 1]
          ELSE IF cells[w].LRU > cells[way].LRU THEN [cells[w] EXCEPT !.LRU = @ - 1]
          ELSE cells[w]
    BY <1>1 DEF Touch
  <2>2. \A x : /\ [cells[w] EXCEPT !.LRU = x].tag = cells[w].tag
               /\ [cells[w] EXCEPT !.LRU = x].valid = cells[w].valid
               /\ [cells[w] EXCEPT !.LRU = x].dirty = cells[w].dirty
    BY DEF Cell
  <2> QED
    BY <2>1, <2>2
<1> QED
  BY <1>1, <1>2 DEF Dirtier

LEMMA UpdateDirtier ==
  ASSUME NEW ways \in Nat \ {0}, NEW blocks, NEW tag,
         NEW cells \in [0 .. ways - 1 -> Cell(ways, blocks)]
  PROVE  Dirtier(updateLRU(tag, cells), cells)
<1> DEFINE hit    == First(WithTag(cells, tag))
           raised == [cells EXCEPT ![hit].LRU = Cardinality(Ways(cells)) - 1]
           moves(cell) == ~Holds(cell, tag) /\ cell.LRU > cells[hit].LRU
           after  == updateLRU(tag, cells)
<1>1. Ways(cells) = 0 .. ways - 1 /\ Ways(after) = 0 .. ways - 1
  BY DEF updateLRU, Ways
<1>2. Cardinality(Ways(cells)) = ways
  BY FS_Interval DEF Ways
<1>3. ASSUME NEW w \in 0 .. ways - 1
      PROVE  /\ after[w].tag = cells[w].tag
             /\ after[w].valid = cells[w].valid
             /\ after[w].dirty = cells[w].dirty
  <2>1. after[w] = IF moves(raised[w]) THEN [raised[w] EXCEPT !.LRU = @ - 1]
                   ELSE raised[w]
    BY <1>1 DEF updateLRU
  <2>2. /\ raised[w] \in Cell(ways, blocks)
        /\ raised[w].tag = cells[w].tag
        /\ raised[w].valid = cells[w].valid
        /\ raised[w].dirty = cells[w].dirty
    <3>1. raised[w] = IF w = hit THEN [cells[w] EXCEPT !.LRU = ways - 1] ELSE cells[w]
      BY <1>2
    <3>2. cells[w] \in Cell(ways, blocks) /\ ways - 1 \in 0 .. ways - 1
      OBVIOUS
    <3> HIDE DEF raised
    <3> QED
      BY <3>1, <3>2 DEF Cell
  <2> HIDE DEF raised
  <2>3. CASE moves(raised[w])
    <3>1. after[w] = [raised[w] EXCEPT !.LRU = @ - 1]
      BY <2>1, <2>3
    <3> HIDE DEF after, moves
    <3> QED
      BY <2>2, <3>1 DEF Cell
  <2>4. CASE ~moves(raised[w])
    <3>1. after[w] = raised[w]
      BY <2>1, <2>4
    <3> QED
      BY <2>2, <3>1
  <2> QED
    BY <2>3, <2>4
<1> QED
  BY <1>1, <1>3 DEF Dirtier

LEMMA MarkDirtier ==
  ASSUME NEW ways \in Nat \ {0}, NEW blocks, NEW way,
         NEW cells \in [0 .. ways - 1 -> Cell(ways, blocks)]
  PROVE  /\ Dirtier([cells EXCEPT ![way].dirty = TRUE], cells)
         /\ way \in 0 .. ways - 1 => [cells EXCEPT ![way].dirty = TRUE][way].dirty
<1> DEFINE after == [cells EXCEPT ![way].dirty = TRUE]
<1>1. Ways(cells) = 0 .. ways - 1 /\ Ways(after) = 0 .. ways - 1
  BY DEF Ways
<1>2. \A w \in 0 .. ways - 1 :
        after[w] = IF w = way THEN [cells[w] EXCEPT !.dirty = TRUE] ELSE cells[w]
  OBVIOUS
<1>3. \A w \in 0 .. ways - 1 :
        /\ [cells[w] EXCEPT !.dirty = TRUE].tag = cells[w].tag
        /\ [cells[w] EXCEPT !.dirty = TRUE].valid = cells[w].valid
        /\ [cells[w] EXCEPT !.dirty = TRUE].dirty = TRUE
  BY DEF Cell
<1> HIDE DEF after
<1>4. Dirtier(after, cells)
  BY <1>1, <1>2, <1>3 DEF Dirtier
<1>5. way \in 0 .. ways - 1 => after[way].dirty
  BY <1>2, <1>3
<1> QED
  BY <1>4, <1>5 DEF after

LEMMA updateDirtyDirtier ==
  ASSUME NEW ways \in Nat \ {0}, NEW blocks, NEW fits, NEW tag,
         NEW cells \in [0 .. ways - 1 -> Cell(ways, blocks)], SetOK(cells, fits)
  PROVE  /\ Dirtier(updateDirty(tag, cells), cells)
         /\ exists(tag, cells) => DirtyIn(updateDirty(tag, cells), tag)
<1>1. CASE exists(tag, cells)
  <2> DEFINE hit   == First(Holding(cells, tag))
             after == updateDirty(tag, cells)
  <2>1. hit \in 0 .. ways - 1 /\ Holds(cells[hit], tag)
    <3>1. Holding(cells, tag) \in SUBSET (0 .. ways - 1) /\ Holding(cells, tag) # {}
      BY <1>1 DEF Holding, Ways, exists
    <3>2. hit \in Holding(cells, tag)
      BY <3>1, LeastWay
    <3> QED
      BY <3>1, <3>2 DEF Holding
  <2>2. after = [cells EXCEPT ![hit].dirty = TRUE]
    BY <1>1 DEF updateDirty
  <2> HIDE DEF hit, after
  <2>3. Dirtier(after, cells) /\ after[hit].dirty
    BY <2>1, <2>2, MarkDirtier
  <2>4. hit \in Holding(after, tag)
    BY <2>1, <2>3 DEF Dirtier, Holding, Holds, Ways
  <2> QED
    BY <2>3, <2>4 DEF after, DirtyIn
<1>2. CASE ~exists(tag, cells)
  <2>1. updateDirty(tag, cells) = cells
    BY <1>2 DEF updateDirty
  <2> QED
    BY <1>2, <2>1 DEF Dirtier
<1> QED
  BY <1>1, <1>2

LEMMA DirtiedDirtier ==
  ASSUME NEW ways \in Nat \ {0}, NEW blocks, NEW fits, NEW tag,
         NEW cells \in [0 .. ways - 1 -> Cell(ways, blocks)], SetOK(cells, fits)
  PROVE  /\ Dirtier(Dirtied(tag, cells), cells)
         /\ exists(tag, cells) => DirtyIn(Dirtied(tag, cells), tag)
<1> DEFINE hit   == First(WithTag(cells, tag))
           after == Dirtied(tag, cells)
<1>1. after = [cells EXCEPT ![hit].dirty = TRUE]
  BY DEF Dirtied
<1>2. exists(tag, cells) => hit \in 0 .. ways - 1 /\ Holds(cells[hit], tag)
  BY HitFound
<1> HIDE DEF hit, after
<1>3. Dirtier(after, cells) /\ (hit \in 0 .. ways - 1 => after[hit].dirty)
  BY <1>1, MarkDirtier
<1>4. ASSUME exists(tag, cells) PROVE hit \in Holding(after, tag)
  BY <1>2, <1>3, <1>4 DEF Dirtier, Holding, Holds, Ways
<1> QED
  BY <1>2, <1>3, <1>4 DEF after, DirtyIn

(* A block enters a set that has room: the others stay what they were.     *)
LEMMA FilledKept ==
  ASSUME NEW ways \in Nat \ {0}, NEW blocks, NEW tag \in Nat, NEW b \in blocks,
         NEW cells \in [0 .. ways - 1 -> Cell(ways, blocks)], isEmpty(cells)
  PROVE  /\ \A t : t # tag => Kept(Fill(tag, b, cells), cells, t)
         /\ \A t : t # tag => Kept(Added(tag, b, cells), cells, t)
         /\ \A t : t # tag /\ DirtyIn(cells, t) => DirtyIn(Fill(tag, b, cells), t)
         /\ \A t : t # tag /\ DirtyIn(cells, t) => DirtyIn(Added(tag, b, cells), t)
<1> DEFINE empty  == emptyCell(cells)
           filled == [cells EXCEPT ![emptyCell(cells)] =
                        [tag |-> tag, dirty |-> FALSE, valid |-> TRUE,
                         address |-> b, LRU |-> @.LRU]]
<1>1. empty \in 0 .. ways - 1 /\ ~cells[empty].valid
  BY EmptyFound
<1>2. /\ filled \in [0 .. ways - 1 -> Cell(ways, blocks)]
      /\ filled[empty].tag = tag
      /\ \A way \in 0 .. ways - 1 : way # empty => filled[way] = cells[way]
  BY <1>1 DEF Cell
<1>3. Ways(cells) = 0 .. ways - 1 /\ Ways(filled) = 0 .. ways - 1
  BY DEF Ways
<1>4. Fill(tag, b, cells) = updateLRU(tag, filled)
  BY DEF Fill
<1>5. Added(tag, b, cells) = Touch(First(WithTag(filled, tag)), filled)
  BY DEF Added, Touched
<1> HIDE DEF filled, empty
<1>6. \A t : t # tag => Kept(filled, cells, t)
  BY <1>2, <1>3 DEF Kept, Holds
<1>7. \A t : t # tag /\ DirtyIn(cells, t) => DirtyIn(filled, t)
  BY <1>1, <1>2, <1>3 DEF DirtyIn, Holding, Holds
<1>8. ways \in Nat \ {0}
  OBVIOUS
<1>9. /\ Dirtier(updateLRU(tag, filled), filled)
      /\ Dirtier(Touch(First(WithTag(filled, tag)), filled), filled)
  BY <1>2, <1>8, UpdateDirtier, TouchDirtier, Zenon
<1>10. /\ Dirtier(Fill(tag, b, cells), filled)
       /\ Dirtier(Added(tag, b, cells), filled)
  BY <1>4, <1>5, <1>9
<1> QED
  BY <1>6, <1>7, <1>10, DirtierKept, KeptTwice

LEMMA RoomKept ==
  ASSUME NEW ways \in Nat \ {0}, NEW blocks, NEW way \in 0 .. ways - 1,
         NEW cells \in [0 .. ways - 1 -> Cell(ways, blocks)],
         NEW room,
         room = [cells EXCEPT ![way].valid = FALSE] \/ room = Removed(way, cells)
  PROVE  \A t : Kept(room, cells, t)
<1>1. Ways(cells) = 0 .. ways - 1 /\ Ways(room) = 0 .. ways - 1
  BY DEF Removed, Ways
<1>2. \A w \in 0 .. ways - 1 : w # way => room[w] = cells[w]
  BY DEF Removed
<1>3. ~room[way].valid
  BY DEF Removed, Cell
<1> QED
  BY <1>1, <1>2, <1>3 DEF Kept, Holds

LEMMA evictKept ==
  ASSUME NEW ways \in Nat \ {0}, NEW blocks, NEW tag,
         NEW cells \in [0 .. ways - 1 -> Cell(ways, blocks)]
  PROVE  \A t : /\ Kept(evict(tag, cells), cells, t)
                /\ DirtyIn(cells, t) /\ ~(Evictable(tag, cells) /\ t = tag) =>
                     DirtyIn(evict(tag, cells), t)
<1> DEFINE after == evict(tag, cells)
<1>1. CASE Evictable(tag, cells)
  <2>1. /\ Ways(cells) = 0 .. ways - 1 /\ Ways(after) = 0 .. ways - 1
        /\ 0 \in 0 .. ways - 1
        /\ after = [way \in 0 .. ways - 1 |->
             IF way = 0 THEN [cells[0] EXCEPT !.valid = FALSE, !.LRU = 0]
             ELSE IF cells[way].LRU < cells[0].LRU
                  THEN [cells[way] EXCEPT !.LRU = @ + 1]
                  ELSE cells[way]]
    BY <1>1 DEF evict, Ways
  <2>2. cells[0].valid /\ cells[0].tag = tag
    BY <1>1 DEF Evictable, Holds
  <2> HIDE DEF after
  <2>3. ASSUME NEW way \in 0 .. ways - 1
        PROVE  /\ after[way].tag = cells[way].tag
               /\ after[way].dirty = cells[way].dirty
               /\ after[way].valid = IF way = 0 THEN FALSE ELSE cells[way].valid
    <3>1. cells[way] \in Cell(ways, blocks)
      OBVIOUS
    <3>2. CASE way = 0
      <4>1. after[way] = [cells[way] EXCEPT !.valid = FALSE, !.LRU = 0]
        BY <2>1, <3>2
      <4> QED
        BY <3>1, <3>2, <4>1 DEF Cell
    <3>3. CASE way # 0 /\ cells[way].LRU < cells[0].LRU
      <4>1. after[way] = [cells[way] EXCEPT !.LRU = @ + 1]
        BY <2>1, <3>3
      <4> QED
        BY <3>1, <3>3, <4>1 DEF Cell
    <3>4. CASE way # 0 /\ ~(cells[way].LRU < cells[0].LRU)
      <4>1. after[way] = cells[way]
        BY <2>1, <3>4
      <4> QED
        BY <3>4, <4>1
    <3> QED
      BY <3>2, <3>3, <3>4
  <2>4. \A t : Kept(after, cells, t)
    BY <2>1, <2>3 DEF Kept, Holds
  <2>5. \A t : DirtyIn(cells, t) /\ t # tag => DirtyIn(after, t)
    <3> SUFFICES ASSUME NEW t, DirtyIn(cells, t), t # tag PROVE DirtyIn(after, t)
      OBVIOUS
    <3>1. PICK way \in 0 .. ways - 1 : Holds(cells[way], t) /\ cells[way].dirty
      BY <2>1 DEF DirtyIn, Holding
    <3>2. Holds(after[way], t) /\ after[way].dirty
      BY <2>2, <2>3, <3>1 DEF Holds
    <3> QED
      BY <2>1, <3>2 DEF DirtyIn, Holding
  <2> QED
    BY <1>1, <2>4, <2>5 DEF after
<1>2. CASE ~Evictable(tag, cells)
  <2>1. after = cells
    BY <1>2 DEF evict
  <2> QED
    BY <2>1 DEF Kept
<1> QED
  BY <1>1, <1>2

(* The levels at which block c is dirty, and what L2 keeps of it.          *)
Dirty1(l1, c) == DirtyIn(l1[Set1(c)], Tag1(c))
Dirty2(l2, c) == DirtyIn(l2[Set2(c)], Tag2(c))

Kept2(m2, l2, c) == Kept(m2[Set2(c)], l2[Set2(c)], Tag2(c))

(* What one operation on the caches l1 and l2, with the results m1 and m2, *)
(* promises for block c.                                                   *)
Safe(l1, l2, m1, m2, c) ==
  /\ Kept2(m2, l2, c)
  /\ InL2(m2, c) /\ (Dirty1(l1, c) \/ Dirty2(l2, c)) => Dirty1(m1, c) \/ Dirty2(m2, c)

LEMMA SafeTwice ==
  ASSUME NEW l1, NEW l2, NEW m1, NEW m2, NEW n1, NEW n2, NEW c,
         Safe(l1, l2, m1, m2, c), Safe(m1, m2, n1, n2, c)
  PROVE  Safe(l1, l2, n1, n2, c)
<1>1. Kept2(n2, l2, c)
  BY KeptTwice DEF Safe, Kept2
<1>2. InL2(n2, c) => InL2(m2, c)
  BY KeptExists DEF Safe, Kept2, InL2
<1> QED
  BY <1>1, <1>2 DEF Safe

LEMMA SafeIf ==
  ASSUME config \in Configs, NEW l2, L2OK(l2), NEW c \in Nat, NEW l1, NEW m1, NEW m2,
         Kept2(m2, l2, c),
         InL2(m2, c) /\ Dirty1(l1, c) => Dirty1(m1, c) \/ Dirty2(m2, c)
  PROVE  Safe(l1, l2, m1, m2, c)
<1>1. Set2(c) \in 0 .. config.L2Sets - 1
  BY Places
<1>2. SetOK(l2[Set2(c)], Fits2(Set2(c)))
  BY <1>1, L2Set
<1>3. InL2(m2, c) /\ Dirty2(l2, c) => Dirty2(m2, c)
  BY <1>2, KeptDirty DEF InL2, Dirty2, Kept2
<1> QED
  BY <1>3 DEF Safe

(* A whole cache of which nothing is lost.                                 *)
Marked(after, cache) ==
  /\ DOMAIN after = DOMAIN cache
  /\ \A set \in DOMAIN cache : Dirtier(after[set], cache[set])

LEMMA MarkedSame ==
  ASSUME NEW cache
  PROVE  Marked(cache, cache)
BY DEF Marked, Dirtier

LEMMA MarkedOne ==
  ASSUME NEW cache, NEW set, NEW cells, Dirtier(cells, cache[set])
  PROVE  Marked([cache EXCEPT ![set] = cells], cache)
<1>1. ASSUME NEW s \in DOMAIN cache
      PROVE  Dirtier([cache EXCEPT ![set] = cells][s], cache[s])
  <2>1. CASE s = set
    BY <2>1
  <2>2. CASE s # set
    BY <2>2 DEF Dirtier
  <2> QED
    BY <2>1, <2>2
<1> QED
  BY <1>1 DEF Marked

LEMMA Marked1 ==
  ASSUME config \in Configs, NEW l1, L1OK(l1), NEW m1, Marked(m1, l1), NEW c \in Nat
  PROVE  Dirty1(l1, c) => Dirty1(m1, c)
<1>1. Set1(c) \in DOMAIN l1
  BY Places DEF L1OK
<1> QED
  BY <1>1, DirtierKept DEF Marked, Dirty1

LEMMA Marked2 ==
  ASSUME config \in Configs, NEW l2, L2OK(l2), NEW m2, Marked(m2, l2), NEW c \in Nat
  PROVE  Kept2(m2, l2, c)
<1>1. Set2(c) \in DOMAIN l2
  BY Places DEF L2OK
<1> QED
  BY <1>1, DirtierKept DEF Marked, Kept2

LEMMA MarkedSafe ==
  ASSUME config \in Configs, NEW l1, L1OK(l1), NEW l2, L2OK(l2),
         NEW m1, Marked(m1, l1), NEW m2, Marked(m2, l2), NEW c \in Nat
  PROVE  Safe(l1, l2, m1, m2, c)
BY Marked1, Marked2, SafeIf

-----------------------------------------------------------------------------
(* Operations that lose nothing.                                           *)

LEMMA L1Marks ==
  ASSUME config \in Configs, NEW l1, L1OK(l1), NEW b \in Nat
  PROVE  LET cells == l1[Set1(b)]
             tag   == Tag1(b)
         IN  /\ Dirtier(updateLRU(tag, cells), cells)
             /\ Dirtier(updateDirty(tag, cells), cells)
             /\ Dirtier(updateLRU(tag, updateDirty(tag, cells)), cells)
             /\ Dirtier(Touched(tag, cells), cells)
             /\ WithTag(cells, tag) # {} =>
                  Dirtier(Dirtied(tag, Touched(tag, cells)), cells)
<1> DEFINE cells == l1[Set1(b)]
           tag   == Tag1(b)
<1>1. /\ config.L1Ways \in Nat \ {0} /\ cells \in Cells1
      /\ SetOK(cells, Fits1(Set1(b)))
  BY Places, ConfigTypes, L1Set
<1> HIDE DEF cells, tag
<1>2. /\ Dirtier(updateLRU(tag, cells), cells)
      /\ Dirtier(updateDirty(tag, cells), cells)
      /\ Dirtier(Touched(tag, cells), cells)
  BY <1>1, UpdateDirtier, updateDirtyDirtier, TouchDirtier DEF Cells1, Touched
<1>3. Dirtier(updateLRU(tag, updateDirty(tag, cells)), cells)
  <2>1. updateDirty(tag, cells) \in Cells1
    BY <1>1, updateDirtyKeeps DEF Cells1
  <2>2. Dirtier(updateLRU(tag, updateDirty(tag, cells)), updateDirty(tag, cells))
    BY <1>1, <2>1, UpdateDirtier DEF Cells1
  <2> QED
    BY <1>2, <2>2, DirtierTwice
<1>4. ASSUME WithTag(cells, tag) # {}
      PROVE  Dirtier(Dirtied(tag, Touched(tag, cells)), cells)
  <2>1. Touched(tag, cells) \in Cells1 /\ SetOK(Touched(tag, cells), Fits1(Set1(b)))
    BY <1>1, <1>4, TouchedKeeps, Zenon DEF Cells1
  <2>2. Dirtier(Dirtied(tag, Touched(tag, cells)), Touched(tag, cells))
    BY <1>1, <2>1, DirtiedDirtier, Zenon DEF Cells1
  <2> QED
    BY <1>2, <2>2, DirtierTwice
<1> QED
  BY <1>2, <1>3, <1>4 DEF cells, tag

LEMMA L2Marks ==
  ASSUME config \in Configs, NEW l2, L2OK(l2), NEW b \in Nat
  PROVE  LET cells == l2[Set2(b)]
             tag   == Tag2(b)
         IN  /\ Dirtier(updateLRU(tag, cells), cells)
             /\ Dirtier(updateDirty(tag, cells), cells)
             /\ Dirtier(Touched(tag, cells), cells)
<1> DEFINE cells == l2[Set2(b)]
           tag   == Tag2(b)
<1>1. /\ config.L2Ways \in Nat \ {0} /\ cells \in Cells2
      /\ SetOK(cells, Fits2(Set2(b)))
  BY Places, ConfigTypes, L2Set
<1> HIDE DEF cells, tag
<1>2. /\ Dirtier(updateLRU(tag, cells), cells)
      /\ Dirtier(updateDirty(tag, cells), cells)
      /\ Dirtier(Touched(tag, cells), cells)
  BY <1>1, UpdateDirtier, updateDirtyDirtier, TouchDirtier DEF Cells2, Touched
<1> QED
  BY <1>2 DEF cells, tag

(* A block that is written back becomes dirty in L2, if L2 holds it.       *)
LEMMA WriteBackMarks ==
  ASSUME config \in Configs, NEW l2, L2OK(l2), NEW b \in Nat
  PROVE  /\ Marked(WriteBack(l2, b), l2)
         /\ InL2(l2, b) => Dirty2(WriteBack(l2, b), b)
<1> DEFINE cells == l2[Set2(b)]
           marked == updateDirty(Tag2(b), cells)
           new    == updateLRU(Tag2(b), marked)
<1>1. /\ config.L2Ways \in Nat \ {0} /\ cells \in Cells2
      /\ SetOK(cells, Fits2(Set2(b))) /\ Set2(b) \in DOMAIN l2
  BY Places, ConfigTypes, L2Set DEF L2OK
<1>2. CASE InL2(l2, b)
  <2>1. WriteBack(l2, b) = [l2 EXCEPT ![Set2(b)] = new] /\ exists(Tag2(b), cells)
    BY <1>2 DEF WriteBack, InL2
  <2> HIDE DEF cells
  <2>2. marked \in Cells2 /\ Dirtier(marked, cells) /\ DirtyIn(marked, Tag2(b))
    BY <1>1, <2>1, updateDirtyKeeps, updateDirtyDirtier DEF Cells2
  <2> HIDE DEF marked
  <2>3. Dirtier(new, marked)
    BY <1>1, <2>2, UpdateDirtier DEF Cells2
  <2> HIDE DEF new
  <2>4. Dirtier(new, cells) /\ DirtyIn(new, Tag2(b))
    BY <2>2, <2>3, DirtierTwice, DirtierKept
  <2>5. Marked(WriteBack(l2, b), l2)
    <3>1. Dirtier(new, l2[Set2(b)])
      BY <2>4 DEF cells
    <3>2. Marked([l2 EXCEPT ![Set2(b)] = new], l2)
      BY <3>1, MarkedOne, Zenon
    <3> QED
      BY <2>1, <3>2
  <2>6. WriteBack(l2, b)[Set2(b)] = new
    <3>1. Set2(b) \in DOMAIN l2 /\ l2 = [set \in DOMAIN l2 |-> l2[set]]
      BY <1>1 DEF L2OK
    <3> QED
      BY <2>1, <3>1
  <2> QED
    BY <2>4, <2>5, <2>6 DEF Dirty2
<1>3. CASE ~InL2(l2, b)
  BY <1>3, MarkedSame DEF WriteBack
<1> QED
  BY <1>2, <1>3

LEMMA SaveMarks ==
  ASSUME config \in Configs, NEW l2, L2OK(l2), NEW b \in Nat
  PROVE  /\ Marked(SaveInL2(l2, b), l2)
         /\ InL2(l2, b) => Dirty2(SaveInL2(l2, b), b)
<1> DEFINE cells == l2[Set2(b)]
           marked == Dirtied(Tag2(b), cells)
           new    == Touched(Tag2(b), marked)
<1>1. /\ config.L2Ways \in Nat \ {0} /\ cells \in Cells2
      /\ SetOK(cells, Fits2(Set2(b))) /\ Set2(b) \in DOMAIN l2
  BY Places, ConfigTypes, L2Set DEF L2OK
<1>2. CASE WithTag(cells, Tag2(b)) # {}
  <2>1. SaveInL2(l2, b) = [l2 EXCEPT ![Set2(b)] = new] /\ WithTag(cells, Tag2(b)) # {}
    BY <1>2 DEF SaveInL2
  <2> HIDE DEF cells
  <2>2. marked \in Cells2
    BY <1>1, <2>1, DirtiedKeeps, Zenon DEF Cells2
  <2>3. Dirtier(marked, cells) /\ (exists(Tag2(b), cells) => DirtyIn(marked, Tag2(b)))
    BY <1>1, DirtiedDirtier, Zenon DEF Cells2
  <2> HIDE DEF marked
  <2>4. Dirtier(new, marked)
    BY <1>1, <2>2, TouchDirtier DEF Cells2, Touched
  <2> HIDE DEF new
  <2>5. Dirtier(new, cells) /\ (exists(Tag2(b), cells) => DirtyIn(new, Tag2(b)))
    BY <2>3, <2>4, DirtierTwice, DirtierKept
  <2>6. Marked(SaveInL2(l2, b), l2)
    <3>1. Dirtier(new, l2[Set2(b)])
      BY <2>5 DEF cells
    <3>2. Marked([l2 EXCEPT ![Set2(b)] = new], l2)
      BY <3>1, MarkedOne, Zenon
    <3> QED
      BY <2>1, <3>2
  <2>7. SaveInL2(l2, b)[Set2(b)] = new
    <3>1. Set2(b) \in DOMAIN l2 /\ l2 = [set \in DOMAIN l2 |-> l2[set]]
      BY <1>1 DEF L2OK
    <3> QED
      BY <2>1, <3>1
  <2> QED
    BY <2>5, <2>6, <2>7 DEF Dirty2, InL2, cells
<1>3. CASE ~(WithTag(cells, Tag2(b)) # {})
  <2>1. ~InL2(l2, b)
    BY <1>3, ExistsHasTag DEF InL2
  <2> QED
    BY <1>3, <2>1, MarkedSame DEF SaveInL2
<1> QED
  BY <1>2, <1>3

-----------------------------------------------------------------------------
(* Operations that replace a block.                                        *)

(* The room made for a block of L1: an empty cell, or that of the victim.  *)
RoomForL1(room, cells) ==
  \/ isEmpty(cells) /\ room = cells
  \/ ~isEmpty(cells) /\ room = evictLRU(cells)
  \/ ~isEmpty(cells) /\ room = Removed(First(Oldest(cells)), cells)

(* What was dirty in L1 stays dirty, but for the victim.                   *)
LEMMA L1Enters ==
  ASSUME config \in Configs, NEW l1, L1OK(l1), NEW b \in Blocks, ~InL1(l1, b),
         NEW room, RoomForL1(room, l1[Set1(b)]), NEW c \in Nat, Dirty1(l1, c)
  PROVE  LET cells  == l1[Set1(b)]
             victim == cells[First(Oldest(cells))]
         IN  \/ ~isEmpty(cells) /\ victim.dirty /\ c = victim.address
             \/ /\ Dirty1([l1 EXCEPT ![Set1(b)] = Fill(Tag1(b), b, room)], c)
                /\ Dirty1([l1 EXCEPT ![Set1(b)] = Added(Tag1(b), b, room)], c)
<1> DEFINE cells  == l1[Set1(b)]
           lru    == First(Oldest(cells))
           filled == Fill(Tag1(b), b, room)
           added  == Added(Tag1(b), b, room)
<1>1. /\ Set1(b) \in 0 .. config.L1Sets - 1 /\ Tag1(b) \in Nat /\ b \in Nat
      /\ config.L1Ways \in Nat \ {0} /\ Blocks \subseteq Nat
      /\ Set1(c) \in DOMAIN l1 /\ Set1(b) \in DOMAIN l1
  BY Places, ConfigTypes DEF L1OK
<1>2. /\ cells \in Cells1 /\ SetOK(cells, Fits1(Set1(b)))
      /\ ~exists(Tag1(b), cells)
  BY <1>1, L1Set DEF InL1
<1>3. l1 = [set \in DOMAIN l1 |-> l1[set]]
  BY DEF L1OK
<1>4. CASE Set1(c) # Set1(b)
  <2>1. /\ [l1 EXCEPT ![Set1(b)] = filled][Set1(c)] = l1[Set1(c)]
        /\ [l1 EXCEPT ![Set1(b)] = added][Set1(c)] = l1[Set1(c)]
    BY <1>1, <1>3, <1>4
  <2> QED
    BY <2>1 DEF Dirty1
<1>5. CASE Set1(c) = Set1(b)
  <2>1. DirtyIn(cells, Tag1(c))
    BY <1>5 DEF Dirty1
  <2>2. RoomForL1(room, cells)
    OBVIOUS
  <2>9. /\ [l1 EXCEPT ![Set1(b)] = filled][Set1(c)] = filled
        /\ [l1 EXCEPT ![Set1(b)] = added][Set1(c)] = added
    BY <1>1, <1>3, <1>5
  <2> HIDE DEF cells, filled, added
  <2>3. PICK way \in 0 .. config.L1Ways - 1 :
          Holds(cells[way], Tag1(c)) /\ cells[way].dirty
    BY <1>2, <2>1 DEF DirtyIn, Holding, Ways, Cells1
  <2>4. Tag1(c) # Tag1(b)
    BY <1>2, <2>1 DEF exists, DirtyIn
  <2>5. lru \in 0 .. config.L1Ways - 1
    BY <1>1, <1>2, OldestExists DEF SetOK, Cells1
  <2> HIDE DEF lru
  <2>6. CASE ~isEmpty(cells) /\ way = lru
    <3>1. way \in Ways(cells) /\ cells[way].valid /\ cells[way].tag = Tag1(c)
      BY <1>2, <2>3 DEF Ways, Cells1, Holds
    <3>2. <<cells[way].tag, cells[way].address>> \in Fits1(Set1(b))
      BY <1>2, <3>1 DEF SetOK
    <3>3. /\ cells[way].address \in Nat /\ Set1(cells[way].address) = Set1(c)
          /\ Tag1(cells[way].address) = Tag1(c)
      BY <1>1, <1>5, <3>1, <3>2 DEF Fits1
    <3>4. c = cells[way].address
      BY <3>3, SamePlace
    <3> QED
      BY <2>3, <2>6, <3>4 DEF cells, lru
  <2>7. CASE isEmpty(cells) \/ way # lru
    <3>1. /\ room \in [0 .. config.L1Ways - 1 -> Cell(config.L1Ways, Blocks)]
          /\ isEmpty(room) /\ Holds(room[way], Tag1(c)) /\ room[way].dirty
      <4>1. CASE room = cells /\ isEmpty(cells)
        BY <1>2, <2>3, <4>1 DEF Cells1
      <4>2. CASE /\ ~isEmpty(cells)
                 /\ room = [cells EXCEPT ![lru].valid = FALSE] \/ room = Removed(lru, cells)
        <5>1. cells \in [0 .. config.L1Ways - 1 -> Cell(config.L1Ways, Blocks)]
          BY <1>2 DEF Cells1
        <5>2. /\ room \in [0 .. config.L1Ways - 1 -> Cell(config.L1Ways, Blocks)]
              /\ isEmpty(room)
          BY <1>1, <1>2, <2>5, <4>2, <5>1, RemovedKeeps
        <5>3. \A w \in 0 .. config.L1Ways - 1 : w # lru => room[w] = cells[w]
          BY <4>2, <5>1 DEF Removed
        <5>4. room[way] = cells[way]
          BY <2>3, <2>7, <4>2, <5>3
        <5> QED
          BY <2>3, <5>2, <5>4
      <4> QED
        BY <2>2, <4>1, <4>2 DEF RoomForL1, evictLRU, lru
    <3>2. DirtyIn(room, Tag1(c))
      BY <2>3, <3>1 DEF DirtyIn, Holding, Ways
    <3>3. DirtyIn(filled, Tag1(c)) /\ DirtyIn(added, Tag1(c))
      BY <1>1, <2>4, <3>1, <3>2, FilledKept, Zenon DEF filled, added
    <3> QED
      BY <2>9, <3>3 DEF Dirty1, filled, added
  <2> QED
    BY <2>6, <2>7
<1> QED
  BY <1>4, <1>5

(* A block enters L2, in the place of another or of none.                  *)
LEMMA L2Enters ==
  ASSUME config \in Configs, NEW l2, L2OK(l2), NEW b \in Blocks, ~InL2(l2, b),
         NEW address \in Blocks, NEW room, Room(room, l2[Set2(b)]),
         NEW c \in Nat, c # b
  PROVE  /\ Kept2([l2 EXCEPT ![Set2(b)] = Fill(Tag2(b), address, room)], l2, c)
         /\ Kept2([l2 EXCEPT ![Set2(b)] = Added(Tag2(b), address, room)], l2, c)
<1> DEFINE cells  == l2[Set2(b)]
           filled == Fill(Tag2(b), address, room)
           added  == Added(Tag2(b), address, room)
<1>1. /\ Set2(b) \in 0 .. config.L2Sets - 1 /\ Tag2(b) \in Nat /\ b \in Nat
      /\ config.L2Ways \in Nat \ {0}
      /\ Set2(c) \in DOMAIN l2 /\ Set2(b) \in DOMAIN l2
  BY Places, ConfigTypes DEF L2OK
<1>2. cells \in Cells2 /\ SetOK(cells, Fits2(Set2(b))) /\ Room(room, cells)
  BY <1>1, L2Set
<1>3. l2 = [set \in DOMAIN l2 |-> l2[set]]
  BY DEF L2OK
<1>4. CASE Set2(c) # Set2(b)
  <2>1. /\ [l2 EXCEPT ![Set2(b)] = filled][Set2(c)] = l2[Set2(c)]
        /\ [l2 EXCEPT ![Set2(b)] = added][Set2(c)] = l2[Set2(c)]
    BY <1>1, <1>3, <1>4
  <2> QED
    BY <2>1 DEF Kept2, Kept
<1>5. CASE Set2(c) = Set2(b)
  <2>1. /\ [l2 EXCEPT ![Set2(b)] = filled][Set2(c)] = filled
        /\ [l2 EXCEPT ![Set2(b)] = added][Set2(c)] = added
    BY <1>1, <1>3, <1>5
  <2>2. Tag2(c) # Tag2(b)
    BY <1>1, <1>5, SamePlace
  <2> HIDE DEF cells, filled, added
  <2>3. /\ room \in [0 .. config.L2Ways - 1 -> Cell(config.L2Ways, Blocks)]
        /\ isEmpty(room) /\ \A t : Kept(room, cells, t)
    <3>0. cells \in [0 .. config.L2Ways - 1 -> Cell(config.L2Ways, Blocks)]
      BY <1>2 DEF Cells2
    <3>1. CASE room = cells /\ isEmpty(cells)
      BY <1>2, <3>1 DEF Kept, Cells2
    <3>2. ASSUME NEW way \in 0 .. config.L2Ways - 1,
                 room = [cells EXCEPT ![way].valid = FALSE] \/ room = Removed(way, cells)
          PROVE  /\ room \in [0 .. config.L2Ways - 1 -> Cell(config.L2Ways, Blocks)]
                 /\ isEmpty(room) /\ \A t : Kept(room, cells, t)
      <4>1. /\ room \in [0 .. config.L2Ways - 1 -> Cell(config.L2Ways, Blocks)]
            /\ isEmpty(room)
        BY <1>1, <1>2, <3>0, <3>2, RemovedKeeps
      <4>2. \A t : Kept(room, cells, t)
        BY <1>1, <3>0, <3>2, RoomKept
      <4> QED
        BY <4>1, <4>2
    <3>3. First(Oldest(cells)) \in 0 .. config.L2Ways - 1
      BY <1>1, <1>2, OldestExists DEF SetOK, Cells2
    <3>4. Ways(cells) = 0 .. config.L2Ways - 1
      BY <3>0 DEF Ways
    <3> QED
      BY <1>2, <3>1, <3>2, <3>3, <3>4 DEF Room, evictLRU
  <2>4. Kept(filled, room, Tag2(c)) /\ Kept(added, room, Tag2(c))
    BY <1>1, <2>2, <2>3, FilledKept, Zenon DEF filled, added
  <2>5. Kept(filled, cells, Tag2(c)) /\ Kept(added, cells, Tag2(c))
    BY <2>3, <2>4, KeptTwice
  <2> QED
    BY <1>5, <2>1, <2>5 DEF Kept2, cells, filled, added
<1> QED
  BY <1>4, <1>5

LEMMA addToL1Safe ==
  ASSUME config \in Configs, NEW l1, L1OK(l1), NEW l2, L2OK(l2),
         NEW b \in Blocks, ~InL1(l1, b), NEW c \in Nat
  PROVE  Safe(l1, l2, addToL1(l1, l2, b).L1, addToL1(l1, l2, b).L2, c)
<1> DEFINE cells  == l1[Set1(b)]
           victim == cells[First(Oldest(cells))]
           room   == IF isEmpty(cells) THEN cells ELSE evictLRU(cells)
           m1     == addToL1(l1, l2, b).L1
           m2     == addToL1(l1, l2, b).L2
<1>1. /\ m1 = [l1 EXCEPT ![Set1(b)] = Fill(Tag1(b), b, room)]
      /\ m2 = IF ~isEmpty(cells) /\ victim.dirty THEN WriteBack(l2, victim.address)
              ELSE l2
  BY DEF addToL1
<1>2. RoomForL1(room, cells)
  BY DEF RoomForL1
<1>3. ~isEmpty(cells) => victim.address \in Nat
  <2>1. Set1(b) \in 0 .. config.L1Sets - 1 /\ Blocks \subseteq Nat
    BY Places, ConfigTypes
  <2> QED
    BY <2>1, L1Victim, Zenon
<1> HIDE DEF m1, m2, room
<1>4. Kept2(m2, l2, c)
  <2> HIDE DEF victim
  <2>1. Marked(m2, l2)
    BY <1>1, <1>3, WriteBackMarks, MarkedSame
  <2> QED
    BY <2>1, Marked2
<1>5. ASSUME InL2(m2, c), Dirty1(l1, c) PROVE Dirty1(m1, c) \/ Dirty2(m2, c)
  <2>1. \/ ~isEmpty(cells) /\ victim.dirty /\ c = victim.address
        \/ Dirty1(m1, c)
    BY <1>1, <1>2, <1>5, L1Enters, Zenon
  <2>2. InL2(l2, c)
    BY <1>4, <1>5, KeptExists DEF Kept2, InL2
  <2> HIDE DEF victim, cells
  <2>3. ASSUME ~isEmpty(cells), victim.dirty, c = victim.address
        PROVE  Dirty2(m2, c)
    BY <1>1, <2>2, <2>3, WriteBackMarks
  <2> QED
    BY <2>1, <2>3
<1> QED
  BY <1>4, <1>5, SafeIf, Zenon DEF m1, m2

LEMMA BringToL1Safe ==
  ASSUME config \in Configs, NEW l1, L1OK(l1), NEW l2, L2OK(l2),
         NEW b \in Blocks, ~InL1(l1, b), NEW write, NEW c \in Nat
  PROVE  Safe(l1, l2, BringToL1(l1, l2, b, write).L1, BringToL1(l1, l2, b, write).L2, c)
<1> DEFINE cells  == l1[Set1(b)]
           victim == cells[First(Oldest(cells))]
           room   == IF ~isEmpty(cells) THEN Removed(First(Oldest(cells)), cells)
                     ELSE cells
           added  == Added(Tag1(b), b, room)
           brought == [l1 EXCEPT ![Set1(b)] = added]
           m1     == BringToL1(l1, l2, b, write).L1
           m2     == BringToL1(l1, l2, b, write).L2
<1>1. /\ m1 = [l1 EXCEPT ![Set1(b)] = IF write THEN Dirtied(Tag1(b), added) ELSE added]
      /\ m2 = IF ~isEmpty(cells) /\ victim.dirty THEN SaveInL2(l2, victim.address)
              ELSE l2
  BY DEF BringToL1
<1>2. RoomForL1(room, cells)
  BY DEF RoomForL1
<1>3. /\ ~isEmpty(cells) => victim.address \in Nat
      /\ Set1(b) \in 0 .. config.L1Sets - 1 /\ config.L1Ways \in Nat \ {0}
  <2>1. /\ Set1(b) \in 0 .. config.L1Sets - 1 /\ Blocks \subseteq Nat
        /\ config.L1Ways \in Nat \ {0}
    BY Places, ConfigTypes
  <2> QED
    BY <2>1, L1Victim, Zenon
<1>4. Room(room, l1[Set1(b)])
  <2>1. cells \in Cells1 /\ SetOK(cells, Fits1(Set1(b)))
    BY <1>3, L1Set
  <2> HIDE DEF cells
  <2>2. First(Oldest(cells)) \in Ways(cells)
    BY <1>3, <2>1, OldestExists DEF SetOK, Cells1, Ways
  <2>3. Room(room, cells)
    BY <2>2 DEF Room
  <2> QED
    BY <2>3 DEF cells
<1> HIDE DEF m1, m2, room
<1>5. L1OK(brought) /\ Marked(m1, brought)
  <2>1. L1OK(brought)
    BY <1>4, L1Fill, Zenon
  <2>2. brought[Set1(b)] = added /\ Set1(b) \in DOMAIN brought
    <3>1. Set1(b) \in DOMAIN l1 /\ l1 = [set \in DOMAIN l1 |-> l1[set]]
      BY <1>3 DEF L1OK
    <3> QED
      BY <3>1
  <2>3. added \in Cells1 /\ SetOK(added, Fits1(Set1(b)))
    BY <1>3, <2>1, <2>2, L1Set
  <2>4. m1 = [brought EXCEPT ![Set1(b)] = IF write THEN Dirtied(Tag1(b), added) ELSE added]
    <3>1. l1 = [set \in DOMAIN l1 |-> l1[set]]
      BY DEF L1OK
    <3> HIDE DEF added
    <3> QED
      BY <1>1, <3>1
  <2> HIDE DEF added, brought
  <2>5. Dirtier(Dirtied(Tag1(b), added), added) /\ Dirtier(added, added)
    <3>1. Dirtier(Dirtied(Tag1(b), added), added)
      BY <1>3, <2>3, DirtiedDirtier, Zenon DEF Cells1
    <3> QED
      BY <3>1 DEF Dirtier
  <2>6. Dirtier(IF write THEN Dirtied(Tag1(b), added) ELSE added, brought[Set1(b)])
    BY <2>2, <2>5
  <2>7. Marked(m1, brought)
    BY <2>4, <2>6, MarkedOne, Zenon
  <2> QED
    BY <2>1, <2>7
<1>6. Kept2(m2, l2, c)
  <2> HIDE DEF victim
  <2>1. Marked(m2, l2)
    BY <1>1, <1>3, SaveMarks, MarkedSame
  <2> QED
    BY <2>1, Marked2
<1>7. ASSUME InL2(m2, c), Dirty1(l1, c) PROVE Dirty1(m1, c) \/ Dirty2(m2, c)
  <2>1. \/ ~isEmpty(cells) /\ victim.dirty /\ c = victim.address
        \/ Dirty1(brought, c)
    BY <1>2, <1>7, L1Enters, Zenon
  <2>2. InL2(l2, c)
    BY <1>6, <1>7, KeptExists DEF Kept2, InL2
  <2> HIDE DEF victim, cells, brought
  <2>3. ASSUME ~isEmpty(cells), victim.dirty, c = victim.address
        PROVE  Dirty2(m2, c)
    BY <1>1, <2>2, <2>3, SaveMarks
  <2>4. Dirty1(brought, c) => Dirty1(m1, c)
    BY <1>5, Marked1
  <2> QED
    BY <2>1, <2>3, <2>4
<1> QED
  BY <1>6, <1>7, SafeIf, Zenon DEF m1, m2

(* A block that L2 evicts from L1 is dirty in L2, if L2 still holds it.    *)
LEMMA L1Evicted ==
  ASSUME config \in Configs, NEW l1, L1OK(l1), NEW old \in Nat,
         NEW c \in Nat, Dirty1(l1, c)
  PROVE  LET cells == l1[Set1(old)]
         IN  \/ Dirty1([l1 EXCEPT ![Set1(old)] = evict(Tag1(old), @)], c)
             \/ /\ c = old /\ Evictable(Tag1(old), cells)
                /\ cells[0].address = c /\ isDirty(Tag1(old), cells)
<1> DEFINE cells == l1[Set1(old)]
           after == [l1 EXCEPT ![Set1(old)] = evict(Tag1(old), @)]
<1>1. /\ Set1(old) \in 0 .. config.L1Sets - 1 /\ config.L1Ways \in Nat \ {0}
      /\ Set1(c) \in DOMAIN l1 /\ Set1(old) \in DOMAIN l1 /\ Blocks \subseteq Nat
      /\ l1 = [set \in DOMAIN l1 |-> l1[set]]
  BY Places, ConfigTypes DEF L1OK
<1>2. cells \in Cells1 /\ SetOK(cells, Fits1(Set1(old)))
  BY <1>1, L1Set
<1>3. after[Set1(c)] = IF Set1(c) = Set1(old) THEN evict(Tag1(old), cells)
                       ELSE l1[Set1(c)]
  BY <1>1
<1> HIDE DEF after
<1>4. CASE Set1(c) # Set1(old)
  BY <1>3, <1>4 DEF Dirty1, after
<1>5. CASE Set1(c) = Set1(old)
  <2>1. DirtyIn(cells, Tag1(c))
    BY <1>5 DEF Dirty1
  <2> HIDE DEF cells
  <2>2. CASE ~(Evictable(Tag1(old), cells) /\ Tag1(c) = Tag1(old))
    <3>1. DirtyIn(evict(Tag1(old), cells), Tag1(c))
      BY <1>1, <1>2, <2>1, <2>2, evictKept DEF Cells1
    <3> QED
      BY <1>3, <1>5, <3>1 DEF Dirty1, after
  <2>3. CASE Evictable(Tag1(old), cells) /\ Tag1(c) = Tag1(old)
    <3>1. c = old
      BY <1>5, <2>3, SamePlace
    <3>2. /\ 0 \in 0 .. config.L1Ways - 1 /\ 0 \in Ways(cells)
          /\ Holds(cells[0], Tag1(old))
      BY <1>1, <1>2, <2>3 DEF Evictable, Ways, Cells1
    <3>3. PICK way \in 0 .. config.L1Ways - 1 :
            Holds(cells[way], Tag1(old)) /\ cells[way].dirty
      BY <1>2, <2>1, <2>3 DEF DirtyIn, Holding, Ways, Cells1
    <3>4. exists(Tag1(old), cells)
      BY <3>2 DEF exists, Holding
    <3>5. \A w \in 0 .. config.L1Ways - 1 :
            Holds(cells[w], Tag1(old)) => w = First(WithTag(cells, Tag1(old)))
      BY <1>1, <1>2, <3>4, HitFound DEF Cells1
    <3>6. isDirty(Tag1(old), cells)
      BY <3>3, <3>5 DEF isDirty
    <3>7. <<cells[0].tag, cells[0].address>> \in Fits1(Set1(old))
      BY <1>2, <3>2 DEF SetOK, Holds
    <3>8. /\ cells[0].address \in Nat /\ Set1(cells[0].address) = Set1(old)
          /\ Tag1(cells[0].address) = Tag1(old)
      BY <1>1, <3>2, <3>7 DEF Fits1, Holds
    <3>9. cells[0].address = old
      BY <3>8, SamePlace
    <3> QED
      BY <2>3, <3>1, <3>6, <3>9 DEF cells
  <2> QED
    BY <2>2, <2>3
<1> QED
  BY <1>4, <1>5

LEMMA addToL2Safe ==
  ASSUME config \in Configs, NEW l1, L1OK(l1), NEW l2, L2OK(l2),
         NEW b \in Blocks, ~InL2(l2, b), NEW junk \in Blocks,
         config.version # "HW2", NEW c \in Nat, c # b
  PROVE  Safe(l1, l2, addToL2(l1, l2, b, junk).L1, addToL2(l1, l2, b, junk).L2, c)
<1> DEFINE mid   == addToL2(l1, l2, b, junk)
           set   == Set2(b)
           cells == l2[set]
           old     == getLRU(cells)
           cells1  == l1[Set1(old)]
           inL1    == InL1(l1, old)
           dirtyL1 == inL1 /\ isDirty(Tag1(old), cells1)
           dirtyAddress ==
             IF Evictable(Tag1(old), cells1) THEN cells1[0].address ELSE junk
           filled  == [l2 EXCEPT ![set] = Fill(Tag2(b), old, evictLRU(cells))]
<1>1. set \in 0 .. config.L2Sets - 1 /\ Blocks \subseteq Nat
  BY Places, ConfigTypes
<1>2. CASE isEmpty(cells)
  <2>1. mid.L1 = l1 /\ mid.L2 = [l2 EXCEPT ![set] = Fill(Tag2(b), b, cells)]
    BY <1>2 DEF addToL2
  <2>2. Room(cells, l2[Set2(b)])
    BY <1>2 DEF Room
  <2>3. Kept2([l2 EXCEPT ![set] = Fill(Tag2(b), b, cells)], l2, c)
    BY <2>2, L2Enters
  <2> HIDE DEF mid
  <2>4. Safe(l1, l2, mid.L1, mid.L2, c)
    BY <2>1, <2>3, SafeIf, Zenon
  <2> QED
    BY <2>4 DEF mid
<1>3. CASE ~isEmpty(cells)
  <2> DEFINE evicted == [l1 EXCEPT ![Set1(old)] = evict(Tag1(old), @)]
  <2>1. /\ mid.L1 = IF inL1 THEN evicted ELSE l1
        /\ mid.L2 = IF dirtyL1 THEN WriteBack(filled, dirtyAddress) ELSE filled
    BY <1>3 DEF addToL2
  <2>2. old \in Blocks /\ Set2(old) = set
    BY <1>1, <1>3, L2Victim, Zenon DEF getLRU
  <2>3. Room(evictLRU(cells), l2[Set2(b)])
    BY DEF Room
  <2>4. L2OK(filled) /\ Kept2(filled, l2, c)
    BY <2>2, <2>3, L2Fill, L2Enters
  <2>5. dirtyAddress \in Nat
    <3>1. Set1(old) \in 0 .. config.L1Sets - 1 /\ config.L1Ways \in Nat \ {0}
      BY <1>1, <2>2, Places, ConfigTypes
    <3>2. cells1[0] \in Cell(config.L1Ways, Blocks)
      BY <3>1, L1Set DEF Cells1
    <3> HIDE DEF cells1
    <3>3. cells1[0].address \in Blocks \cup {0} /\ Blocks \cup {0} \subseteq Nat
      BY <3>2, ConfigTypes DEF Cell
    <3> QED
      BY <1>1, <3>3
  <2>6. Dirty1(l1, c) =>
          \/ Dirty1(evicted, c)
          \/ /\ c = old /\ Evictable(Tag1(old), cells1)
             /\ cells1[0].address = c /\ isDirty(Tag1(old), cells1)
    <3>1. old \in Nat
      BY <1>1, <2>2
    <3> HIDE DEF old
    <3> QED
      BY <3>1, L1Evicted
  <2> HIDE DEF filled, evicted, old, mid, cells
  <2>7. /\ Marked(WriteBack(filled, dirtyAddress), filled)
        /\ InL2(filled, dirtyAddress) =>
             Dirty2(WriteBack(filled, dirtyAddress), dirtyAddress)
    <3> HIDE DEF dirtyAddress
    <3> QED
      BY <2>4, <2>5, WriteBackMarks
  <2>8. Marked(mid.L2, filled)
    <3> HIDE DEF dirtyAddress, dirtyL1
    <3> QED
      BY <2>1, <2>7, MarkedSame
  <2>9. Kept2(mid.L2, filled, c)
    BY <2>4, <2>8, Marked2
  <2>10. Kept2(mid.L2, l2, c)
    BY <2>4, <2>9, KeptTwice DEF Kept2
  <2>11. ASSUME InL2(mid.L2, c), Dirty1(l1, c)
         PROVE  Dirty1(mid.L1, c) \/ Dirty2(mid.L2, c)
    <3>1. InL2(filled, c)
      BY <2>9, <2>11, KeptExists DEF Kept2, InL2
    <3>2. CASE ~inL1 \/ Dirty1(evicted, c)
      <4> HIDE DEF inL1
      <4> QED
        BY <2>1, <2>11, <3>2
    <3>3. CASE /\ inL1 /\ c = old /\ Evictable(Tag1(old), cells1)
               /\ cells1[0].address = c /\ isDirty(Tag1(old), cells1)
      <4>1. dirtyL1 /\ dirtyAddress = c
        BY <3>3
      <4> HIDE DEF dirtyL1, dirtyAddress
      <4> QED
        BY <2>1, <2>7, <3>1, <4>1
    <3> HIDE DEF inL1
    <3> QED
      BY <2>6, <2>11, <3>2, <3>3
  <2>12. Safe(l1, l2, mid.L1, mid.L2, c)
    BY <2>10, <2>11, SafeIf, Zenon
  <2> QED
    BY <2>12 DEF mid
<1> QED
  BY <1>2, <1>3

(* The touch of a set of L2, whatever way is touched, loses nothing.       *)
LEMMA TouchMarks ==
  ASSUME config \in Configs, NEW l2, L2OK(l2), NEW set \in 0 .. config.L2Sets - 1,
         NEW way \in 0 .. config.L2Ways - 1
  PROVE  /\ L2OK([l2 EXCEPT ![set] = Touch(way, l2[set])])
         /\ Marked([l2 EXCEPT ![set] = Touch(way, l2[set])], l2)
<1> DEFINE line  == l2[set]
           after == Touch(way, line)
<1>1. line \in Cells2 /\ SetOK(line, Fits2(set)) /\ config.L2Ways \in Nat \ {0}
  BY L2Set, ConfigTypes
<1> HIDE DEF line
<1>2. after \in Cells2 /\ SetOK(after, Fits2(set))
  BY <1>1, TouchKeeps DEF Cells2
<1>3. Dirtier(after, line)
  BY <1>1, TouchDirtier DEF Cells2
<1> HIDE DEF after
<1>4. L2OK([l2 EXCEPT ![set] = after])
  BY <1>2, L2Change
<1>5. Marked([l2 EXCEPT ![set] = after], l2)
  BY <1>3, MarkedOne DEF line
<1> QED
  BY <1>4, <1>5 DEF after, line

(* The odd use of updateLRU in BringToL2 touches some cell of L2, if any.  *)
LEMMA MovedMarks ==
  ASSUME config \in Configs, config.version = "HW2",
         NEW l1, NEW l2, L2OK(l2), NEW idxInSet \in 0 .. config.L2Ways - 1,
         NEW old \in Nat
  PROVE  LET set   == Set1(old)
             tag   == Tag1(old)
             idx   == First(WithTag(l1[set], tag))
             found == WithTag(l2[set], tag)
             touched == [l2 EXCEPT ![set] =
                           Touch(IF found # {} THEN First(found) ELSE idxInSet, l2[set])]
             moved == IF InL1(l1, old) /\ l1[set][idx].dirty THEN touched ELSE l2
         IN  L2OK(moved) /\ Marked(moved, l2)
<1> DEFINE set   == Set1(old)
           tag   == Tag1(old)
           found == WithTag(l2[set], tag)
           way   == IF found # {} THEN First(found) ELSE idxInSet
           touched == [l2 EXCEPT ![set] = Touch(way, l2[set])]
<1>1. set \in 0 .. config.L2Sets - 1 /\ config.L2Ways \in Nat \ {0}
  <2>1. /\ set \in 0 .. config.L1Sets - 1
        /\ config.L1Sets \in Nat \ {0} /\ config.L2Sets \in Nat \ {0}
        /\ config.L1Sets <= config.L2Sets /\ config.L2Ways \in Nat \ {0}
    BY Places, ConfigTypes, OldConfigsAssumption
  <2> QED
    BY <2>1
<1>2. way \in 0 .. config.L2Ways - 1
  <2> DEFINE line == l2[set]
  <2>1. line \in Cells2
    BY <1>1, L2Set
  <2> HIDE DEF line
  <2>2. WithTag(line, tag) # {} => First(WithTag(line, tag)) \in 0 .. config.L2Ways - 1
    BY <1>1, <2>1, TagFound DEF Cells2
  <2> QED
    BY <2>2 DEF line
<1> HIDE DEF way
<1>3. L2OK(touched) /\ Marked(touched, l2)
  BY <1>1, <1>2, TouchMarks
<1>4. L2OK(l2) /\ Marked(l2, l2)
  BY MarkedSame
<1> QED
  BY <1>3, <1>4 DEF way

LEMMA BringToL2Safe ==
  ASSUME config \in Configs, config.version = "HW2",
         NEW l1, L1OK(l1), NEW l2, L2OK(l2),
         NEW b \in Blocks, ~InL2(l2, b), NEW idxInSet \in 0 .. config.L2Ways - 1,
         NEW c \in Blocks, c # b
  PROVE  Safe(l1, l2, BringToL2(l1, l2, b, idxInSet).L1,
                      BringToL2(l1, l2, b, idxInSet).L2, c)
<1> DEFINE mid     == BringToL2(l1, l2, b, idxInSet)
           cells   == l2[Set2(b)]
           lru     == First(Oldest(cells))
           old     == cells[lru].address
           set     == Set1(old)
           tag     == Tag1(old)
           idx     == First(WithTag(l1[set], tag))
           found   == WithTag(l2[set], tag)
           way     == IF found # {} THEN First(found) ELSE idxInSet
           touched == [l2 EXCEPT ![set] = Touch(way, l2[set])]
           moved   == IF InL1(l1, old) /\ l1[set][idx].dirty THEN touched ELSE l2
           room    == Removed(lru, moved[Set2(b)])
<1>1. /\ Set2(b) \in 0 .. config.L2Sets - 1 /\ b \in Nat /\ c \in Nat
      /\ config.L1Ways \in Nat \ {0} /\ config.L2Ways \in Nat \ {0}
      /\ config.L1Sets \in Nat \ {0} /\ config.L2Sets \in Nat \ {0}
      /\ config.L1Sets <= config.L2Sets
      /\ Blocks \subseteq Nat
  BY Places, ConfigTypes, OldConfigsAssumption
<1>2. CASE isEmpty(cells)
  <2>1. mid.L1 = l1 /\ mid.L2 = [l2 EXCEPT ![Set2(b)] = Added(Tag2(b), b, cells)]
    BY <1>2 DEF BringToL2
  <2>2. Room(cells, l2[Set2(b)])
    BY <1>2 DEF Room
  <2>3. Kept2([l2 EXCEPT ![Set2(b)] = Added(Tag2(b), b, cells)], l2, c)
    BY <1>1, <2>2, L2Enters
  <2> HIDE DEF mid
  <2>4. Safe(l1, l2, mid.L1, mid.L2, c)
    BY <1>1, <2>1, <2>3, SafeIf, Zenon
  <2> QED
    BY <2>4 DEF mid
<1>3. CASE ~isEmpty(cells)
  <2>1. /\ mid.L1 = IF InL1(l1, old) THEN [l1 EXCEPT ![set] = Removed(idx, l1[set])] ELSE l1
        /\ mid.L2 = [moved EXCEPT ![Set2(b)] = Added(Tag2(b), b, room)]
    <3> HIDE DEF way
    <3> QED
      BY <1>3 DEF BringToL2, way
  <2>2. old \in Blocks
    BY <1>1, <1>3, L2Victim, Zenon
  <2>3. lru \in 0 .. config.L2Ways - 1
    <3>1. cells \in Cells2 /\ SetOK(cells, Fits2(Set2(b)))
      BY <1>1, L2Set
    <3> HIDE DEF cells
    <3> QED
      BY <1>1, <3>1, OldestExists DEF SetOK, Cells2
  <2> HIDE DEF old, lru, mid
  <2>4. /\ set \in 0 .. config.L1Sets - 1 /\ set \in 0 .. config.L2Sets - 1
        /\ tag \in Nat /\ old \in Nat
    BY <1>1, <2>2, Places
  <2> HIDE DEF set, tag
  <2>5. L2OK(moved) /\ Marked(moved, l2)
    BY <2>4, MovedMarks DEF set, tag
  <2> HIDE DEF moved
  <2>6. ~InL2(moved, b) /\ Kept2(moved, l2, c)
    <3>1. Kept2(moved, l2, b) /\ Kept2(moved, l2, c)
      BY <1>1, <2>5, Marked2
    <3> QED
      BY <3>1, KeptExists DEF Kept2, InL2
  <2>7. Room(room, moved[Set2(b)])
    <3>1. moved[Set2(b)] \in Cells2
      BY <1>1, <2>5, L2Set
    <3>2. lru \in Ways(moved[Set2(b)])
      BY <2>3, <3>1 DEF Ways, Cells2
    <3> QED
      BY <3>2 DEF Room
  <2> HIDE DEF room
  <2>8. Kept2(mid.L2, l2, c)
    <3>1. Kept2([moved EXCEPT ![Set2(b)] = Added(Tag2(b), b, room)], moved, c)
      BY <1>1, <2>5, <2>6, <2>7, L2Enters
    <3> QED
      BY <2>1, <2>6, <3>1, KeptTwice DEF Kept2
  <2>9. Kept(mid.L1[Set1(c)], l1[Set1(c)], Tag1(c))
    <3>1. CASE InL1(l1, old) /\ Set1(c) = set
      <4> DEFINE line == l1[set]
      <4>1. /\ line \in Cells1 /\ SetOK(line, Fits1(set)) /\ exists(tag, line)
            /\ set \in DOMAIN l1
        BY <2>4, <3>1, L1Set DEF InL1, L1OK, set, tag
      <4>2. mid.L1[Set1(c)] = Removed(idx, line)
        BY <2>1, <3>1, <4>1
      <4> HIDE DEF line
      <4>3. First(WithTag(line, tag)) \in 0 .. config.L1Ways - 1
        BY <1>1, <4>1, HitFound DEF Cells1
      <4>4. idx \in 0 .. config.L1Ways - 1
        BY <4>3 DEF line
      <4> HIDE DEF idx
      <4>5. \A t : Kept(Removed(idx, line), line, t)
        BY <1>1, <4>1, <4>4, RoomKept DEF Cells1
      <4> QED
        BY <3>1, <4>2, <4>5 DEF line
    <3>2. CASE ~(InL1(l1, old) /\ Set1(c) = set)
      <4>1. Set1(c) \in DOMAIN l1
        BY <1>1, Places DEF L1OK
      <4>2. mid.L1[Set1(c)] = l1[Set1(c)]
        BY <2>1, <3>2, <4>1
      <4> QED
        BY <4>2 DEF Kept
    <3> QED
      BY <3>1, <3>2
  <2>10. ASSUME InL2(mid.L2, c), Dirty1(l1, c) PROVE Dirty1(mid.L1, c)
    <3>1. InL1(l1, c)
      BY <2>10 DEF Dirty1, DirtyIn, InL1, exists
    <3>2. InL1(mid.L1, c)
      BY <2>10, <3>1, BringToL2Keeps DEF mid
    <3>3. SetOK(l1[Set1(c)], Fits1(Set1(c)))
      BY <1>1, Places, L1Set
    <3> QED
      BY <2>9, <2>10, <3>2, <3>3, KeptDirty DEF InL1, Dirty1
  <2>11. Safe(l1, l2, mid.L1, mid.L2, c)
    BY <1>1, <2>8, <2>10, SafeIf, Zenon
  <2> QED
    BY <2>11 DEF mid
<1> QED
  BY <1>2, <1>3

(* One set of L2 is updated, without loss.                                 *)
LEMMA L2Marked ==
  ASSUME config \in Configs, NEW l2, L2OK(l2), NEW b \in Nat
  PROVE  /\ Marked(TouchL2(l2, b), l2) /\ Marked(DirtyL2(l2, b), l2)
         /\ Marked([l2 EXCEPT ![Set2(b)] = Touched(Tag2(b), @)], l2)
BY L2Marks, MarkedOne DEF TouchL2, DirtyL2

LEMMA L1Marked ==
  ASSUME config \in Configs, NEW l1, L1OK(l1), NEW b \in Nat
  PROVE  Marked(DirtyL1(l1, b), l1)
BY L1Marks, MarkedOne DEF DirtyL1

(* Whatever a command does to the caches, a block that L2 keeps stays      *)
(* dirty; in a miss of both levels, b itself is not yet in L2.             *)
LEMMA NewCommandSafe ==
  ASSUME config \in Configs, config.version # "HW2", L1OK(L1), L2OK(L2),
         NEW b \in Blocks, Read(b) \/ Write(b),
         NEW c \in Blocks, InL2(L2, c)
  PROVE  Safe(L1, L2, L1', L2', c)
<1>1. b \in Nat /\ c \in Nat
  BY ConfigTypes
<1>2. CASE ReadL1Hit(b)
  <2>1. Marked(L1', L1) /\ Marked(L2', L2)
    BY <1>1, <1>2, L1Marks, MarkedOne, MarkedSame DEF ReadL1Hit, TouchL1
  <2> QED
    BY <1>1, <2>1, MarkedSafe
<1>3. CASE ReadL2Hit(b)
  <2> DEFINE touched == TouchL2(L2, b)
             after   == addToL1(L1, touched, b)
  <2>1. L2OK(touched) /\ ~InL1(L1, b)
    BY <1>1, <1>3, L2Update DEF ReadL2Hit, TouchL2
  <2>2. Marked(touched, L2) /\ Marked(L1, L1)
    BY <1>1, L2Marked, MarkedSame
  <2>3. L1' = after.L1 /\ L2' = after.L2
    BY <1>3 DEF ReadL2Hit
  <2> HIDE DEF touched
  <2>4. Safe(L1, L2, L1, touched, c)
    BY <1>1, <2>2, MarkedSafe
  <2>5. Safe(L1, touched, after.L1, after.L2, c)
    BY <1>1, <2>1, addToL1Safe
  <2> QED
    BY <2>3, <2>4, <2>5, SafeTwice
<1>4. CASE ReadMiss(b)
  <2>1. PICK junk \in Blocks :
          LET mid   == addToL2(L1, L2, b, junk)
              after == addToL1(mid.L1, mid.L2, b)
          IN  L1' = after.L1 /\ L2' = after.L2
    BY <1>4 DEF ReadMiss
  <2> DEFINE mid   == addToL2(L1, L2, b, junk)
             after == addToL1(mid.L1, mid.L2, b)
  <2>2. L1OK(mid.L1) /\ L2OK(mid.L2) /\ ~InL1(mid.L1, b)
    BY <1>4, addToL2Keeps DEF ReadMiss
  <2>3. Safe(L1, L2, mid.L1, mid.L2, c)
    BY <1>1, <1>4, addToL2Safe DEF ReadMiss
  <2>4. L1' = after.L1 /\ L2' = after.L2
    BY <2>1
  <2> HIDE DEF mid
  <2>5. Safe(mid.L1, mid.L2, after.L1, after.L2, c)
    BY <1>1, <2>2, addToL1Safe
  <2> QED
    BY <2>3, <2>4, <2>5, SafeTwice
<1>5. CASE WriteL1Hit(b)
  <2>1. Marked(L1', L1) /\ Marked(L2', L2)
    BY <1>1, <1>5, L1Marks, MarkedOne, MarkedSame DEF WriteL1Hit
  <2> QED
    BY <1>1, <2>1, MarkedSafe
<1>6. CASE WriteL2Hit(b)
  <2> DEFINE marked  == DirtyL2(L2, b)
             touched == TouchL2(marked, b)
             after   == addToL1(L1, touched, b)
  <2>1. ~InL1(L1, b) /\ L2OK(marked) /\ InL2(marked, b)
    BY <1>1, <1>6, L2Dirty DEF WriteL2Hit
  <2>2. Safe(L1, L2, L1, marked, c)
    BY <1>1, L2Marked, MarkedSame, MarkedSafe
  <2>3. /\ L1' = IF config.writeAlloc THEN DirtyL1(after.L1, b) ELSE L1
        /\ L2' = IF config.writeAlloc THEN after.L2 ELSE touched
    BY <1>6 DEF WriteL2Hit
  <2> HIDE DEF marked
  <2>4. L2OK(touched)
    BY <1>1, <2>1, L2Update DEF TouchL2
  <2>5. Safe(L1, marked, L1, touched, c)
    BY <1>1, <2>1, L2Marked, MarkedSame, MarkedSafe
  <2>6. Safe(L1, L2, L1, touched, c)
    BY <2>2, <2>5, SafeTwice
  <2> HIDE DEF touched
  <2>7. L1OK(after.L1) /\ L2OK(after.L2)
    BY <2>1, <2>4, addToL1Keeps
  <2>8. Safe(L1, touched, after.L1, after.L2, c)
    BY <1>1, <2>1, <2>4, addToL1Safe
  <2>9. Safe(L1, L2, after.L1, after.L2, c)
    BY <2>6, <2>8, SafeTwice
  <2> HIDE DEF after
  <2>10. Safe(after.L1, after.L2, DirtyL1(after.L1, b), after.L2, c)
    BY <1>1, <2>7, L1Marked, MarkedSame, MarkedSafe
  <2>11. Safe(L1, L2, DirtyL1(after.L1, b), after.L2, c)
    BY <2>9, <2>10, SafeTwice
  <2> QED
    BY <2>3, <2>6, <2>11
<1>7. CASE WriteMissAlloc(b)
  <2>1. PICK junk \in Blocks :
          LET mid   == addToL2(L1, L2, b, junk)
              after == addToL1(mid.L1, DirtyL2(mid.L2, b), b)
          IN  L1' = DirtyL1(after.L1, b) /\ L2' = after.L2
    BY <1>7 DEF WriteMissAlloc
  <2> DEFINE mid    == addToL2(L1, L2, b, junk)
             marked == DirtyL2(mid.L2, b)
             after  == addToL1(mid.L1, marked, b)
  <2>2. L1OK(mid.L1) /\ L2OK(mid.L2) /\ ~InL1(mid.L1, b)
    BY <1>7, addToL2Keeps DEF WriteMissAlloc
  <2>3. Safe(L1, L2, mid.L1, mid.L2, c)
    BY <1>1, <1>7, addToL2Safe DEF WriteMissAlloc
  <2>4. L1' = DirtyL1(after.L1, b) /\ L2' = after.L2
    BY <2>1
  <2> HIDE DEF mid
  <2>5. L2OK(marked)
    BY <1>1, <2>2, L2Dirty
  <2>6. Safe(mid.L1, mid.L2, mid.L1, marked, c)
    BY <1>1, <2>2, L2Marked, MarkedSame, MarkedSafe
  <2>7. Safe(L1, L2, mid.L1, marked, c)
    BY <2>3, <2>6, SafeTwice
  <2> HIDE DEF marked
  <2>8. L1OK(after.L1) /\ L2OK(after.L2)
    BY <2>2, <2>5, addToL1Keeps
  <2>9. Safe(mid.L1, marked, after.L1, after.L2, c)
    BY <1>1, <2>2, <2>5, addToL1Safe
  <2>10. Safe(L1, L2, after.L1, after.L2, c)
    BY <2>7, <2>9, SafeTwice
  <2> HIDE DEF after
  <2>11. Safe(after.L1, after.L2, DirtyL1(after.L1, b), after.L2, c)
    BY <1>1, <2>8, L1Marked, MarkedSame, MarkedSafe
  <2> QED
    BY <2>4, <2>10, <2>11, SafeTwice
<1>8. CASE WriteMissNoAlloc(b)
  BY <1>1, <1>8, MarkedSame, MarkedSafe DEF WriteMissNoAlloc
<1> QED
  BY <1>2, <1>3, <1>4, <1>5, <1>6, <1>7, <1>8 DEF Read, Write

LEMMA OldCommandSafe ==
  ASSUME config \in Configs, config.version = "HW2", L1OK(L1), L2OK(L2),
         NEW b \in Blocks, NEW operation, cacheMemHandler(b, operation),
         NEW c \in Blocks, InL2(L2, c)
  PROVE  Safe(L1, L2, L1', L2', c)
<1>1. b \in Nat /\ c \in Nat
  BY ConfigTypes
<1>2. CASE OldL1Hit(b, operation)
  <2> DEFINE touched == Touched(Tag1(b), L1[Set1(b)])
             marked  == Dirtied(Tag1(b), touched)
  <2>1. WithTag(L1[Set1(b)], Tag1(b)) # {}
    BY <1>2, ExistsHasTag DEF OldL1Hit, InL1
  <2>2. Dirtier(touched, L1[Set1(b)]) /\ Dirtier(marked, L1[Set1(b)])
    BY <1>1, <2>1, L1Marks
  <2>3. /\ L1' = [L1 EXCEPT ![Set1(b)] = IF operation = "w" THEN marked ELSE touched]
        /\ L2' = L2
    BY <1>2 DEF OldL1Hit
  <2> HIDE DEF marked, touched
  <2>4. Marked(L1', L1) /\ Marked(L2', L2)
    BY <2>2, <2>3, MarkedOne, MarkedSame
  <2> QED
    BY <1>1, <2>4, MarkedSafe
<1>3. CASE OldL2Hit(b, operation)
  <2> DEFINE cells   == L2[Set2(b)]
             new     == Touched(Tag2(b), cells)
             touched == [L2 EXCEPT ![Set2(b)] = new]
             after   == BringToL1(L1, touched, b, operation = "w")
  <2>1. /\ ~InL1(L1, b) /\ cells \in Cells2 /\ SetOK(cells, Fits2(Set2(b)))
        /\ WithTag(cells, Tag2(b)) # {} /\ Set2(b) \in 0 .. config.L2Sets - 1
        /\ config.L2Ways \in Nat \ {0}
    BY <1>1, <1>3, Places, ConfigTypes, L2Set, ExistsHasTag DEF OldL2Hit, InL2
  <2>2. /\ L1' = IF Allocates(operation) THEN after.L1 ELSE L1
        /\ L2' = IF Allocates(operation) THEN after.L2 ELSE touched
    BY <1>3 DEF OldL2Hit
  <2>3. Marked(touched, L2)
    BY <1>1, L2Marked
  <2> HIDE DEF cells
  <2>4. new \in Cells2 /\ SetOK(new, Fits2(Set2(b)))
    BY <2>1, TouchedKeeps DEF Cells2
  <2> HIDE DEF new
  <2>5. L2OK(touched)
    BY <2>1, <2>4, L2Change
  <2> HIDE DEF touched
  <2>6. Safe(L1, L2, L1, touched, c)
    BY <1>1, <2>3, MarkedSame, MarkedSafe
  <2>7. Safe(L1, touched, after.L1, after.L2, c)
    BY <1>1, <2>1, <2>5, BringToL1Safe
  <2>8. Safe(L1, L2, after.L1, after.L2, c)
    BY <2>6, <2>7, SafeTwice
  <2> HIDE DEF after
  <2> QED
    BY <2>2, <2>6, <2>8
<1>4. CASE OldMiss(b, operation)
  <2> DEFINE write == operation = "w" /\ config.writeAlloc
  <2>1. PICK idxInSet \in 0 .. config.L2Ways - 1 :
          LET mid   == BringToL2(L1, L2, b, idxInSet)
              after == BringToL1(mid.L1, mid.L2, b, write)
          IN  L1' = after.L1 /\ L2' = after.L2
    BY <1>4 DEF OldMiss
  <2> DEFINE mid   == BringToL2(L1, L2, b, idxInSet)
             after == BringToL1(mid.L1, mid.L2, b, write)
  <2>2. L1OK(mid.L1) /\ L2OK(mid.L2) /\ ~InL1(mid.L1, b)
    BY <1>4, BringToL2Keeps DEF OldMiss
  <2>3. Safe(L1, L2, mid.L1, mid.L2, c)
    BY <1>4, BringToL2Safe DEF OldMiss
  <2>4. L1' = after.L1 /\ L2' = after.L2
    BY <2>1
  <2> HIDE DEF mid, write
  <2>5. Safe(mid.L1, mid.L2, after.L1, after.L2, c)
    BY <1>1, <2>2, BringToL1Safe
  <2> QED
    BY <2>3, <2>4, <2>5, SafeTwice
<1> QED
  BY <1>2, <1>3, <1>4 DEF cacheMemHandler

(* Written data is not forgotten: while L2 keeps a block, one of the       *)
(* levels keeps it dirty, whichever block a command replaces where, in     *)
(* both simulators (HW2_NEW/cacheSim.cpp:303-349, HW2/cacheSim.cpp:        *)
(* 295-305, 331-372).                                                      *)
THEOREM DirtyStays == SpecBoth => DirtyKept
<1>1. CacheInv /\ [NextBoth]_allVars =>
        [\A b \in Blocks : Dirty(b) /\ InL2(L2, b) /\ InL2(L2, b)' => Dirty(b)']_allVars
  <2> SUFFICES ASSUME CacheInv, NextBoth, NEW c \in Blocks,
                      Dirty(c), InL2(L2, c), InL2(L2, c)'
               PROVE  Dirty(c)'
    OBVIOUS
  <2>1. config \in Configs /\ L1OK(L1) /\ L2OK(L2)
    BY DEF CacheInv, TypeOK
  <2>2. PICK b \in Blocks, operation \in Operations :
          NewCommand(b, operation) \/ OldCommand(b, operation)
    BY DEF NextBoth
  <2>3. config' = config
    BY <2>2 DEF NewCommand, OldCommand, cmdParser, Read, Write, ReadL1Hit, ReadL2Hit,
                ReadMiss, WriteL1Hit, WriteL2Hit, WriteMissAlloc, WriteMissNoAlloc,
                cacheMemHandler, OldL1Hit, OldL2Hit, OldMiss, Count
  <2>4. Safe(L1, L2, L1', L2', c)
    <3>1. CASE NewCommand(b, operation)
      <4>1. (Read(b) \/ Write(b)) /\ config.version # "HW2"
        BY <3>1 DEF NewCommand, cmdParser
      <4> QED
        BY <2>1, <4>1, NewCommandSafe
    <3>2. CASE OldCommand(b, operation)
      <4>1. cacheMemHandler(b, operation) /\ config.version = "HW2"
        BY <3>2 DEF OldCommand
      <4> QED
        BY <2>1, <4>1, OldCommandSafe
    <3> QED
      BY <2>2, <3>1, <3>2
  <2>5. InL2(L2', c) /\ (Dirty1(L1, c) \/ Dirty2(L2, c))
    BY <2>3 DEF InL2, Dirty, Dirty1, Dirty2, Set2, Tag2
  <2>6. Dirty1(L1', c) \/ Dirty2(L2', c)
    BY <2>4, <2>5 DEF Safe
  <2> QED
    BY <2>3, <2>6 DEF Dirty, Dirty1, Dirty2, Set1, Tag1, Set2, Tag2
<1> QED
  BY <1>1, CacheInvariance, PTL DEF SpecBoth, DirtyKept

-----------------------------------------------------------------------------
(* L1 keeps the most recently used blocks: what the methods do to the      *)
(* order of the cells of one set.                                          *)

(* Of the blocks with other tags than those given, the set after an        *)
(* operation holds none that it did not hold before, each where it was,    *)
(* and in the same order.                                                  *)
Follows(after, cells, tags) ==
  /\ Ways(after) = Ways(cells)
  /\ \A v \in Ways(cells) : after[v].valid /\ after[v].tag \notin tags =>
       /\ cells[v].valid
       /\ cells[v].tag = after[v].tag
       /\ cells[v].address = after[v].address
  /\ \A v, w \in Ways(cells) :
       /\ after[v].valid /\ after[v].tag \notin tags
       /\ after[w].valid /\ after[w].tag \notin tags
       => (after[v].LRU < after[w].LRU <=> cells[v].LRU < cells[w].LRU)

(* The cell of the tag, if there is one, is newer than all the others.     *)
Newest(cells, tag) ==
  \A v, w \in Ways(cells) :
    Holds(cells[v], tag) /\ cells[w].valid /\ v # w => cells[w].LRU < cells[v].LRU

(* Two operations in a row; fewer tags left out; none done.                *)
LEMMA FollowsTwice ==
  ASSUME NEW cells, NEW mid, NEW after, NEW tags,
         Follows(mid, cells, tags), Follows(after, mid, tags)
  PROVE  Follows(after, cells, tags)
BY DEF Follows

LEMMA FollowsLess ==
  ASSUME NEW cells, NEW after, NEW tags, Follows(after, cells, {})
  PROVE  Follows(after, cells, tags)
BY DEF Follows

LEMMA FollowsSame ==
  ASSUME NEW cells, NEW tags
  PROVE  Follows(cells, cells, tags)
BY DEF Follows

(* Touching a cell makes it the newest.                                    *)
LEMMA TouchOrders ==
  ASSUME NEW ways \in Nat \ {0}, NEW blocks, NEW fits, NEW way \in 0 .. ways - 1,
         NEW cells \in [0 .. ways - 1 -> Cell(ways, blocks)], SetOK(cells, fits),
         cells[way].valid
  PROVE  /\ Follows(Touch(way, cells), cells, {cells[way].tag})
         /\ Newest(Touch(way, cells), cells[way].tag)
         /\ \A w \in 0 .. ways - 1 :
              /\ Touch(way, cells)[w].tag = cells[w].tag
              /\ Touch(way, cells)[w].valid = cells[w].valid
<1> DEFINE after == Touch(way, cells)
<1>1. Cardinality(Ways(cells)) = ways
  BY FS_Interval DEF Ways
<1>2. /\ Ways(cells) = 0 .. ways - 1
      /\ after = [w \in 0 .. ways - 1 |->
            IF w = way THEN [cells[w] EXCEPT !.LRU = ways - 1]
            ELSE IF cells[w].LRU > cells[way].LRU THEN [cells[w] EXCEPT !.LRU = @ - 1]
            ELSE cells[w]]
      /\ Ways(after) = 0 .. ways - 1
  BY <1>1 DEF Touch, Ways
<1> HIDE DEF after
<1>3. ASSUME NEW w \in 0 .. ways - 1
      PROVE  /\ after[w].tag = cells[w].tag
             /\ after[w].valid = cells[w].valid
             /\ after[w].address = cells[w].address
             /\ after[w].LRU = IF w = way THEN ways - 1
                               ELSE IF cells[w].LRU > cells[way].LRU THEN cells[w].LRU - 1
                               ELSE cells[w].LRU
  <2>1. cells[w] \in Cell(ways, blocks) /\ cells[way].LRU \in 0 .. ways - 1
    BY DEF Cell
  <2>2. CASE w = way
    BY <1>2, <2>1, <2>2 DEF Cell
  <2>3. CASE w # way /\ cells[w].LRU > cells[way].LRU
    <3>1. after[w] = [cells[w] EXCEPT !.LRU = @ - 1]
      BY <1>2, <2>3
    <3> QED
      BY <2>1, <2>3, <3>1 DEF Cell
  <2>4. CASE w # way /\ ~(cells[w].LRU > cells[way].LRU)
    <3>1. after[w] = cells[w]
      BY <1>2, <2>4
    <3> QED
      BY <2>1, <2>4, <3>1
  <2> QED
    BY <2>2, <2>3, <2>4
<1>4. \A u \in 0 .. ways - 1 : cells[u].LRU \in 0 .. ways - 1
  BY DEF Cell
<1>5. \A u, x \in 0 .. ways - 1 : cells[u].LRU = cells[x].LRU => u = x
  BY <1>2 DEF SetOK, RanksDiffer
<1>6. ASSUME NEW v \in 0 .. ways - 1, NEW w \in 0 .. ways - 1, v # way, w # way
      PROVE  after[v].LRU < after[w].LRU <=> cells[v].LRU < cells[w].LRU
  <2>1. cells[v].LRU # cells[way].LRU /\ cells[w].LRU # cells[way].LRU
    BY <1>5, <1>6
  <2>2. /\ after[v].LRU = IF cells[v].LRU > cells[way].LRU THEN cells[v].LRU - 1
                          ELSE cells[v].LRU
        /\ after[w].LRU = IF cells[w].LRU > cells[way].LRU THEN cells[w].LRU - 1
                          ELSE cells[w].LRU
    BY <1>3, <1>6
  <2>3. cells[v].LRU \in Nat /\ cells[w].LRU \in Nat /\ cells[way].LRU \in Nat
    BY <1>4
  <2> QED
    BY <2>1, <2>2, <2>3
<1>7. ASSUME NEW w \in 0 .. ways - 1, w # way
      PROVE  after[w].LRU < after[way].LRU
  BY <1>3, <1>4, <1>5, <1>7
<1>8. Follows(after, cells, {cells[way].tag})
  BY <1>2, <1>3, <1>6 DEF Follows
<1>9. \A v \in 0 .. ways - 1 : Holds(after[v], cells[way].tag) => v = way
  BY <1>2, <1>3 DEF Holds, SetOK, ValidFirst
<1>10. Newest(after, cells[way].tag)
  BY <1>2, <1>7, <1>9 DEF Newest
<1> QED
  BY <1>3, <1>8, <1>10 DEF after

(* Touching a block: both kinds of updateLRU.                              *)
LEMMA UpdateOrders ==
  ASSUME NEW ways \in Nat \ {0}, NEW blocks, NEW fits, NEW tag,
         NEW cells \in [0 .. ways - 1 -> Cell(ways, blocks)], SetOK(cells, fits),
         exists(tag, cells)
  PROVE  /\ Follows(Touched(tag, cells), cells, {tag})
         /\ Newest(Touched(tag, cells), tag)
         /\ UpdatesAlike(tag, cells)
<1> DEFINE hit == First(WithTag(cells, tag))
<1>1. hit \in 0 .. ways - 1 /\ Holds(cells[hit], tag)
  BY HitFound
<1>2. Touched(tag, cells) = Touch(hit, cells)
  BY DEF Touched
<1> HIDE DEF hit
<1>3. ways \in Nat \ {0} /\ cells[hit].valid /\ cells[hit].tag = tag
  BY <1>1 DEF Holds
<1>4. /\ Follows(Touch(hit, cells), cells, {cells[hit].tag})
      /\ Newest(Touch(hit, cells), cells[hit].tag)
  BY <1>1, <1>3, TouchOrders, Zenon
<1>5. UpdatesAlike(tag, cells)
  BY UpdateIsTouched
<1> QED
  BY <1>2, <1>3, <1>4, <1>5

(* Marking a cell dirty moves nothing.                                     *)
LEMMA DirtyOrders ==
  ASSUME NEW ways \in Nat \ {0}, NEW blocks, NEW way,
         NEW cells \in [0 .. ways - 1 -> Cell(ways, blocks)]
  PROVE  LET after == [cells EXCEPT ![way].dirty = TRUE]
         IN  /\ Follows(after, cells, {})
             /\ \A tag : Newest(cells, tag) => Newest(after, tag)
<1> DEFINE after == [cells EXCEPT ![way].dirty = TRUE]
<1>1. Ways(cells) = 0 .. ways - 1 /\ Ways(after) = 0 .. ways - 1
  BY DEF Ways
<1>2. \A w \in 0 .. ways - 1 :
        after[w] = IF w = way THEN [cells[w] EXCEPT !.dirty = TRUE] ELSE cells[w]
  OBVIOUS
<1>3. \A w \in 0 .. ways - 1 :
        /\ [cells[w] EXCEPT !.dirty = TRUE].tag = cells[w].tag
        /\ [cells[w] EXCEPT !.dirty = TRUE].valid = cells[w].valid
        /\ [cells[w] EXCEPT !.dirty = TRUE].address = cells[w].address
        /\ [cells[w] EXCEPT !.dirty = TRUE].LRU = cells[w].LRU
  BY DEF Cell
<1> HIDE DEF after
<1>4. \A w \in 0 .. ways - 1 :
        /\ after[w].tag = cells[w].tag /\ after[w].valid = cells[w].valid
        /\ after[w].address = cells[w].address /\ after[w].LRU = cells[w].LRU
  BY <1>2, <1>3
<1>5. Follows(after, cells, {})
  BY <1>1, <1>4 DEF Follows
<1>6. \A tag : Newest(cells, tag) => Newest(after, tag)
  BY <1>1, <1>4 DEF Newest, Holds
<1> QED
  BY <1>5, <1>6 DEF after

(* Neither does removing a cell.                                           *)
LEMMA RemovedOrders ==
  ASSUME NEW ways \in Nat \ {0}, NEW blocks, NEW way \in 0 .. ways - 1,
         NEW cells \in [0 .. ways - 1 -> Cell(ways, blocks)], NEW after,
         after = [cells EXCEPT ![way].valid = FALSE] \/ after = Removed(way, cells)
  PROVE  Follows(after, cells, {})
<1>1. Ways(cells) = 0 .. ways - 1 /\ Ways(after) = 0 .. ways - 1
  BY DEF Removed, Ways
<1>2. \A w \in 0 .. ways - 1 : w # way => after[w] = cells[w]
  BY DEF Removed
<1>3. ~after[way].valid
  BY DEF Removed, Cell
<1> QED
  BY <1>1, <1>2, <1>3 DEF Follows

(* evict moves the ranks below that of the cell it empties, all alike.     *)
LEMMA evictOrders ==
  ASSUME NEW ways \in Nat \ {0}, NEW blocks, NEW fits, NEW tag,
         NEW cells \in [0 .. ways - 1 -> Cell(ways, blocks)], SetOK(cells, fits)
  PROVE  /\ Follows(evict(tag, cells), cells, {})
         /\ \A t : exists(t, evict(tag, cells))
                   <=> exists(t, cells) /\ ~(Evictable(tag, cells) /\ t = tag)
<1> DEFINE after == evict(tag, cells)
<1>1. CASE Evictable(tag, cells)
  <2>1. /\ Ways(cells) = 0 .. ways - 1 /\ Ways(after) = 0 .. ways - 1
        /\ 0 \in 0 .. ways - 1
        /\ after = [way \in 0 .. ways - 1 |->
             IF way = 0 THEN [cells[0] EXCEPT !.valid = FALSE, !.LRU = 0]
             ELSE IF cells[way].LRU < cells[0].LRU
                  THEN [cells[way] EXCEPT !.LRU = @ + 1]
                  ELSE cells[way]]
    BY <1>1 DEF evict, Ways
  <2>2. cells[0].valid /\ cells[0].tag = tag
    BY <1>1 DEF Evictable, Holds
  <2> HIDE DEF after
  <2>3. ASSUME NEW way \in 0 .. ways - 1
        PROVE  /\ after[way].tag = cells[way].tag
               /\ after[way].address = cells[way].address
               /\ after[way].valid = IF way = 0 THEN FALSE ELSE cells[way].valid
               /\ way # 0 => after[way].LRU = IF cells[way].LRU < cells[0].LRU
                                              THEN cells[way].LRU + 1
                                              ELSE cells[way].LRU
    <3>1. cells[way] \in Cell(ways, blocks)
      OBVIOUS
    <3>2. CASE way = 0
      <4>1. after[way] = [cells[way] EXCEPT !.valid = FALSE, !.LRU = 0]
        BY <2>1, <3>2
      <4> QED
        BY <3>1, <3>2, <4>1 DEF Cell
    <3>3. CASE way # 0 /\ cells[way].LRU < cells[0].LRU
      <4>1. after[way] = [cells[way] EXCEPT !.LRU = @ + 1]
        BY <2>1, <3>3
      <4> QED
        BY <3>1, <3>3, <4>1 DEF Cell
    <3>4. CASE way # 0 /\ ~(cells[way].LRU < cells[0].LRU)
      <4>1. after[way] = cells[way]
        BY <2>1, <3>4
      <4> QED
        BY <3>4, <4>1
    <3> QED
      BY <3>2, <3>3, <3>4
  <2>4. \A u \in 0 .. ways - 1 : cells[u].LRU \in 0 .. ways - 1
    BY DEF Cell
  <2>5. \A u, x \in 0 .. ways - 1 : cells[u].LRU = cells[x].LRU => u = x
    BY <2>1 DEF SetOK, RanksDiffer
  <2>6. ASSUME NEW v \in 0 .. ways - 1, NEW w \in 0 .. ways - 1, v # 0, w # 0
        PROVE  after[v].LRU < after[w].LRU <=> cells[v].LRU < cells[w].LRU
    BY <2>1, <2>3, <2>4, <2>5, <2>6
  <2>7. Follows(after, cells, {})
    BY <2>1, <2>3, <2>6 DEF Follows
  <2>8. \A v \in 0 .. ways - 1 : Holds(cells[v], tag) => v = 0
    BY <2>1, <2>2 DEF SetOK, ValidFirst, Holds
  <2>9. \A t : Holding(after, t) = IF t = tag THEN {} ELSE Holding(cells, t)
    BY <2>1, <2>2, <2>3, <2>8 DEF Holding, Holds
  <2> QED
    BY <1>1, <2>7, <2>9 DEF exists, after
<1>2. CASE ~Evictable(tag, cells)
  BY <1>2, FollowsSame DEF evict
<1> QED
  BY <1>1, <1>2

(* A block that enters becomes the newest.                                 *)
FillsAlike(tag, b, cells) == Fill(tag, b, cells) = Added(tag, b, cells)

(* Both kinds of addToCache, with the updateLRU that ends them.            *)
LEMMA FilledOrders ==
  ASSUME NEW ways \in Nat \ {0}, NEW blocks, NEW fits,
         NEW tag \in Nat, NEW b \in blocks, <<tag, b>> \in fits,
         NEW cells \in [0 .. ways - 1 -> Cell(ways, blocks)], SetOK(cells, fits),
         isEmpty(cells), ~exists(tag, cells)
  PROVE  /\ Follows(Added(tag, b, cells), cells, {tag})
         /\ Newest(Added(tag, b, cells), tag)
         /\ FillsAlike(tag, b, cells)
<1> DEFINE empty  == emptyCell(cells)
           filled == [cells EXCEPT ![emptyCell(cells)] =
                        [tag |-> tag, dirty |-> FALSE, valid |-> TRUE,
                         address |-> b, LRU |-> @.LRU]]
<1>1. empty \in 0 .. ways - 1
  BY EmptyFound
<1>2. /\ filled[empty].tag = tag
      /\ \A way \in 0 .. ways - 1 : way # empty => filled[way] = cells[way]
  BY <1>1 DEF Cell
<1>3. Ways(cells) = 0 .. ways - 1 /\ Ways(filled) = 0 .. ways - 1
  BY DEF Ways
<1>4. Fill(tag, b, cells) = updateLRU(tag, filled) /\ Added(tag, b, cells) = Touched(tag, filled)
  BY DEF Fill, Added
<1>5. /\ filled \in [0 .. ways - 1 -> Cell(ways, blocks)]
      /\ SetOK(filled, fits) /\ exists(tag, filled)
  BY FilledOK
<1> HIDE DEF filled, empty
<1>6. Follows(filled, cells, {tag})
  BY <1>2, <1>3 DEF Follows
<1>7. ways \in Nat \ {0}
  OBVIOUS
<1>8. /\ Follows(Touched(tag, filled), filled, {tag})
      /\ Newest(Touched(tag, filled), tag)
      /\ UpdatesAlike(tag, filled)
  BY <1>5, <1>7, UpdateOrders, Zenon
<1> QED
  BY <1>4, <1>6, <1>8, FollowsTwice DEF UpdatesAlike, FillsAlike

-----------------------------------------------------------------------------
(* Room in a set: whatever it takes, only the oldest cell is lost.         *)
LEMMA RoomOrders ==
  ASSUME NEW ways \in Nat \ {0}, NEW blocks, NEW fits,
         NEW cells \in [0 .. ways - 1 -> Cell(ways, blocks)], SetOK(cells, fits),
         NEW room, RoomForL1(room, cells)
  PROVE  /\ room \in [0 .. ways - 1 -> Cell(ways, blocks)]
         /\ SetOK(room, fits)
         /\ isEmpty(room)
         /\ Follows(room, cells, {})
         /\ \A t : exists(t, room)
                   <=> exists(t, cells)
                       /\ ~(~isEmpty(cells) /\ t = cells[First(Oldest(cells))].tag)
<1>1. CASE isEmpty(cells) /\ room = cells
  BY <1>1, FollowsSame
<1>2. CASE ~isEmpty(cells) /\ room # cells
  <2> DEFINE lru == First(Oldest(cells))
  <2>1. lru \in 0 .. ways - 1
    BY OldestExists DEF SetOK
  <2>2. cells[lru].valid
    BY <1>2, <2>1 DEF isEmpty, Invalid, Ways
  <2>3. room = [cells EXCEPT ![lru].valid = FALSE] \/ room = Removed(lru, cells)
    BY <1>2 DEF RoomForL1, evictLRU
  <2> HIDE DEF lru
  <2>4. /\ room \in [0 .. ways - 1 -> Cell(ways, blocks)]
        /\ SetOK(room, fits)
        /\ isEmpty(room)
    BY <2>1, <2>3, RemovedKeeps
  <2>5. /\ \A t : exists(t, room) => exists(t, cells)
        /\ \A t : Holds(cells[lru], t) => ~exists(t, room)
        /\ \A t : exists(t, cells) /\ t # cells[lru].tag => exists(t, room)
    BY <2>1, <2>3, RemovedKeeps
  <2>6. Follows(room, cells, {})
    BY <2>1, <2>3, RemovedOrders
  <2>7. Holds(cells[lru], cells[lru].tag)
    BY <2>2 DEF Holds
  <2>8. \A t : exists(t, room) <=> exists(t, cells) /\ t # cells[lru].tag
    BY <2>5, <2>7
  <2> QED
    BY <1>2, <2>4, <2>6, <2>8 DEF lru
<1>3. CASE ~isEmpty(cells) /\ room = cells
  <2> DEFINE lru == First(Oldest(cells))
  <2>1. lru \in 0 .. ways - 1
    BY OldestExists DEF SetOK
  <2>2. cells[lru].valid
    BY <1>3, <2>1 DEF isEmpty, Invalid, Ways
  <2>3. room = [cells EXCEPT ![lru].valid = FALSE] \/ room = Removed(lru, cells)
    BY <1>3 DEF RoomForL1, evictLRU
  <2> HIDE DEF lru
  <2>4. isEmpty(room)
    BY <2>1, <2>3, RemovedKeeps
  <2> QED
    BY <1>3, <2>4
<1> QED
  BY <1>1, <1>2, <1>3 DEF RoomForL1

(* A block enters a set, in an empty cell or in place of the oldest.       *)
TakesPlace(after, cells, tag) ==
  \A t : exists(t, after)
         <=> \/ t = tag
             \/ exists(t, cells)
                /\ ~(~isEmpty(cells) /\ t = cells[First(Oldest(cells))].tag)

(* So for a set in any state, once there is room in it.                    *)
LEMMA EnterOrders ==
  ASSUME NEW ways \in Nat \ {0}, NEW blocks, NEW fits,
         NEW tag \in Nat, NEW b \in blocks, <<tag, b>> \in fits,
         NEW cells \in [0 .. ways - 1 -> Cell(ways, blocks)], SetOK(cells, fits),
         ~exists(tag, cells), NEW room, RoomForL1(room, cells)
  PROVE  /\ FillsAlike(tag, b, room)
         /\ Added(tag, b, room) \in [0 .. ways - 1 -> Cell(ways, blocks)]
         /\ SetOK(Added(tag, b, room), fits)
         /\ Follows(Added(tag, b, room), cells, {tag})
         /\ Newest(Added(tag, b, room), tag)
         /\ TakesPlace(Added(tag, b, room), cells, tag)
<1>1. /\ room \in [0 .. ways - 1 -> Cell(ways, blocks)]
      /\ SetOK(room, fits)
      /\ isEmpty(room)
      /\ Follows(room, cells, {})
  BY RoomOrders
<1>2. \A t : exists(t, room)
             <=> exists(t, cells)
                 /\ ~(~isEmpty(cells) /\ t = cells[First(Oldest(cells))].tag)
  BY RoomOrders
<1>3. ~exists(tag, room) /\ ways \in Nat \ {0}
  BY <1>2
<1>4. /\ Follows(Added(tag, b, room), room, {tag})
      /\ Newest(Added(tag, b, room), tag)
      /\ FillsAlike(tag, b, room)
  BY <1>1, <1>3, FilledOrders, Zenon
<1>5. /\ Added(tag, b, room) \in [0 .. ways - 1 -> Cell(ways, blocks)]
      /\ SetOK(Added(tag, b, room), fits)
      /\ \A t : exists(t, Added(tag, b, room)) <=> t = tag \/ exists(t, room)
  BY <1>1, <1>3, AddedKeeps, Zenon
<1>6. Follows(Added(tag, b, room), cells, {tag})
  BY <1>1, <1>4, FollowsLess, FollowsTwice
<1> QED
  BY <1>2, <1>4, <1>5, <1>6 DEF TakesPlace

-----------------------------------------------------------------------------
(* What an operation on L1 does to the order of its blocks.                *)

(* Block b has become the newest of its set; of the others none came.      *)
Uses(m1, l1, b) ==
  /\ L1OK(m1)
  /\ \A set \in 0 .. config.L1Sets - 1 :
       Follows(m1[set], l1[set], IF set = Set1(b) THEN {Tag1(b)} ELSE {})
  /\ Newest(m1[Set1(b)], Tag1(b))

(* No block came.                                                          *)
Loses(m1, l1) ==
  /\ L1OK(m1)
  /\ \A set \in 0 .. config.L1Sets - 1 : Follows(m1[set], l1[set], {})

(* The block that leaves when b comes to a full set.                       *)
Leaves(l1, b, c) ==
  LET cells == l1[Set1(b)]
  IN  ~isEmpty(cells) /\ c = cells[First(Oldest(cells))].address

(* L1 finds b; L1 takes b in; L1 loses one block, if it holds it.          *)
HitsIn(m1, l1, b) ==
  /\ Uses(m1, l1, b)
  /\ \A c \in Nat : InL1(m1, c) <=> InL1(l1, c)

Brings(m1, l1, b) ==
  /\ Uses(m1, l1, b)
  /\ \A c \in Nat : InL1(m1, c) <=> c = b \/ (InL1(l1, c) /\ ~Leaves(l1, b, c))

LosesOne(m1, l1, lost) ==
  /\ Loses(m1, l1)
  /\ \A c \in Nat : InL1(m1, c) <=> InL1(l1, c) /\ c # lost

(* What happens in one set happens in L1.                                  *)
LEMMA UsesSet ==
  ASSUME config \in Configs, NEW l1, L1OK(l1), NEW b \in Nat,
         NEW cells \in Cells1, SetOK(cells, Fits1(Set1(b))),
         Follows(cells, l1[Set1(b)], {Tag1(b)}), Newest(cells, Tag1(b))
  PROVE  Uses([l1 EXCEPT ![Set1(b)] = cells], l1, b)
<1> DEFINE m1 == [l1 EXCEPT ![Set1(b)] = cells]
<1>1. Set1(b) \in 0 .. config.L1Sets - 1
  BY Places
<1>2. L1OK(m1)
  BY <1>1, L1Change
<1>3. \A set \in 0 .. config.L1Sets - 1 :
        m1[set] = IF set = Set1(b) THEN cells ELSE l1[set]
  BY <1>1 DEF L1OK
<1> HIDE DEF m1
<1>4. ASSUME NEW set \in 0 .. config.L1Sets - 1
      PROVE  Follows(m1[set], l1[set], IF set = Set1(b) THEN {Tag1(b)} ELSE {})
  <2>1. CASE set = Set1(b)
    BY <1>3, <2>1
  <2>2. CASE set # Set1(b)
    BY <1>3, <2>2, FollowsSame
  <2> QED
    BY <2>1, <2>2
<1>5. Newest(m1[Set1(b)], Tag1(b))
  BY <1>1, <1>3
<1> QED
  BY <1>2, <1>4, <1>5 DEF Uses, m1

LEMMA LosesSet ==
  ASSUME config \in Configs, NEW l1, L1OK(l1), NEW set \in 0 .. config.L1Sets - 1,
         NEW cells \in Cells1, SetOK(cells, Fits1(set)),
         Follows(cells, l1[set], {})
  PROVE  Loses([l1 EXCEPT ![set] = cells], l1)
<1> DEFINE m1 == [l1 EXCEPT ![set] = cells]
<1>1. L1OK(m1)
  BY L1Change
<1>2. \A s \in 0 .. config.L1Sets - 1 : m1[s] = IF s = set THEN cells ELSE l1[s]
  BY DEF L1OK
<1> HIDE DEF m1
<1>3. \A s \in 0 .. config.L1Sets - 1 : Follows(m1[s], l1[s], {})
  BY <1>2, FollowsSame
<1> QED
  BY <1>1, <1>3 DEF Loses, m1

(* Marking b dirty afterwards changes nothing of that.                     *)
LEMMA UsesDirty ==
  ASSUME config \in Configs, NEW l1, L1OK(l1), NEW b \in Nat, NEW m1, Uses(m1, l1, b),
         NEW way, NEW n1, n1 = [m1 EXCEPT ![Set1(b)] = [@ EXCEPT ![way].dirty = TRUE]],
         L1OK(n1)
  PROVE  Uses(n1, l1, b)
<1> DEFINE cells == m1[Set1(b)]
           dirty == [cells EXCEPT ![way].dirty = TRUE]
<1>1. /\ Set1(b) \in 0 .. config.L1Sets - 1 /\ L1OK(m1)
      /\ config.L1Ways \in Nat \ {0}
  BY Places, ConfigTypes DEF Uses
<1>2. cells \in Cells1
  BY <1>1, L1Set
<1>3. \A set \in 0 .. config.L1Sets - 1 :
        n1[set] = IF set = Set1(b) THEN dirty ELSE m1[set]
  BY <1>1 DEF L1OK
<1> HIDE DEF cells
<1>4. Follows(dirty, cells, {}) /\ \A t : Newest(cells, t) => Newest(dirty, t)
  BY <1>1, <1>2, DirtyOrders DEF Cells1
<1> HIDE DEF dirty
<1>5. Newest(dirty, Tag1(b))
  BY <1>4 DEF Uses, cells
<1>6. Follows(dirty, l1[Set1(b)], {Tag1(b)})
  <2>1. Follows(cells, l1[Set1(b)], {Tag1(b)})
    BY <1>1 DEF Uses, cells
  <2> QED
    BY <1>4, <2>1, FollowsLess, FollowsTwice
<1>7. ASSUME NEW set \in 0 .. config.L1Sets - 1
      PROVE  Follows(n1[set], l1[set], IF set = Set1(b) THEN {Tag1(b)} ELSE {})
  BY <1>3, <1>6 DEF Uses
<1> QED
  BY <1>1, <1>3, <1>5, <1>7 DEF Uses

-----------------------------------------------------------------------------
(* A hit in L1, read or write, in either simulator.                        *)
LEMMA HitOrders ==
  ASSUME config \in Configs, NEW l1, L1OK(l1), NEW b \in Nat, InL1(l1, b)
  PROVE  LET touched == Touched(Tag1(b), l1[Set1(b)])
             marked  == updateDirty(Tag1(b), l1[Set1(b)])
         IN  /\ HitsIn([l1 EXCEPT ![Set1(b)] = touched], l1, b)
             /\ HitsIn([l1 EXCEPT ![Set1(b)] = Dirtied(Tag1(b), touched)], l1, b)
             /\ HitsIn([l1 EXCEPT ![Set1(b)] = updateLRU(Tag1(b), l1[Set1(b)])], l1, b)
             /\ HitsIn([l1 EXCEPT ![Set1(b)] = updateLRU(Tag1(b), marked)], l1, b)
<1> DEFINE cells   == l1[Set1(b)]
           tag     == Tag1(b)
           touched == Touched(tag, cells)
           marked  == updateDirty(tag, cells)
           Good(after) == /\ after \in Cells1
                          /\ SetOK(after, Fits1(Set1(b)))
                          /\ Follows(after, cells, {tag})
                          /\ Newest(after, tag)
                          /\ \A t : exists(t, after) <=> exists(t, cells)
<1>1. /\ Set1(b) \in 0 .. config.L1Sets - 1 /\ config.L1Ways \in Nat \ {0}
  BY Places, ConfigTypes
<1>2. cells \in Cells1 /\ SetOK(cells, Fits1(Set1(b))) /\ exists(tag, cells)
  BY <1>1, L1Set DEF InL1
<1>3. ASSUME NEW after, Good(after)
      PROVE  HitsIn([l1 EXCEPT ![Set1(b)] = after], l1, b)
  <2>1. Uses([l1 EXCEPT ![Set1(b)] = after], l1, b)
    BY <1>3, UsesSet
  <2>2. \A c \in Nat : InL1([l1 EXCEPT ![Set1(b)] = after], c) <=> InL1(l1, c)
    BY <1>3, L1Replaced DEF InL1
  <2> QED
    BY <2>1, <2>2 DEF HitsIn
<1> HIDE DEF cells, tag
<1>4. Good(touched) /\ UpdatesAlike(tag, cells)
  <2>1. /\ Follows(touched, cells, {tag}) /\ Newest(touched, tag)
        /\ UpdatesAlike(tag, cells)
    BY <1>1, <1>2, UpdateOrders DEF Cells1
  <2>2. WithTag(cells, tag) # {}
    BY <1>2, ExistsHasTag
  <2>3. /\ touched \in Cells1 /\ SetOK(touched, Fits1(Set1(b)))
        /\ \A t : exists(t, touched) <=> exists(t, cells)
    BY <1>1, <1>2, <2>2, TouchedKeeps, Zenon DEF Cells1
  <2> QED
    BY <2>1, <2>3
<1>5. Good(Dirtied(tag, touched))
  <2> DEFINE after == Dirtied(tag, touched)
  <2> HIDE DEF touched
  <2>1. exists(tag, touched)
    BY <1>2, <1>4
  <2>2. WithTag(touched, tag) # {}
    BY <2>1, ExistsHasTag
  <2>3. /\ after \in Cells1 /\ SetOK(after, Fits1(Set1(b)))
        /\ \A t : exists(t, after) <=> exists(t, touched)
    BY <1>1, <1>4, <2>2, DirtiedKeeps DEF Cells1
  <2> DEFINE hit == First(WithTag(touched, tag))
  <2>4. after = [touched EXCEPT ![hit].dirty = TRUE]
    BY DEF Dirtied
  <2> HIDE DEF hit, after
  <2>5. Follows(after, touched, {}) /\ (Newest(touched, tag) => Newest(after, tag))
    BY <1>1, <1>4, <2>4, DirtyOrders DEF Cells1
  <2>6. Follows(after, cells, {tag})
    BY <1>4, <2>5, FollowsLess, FollowsTwice
  <2> QED
    BY <1>4, <2>3, <2>5, <2>6 DEF after
<1>6. Good(updateLRU(tag, marked))
  <2>1. /\ marked \in Cells1 /\ SetOK(marked, Fits1(Set1(b)))
        /\ \A t : exists(t, marked) <=> exists(t, cells)
    BY <1>1, <1>2, updateDirtyKeeps DEF Cells1
  <2> DEFINE hit == First(Holding(cells, tag))
  <2>2. marked = [cells EXCEPT ![hit].dirty = TRUE]
    BY <1>2 DEF updateDirty
  <2> HIDE DEF marked, hit
  <2>3. Follows(marked, cells, {})
    BY <1>1, <1>2, <2>2, DirtyOrders DEF Cells1
  <2> DEFINE after == Touched(tag, marked)
  <2>4. exists(tag, marked)
    BY <1>2, <2>1
  <2>5. WithTag(marked, tag) # {}
    BY <2>4, ExistsHasTag
  <2>6. /\ Follows(after, marked, {tag}) /\ Newest(after, tag)
        /\ UpdatesAlike(tag, marked)
    BY <1>1, <2>1, <2>4, UpdateOrders DEF Cells1
  <2>7. /\ after \in Cells1 /\ SetOK(after, Fits1(Set1(b)))
        /\ \A t : exists(t, after) <=> exists(t, marked)
    BY <1>1, <2>1, <2>5, TouchedKeeps, Zenon DEF Cells1
  <2> HIDE DEF after
  <2>8. Follows(after, cells, {tag})
    BY <2>3, <2>6, FollowsLess, FollowsTwice
  <2>9. Good(after)
    BY <2>1, <2>6, <2>7, <2>8
  <2> HIDE DEF Good
  <2> QED
    BY <2>6, <2>9 DEF UpdatesAlike, after
<1>7. Good(updateLRU(tag, cells))
  <2> HIDE DEF Good
  <2> QED
    BY <1>4 DEF UpdatesAlike
<1> HIDE DEF Good
<1> QED
  BY <1>3, <1>4, <1>5, <1>6, <1>7 DEF cells, tag

(* Block b comes to L1.                                                    *)
LEMMA EnterBrings ==
  ASSUME config \in Configs, NEW l1, L1OK(l1), NEW b \in Blocks, ~InL1(l1, b),
         NEW room, RoomForL1(room, l1[Set1(b)])
  PROVE  /\ FillsAlike(Tag1(b), b, room)
         /\ Brings([l1 EXCEPT ![Set1(b)] = Added(Tag1(b), b, room)], l1, b)
<1> DEFINE cells == l1[Set1(b)]
           tag   == Tag1(b)
           lru   == First(Oldest(cells))
           after == Added(tag, b, room)
<1>1. /\ Set1(b) \in 0 .. config.L1Sets - 1 /\ Tag1(b) \in Nat /\ b \in Nat
      /\ config.L1Ways \in Nat \ {0} /\ Blocks \subseteq Nat
  BY Places, ConfigTypes
<1>2. cells \in Cells1 /\ SetOK(cells, Fits1(Set1(b))) /\ ~exists(tag, cells)
  BY <1>1, L1Set DEF InL1
<1>3. <<tag, b>> \in Fits1(Set1(b)) /\ RoomForL1(room, cells)
  BY <1>1 DEF Fits1
<1> HIDE DEF cells
<1>4. /\ FillsAlike(tag, b, room)
      /\ after \in Cells1 /\ SetOK(after, Fits1(Set1(b)))
      /\ Follows(after, cells, {tag})
      /\ Newest(after, tag)
      /\ TakesPlace(after, cells, tag)
  BY <1>1, <1>2, <1>3, EnterOrders, Zenon DEF Cells1
<1>5. \A t : exists(t, after)
             <=> \/ t = tag
                 \/ exists(t, cells) /\ ~(~isEmpty(cells) /\ t = cells[lru].tag)
  BY <1>4 DEF TakesPlace
<1> HIDE DEF after
<1>6. Uses([l1 EXCEPT ![Set1(b)] = after], l1, b)
  BY <1>1, <1>4, UsesSet DEF cells, tag
<1>7. ASSUME ~isEmpty(cells)
      PROVE  /\ cells[lru].address \in Nat
             /\ Set1(cells[lru].address) = Set1(b)
             /\ Tag1(cells[lru].address) = cells[lru].tag
  <2>1. lru \in 0 .. config.L1Ways - 1
    BY <1>1, <1>2, OldestExists DEF SetOK, Cells1
  <2> HIDE DEF lru
  <2>2. lru \in Ways(cells) /\ cells[lru].valid
    BY <1>2, <1>7, <2>1 DEF Ways, Cells1, isEmpty, Invalid
  <2>3. <<cells[lru].tag, cells[lru].address>> \in Fits1(Set1(b))
    BY <1>2, <2>2 DEF SetOK
  <2> QED
    BY <1>1, <2>3 DEF Fits1
<1> HIDE DEF lru
<1>8. ASSUME NEW c \in Nat
      PROVE  InL1([l1 EXCEPT ![Set1(b)] = after], c)
             <=> c = b \/ (InL1(l1, c) /\ ~(~isEmpty(cells) /\ c = cells[lru].address))
  <2>1. InL1([l1 EXCEPT ![Set1(b)] = after], c)
        <=> IF Set1(c) = Set1(b) THEN exists(Tag1(c), after) ELSE InL1(l1, c)
    BY L1Replaced
  <2>2. CASE Set1(c) = Set1(b)
    <3>1. c = b <=> Tag1(c) = tag
      BY <1>1, <2>2, SamePlace
    <3>2. ~isEmpty(cells) => (c = cells[lru].address <=> Tag1(c) = cells[lru].tag)
      BY <1>7, <2>2, SamePlace
    <3>3. InL1(l1, c) <=> exists(Tag1(c), cells)
      BY <2>2 DEF InL1, cells
    <3> QED
      BY <1>5, <2>1, <2>2, <3>1, <3>2, <3>3
  <2>3. CASE Set1(c) # Set1(b)
    BY <1>7, <2>1, <2>3
  <2> QED
    BY <2>2, <2>3
<1>9. \A c \in Nat : Leaves(l1, b, c) <=> ~isEmpty(cells) /\ c = cells[lru].address
  BY DEF Leaves, cells, lru
<1> QED
  BY <1>4, <1>6, <1>8, <1>9 DEF Brings, after, tag

(* addToL1 of HW2_NEW, followed by updateDirty or not.                     *)
LEMMA addToL1Brings ==
  ASSUME config \in Configs, NEW l1, L1OK(l1), NEW l2, NEW b \in Blocks, ~InL1(l1, b)
  PROVE  Brings(addToL1(l1, l2, b).L1, l1, b)
<1> DEFINE cells == l1[Set1(b)]
           room  == IF isEmpty(cells) THEN cells ELSE evictLRU(cells)
<1>1. addToL1(l1, l2, b).L1 = [l1 EXCEPT ![Set1(b)] = Fill(Tag1(b), b, room)]
  BY DEF addToL1
<1>2. RoomForL1(room, l1[Set1(b)])
  BY DEF RoomForL1
<1> HIDE DEF room
<1>3. /\ FillsAlike(Tag1(b), b, room)
      /\ Brings([l1 EXCEPT ![Set1(b)] = Added(Tag1(b), b, room)], l1, b)
  BY <1>2, EnterBrings
<1> QED
  BY <1>1, <1>3 DEF FillsAlike

LEMMA DirtyBrings ==
  ASSUME config \in Configs, NEW l1, L1OK(l1), NEW b \in Nat, NEW m1, Brings(m1, l1, b)
  PROVE  Brings(DirtyL1(m1, b), l1, b)
<1> DEFINE cells == m1[Set1(b)]
           hit   == First(Holding(cells, Tag1(b)))
           after == updateDirty(Tag1(b), cells)
<1>1. L1OK(m1) /\ L1OK(DirtyL1(m1, b)) /\ InL1(m1, b)
  BY L1Dirty DEF Brings, Uses
<1>2. after = [cells EXCEPT ![hit].dirty = TRUE]
  BY <1>1 DEF InL1, updateDirty
<1>3. DirtyL1(m1, b) = [m1 EXCEPT ![Set1(b)] = after]
  BY DEF DirtyL1
<1>4. \A t : exists(t, after) <=> exists(t, cells)
  <2>1. /\ cells \in Cells1 /\ SetOK(cells, Fits1(Set1(b)))
        /\ config.L1Ways \in Nat \ {0}
    BY <1>1, Places, ConfigTypes, L1Set
  <2> HIDE DEF cells
  <2> QED
    BY <2>1, updateDirtyKeeps DEF Cells1
<1> HIDE DEF after
<1>5. \A c \in Nat : InL1(DirtyL1(m1, b), c) <=> InL1(m1, c)
  BY <1>1, <1>3, <1>4, L1Replaced DEF InL1
<1> HIDE DEF hit
<1>6. DirtyL1(m1, b) = [m1 EXCEPT ![Set1(b)] = [@ EXCEPT ![hit].dirty = TRUE]]
  BY <1>2, <1>3
<1>7. Uses(DirtyL1(m1, b), l1, b)
  <2> DEFINE n1 == DirtyL1(m1, b)
  <2> HIDE DEF n1
  <2>1. /\ n1 = [m1 EXCEPT ![Set1(b)] = [@ EXCEPT ![hit].dirty = TRUE]]
        /\ L1OK(n1) /\ Uses(m1, l1, b)
    BY <1>1, <1>6 DEF n1, Brings
  <2>2. Uses(n1, l1, b)
    BY <2>1, UsesDirty
  <2> QED
    BY <2>2 DEF n1
<1> QED
  BY <1>5, <1>7 DEF Brings

(* The same in HW2.                                                        *)
LEMMA BringToL1Brings ==
  ASSUME config \in Configs, NEW l1, L1OK(l1), NEW l2, L2OK(l2), NEW b \in Blocks,
         ~InL1(l1, b), NEW write
  PROVE  Brings(BringToL1(l1, l2, b, write).L1, l1, b)
<1> DEFINE cells == l1[Set1(b)]
           room  == IF isEmpty(cells) THEN cells ELSE Removed(First(Oldest(cells)), cells)
           added == Added(Tag1(b), b, room)
           m1    == [l1 EXCEPT ![Set1(b)] = added]
           hit   == First(WithTag(added, Tag1(b)))
           after == BringToL1(l1, l2, b, write).L1
<1>1. after = IF write THEN [l1 EXCEPT ![Set1(b)] = Dirtied(Tag1(b), added)] ELSE m1
  BY DEF BringToL1
<1>2. RoomForL1(room, l1[Set1(b)])
  BY DEF RoomForL1
<1> HIDE DEF room
<1>3. Brings(m1, l1, b) /\ b \in Nat /\ L1OK(after)
  BY <1>2, EnterBrings, BringToL1Keeps, ConfigTypes
<1>4. ASSUME write PROVE Brings(after, l1, b)
  <2>1. Set1(b) \in DOMAIN l1
    BY <1>3, Places DEF L1OK
  <2>2. m1[Set1(b)] = added
    BY <2>1
  <2>3. Dirtied(Tag1(b), added) = [added EXCEPT ![hit].dirty = TRUE]
    BY DEF Dirtied
  <2> HIDE DEF hit
  <2>4. after = [m1 EXCEPT ![Set1(b)] = [added EXCEPT ![hit].dirty = TRUE]]
    BY <1>1, <1>4, <2>3
  <2> HIDE DEF after, m1
  <2>5. Uses(after, l1, b)
    BY <1>3, <2>2, <2>4, UsesDirty DEF Brings
  <2>6. \A c \in Nat : InL1(after, c) <=> InL1(m1, c)
    <3>1. L1OK(m1) /\ InL1(m1, b)
      BY <1>3 DEF Brings, Uses
    <3>2. added \in Cells1 /\ config.L1Ways \in Nat \ {0}
      BY <1>3, <2>2, <3>1, Places, ConfigTypes, L1Set
    <3> HIDE DEF added
    <3>3. Dirtier([added EXCEPT ![hit].dirty = TRUE], added)
      BY <3>2, MarkDirtier DEF Cells1
    <3>4. \A t : exists(t, [added EXCEPT ![hit].dirty = TRUE]) <=> exists(t, added)
      BY <3>3 DEF Dirtier, exists, Holding, Holds
    <3> DEFINE dirty == [added EXCEPT ![hit].dirty = TRUE]
    <3> HIDE DEF dirty
    <3>5. \A c \in Nat : InL1([m1 EXCEPT ![Set1(b)] = dirty], c)
                        <=> IF Set1(c) = Set1(b) THEN exists(Tag1(c), dirty) ELSE InL1(m1, c)
      BY <3>1, L1Replaced
    <3>6. \A c \in Nat : Set1(c) = Set1(b) => (InL1(m1, c) <=> exists(Tag1(c), added))
      BY <2>2 DEF InL1
    <3>7. after = [m1 EXCEPT ![Set1(b)] = dirty] /\ \A t : exists(t, dirty) <=> exists(t, added)
      BY <2>4, <3>4 DEF dirty
    <3> QED
      BY <3>5, <3>6, <3>7
  <2> QED
    BY <1>3, <2>5, <2>6 DEF Brings
<1>5. ASSUME ~write PROVE Brings(after, l1, b)
  BY <1>1, <1>3, <1>5
<1> QED
  BY <1>4, <1>5

-----------------------------------------------------------------------------
(* What leaves L1 to make room in L2: nothing, or one block, b standing    *)
(* for a block that L1 does not hold.                                      *)
MakesRoom(m1, l1, l2, b) ==
  IF isEmpty(l2[Set2(b)]) THEN m1 = l1
  ELSE LosesOne(m1, l1, b) \/ LosesOne(m1, l1, getLRU(l2[Set2(b)]))

LEMMA LosesNone ==
  ASSUME NEW l1, L1OK(l1), NEW b, ~InL1(l1, b)
  PROVE  LosesOne(l1, l1, b)
<1>1. Loses(l1, l1)
  BY FollowsSame DEF Loses
<1> QED
  BY <1>1 DEF LosesOne

(* evict takes out the block at way 0 or nothing.                          *)
LEMMA evictLoses ==
  ASSUME config \in Configs, NEW l1, L1OK(l1), NEW b, ~InL1(l1, b), NEW old \in Nat,
         NEW m1, m1 = [l1 EXCEPT ![Set1(old)] = evict(Tag1(old), l1[Set1(old)])]
  PROVE  LosesOne(m1, l1, b) \/ LosesOne(m1, l1, old)
<1> DEFINE cells == l1[Set1(old)]
           tag   == Tag1(old)
           after == evict(tag, cells)
<1>1. /\ Set1(old) \in 0 .. config.L1Sets - 1 /\ config.L1Ways \in Nat \ {0}
      /\ cells \in Cells1 /\ SetOK(cells, Fits1(Set1(old)))
  BY Places, ConfigTypes, L1Set
<1> HIDE DEF cells
<1>2. /\ after \in Cells1 /\ SetOK(after, Fits1(Set1(old)))
      /\ Follows(after, cells, {})
  BY <1>1, evictKeeps, evictOrders DEF Cells1
<1>3. \A t : exists(t, after) <=> exists(t, cells) /\ ~(Evictable(tag, cells) /\ t = tag)
  BY <1>1, evictOrders DEF Cells1
<1>4. m1 = [l1 EXCEPT ![Set1(old)] = after]
  BY DEF cells
<1> HIDE DEF after
<1>5. Loses(m1, l1)
  BY <1>1, <1>2, <1>4, LosesSet DEF cells
<1>6. \A c \in Nat : InL1(m1, c) <=> IF Set1(c) = Set1(old) THEN exists(Tag1(c), after)
                                     ELSE InL1(l1, c)
  <2>1. \A c \in Nat : InL1([l1 EXCEPT ![Set1(old)] = after], c)
                       <=> IF Set1(c) = Set1(old) THEN exists(Tag1(c), after)
                           ELSE InL1(l1, c)
    BY L1Replaced
  <2> QED
    BY <1>4, <2>1
<1>7. \A c \in Nat : Set1(c) = Set1(old) => (InL1(l1, c) <=> exists(Tag1(c), cells))
  BY DEF InL1, cells
<1>8. CASE Evictable(tag, cells)
  <2>1. \A c \in Nat : Set1(c) = Set1(old) => (Tag1(c) = tag <=> c = old)
    BY SamePlace
  <2>2. \A c \in Nat : InL1(m1, c) <=> InL1(l1, c) /\ c # old
    BY <1>3, <1>6, <1>7, <1>8, <2>1
  <2> QED
    BY <1>5, <2>2 DEF LosesOne
<1>9. CASE ~Evictable(tag, cells)
  <2>1. \A c \in Nat : InL1(m1, c) <=> InL1(l1, c)
    BY <1>3, <1>6, <1>7, <1>9
  <2> QED
    BY <1>5, <2>1 DEF LosesOne
<1> QED
  BY <1>8, <1>9

(* What a miss in both levels takes from L1, in HW2_NEW and in HW2.        *)
LEMMA addToL2Loses ==
  ASSUME config \in Configs, NEW l1, L1OK(l1), NEW l2, L2OK(l2), NEW b \in Blocks,
         ~InL1(l1, b), NEW junk
  PROVE  MakesRoom(addToL2(l1, l2, b, junk).L1, l1, l2, b)
<1> DEFINE m1    == addToL2(l1, l2, b, junk).L1
           cells == l2[Set2(b)]
           old   == getLRU(cells)
<1>1. Set2(b) \in 0 .. config.L2Sets - 1 /\ Blocks \subseteq Nat
  BY Places, ConfigTypes
<1>2. CASE isEmpty(cells)
  BY <1>2 DEF addToL2, MakesRoom
<1>3. CASE ~isEmpty(cells)
  <2>1. m1 = IF InL1(l1, old)
             THEN [l1 EXCEPT ![Set1(old)] = evict(Tag1(old), l1[Set1(old)])] ELSE l1
    BY <1>3 DEF addToL2
  <2>2. old \in Nat
    BY <1>1, <1>3, L2Victim, Zenon DEF getLRU
  <2>3. LosesOne(m1, l1, b) \/ LosesOne(m1, l1, old)
    <3> HIDE DEF m1, old
    <3> QED
      BY <2>1, <2>2, evictLoses, LosesNone
  <2> QED
    BY <1>3, <2>3 DEF MakesRoom
<1> QED
  BY <1>2, <1>3

LEMMA BringToL2Loses ==
  ASSUME config \in Configs, NEW l1, L1OK(l1), NEW l2, L2OK(l2), NEW b \in Blocks,
         ~InL1(l1, b), NEW idxInSet
  PROVE  MakesRoom(BringToL2(l1, l2, b, idxInSet).L1, l1, l2, b)
<1> DEFINE m1    == BringToL2(l1, l2, b, idxInSet).L1
           cells == l2[Set2(b)]
           old   == getLRU(cells)
           idx   == First(WithTag(l1[Set1(old)], Tag1(old)))
           after == Removed(idx, l1[Set1(old)])
<1>1. /\ Set2(b) \in 0 .. config.L2Sets - 1 /\ Blocks \subseteq Nat
      /\ config.L1Ways \in Nat \ {0}
  BY Places, ConfigTypes
<1>2. CASE isEmpty(cells)
  BY <1>2 DEF BringToL2, MakesRoom
<1>3. CASE ~isEmpty(cells)
  <2>1. m1 = IF InL1(l1, old) THEN [l1 EXCEPT ![Set1(old)] = after] ELSE l1
    BY <1>3 DEF BringToL2, getLRU
  <2>2. old \in Nat
    BY <1>1, <1>3, L2Victim, Zenon DEF getLRU
  <2> HIDE DEF m1, old
  <2>3. CASE InL1(l1, old)
    <3> DEFINE line == l1[Set1(old)]
    <3>1. /\ line \in Cells1 /\ SetOK(line, Fits1(Set1(old))) /\ exists(Tag1(old), line)
          /\ Set1(old) \in 0 .. config.L1Sets - 1
      BY <2>2, <2>3, Places, L1Set DEF InL1
    <3> HIDE DEF line
    <3>2. First(WithTag(line, Tag1(old))) \in 0 .. config.L1Ways - 1
      BY <1>1, <3>1, HitFound DEF Cells1
    <3>3. idx \in 0 .. config.L1Ways - 1
      BY <3>2 DEF line
    <3> HIDE DEF idx
    <3>4. Removed(idx, line) \in Cells1 /\ SetOK(Removed(idx, line), Fits1(Set1(old)))
      BY <1>1, <3>1, <3>3, RemovedKeeps DEF Cells1
    <3>5. Follows(Removed(idx, line), line, {})
      BY <1>1, <3>1, <3>3, RemovedOrders DEF Cells1
    <3>6. Loses(m1, l1)
      BY <2>1, <2>3, <3>1, <3>4, <3>5, LosesSet DEF line
    <3>7. \A c \in Nat : InL1(m1, c) <=> InL1(l1, c) /\ c # old
      BY <2>1, <2>2, <2>3, L1Remove DEF idx
    <3>8. LosesOne(m1, l1, old)
      BY <3>6, <3>7 DEF LosesOne
    <3> QED
      BY <1>3, <3>8 DEF MakesRoom, m1, old
  <2>4. CASE ~InL1(l1, old)
    <3>1. LosesOne(m1, l1, b)
      BY <2>1, <2>4, LosesNone
    <3> QED
      BY <1>3, <3>1 DEF MakesRoom, m1
  <2> QED
    BY <2>3, <2>4
<1> QED
  BY <1>2, <1>3

-----------------------------------------------------------------------------
(* What an operation on L2 does to the blocks it holds.                    *)

SameTags(m2, l2) ==
  \A set \in 0 .. config.L2Sets - 1 : \A t : exists(t, m2[set]) <=> exists(t, l2[set])

(* Block b has come to L2, in the place of the oldest of a full set.       *)
Replaces(m2, l2, b) ==
  /\ \A set \in 0 .. config.L2Sets - 1 : set # Set2(b) =>
       \A t : exists(t, m2[set]) <=> exists(t, l2[set])
  /\ TakesPlace(m2[Set2(b)], l2[Set2(b)], Tag2(b))

(* New ranks and marks do not change what L2 holds.                        *)
LEMMA MarkedTags ==
  ASSUME NEW l2, L2OK(l2), NEW m2, Marked(m2, l2)
  PROVE  SameTags(m2, l2)
<1>1. DOMAIN l2 = 0 .. config.L2Sets - 1
  BY DEF L2OK
<1>2. ASSUME NEW cells, NEW after, Dirtier(after, cells), NEW t
      PROVE  exists(t, after) <=> exists(t, cells)
  BY <1>2 DEF Dirtier, exists, Holding, Holds
<1> QED
  BY <1>1, <1>2 DEF Marked, SameTags

LEMMA ReplacesThenSame ==
  ASSUME config \in Configs, NEW b \in Nat, NEW l2, NEW m2, NEW n2,
         Replaces(m2, l2, b), SameTags(n2, m2)
  PROVE  Replaces(n2, l2, b)
<1>1. Set2(b) \in 0 .. config.L2Sets - 1
  BY Places
<1> QED
  BY <1>1 DEF Replaces, SameTags, TakesPlace

LEMMA ReplacesOne ==
  ASSUME config \in Configs, NEW b \in Nat, NEW l2, L2OK(l2), NEW cells,
         TakesPlace(cells, l2[Set2(b)], Tag2(b))
  PROVE  Replaces([l2 EXCEPT ![Set2(b)] = cells], l2, b)
<1>1. DOMAIN l2 = 0 .. config.L2Sets - 1 /\ Set2(b) \in 0 .. config.L2Sets - 1
  BY Places DEF L2OK
<1> QED
  BY <1>1 DEF Replaces

(* A miss in both levels brings b to L2, in HW2_NEW and in HW2.            *)
LEMMA addToL2Replaces ==
  ASSUME config \in Configs, NEW l1, L1OK(l1), NEW l2, L2OK(l2), NEW b \in Blocks,
         ~InL2(l2, b), NEW junk \in Blocks, config.version # "HW2"
  PROVE  Replaces(addToL2(l1, l2, b, junk).L2, l2, b)
<1> DEFINE m2     == addToL2(l1, l2, b, junk).L2
           cells  == l2[Set2(b)]
           tag    == Tag2(b)
           old    == getLRU(cells)
           room   == IF isEmpty(cells) THEN cells ELSE evictLRU(cells)
           address == IF isEmpty(cells) THEN b ELSE old
           after  == Fill(tag, address, room)
           filled == [l2 EXCEPT ![Set2(b)] = after]
           cells1 == l1[Set1(old)]
           dirtyAddress ==
             IF Evictable(Tag1(old), cells1) THEN cells1[0].address ELSE junk
<1>1. /\ Set2(b) \in 0 .. config.L2Sets - 1 /\ Blocks \subseteq Nat /\ b \in Nat
      /\ config.L2Ways \in Nat \ {0} /\ config.L1Ways \in Nat \ {0}
      /\ tag \in Nat
  BY Places, ConfigTypes
<1>2. cells \in Cells2 /\ SetOK(cells, Fits2(Set2(b))) /\ ~exists(tag, cells)
  BY <1>1, L2Set DEF InL2
<1>3. address \in Blocks /\ Set2(address) = Set2(b)
  BY <1>1, L2Victim, Zenon DEF getLRU
<1>4. <<tag, address>> \in Fits2(Set2(b)) /\ RoomForL1(room, cells)
  BY <1>1, <1>3 DEF Fits2, RoomForL1
<1> HIDE DEF cells, room, address
<1>5. FillsAlike(tag, address, room) /\ TakesPlace(Added(tag, address, room), cells, tag)
  BY <1>1, <1>2, <1>3, <1>4, EnterOrders, Zenon DEF Cells2
<1>6. TakesPlace(after, cells, tag)
  BY <1>5 DEF FillsAlike
<1>7. Replaces(filled, l2, b)
  BY <1>1, <1>6, ReplacesOne DEF cells
<1>8. m2 = filled \/ m2 = WriteBack(filled, dirtyAddress)
  BY DEF addToL2, cells, room, address
<1>9. CASE m2 = WriteBack(filled, dirtyAddress) /\ ~isEmpty(cells)
  <2>1. Room(room, l2[Set2(b)])
    BY DEF Room, room, cells
  <2>2. L2OK(filled)
    <3>1. config.version = "HW2" => address = b
      OBVIOUS
    <3> QED
      BY <1>3, <2>1, <3>1, L2Fill
  <2>3. dirtyAddress \in Nat
    <3>1. old \in Nat
      BY <1>1, <1>9, L2Victim, Zenon DEF getLRU, cells
    <3>2. Set1(old) \in 0 .. config.L1Sets - 1
      BY <3>1, Places
    <3>3. cells1[0] \in Cell(config.L1Ways, Blocks)
      <4>1. cells1 \in Cells1
        BY <3>2, L1Set
      <4> HIDE DEF cells1
      <4> QED
        BY <1>1, <4>1 DEF Cells1
    <3> HIDE DEF cells1
    <3>4. cells1[0].address \in Blocks \cup {0}
      BY <3>3 DEF Cell
    <3>5. cells1[0].address \in Nat
      <4>1. Blocks \cup {0} \subseteq Nat
        BY ConfigTypes
      <4> QED
        BY <3>4, <4>1
    <3>6. junk \in Nat
      BY <1>1
    <3> QED
      BY <3>5, <3>6
  <2> HIDE DEF filled, dirtyAddress
  <2>4. Marked(WriteBack(filled, dirtyAddress), filled)
    BY <2>2, <2>3, WriteBackMarks
  <2>5. SameTags(m2, filled)
    BY <1>9, <2>2, <2>4, MarkedTags
  <2> QED
    BY <1>1, <1>7, <2>5, ReplacesThenSame
<1>10. CASE m2 = filled
  BY <1>7, <1>10
<1>11. m2 = filled \/ ~isEmpty(cells)
  BY DEF addToL2, cells, room, address
<1> QED
  BY <1>8, <1>9, <1>10, <1>11

LEMMA BringToL2Replaces ==
  ASSUME config \in Configs, config.version = "HW2",
         NEW l1, NEW l2, L2OK(l2),
         NEW b \in Blocks, ~InL2(l2, b), NEW idxInSet \in 0 .. config.L2Ways - 1
  PROVE  Replaces(BringToL2(l1, l2, b, idxInSet).L2, l2, b)
<1> DEFINE m2      == BringToL2(l1, l2, b, idxInSet).L2
           cells   == l2[Set2(b)]
           newTag  == Tag2(b)
           lru     == First(Oldest(cells))
           old     == cells[lru].address
           set     == Set1(old)
           tag     == Tag1(old)
           idx     == First(WithTag(l1[set], tag))
           found   == WithTag(l2[set], tag)
           touched == [l2 EXCEPT ![set] =
                         Touch(IF found # {} THEN First(found) ELSE idxInSet, l2[set])]
           moved   == IF InL1(l1, old) /\ l1[set][idx].dirty THEN touched ELSE l2
           line    == moved[Set2(b)]
           room    == Removed(lru, line)
<1>1. /\ Set2(b) \in 0 .. config.L2Sets - 1 /\ Blocks \subseteq Nat /\ b \in Nat
      /\ config.L2Ways \in Nat \ {0} /\ newTag \in Nat
  BY Places, ConfigTypes
<1>2. cells \in Cells2 /\ SetOK(cells, Fits2(Set2(b))) /\ ~exists(newTag, cells)
  BY <1>1, L2Set DEF InL2
<1>3. <<newTag, b>> \in Fits2(Set2(b))
  BY <1>1 DEF Fits2
<1>4. CASE isEmpty(cells)
  <2>1. m2 = [l2 EXCEPT ![Set2(b)] = Added(newTag, b, cells)]
    BY <1>4 DEF BringToL2
  <2>2. RoomForL1(cells, cells)
    BY <1>4 DEF RoomForL1
  <2> HIDE DEF cells, m2
  <2>3. TakesPlace(Added(newTag, b, cells), cells, newTag)
    BY <1>1, <1>2, <1>3, <2>2, EnterOrders, Zenon DEF Cells2
  <2> QED
    BY <1>1, <2>1, <2>3, ReplacesOne DEF cells, m2
<1>5. CASE ~isEmpty(cells)
  <2>1. m2 = [moved EXCEPT ![Set2(b)] = Added(newTag, b, room)]
    BY <1>5 DEF BringToL2
  <2>2. old \in Nat
    BY <1>1, <1>5, L2Victim, Zenon
  <2> HIDE DEF cells
  <2>3. lru \in 0 .. config.L2Ways - 1
    BY <1>1, <1>2, OldestExists DEF SetOK, Cells2
  <2>4. Holds(cells[lru], cells[lru].tag)
    BY <1>2, <1>5, <2>3 DEF isEmpty, Invalid, Ways, Holds, Cells2
  <2> HIDE DEF old, lru, m2
  <2>5. L2OK(moved) /\ Marked(moved, l2)
    BY <2>2, MovedMarks
  <2> HIDE DEF moved
  <2>6. SameTags(moved, l2)
    BY <2>5, MarkedTags
  <2>7. /\ line \in Cells2 /\ SetOK(line, Fits2(Set2(b)))
        /\ Dirtier(line, cells)
    BY <1>1, <2>5, L2Set DEF Marked, L2OK, cells
  <2>8. \A t : exists(t, line) <=> exists(t, cells)
    BY <1>1, <2>6 DEF SameTags, cells
  <2> HIDE DEF line
  <2>9. Holds(line[lru], cells[lru].tag)
    BY <1>1, <1>2, <2>3, <2>4, <2>7 DEF Dirtier, Holds, Ways, Cells2
  <2>10. /\ room \in Cells2 /\ SetOK(room, Fits2(Set2(b))) /\ isEmpty(room)
    BY <1>1, <2>3, <2>7, RemovedKeeps DEF Cells2
  <2> DEFINE gone == cells[lru].tag
  <2> HIDE DEF gone
  <2>11. \A t : exists(t, room) <=> exists(t, line) /\ t # gone
    <3>1. Holds(line[lru], gone)
      BY <2>9 DEF gone
    <3>2. /\ config.L2Ways \in Nat \ {0}
          /\ line \in [0 .. config.L2Ways - 1 -> Cell(config.L2Ways, Blocks)]
          /\ SetOK(line, Fits2(Set2(b)))
      BY <1>1, <2>7 DEF Cells2
    <3> QED
      BY <2>3, <3>1, <3>2, TagRemoved, Zenon
  <2> HIDE DEF room
  <2>12. ~exists(newTag, room)
    BY <1>2, <2>8, <2>11
  <2>13. \A t : exists(t, Added(newTag, b, room)) <=> t = newTag \/ exists(t, room)
    BY <1>1, <1>3, <2>10, <2>12, AddedKeeps, Zenon DEF Cells2
  <2>14. TakesPlace(Added(newTag, b, room), cells, newTag)
    BY <1>5, <2>8, <2>11, <2>13 DEF TakesPlace, lru, gone
  <2>15. DOMAIN moved = 0 .. config.L2Sets - 1
    BY <2>5 DEF L2OK
  <2> DEFINE added == Added(newTag, b, room)
  <2> HIDE DEF added
  <2>16. \A s \in 0 .. config.L2Sets - 1 :
           m2[s] = IF s = Set2(b) THEN added ELSE moved[s]
    BY <2>1, <2>15 DEF added
  <2>17. TakesPlace(m2[Set2(b)], l2[Set2(b)], newTag)
    BY <1>1, <2>14, <2>16 DEF cells, added
  <2>18. Replaces(m2, l2, b)
    BY <2>6, <2>16, <2>17 DEF Replaces, SameTags
  <2> QED
    BY <2>18 DEF m2
<1> QED
  BY <1>4, <1>5

-----------------------------------------------------------------------------
(* A set holds as many blocks as it has valid cells.                       *)
LEMMA SetCount ==
  ASSUME NEW ways \in Nat \ {0}, NEW blocks, NEW fits,
         NEW cells \in [0 .. ways - 1 -> Cell(ways, blocks)], SetOK(cells, fits),
         NEW S, NEW tagOf,
         \A c, d \in S : tagOf[c] = tagOf[d] => c = d,
         \A c \in S : exists(tagOf[c], cells),
         \A way \in 0 .. ways - 1 :
           cells[way].valid => \E c \in S : tagOf[c] = cells[way].tag
  PROVE  /\ Cardinality(S) \in Nat /\ Cardinality(S) <= ways
         /\ Cardinality(S) = ways <=> ~isEmpty(cells)
<1> DEFINE f == [c \in S |-> First(WithTag(cells, tagOf[c]))]
<1>1. ASSUME NEW c \in S
      PROVE  /\ f[c] \in 0 .. ways - 1
             /\ Holds(cells[f[c]], tagOf[c])
             /\ \A way \in 0 .. ways - 1 : Holds(cells[way], tagOf[c]) => way = f[c]
  <2> DEFINE tag == tagOf[c]
             hit == First(WithTag(cells, tag))
  <2>1. exists(tag, cells)
    OBVIOUS
  <2>2. f[c] = hit
    OBVIOUS
  <2> HIDE DEF tag, f
  <2>3. /\ hit \in 0 .. ways - 1 /\ Holds(cells[hit], tag)
        /\ \A way \in 0 .. ways - 1 : Holds(cells[way], tag) => way = hit
    BY <2>1, HitFound
  <2> HIDE DEF hit
  <2> QED
    BY <2>2, <2>3 DEF tag
<1> HIDE DEF f
<1>2. f \in [S -> 0 .. ways - 1]
  <2>1. DOMAIN f = S /\ f = [c \in DOMAIN f |-> f[c]]
    BY DEF f
  <2> QED
    BY <1>1, <2>1
<1>3. f \in Injection(S, 0 .. ways - 1)
  <2>1. \A c, d \in S : f[c] = f[d] => c = d
    BY <1>1 DEF Holds
  <2> QED
    BY <1>2, <2>1 DEF Injection, IsInjective
<1>4. IsFiniteSet(0 .. ways - 1) /\ Cardinality(0 .. ways - 1) = ways
  <2>1. 0 \in Int /\ ways - 1 \in Int /\ ~(0 > ways - 1) /\ (ways - 1) - 0 + 1 = ways
    OBVIOUS
  <2>2. Cardinality(0 .. ways - 1) = (ways - 1) - 0 + 1 /\ IsFiniteSet(0 .. ways - 1)
    BY <2>1, FS_Interval
  <2> QED
    BY <2>1, <2>2
<1>5. /\ IsFiniteSet(S) /\ Cardinality(S) <= ways
      /\ Cardinality(S) = ways <=> f \in Surjection(S, 0 .. ways - 1)
  BY <1>3, <1>4, FS_Injection
<1>6. f \in Surjection(S, 0 .. ways - 1) <=> ~isEmpty(cells)
  <2>1. ASSUME f \in Surjection(S, 0 .. ways - 1) PROVE ~isEmpty(cells)
    BY <1>1, <2>1 DEF Surjection, isEmpty, Invalid, Ways, Holds
  <2>2. ASSUME ~isEmpty(cells), NEW way \in 0 .. ways - 1
        PROVE  \E c \in S : f[c] = way
    <3>1. cells[way].valid
      BY <2>2 DEF isEmpty, Invalid, Ways
    <3>2. PICK c \in S : tagOf[c] = cells[way].tag
      BY <3>1
    <3>3. way = f[c]
      BY <1>1, <3>1, <3>2 DEF Holds
    <3> QED
      BY <3>3
  <2>3. ASSUME ~isEmpty(cells) PROVE f \in Surjection(S, 0 .. ways - 1)
    BY <1>2, <2>2, <2>3 DEF Surjection
  <2> QED
    BY <2>1, <2>3
<1>7. Cardinality(S) \in Nat
  BY <1>5, FS_CardinalityType
<1> QED
  BY <1>5, <1>6, <1>7

(* The block of a valid cell of L1.                                        *)
LEMMA CellBlock ==
  ASSUME config \in Configs, NEW l1, L1OK(l1), NEW set \in 0 .. config.L1Sets - 1,
         NEW way \in 0 .. config.L1Ways - 1, l1[set][way].valid
  PROVE  LET b == l1[set][way].address
         IN  /\ b \in Blocks /\ b \in Nat
             /\ Set1(b) = set /\ Tag1(b) = l1[set][way].tag
             /\ InL1(l1, b)
<1> DEFINE cells == l1[set]
           b     == cells[way].address
<1>1. Blocks \subseteq Nat
  BY ConfigTypes
<1>2. cells \in Cells1 /\ SetOK(cells, Fits1(set))
  BY L1Set
<1> HIDE DEF cells
<1>3. way \in Ways(cells) /\ cells[way].valid
  BY <1>2 DEF Ways, Cells1, cells
<1>4. <<cells[way].tag, b>> \in Fits1(set)
  BY <1>2, <1>3 DEF SetOK
<1>5. b \in Blocks /\ b \in Nat /\ Set1(b) = set /\ Tag1(b) = cells[way].tag
  BY <1>1, <1>4 DEF Fits1
<1>6. exists(Tag1(b), cells)
  BY <1>3, <1>5 DEF exists, Holding, Holds
<1> QED
  BY <1>5, <1>6 DEF InL1, cells

(* The blocks that share their set with b, and how many there are.         *)
InSet1(b, l1) == LRU!InSetOf(b, Resident(l1), config.L1Sets)
InSet2(b, l2) == LRU!InSetOf(b, Below(l2), config.L2Sets)

LEMMA L1Full ==
  ASSUME config \in Configs, NEW l1, L1OK(l1), NEW b \in Blocks
  PROVE  Cardinality(InSet1(b, l1)) = config.L1Ways <=> ~isEmpty(l1[Set1(b)])
<1> DEFINE set   == Set1(b)
           cells == l1[set]
           S     == InSet1(b, l1)
           tagOf == [c \in S |-> Tag1(c)]
<1>1. set \in 0 .. config.L1Sets - 1 /\ config.L1Ways \in Nat \ {0} /\ Blocks \subseteq Nat
  BY Places, ConfigTypes
<1>2. cells \in Cells1 /\ SetOK(cells, Fits1(set))
  BY <1>1, L1Set
<1>3. \A c : c \in S <=> c \in Blocks /\ InL1(l1, c) /\ Set1(c) = set
  BY DEF InSet1, LRU!InSetOf, Resident, Set1, SetOf
<1> HIDE DEF S
<1>4. \A c \in S : tagOf[c] = Tag1(c)
  OBVIOUS
<1> HIDE DEF tagOf
<1>5. \A c, d \in S : tagOf[c] = tagOf[d] => c = d
  <2>1. ASSUME NEW c \in S, NEW d \in S, Tag1(c) = Tag1(d) PROVE c = d
    <3>1. c \in Nat /\ d \in Nat /\ Set1(c) = Set1(d)
      BY <1>1, <1>3
    <3> QED
      BY <2>1, <3>1, SamePlace
  <2> QED
    BY <1>4, <2>1
<1>6. \A c \in S : exists(tagOf[c], cells)
  BY <1>3, <1>4 DEF InL1
<1>7. ASSUME NEW way \in 0 .. config.L1Ways - 1, cells[way].valid
      PROVE  \E c \in S : tagOf[c] = cells[way].tag
  <2>1. /\ cells[way].address \in Blocks /\ Set1(cells[way].address) = set
        /\ Tag1(cells[way].address) = cells[way].tag /\ InL1(l1, cells[way].address)
    BY <1>1, <1>7, CellBlock
  <2> QED
    BY <1>3, <1>4, <2>1
<1> HIDE DEF cells, set
<1> QED
  BY <1>1, <1>2, <1>5, <1>6, <1>7, SetCount, Zenon DEF Cells1, S, cells, set

LEMMA L2Full ==
  ASSUME config \in Configs, NEW l2, L2OK(l2), HoldsBlocks(l2), NEW b \in Blocks
  PROVE  /\ Cardinality(InSet2(b, l2)) < config.L2Ways <=> isEmpty(l2[Set2(b)])
         /\ ~isEmpty(l2[Set2(b)]) =>
              \E out \in InSet2(b, l2) :
                Tag2(out) = l2[Set2(b)][First(Oldest(l2[Set2(b)]))].tag
<1> DEFINE set   == Set2(b)
           cells == l2[set]
           S     == InSet2(b, l2)
           tagOf == [c \in S |-> Tag2(c)]
<1>1. set \in 0 .. config.L2Sets - 1 /\ config.L2Ways \in Nat \ {0} /\ Blocks \subseteq Nat
  BY Places, ConfigTypes
<1>2. cells \in Cells2 /\ SetOK(cells, Fits2(set))
  BY <1>1, L2Set
<1>3. \A c : c \in S <=> c \in Blocks /\ InL2(l2, c) /\ Set2(c) = set
  BY DEF InSet2, LRU!InSetOf, Below, Set2, SetOf
<1> HIDE DEF S
<1>4. \A c \in S : tagOf[c] = Tag2(c)
  OBVIOUS
<1> HIDE DEF tagOf
<1>5. \A c, d \in S : tagOf[c] = tagOf[d] => c = d
  <2>1. ASSUME NEW c \in S, NEW d \in S, Tag2(c) = Tag2(d) PROVE c = d
    <3>1. c \in Nat /\ d \in Nat /\ Set2(c) = Set2(d)
      BY <1>1, <1>3
    <3> QED
      BY <2>1, <3>1, SamePlace
  <2> QED
    BY <1>4, <2>1
<1>6. \A c \in S : exists(tagOf[c], cells)
  BY <1>3, <1>4 DEF InL2
<1>7. ASSUME NEW way \in 0 .. config.L2Ways - 1, cells[way].valid
      PROVE  \E c \in S : tagOf[c] = cells[way].tag
  <2>1. set \in DOMAIN l2 /\ way \in DOMAIN cells
    BY <1>1, <1>2 DEF L2OK, Cells2
  <2>2. cells[way].tag \in Tags2(set)
    BY <1>7, <2>1 DEF HoldsBlocks
  <2>3. PICK c \in Blocks : Set2(c) = set /\ Tag2(c) = cells[way].tag
    BY <2>2 DEF Tags2
  <2> HIDE DEF cells, set
  <2>4. exists(Tag2(c), cells)
    BY <1>7, <2>1, <2>3 DEF exists, Holding, Holds, Ways
  <2>5. InL2(l2, c)
    BY <2>3, <2>4 DEF InL2, cells
  <2> QED
    BY <1>3, <1>4, <2>3, <2>5
<1> HIDE DEF cells, set
<1>8. /\ Cardinality(S) \in Nat /\ Cardinality(S) <= config.L2Ways
      /\ Cardinality(S) = config.L2Ways <=> ~isEmpty(cells)
  BY <1>1, <1>2, <1>5, <1>6, <1>7, SetCount, Zenon DEF Cells2
<1>9. Cardinality(S) < config.L2Ways <=> isEmpty(cells)
  BY <1>1, <1>8
<1>10. ASSUME ~isEmpty(cells)
       PROVE  \E out \in S : Tag2(out) = cells[First(Oldest(cells))].tag
  <2> DEFINE lru == First(Oldest(cells))
  <2>1. lru \in 0 .. config.L2Ways - 1
    BY <1>1, <1>2, OldestExists DEF SetOK, Cells2
  <2> HIDE DEF lru
  <2>2. cells[lru].valid
    BY <1>2, <1>10, <2>1 DEF isEmpty, Invalid, Ways, Cells2
  <2> QED
    BY <1>4, <1>7, <2>1, <2>2 DEF lru
<1> QED
  BY <1>9, <1>10 DEF S, cells, set

-----------------------------------------------------------------------------
(* The order of use after a command on b, as UsesIf sets it.               *)
Latest(b, m1, order) ==
  {p \in Resident(m1) \X Resident(m1) : p[1] # b /\ (p[2] = b \/ p \in order)}

(* Losing blocks, and using one, keep ranks and recency in step.           *)
LEMMA LosesInOrder ==
  ASSUME config \in Configs, NEW l1, L1OK(l1), NEW order, RanksInOrder(l1, order),
         NEW m1, Loses(m1, l1)
  PROVE  RanksInOrder(m1, order)
<1>1. DOMAIN m1 = 0 .. config.L1Sets - 1 /\ DOMAIN l1 = 0 .. config.L1Sets - 1
  BY DEF Loses, L1OK
<1>2. ASSUME NEW set \in 0 .. config.L1Sets - 1,
             NEW v \in DOMAIN m1[set], NEW w \in DOMAIN m1[set],
             m1[set][v].valid, m1[set][w].valid, v # w
      PROVE  <<m1[set][v].address, m1[set][w].address>> \in order
             <=> m1[set][v].LRU < m1[set][w].LRU
  <2> DEFINE cells == l1[set]
             after == m1[set]
  <2>1. Follows(after, cells, {})
    BY DEF Loses
  <2>2. \A x, y \in DOMAIN cells :
          cells[x].valid /\ cells[y].valid /\ x # y =>
            (<<cells[x].address, cells[y].address>> \in order
             <=> cells[x].LRU < cells[y].LRU)
    BY <1>1 DEF RanksInOrder
  <2>3. v \in DOMAIN after /\ w \in DOMAIN after /\ after[v].valid /\ after[w].valid
    BY <1>2
  <2> HIDE DEF cells, after
  <2>4. v \in DOMAIN cells /\ w \in DOMAIN cells
    BY <2>1, <2>3 DEF Follows, Ways
  <2>5. /\ cells[v].valid /\ cells[v].address = after[v].address
        /\ cells[w].valid /\ cells[w].address = after[w].address
        /\ after[v].LRU < after[w].LRU <=> cells[v].LRU < cells[w].LRU
    BY <2>1, <2>3, <2>4 DEF Follows, Ways
  <2>6. <<after[v].address, after[w].address>> \in order <=> after[v].LRU < after[w].LRU
    BY <1>2, <2>2, <2>4, <2>5
  <2> QED
    BY <2>6 DEF after
<1> QED
  BY <1>1, <1>2 DEF RanksInOrder

LEMMA UsesInOrder ==
  ASSUME config \in Configs, NEW l1, L1OK(l1), NEW order, RanksInOrder(l1, order),
         NEW b \in Nat, NEW m1, Uses(m1, l1, b)
  PROVE  RanksInOrder(m1, Latest(b, m1, order))
<1>1. /\ DOMAIN m1 = 0 .. config.L1Sets - 1 /\ DOMAIN l1 = 0 .. config.L1Sets - 1
      /\ L1OK(m1)
  BY DEF Uses, L1OK
<1>2. ASSUME NEW set \in 0 .. config.L1Sets - 1,
             NEW v \in DOMAIN m1[set], NEW w \in DOMAIN m1[set],
             m1[set][v].valid, m1[set][w].valid, v # w
      PROVE  <<m1[set][v].address, m1[set][w].address>> \in Latest(b, m1, order)
             <=> m1[set][v].LRU < m1[set][w].LRU
  <2> DEFINE cells == l1[set]
             after == m1[set]
             x     == after[v].address
             y     == after[w].address
             tags  == IF set = Set1(b) THEN {Tag1(b)} ELSE {}
  <2>1. after \in Cells1 /\ SetOK(after, Fits1(set))
    BY <1>1, L1Set
  <2>2. v \in 0 .. config.L1Ways - 1 /\ w \in 0 .. config.L1Ways - 1
    BY <1>2, <2>1 DEF Cells1
  <2>3. /\ x \in Blocks /\ x \in Nat /\ Set1(x) = set /\ Tag1(x) = after[v].tag
        /\ InL1(m1, x)
    BY <1>1, <1>2, <2>2, CellBlock
  <2>4. /\ y \in Blocks /\ y \in Nat /\ Set1(y) = set /\ Tag1(y) = after[w].tag
        /\ InL1(m1, y)
    BY <1>1, <1>2, <2>2, CellBlock
  <2>5. after[v].tag # after[w].tag
    <3> HIDE DEF after
    <3>1. after[v].valid /\ after[w].valid /\ v \in Ways(after) /\ w \in Ways(after)
      BY <1>2 DEF Ways, after
    <3> QED
      BY <1>2, <2>1, <3>1 DEF SetOK, ValidFirst, Cells1
  <2>6. after[v].LRU \in Nat /\ after[w].LRU \in Nat
    <3> HIDE DEF after
    <3>1. after[v] \in Cell(config.L1Ways, Blocks) /\ after[w] \in Cell(config.L1Ways, Blocks)
      BY <2>1, <2>2 DEF Cells1
    <3> QED
      BY <3>1 DEF Cell
  <2>7. <<x, y>> \in Latest(b, m1, order) <=> x # b /\ (y = b \/ <<x, y>> \in order)
    <3> HIDE DEF x, y
    <3>1. <<x, y>> \in Resident(m1) \X Resident(m1)
      BY <2>3, <2>4 DEF Resident
    <3>2. <<x, y>>[1] = x /\ <<x, y>>[2] = y
      OBVIOUS
    <3> QED
      BY <3>1, <3>2 DEF Latest
  <2>8. ASSUME set = Set1(b)
        PROVE  Newest(after, Tag1(b))
    BY <2>8 DEF Uses
  <2>9. Follows(after, cells, tags)
    BY DEF Uses
  <2>10. \A u, z \in DOMAIN cells :
           cells[u].valid /\ cells[z].valid /\ u # z =>
             (<<cells[u].address, cells[z].address>> \in order
              <=> cells[u].LRU < cells[z].LRU)
    BY <1>1 DEF RanksInOrder
  <2>11. /\ v \in DOMAIN after /\ w \in DOMAIN after /\ after[v].valid /\ after[w].valid
         /\ v # w
    BY <1>2
  <2> HIDE DEF cells, after
  <2>12. CASE x = b
    <3>1. Newest(after, Tag1(b)) /\ Holds(after[v], Tag1(b))
      BY <2>3, <2>8, <2>11, <2>12 DEF Holds
    <3>2. after[w].LRU < after[v].LRU
      BY <2>11, <3>1 DEF Newest, Ways
    <3> QED
      BY <2>6, <2>7, <2>12, <3>2 DEF after
  <2>13. CASE x # b /\ y = b
    <3>1. Newest(after, Tag1(b)) /\ Holds(after[w], Tag1(b))
      BY <2>4, <2>8, <2>11, <2>13 DEF Holds
    <3>2. after[v].LRU < after[w].LRU
      BY <2>11, <3>1 DEF Newest, Ways
    <3> QED
      BY <2>7, <2>13, <3>2 DEF after
  <2>14. CASE x # b /\ y # b
    <3>1. after[v].tag \notin tags /\ after[w].tag \notin tags
      BY <2>3, <2>4, <2>14, SamePlace
    <3> HIDE DEF tags
    <3>2. v \in DOMAIN cells /\ w \in DOMAIN cells
      BY <2>9, <2>11 DEF Follows, Ways
    <3>3. /\ cells[v].valid /\ cells[v].address = x
          /\ cells[w].valid /\ cells[w].address = y
          /\ after[v].LRU < after[w].LRU <=> cells[v].LRU < cells[w].LRU
      BY <2>9, <2>11, <3>1, <3>2 DEF Follows, Ways
    <3> HIDE DEF x, y
    <3>4. <<x, y>> \in order <=> after[v].LRU < after[w].LRU
      BY <2>10, <2>11, <3>2, <3>3
    <3> QED
      BY <2>7, <2>14, <3>4 DEF x, y, after
  <2> QED
    BY <2>12, <2>13, <2>14
<1> QED
  BY <1>1, <1>2 DEF RanksInOrder

(* The block that leaves a full set is the least recent.                   *)
LEMMA LeastLeaves ==
  ASSUME config \in Configs, NEW l1, L1OK(l1), RanksInOrder(l1, recency),
         NEW b \in Blocks, ~isEmpty(l1[Set1(b)])
  PROVE  Leaves(l1, b, LRU!LeastRecent(InSet1(b, l1)))
<1> DEFINE set   == Set1(b)
           cells == l1[set]
           lru   == First(Oldest(cells))
           old   == cells[lru].address
           S     == InSet1(b, l1)
           Least(c) == c \in S /\ \A d \in S \ {c} : <<c, d>> \in recency
<1>1. set \in 0 .. config.L1Sets - 1 /\ config.L1Ways \in Nat \ {0} /\ Blocks \subseteq Nat
  BY Places, ConfigTypes
<1>2. cells \in Cells1 /\ SetOK(cells, Fits1(set))
  BY <1>1, L1Set
<1>3. \A c : c \in S <=> c \in Blocks /\ InL1(l1, c) /\ Set1(c) = set
  BY DEF InSet1, LRU!InSetOf, Resident, Set1, SetOf
<1>4. \A v, w \in 0 .. config.L1Ways - 1 :
        cells[v].valid /\ cells[w].valid /\ v # w =>
          (<<cells[v].address, cells[w].address>> \in recency
           <=> cells[v].LRU < cells[w].LRU)
  <2>1. DOMAIN l1 = 0 .. config.L1Sets - 1 /\ DOMAIN cells = 0 .. config.L1Ways - 1
    BY <1>2 DEF L1OK, Cells1
  <2> QED
    BY <1>1, <2>1 DEF RanksInOrder
<1>5. \A way \in 0 .. config.L1Ways - 1 :
        cells[way].valid => /\ cells[way].address \in S
                            /\ Tag1(cells[way].address) = cells[way].tag
  <2> HIDE DEF S
  <2> QED
    BY <1>1, <1>3, CellBlock
<1>6. ~isEmpty(cells)
  OBVIOUS
<1>7. LRU!LeastRecent(S) = CHOOSE c \in S : \A d \in S \ {c} : <<c, d>> \in recency
  BY DEF LRU!LeastRecent
<1> HIDE DEF S, cells, set
<1>8. lru \in 0 .. config.L1Ways - 1 /\ cells[lru].LRU = 0
  BY <1>1, <1>2, OldestExists DEF SetOK, Cells1
<1> HIDE DEF lru
<1>9. \A way \in 0 .. config.L1Ways - 1 : cells[way].valid
  BY <1>2, <1>6 DEF isEmpty, Invalid, Ways, Cells1
<1>10. ASSUME NEW c \in S
       PROVE  \E way \in 0 .. config.L1Ways - 1 : cells[way].address = c
  <2>1. exists(Tag1(c), cells) /\ c \in Nat /\ Set1(c) = set
    BY <1>1, <1>3 DEF InL1, cells
  <2>2. PICK way \in 0 .. config.L1Ways - 1 : Holds(cells[way], Tag1(c))
    BY <1>2, <2>1 DEF exists, Holding, Ways, Cells1
  <2>3. /\ cells[way].address \in Nat /\ Set1(cells[way].address) = set
        /\ Tag1(cells[way].address) = Tag1(c)
    BY <1>1, <1>3, <1>5, <2>2 DEF Holds
  <2> QED
    BY <2>1, <2>3, SamePlace
<1>11. \A way \in 0 .. config.L1Ways - 1 : cells[way].LRU \in Nat
  BY <1>2 DEF Cells1, Cell
<1>12. \A way \in 0 .. config.L1Ways - 1 : way # lru => cells[way].LRU > 0
  <2>1. \A way \in 0 .. config.L1Ways - 1 : cells[way].LRU = cells[lru].LRU => way = lru
    BY <1>2, <1>8 DEF SetOK, RanksDiffer, Ways, Cells1
  <2> QED
    BY <1>8, <1>11, <2>1
<1>13. Least(old)
  <2>1. old \in S
    BY <1>5, <1>8, <1>9
  <2>2. ASSUME NEW d \in S \ {old} PROVE <<old, d>> \in recency
    <3>1. PICK way \in 0 .. config.L1Ways - 1 : cells[way].address = d
      BY <1>10
    <3>2. way # lru
      BY <2>2, <3>1
    <3>3. cells[lru].LRU < cells[way].LRU
      BY <1>8, <1>12, <3>2
    <3> QED
      BY <1>4, <1>8, <1>9, <3>1, <3>2, <3>3
  <2> QED
    BY <2>1, <2>2
<1>14. ASSUME NEW c, Least(c) PROVE c = old
  <2>1. PICK way \in 0 .. config.L1Ways - 1 : cells[way].address = c
    BY <1>10, <1>14
  <2>2. CASE way = lru
    BY <2>1, <2>2
  <2>3. CASE way # lru
    <3>1. <<cells[way].address, cells[lru].address>> \notin recency
      BY <1>4, <1>8, <1>9, <1>11, <2>3
    <3> QED
      BY <1>13, <1>14, <2>1, <3>1
  <2> QED
    BY <2>2, <2>3
<1>15. LRU!LeastRecent(S) = old
  BY <1>7, <1>13, <1>14
<1> QED
  BY <1>6, <1>15 DEF Leaves, cells, set, lru, S

-----------------------------------------------------------------------------
(* L2 keeps holding blocks of the trace only.                              *)
LEMMA HoldsExists ==
  ASSUME NEW l2, L2OK(l2)
  PROVE  HoldsBlocks(l2) <=> \A set \in 0 .. config.L2Sets - 1 :
                               \A t : exists(t, l2[set]) => t \in Tags2(set)
<1>1. DOMAIN l2 = 0 .. config.L2Sets - 1
  BY DEF L2OK
<1> QED
  BY <1>1 DEF HoldsBlocks, exists, Holding, Holds, Ways

LEMMA HoldsSame ==
  ASSUME NEW l2, L2OK(l2), HoldsBlocks(l2), NEW m2, L2OK(m2), SameTags(m2, l2)
  PROVE  HoldsBlocks(m2)
BY HoldsExists DEF SameTags

LEMMA HoldsReplaced ==
  ASSUME NEW l2, L2OK(l2), HoldsBlocks(l2), NEW m2, L2OK(m2), NEW b \in Blocks,
         Replaces(m2, l2, b)
  PROVE  HoldsBlocks(m2)
<1>1. Tag2(b) \in Tags2(Set2(b))
  BY DEF Tags2
<1> QED
  BY <1>1, HoldsExists DEF Replaces, TakesPlace

(* Of a full set of L2 one block leaves.                                   *)
LEMMA BelowReplaced ==
  ASSUME config \in Configs, NEW l2, L2OK(l2), HoldsBlocks(l2),
         NEW b \in Blocks, ~InL2(l2, b), NEW m2, Replaces(m2, l2, b)
  PROVE  /\ isEmpty(l2[Set2(b)]) => Below(m2) = Below(l2) \cup {b}
         /\ ~isEmpty(l2[Set2(b)]) =>
              \E out \in InSet2(b, l2) : Below(m2) = (Below(l2) \ {out}) \cup {b}
<1> DEFINE cells == l2[Set2(b)]
           old   == cells[First(Oldest(cells))].tag
<1>1. Blocks \subseteq Nat
  BY ConfigTypes
<1>2. ASSUME NEW c \in Blocks
      PROVE  InL2(m2, c) <=> \/ c = b
                             \/ InL2(l2, c) /\ ~(/\ ~isEmpty(cells) /\ Set2(c) = Set2(b)
                                                 /\ Tag2(c) = old)
  <2>1. c \in Nat /\ b \in Nat /\ Set2(c) \in 0 .. config.L2Sets - 1
    BY <1>1, Places
  <2>2. CASE Set2(c) = Set2(b)
    <3>1. Tag2(c) = Tag2(b) <=> c = b
      BY <2>1, <2>2, SamePlace
    <3> QED
      BY <2>2, <3>1 DEF Replaces, TakesPlace, InL2
  <2>3. CASE Set2(c) # Set2(b)
    <3>1. c # b
      BY <2>3
    <3> QED
      BY <2>1, <2>3, <3>1 DEF Replaces, InL2
  <2> QED
    BY <2>2, <2>3
<1> HIDE DEF old
<1>3. ASSUME isEmpty(cells) PROVE Below(m2) = Below(l2) \cup {b}
  <2> HIDE DEF cells
  <2> QED
    BY <1>2, <1>3 DEF Below
<1>4. ASSUME ~isEmpty(cells)
      PROVE  \E out \in InSet2(b, l2) : Below(m2) = (Below(l2) \ {out}) \cup {b}
  <2>1. PICK out \in InSet2(b, l2) : Tag2(out) = old
    BY <1>4, L2Full DEF old
  <2>2. out \in Blocks /\ Set2(out) = Set2(b) /\ InL2(l2, out)
    BY DEF InSet2, LRU!InSetOf, Below, Set2, SetOf
  <2> HIDE DEF cells
  <2>3. \A c \in Blocks : c = out <=> Set2(c) = Set2(b) /\ Tag2(c) = old
    BY <1>1, <2>1, <2>2, SamePlace
  <2>4. \A c \in Blocks : InL2(m2, c) <=> c = b \/ (InL2(l2, c) /\ c # out)
    BY <1>2, <1>4, <2>3
  <2>5. Below(m2) = (Below(l2) \ {out}) \cup {b}
    BY <2>4 DEF Below
  <2> QED
    BY <2>5
<1> QED
  BY <1>3, <1>4

-----------------------------------------------------------------------------
(* The steps of LRUCache.                                                  *)

LEMMA Primed ==
  ASSUME config' = config
  PROVE  /\ Resident(L1)' = Resident(L1') /\ Below(L2)' = Below(L2')
         /\ HoldsBlocks(L2)' <=> HoldsBlocks(L2')
<1>1. Blocks' = Blocks
  BY DEF Blocks
<1>2. Resident(L1)' = Resident(L1')
  BY <1>1 DEF Resident, InL1, Tag1, Set1
<1>3. Below(L2)' = Below(L2')
  BY <1>1 DEF Below, InL2, Tag2, Set2
<1>4. HoldsBlocks(L2)' <=> HoldsBlocks(L2')
  BY <1>1 DEF HoldsBlocks, Tags2, Tag2, Set2
<1> QED
  BY <1>2, <1>3, <1>4

LEMMA SameCount ==
  ASSUME NEW S
  PROVE  LRU!Cardinality(S) = Cardinality(S)
BY DEF LRU!Cardinality, Cardinality

(* What a command on b does to recency.                                    *)
Used(b) == config' = config /\ recency' = Latest(b, L1', recency)

LEMMA UseStep ==
  ASSUME NEW b, Used(b)
  PROVE  LRU!Use(b)
<1>1. Resident(L1)' = Resident(L1')
  BY Primed DEF Used
<1> QED
  BY <1>1 DEF LRU!Use, Used, Latest

(* Each outcome of a command is a step of LRUCache, and keeps the ranks in *)
(* order.                                                                  *)
LEMMA HitStep ==
  ASSUME config \in Configs, L1OK(L1), RanksInOrder(L1, recency),
         NEW b \in Blocks, InL1(L1, b), HitsIn(L1', L1, b), SameTags(L2', L2), Used(b)
  PROVE  LRU!Hit(b) /\ RanksInOrder(L1', recency')
<1>1. /\ Resident(L1)' = Resident(L1') /\ Below(L2)' = Below(L2')
  BY Primed DEF Used
<1>2. Blocks \subseteq Nat /\ b \in Nat
  BY ConfigTypes
<1>3. Resident(L1') = Resident(L1)
  BY <1>2 DEF Resident, HitsIn
<1>4. Below(L2') = Below(L2)
  <2>1. \A c \in Blocks : Set2(c) \in 0 .. config.L2Sets - 1
    BY <1>2, Places
  <2> QED
    BY <2>1 DEF Below, SameTags, InL2
<1>5. b \in Resident(L1)
  BY DEF Resident
<1>6. LRU!Use(b)
  BY UseStep
<1>7. LRU!Hit(b)
  BY <1>1, <1>3, <1>4, <1>5, <1>6 DEF LRU!Hit
<1>8. RanksInOrder(L1', recency')
  BY <1>2, UsesInOrder DEF HitsIn, Used
<1> QED
  BY <1>7, <1>8

LEMMA BringInStep ==
  ASSUME config \in Configs, NEW m1, L1OK(m1), RanksInOrder(m1, recency),
         NEW b \in Blocks, ~InL1(L1, b), Brings(L1', m1, b), Used(b)
  PROVE  LRU!BringIn(b, Resident(m1)) /\ RanksInOrder(L1', recency')
<1> DEFINE S    == InSet1(b, m1)
           left == Resident(m1)
           least == LRU!LeastRecent(S)
<1>1. Resident(L1)' = Resident(L1')
  BY Primed DEF Used
<1>2. Blocks \subseteq Nat /\ b \in Nat
  BY ConfigTypes
<1>3. b \notin Resident(L1)
  BY DEF Resident
<1>4. Cardinality(S) = config.L1Ways <=> ~isEmpty(m1[Set1(b)])
  BY L1Full
<1>5. ~isEmpty(m1[Set1(b)]) => Leaves(m1, b, least)
  BY LeastLeaves
<1> HIDE DEF S, least
<1>6. \A c \in Blocks : InL1(L1', c) <=> c = b \/ (InL1(m1, c) /\ ~Leaves(m1, b, c))
  BY <1>2 DEF Brings
<1>7. \A c : Leaves(m1, b, c) <=> Cardinality(S) = config.L1Ways /\ c = least
  BY <1>4, <1>5 DEF Leaves
<1>8. Resident(L1') = {b} \cup IF Cardinality(S) = config.L1Ways
                               THEN left \ {least} ELSE left
  BY <1>6, <1>7 DEF Resident
<1>9. LRU!Use(b)
  BY UseStep
<1> HIDE DEF left
<1>10. LRU!BringIn(b, left)
  <2>1. S = LRU!InSetOf(b, left, config.L1Sets)
    BY DEF S, InSet1, left
  <2>2. Resident(L1)' = {b} \cup IF Cardinality(S) = config.L1Ways
                                 THEN left \ {LRU!LeastRecent(S)} ELSE left
    BY <1>1, <1>8 DEF least
  <2>3. Resident(L1)' = {b} \cup IF LRU!Cardinality(S) = config.L1Ways
                                 THEN left \ {LRU!LeastRecent(S)} ELSE left
    BY <2>2, SameCount
  <2> QED
    BY <1>3, <1>9, <2>1, <2>3, Zenon DEF LRU!BringIn
<1>11. RanksInOrder(L1', recency')
  BY <1>2, UsesInOrder DEF Brings, Used
<1> QED
  BY <1>10, <1>11 DEF left

LEMMA LowerHitStep ==
  ASSUME config \in Configs, L1OK(L1), RanksInOrder(L1, recency),
         NEW b \in Blocks, ~InL1(L1, b), InL2(L2, b),
         Brings(L1', L1, b), SameTags(L2', L2), Used(b)
  PROVE  LRU!LowerHit(b) /\ RanksInOrder(L1', recency')
<1>1. Below(L2)' = Below(L2')
  BY Primed DEF Used
<1>2. Below(L2') = Below(L2)
  <2>1. \A c \in Blocks : Set2(c) \in 0 .. config.L2Sets - 1
    BY Places, ConfigTypes
  <2> QED
    BY <2>1 DEF Below, SameTags, InL2
<1>3. b \in Below(L2)
  BY DEF Below
<1>4. LRU!BringIn(b, Resident(L1)) /\ RanksInOrder(L1', recency')
  BY BringInStep
<1> QED
  BY <1>1, <1>2, <1>3, <1>4 DEF LRU!LowerHit

LEMMA LowerMissStep ==
  ASSUME config \in Configs, L1OK(L1), L2OK(L2), RanksInOrder(L1, recency), HoldsBlocks(L2),
         NEW b \in Blocks, ~InL1(L1, b), ~InL2(L2, b),
         NEW m1, MakesRoom(m1, L1, L2, b), Brings(L1', m1, b),
         Replaces(L2', L2, b), Used(b)
  PROVE  LRU!LowerMiss(b) /\ RanksInOrder(L1', recency')
<1> DEFINE lower == InSet2(b, L2)
           cells == L2[Set2(b)]
<1>1. Below(L2)' = Below(L2')
  BY Primed DEF Used
<1>2. b \notin Below(L2) /\ Blocks \subseteq Nat
  BY ConfigTypes DEF Below
<1>3. LRU!Cardinality(lower) < config.L2Ways <=> isEmpty(cells)
  BY L2Full, SameCount
<1> HIDE DEF lower
<1>4. CASE isEmpty(cells)
  <2>1. m1 = L1
    BY <1>4 DEF MakesRoom
  <2>2. LRU!BringIn(b, Resident(L1)) /\ RanksInOrder(L1', recency')
    BY <2>1, BringInStep
  <2>3. Below(L2') = Below(L2) \cup {b}
    BY <1>4, BelowReplaced
  <2>4. LRU!LowerMiss(b)
    BY <1>1, <1>2, <1>3, <1>4, <2>2, <2>3, Zenon DEF LRU!LowerMiss, lower, InSet2
  <2> QED
    BY <2>2, <2>4
<1>5. CASE ~isEmpty(cells)
  <2>1. getLRU(cells) \in Blocks
    <3>1. Set2(b) \in 0 .. config.L2Sets - 1
      BY <1>2, Places
    <3> QED
      BY <1>5, <3>1, L2Victim, Zenon DEF getLRU
  <2>2. PICK lost \in Blocks : LosesOne(m1, L1, lost)
    BY <1>5, <2>1 DEF MakesRoom
  <2>3. L1OK(m1) /\ RanksInOrder(m1, recency)
    BY <2>2, LosesInOrder DEF LosesOne, Loses
  <2>4. Resident(m1) = Resident(L1) \ {lost}
    BY <1>2, <2>2 DEF Resident, LosesOne
  <2>5. LRU!BringIn(b, Resident(m1)) /\ RanksInOrder(L1', recency')
    BY <2>3, BringInStep
  <2>6. LRU!BringIn(b, Resident(L1) \ {lost})
    BY <2>4, <2>5
  <2>7. PICK out \in lower : Below(L2') = (Below(L2) \ {out}) \cup {b}
    BY <1>5, BelowReplaced DEF lower
  <2>8. lost \in LRU!Blocks
    BY DEF LRU!Blocks, Blocks
  <2>9. LRU!LowerMiss(b)
    BY <1>1, <1>2, <1>3, <1>5, <2>6, <2>7, <2>8, Zenon DEF LRU!LowerMiss, lower, InSet2
  <2> QED
    BY <2>5, <2>9
<1> QED
  BY <1>4, <1>5

LEMMA NoStep ==
  ASSUME config \in Configs, config' = config, L1' = L1, SameTags(L2', L2),
         recency' = recency
  PROVE  UNCHANGED LRU!vars
<1>1. Resident(L1)' = Resident(L1') /\ Below(L2)' = Below(L2')
  BY Primed
<1>2. Below(L2') = Below(L2)
  <2>1. \A c \in Blocks : Set2(c) \in 0 .. config.L2Sets - 1
    BY Places, ConfigTypes
  <2> QED
    BY <2>1 DEF Below, SameTags, InL2
<1> QED
  BY <1>1, <1>2 DEF LRU!vars

(* Operations on L2 that change nothing it holds, one after another.       *)
LEMMA SameTwice ==
  ASSUME NEW l2, NEW m2, NEW n2, SameTags(m2, l2), SameTags(n2, m2)
  PROVE  SameTags(n2, l2)
BY DEF SameTags

LEMMA SameSelf ==
  ASSUME NEW l2
  PROVE  SameTags(l2, l2)
BY DEF SameTags

-----------------------------------------------------------------------------
(* Filling L1 does not change what L2 holds.                               *)
LEMMA addToL1Same ==
  ASSUME config \in Configs, NEW l1, L1OK(l1), NEW l2, L2OK(l2), NEW b \in Blocks
  PROVE  SameTags(addToL1(l1, l2, b).L2, l2)
<1> DEFINE cells  == l1[Set1(b)]
           victim == cells[First(Oldest(cells))]
           m2     == addToL1(l1, l2, b).L2
<1>1. Set1(b) \in 0 .. config.L1Sets - 1 /\ Blocks \subseteq Nat
  BY Places, ConfigTypes
<1>2. m2 = l2 \/ (~isEmpty(cells) /\ m2 = WriteBack(l2, victim.address))
  BY DEF addToL1
<1>3. ~isEmpty(cells) => victim.address \in Nat
  BY <1>1, L1Victim, Zenon
<1> HIDE DEF cells, victim, m2
<1>4. m2 = l2 \/ Marked(m2, l2)
  BY <1>2, <1>3, WriteBackMarks
<1>5. SameTags(m2, l2)
  BY <1>4, MarkedTags, SameSelf
<1> QED
  BY <1>5 DEF m2

LEMMA BringToL1Same ==
  ASSUME config \in Configs, NEW l1, L1OK(l1), NEW l2, L2OK(l2), NEW b \in Blocks,
         NEW write
  PROVE  SameTags(BringToL1(l1, l2, b, write).L2, l2)
<1> DEFINE cells == l1[Set1(b)]
           old   == cells[First(Oldest(cells))].address
           m2    == BringToL1(l1, l2, b, write).L2
<1>1. Set1(b) \in 0 .. config.L1Sets - 1 /\ Blocks \subseteq Nat
  BY Places, ConfigTypes
<1>2. m2 = l2 \/ (~isEmpty(cells) /\ m2 = SaveInL2(l2, old))
  BY DEF BringToL1
<1>3. ~isEmpty(cells) => old \in Nat
  BY <1>1, L1Victim, Zenon
<1> HIDE DEF cells, old, m2
<1>4. m2 = l2 \/ Marked(m2, l2)
  BY <1>2, <1>3, SaveMarks
<1>5. SameTags(m2, l2)
  BY <1>4, MarkedTags, SameSelf
<1> QED
  BY <1>5 DEF m2

-----------------------------------------------------------------------------
(* What a command on b comes to.                                           *)

Hits(b) ==
  /\ InL1(L1, b) /\ HitsIn(L1', L1, b)
  /\ SameTags(L2', L2) /\ Used(b)

FromL2(b) ==
  /\ ~InL1(L1, b) /\ InL2(L2, b) /\ Brings(L1', L1, b)
  /\ SameTags(L2', L2) /\ Used(b)

FromMemory(b, m1) ==
  /\ ~InL1(L1, b) /\ ~InL2(L2, b)
  /\ MakesRoom(m1, L1, L2, b) /\ Brings(L1', m1, b)
  /\ Replaces(L2', L2, b) /\ Used(b)

Passes == L1' = L1 /\ SameTags(L2', L2) /\ UNCHANGED <<config, recency>>

Outcome(b) == Hits(b) \/ FromL2(b) \/ (\E m1 : FromMemory(b, m1)) \/ Passes

(* Every such outcome is a step of LRUCache or leaves it as it is.         *)
LEMMA OutcomeRefines ==
  ASSUME config \in Configs, L1OK(L1), L2OK(L2), L2OK(L2'),
         RanksInOrder(L1, recency), HoldsBlocks(L2), NEW b \in Blocks, Outcome(b)
  PROVE  /\ [LRU!Next]_(LRU!vars)
         /\ RanksInOrder(L1', recency') /\ HoldsBlocks(L2')
<1>1. b \in LRU!Blocks
  BY DEF LRU!Blocks, Blocks
<1>2. CASE Hits(b)
  <2>1. LRU!Hit(b) /\ RanksInOrder(L1', recency')
    BY <1>2, HitStep DEF Hits
  <2>2. HoldsBlocks(L2')
    BY <1>2, HoldsSame DEF Hits
  <2> QED
    BY <1>1, <2>1, <2>2 DEF LRU!Next
<1>3. CASE FromL2(b)
  <2>1. LRU!LowerHit(b) /\ RanksInOrder(L1', recency')
    BY <1>3, LowerHitStep DEF FromL2
  <2>2. HoldsBlocks(L2')
    BY <1>3, HoldsSame DEF FromL2
  <2> QED
    BY <1>1, <2>1, <2>2 DEF LRU!Next
<1>4. ASSUME NEW m1, FromMemory(b, m1)
      PROVE  /\ LRU!Next
             /\ RanksInOrder(L1', recency') /\ HoldsBlocks(L2')
  <2>1. LRU!LowerMiss(b) /\ RanksInOrder(L1', recency')
    BY <1>4, LowerMissStep DEF FromMemory
  <2>2. HoldsBlocks(L2')
    BY <1>4, HoldsReplaced DEF FromMemory
  <2> QED
    BY <1>1, <2>1, <2>2 DEF LRU!Next
<1>5. CASE Passes
  <2>1. UNCHANGED LRU!vars
    BY <1>5, NoStep DEF Passes
  <2>2. HoldsBlocks(L2')
    BY <1>5, HoldsSame DEF Passes
  <2>3. RanksInOrder(L1', recency')
    BY <1>5 DEF Passes
  <2> QED
    BY <2>1, <2>2, <2>3
<1> QED
  BY <1>2, <1>3, <1>4, <1>5 DEF Outcome

(* The commands of HW2_NEW have no other outcome.                          *)
LEMMA NewOutcome ==
  ASSUME config \in Configs, L1OK(L1), L2OK(L2),
         NEW b \in Blocks, NEW operation, NewCommand(b, operation)
  PROVE  Outcome(b)
<1>1. b \in Nat /\ config.version # "HW2"
  BY ConfigTypes DEF NewCommand
<1>2. config' = config
  BY DEF NewCommand, cmdParser, Read, Write, ReadL1Hit, ReadL2Hit, ReadMiss,
         WriteL1Hit, WriteL2Hit, WriteMissAlloc, WriteMissNoAlloc, Count
<1>3. ASSUME InL1(L1, b) \/ Allocates(operation) PROVE Used(b)
  BY <1>2, <1>3 DEF NewCommand, UsesIf, Used, Latest
<1>4. ASSUME ~InL1(L1, b), ~Allocates(operation) PROVE UNCHANGED <<config, recency>>
  BY <1>2, <1>4 DEF NewCommand, UsesIf
<1>5. CASE operation = "r" /\ ReadL1Hit(b)
  <2>1. HitsIn(L1', L1, b)
    BY <1>1, <1>5, HitOrders DEF ReadL1Hit, TouchL1
  <2> QED
    BY <1>3, <1>5, <2>1, SameSelf DEF Outcome, Hits, ReadL1Hit
<1>6. CASE operation = "r" /\ ReadL2Hit(b)
  <2> DEFINE touched == TouchL2(L2, b)
             after   == addToL1(L1, touched, b)
  <2>1. L2OK(touched) /\ ~InL1(L1, b) /\ InL2(L2, b)
    BY <1>1, <1>6, L2Update DEF ReadL2Hit, TouchL2
  <2>2. SameTags(touched, L2)
    BY <1>1, L2Marked, MarkedTags
  <2>3. L1' = after.L1 /\ L2' = after.L2
    BY <1>6 DEF ReadL2Hit
  <2> HIDE DEF touched
  <2>4. Brings(after.L1, L1, b) /\ SameTags(after.L2, touched)
    BY <2>1, addToL1Brings, addToL1Same
  <2>5. SameTags(L2', L2) /\ Used(b)
    BY <1>3, <1>6, <2>2, <2>3, <2>4, SameTwice DEF Allocates
  <2> QED
    BY <2>1, <2>3, <2>4, <2>5 DEF Outcome, FromL2
<1>7. CASE operation = "r" /\ ReadMiss(b)
  <2>1. PICK junk \in Blocks :
          LET mid   == addToL2(L1, L2, b, junk)
              after == addToL1(mid.L1, mid.L2, b)
          IN  L1' = after.L1 /\ L2' = after.L2
    BY <1>7 DEF ReadMiss
  <2> DEFINE mid   == addToL2(L1, L2, b, junk)
             after == addToL1(mid.L1, mid.L2, b)
  <2>2. L1OK(mid.L1) /\ L2OK(mid.L2) /\ ~InL1(mid.L1, b)
    BY <1>1, <1>7, addToL2Keeps DEF ReadMiss
  <2>3. /\ ~InL1(L1, b) /\ ~InL2(L2, b)
        /\ MakesRoom(mid.L1, L1, L2, b) /\ Replaces(mid.L2, L2, b)
    BY <1>1, <1>7, addToL2Loses, addToL2Replaces DEF ReadMiss
  <2>4. L1' = after.L1 /\ L2' = after.L2
    BY <2>1
  <2> HIDE DEF mid
  <2>5. Brings(after.L1, mid.L1, b) /\ SameTags(after.L2, mid.L2)
    BY <2>2, addToL1Brings, addToL1Same
  <2>6. Replaces(L2', L2, b) /\ Used(b)
    BY <1>1, <1>3, <1>7, <2>3, <2>4, <2>5, ReplacesThenSame DEF Allocates
  <2>7. FromMemory(b, mid.L1)
    BY <2>3, <2>4, <2>5, <2>6 DEF FromMemory
  <2> QED
    BY <2>7 DEF Outcome
<1>8. CASE operation = "w" /\ WriteL1Hit(b)
  <2>1. HitsIn(L1', L1, b)
    BY <1>1, <1>8, HitOrders DEF WriteL1Hit
  <2> QED
    BY <1>3, <1>8, <2>1, SameSelf DEF Outcome, Hits, WriteL1Hit
<1>9. CASE operation = "w" /\ WriteL2Hit(b)
  <2> DEFINE marked  == DirtyL2(L2, b)
             touched == TouchL2(marked, b)
             after   == addToL1(L1, touched, b)
  <2>1. ~InL1(L1, b) /\ InL2(L2, b) /\ L2OK(marked) /\ InL2(marked, b)
    BY <1>1, <1>9, L2Dirty DEF WriteL2Hit
  <2>2. SameTags(marked, L2)
    BY <1>1, L2Marked, MarkedTags
  <2>3. /\ L1' = IF config.writeAlloc THEN DirtyL1(after.L1, b) ELSE L1
        /\ L2' = IF config.writeAlloc THEN after.L2 ELSE touched
    BY <1>9 DEF WriteL2Hit
  <2> HIDE DEF marked
  <2>4. L2OK(touched) /\ SameTags(touched, marked)
    BY <1>1, <2>1, L2Update, L2Marked, MarkedTags DEF TouchL2
  <2> HIDE DEF touched
  <2>5. SameTags(touched, L2)
    BY <2>2, <2>4, SameTwice
  <2>6. Brings(after.L1, L1, b) /\ SameTags(after.L2, touched)
    BY <2>1, <2>4, addToL1Brings, addToL1Same
  <2>7. Brings(DirtyL1(after.L1, b), L1, b) /\ SameTags(after.L2, L2)
    BY <1>1, <2>5, <2>6, DirtyBrings, SameTwice
  <2> HIDE DEF after
  <2>8. CASE config.writeAlloc
    <3>1. Used(b)
      BY <1>3, <1>9, <2>8 DEF Allocates
    <3> QED
      BY <2>1, <2>3, <2>7, <2>8, <3>1 DEF Outcome, FromL2
  <2>9. CASE ~config.writeAlloc
    <3>1. UNCHANGED <<config, recency>>
      BY <1>4, <1>9, <2>1, <2>9 DEF Allocates
    <3> QED
      BY <2>3, <2>5, <2>9, <3>1 DEF Outcome, Passes
  <2> QED
    BY <2>8, <2>9
<1>10. CASE operation = "w" /\ WriteMissAlloc(b)
  <2>1. PICK junk \in Blocks :
          LET mid   == addToL2(L1, L2, b, junk)
              after == addToL1(mid.L1, DirtyL2(mid.L2, b), b)
          IN  L1' = DirtyL1(after.L1, b) /\ L2' = after.L2
    BY <1>10 DEF WriteMissAlloc
  <2> DEFINE mid    == addToL2(L1, L2, b, junk)
             marked == DirtyL2(mid.L2, b)
             after  == addToL1(mid.L1, marked, b)
  <2>2. L1OK(mid.L1) /\ L2OK(mid.L2) /\ ~InL1(mid.L1, b)
    BY <1>1, <1>10, addToL2Keeps DEF WriteMissAlloc
  <2>3. /\ ~InL1(L1, b) /\ ~InL2(L2, b)
        /\ MakesRoom(mid.L1, L1, L2, b) /\ Replaces(mid.L2, L2, b)
    BY <1>1, <1>10, addToL2Loses, addToL2Replaces DEF WriteMissAlloc
  <2>4. L1' = DirtyL1(after.L1, b) /\ L2' = after.L2
    BY <2>1
  <2> HIDE DEF mid
  <2>5. L2OK(marked) /\ SameTags(marked, mid.L2)
    BY <1>1, <2>2, L2Dirty, L2Marked, MarkedTags
  <2> HIDE DEF marked
  <2>6. Brings(after.L1, mid.L1, b) /\ SameTags(after.L2, marked)
    BY <2>2, <2>5, addToL1Brings, addToL1Same
  <2>7. Brings(DirtyL1(after.L1, b), mid.L1, b) /\ SameTags(after.L2, mid.L2)
    BY <1>1, <2>2, <2>5, <2>6, DirtyBrings, SameTwice
  <2>8. Replaces(L2', L2, b) /\ Used(b)
    BY <1>1, <1>3, <1>10, <2>3, <2>4, <2>7, ReplacesThenSame
       DEF Allocates, WriteMissAlloc
  <2>9. FromMemory(b, mid.L1)
    BY <2>3, <2>4, <2>7, <2>8 DEF FromMemory
  <2> QED
    BY <2>9 DEF Outcome
<1>11. CASE operation = "w" /\ WriteMissNoAlloc(b)
  <2>1. UNCHANGED <<config, recency>>
    BY <1>4, <1>11 DEF WriteMissNoAlloc, Allocates
  <2> QED
    BY <1>11, <2>1, SameSelf DEF Outcome, Passes, WriteMissNoAlloc
<1> QED
  BY <1>5, <1>6, <1>7, <1>8, <1>9, <1>10, <1>11
     DEF NewCommand, cmdParser, Read, Write

(* Neither have those of HW2.                                              *)
LEMMA OldOutcome ==
  ASSUME config \in Configs, L1OK(L1), L2OK(L2),
         NEW b \in Blocks, NEW operation, OldCommand(b, operation)
  PROVE  Outcome(b)
<1>1. b \in Nat /\ config.version = "HW2"
  BY ConfigTypes DEF OldCommand
<1>2. config' = config
  BY DEF OldCommand, cacheMemHandler, OldL1Hit, OldL2Hit, OldMiss, Count
<1>3. ASSUME NEW m1, (HitsIn(L1', m1, b) /\ InL1(m1, b)) \/ Brings(L1', m1, b)
      PROVE  Used(b)
  <2>1. InL1(L1', b)
    BY <1>1, <1>3 DEF HitsIn, Brings
  <2> QED
    BY <1>2, <2>1 DEF OldCommand, UsesIf, Used, Latest
<1>4. ASSUME ~InL1(L1, b), L1' = L1 PROVE UNCHANGED <<config, recency>>
  BY <1>2, <1>4 DEF OldCommand, UsesIf
<1>5. CASE OldL1Hit(b, operation)
  <2> DEFINE touched == Touched(Tag1(b), L1[Set1(b)])
             marked  == Dirtied(Tag1(b), touched)
  <2>1. /\ HitsIn([L1 EXCEPT ![Set1(b)] = touched], L1, b)
        /\ HitsIn([L1 EXCEPT ![Set1(b)] = marked], L1, b)
    BY <1>1, <1>5, HitOrders DEF OldL1Hit
  <2>2. /\ InL1(L1, b) /\ L2' = L2
        /\ L1' = [L1 EXCEPT ![Set1(b)] = IF operation = "w" THEN marked ELSE touched]
    BY <1>5 DEF OldL1Hit
  <2> HIDE DEF marked, touched
  <2>3. HitsIn(L1', L1, b)
    BY <2>1, <2>2
  <2> QED
    BY <1>3, <2>2, <2>3, SameSelf DEF Outcome, Hits
<1>6. CASE OldL2Hit(b, operation)
  <2> DEFINE cells   == L2[Set2(b)]
             new     == Touched(Tag2(b), cells)
             touched == [L2 EXCEPT ![Set2(b)] = new]
             after   == BringToL1(L1, touched, b, operation = "w")
  <2>1. /\ ~InL1(L1, b) /\ InL2(L2, b)
        /\ cells \in Cells2 /\ SetOK(cells, Fits2(Set2(b)))
        /\ WithTag(cells, Tag2(b)) # {} /\ Set2(b) \in 0 .. config.L2Sets - 1
        /\ config.L2Ways \in Nat \ {0}
    BY <1>1, <1>6, Places, ConfigTypes, L2Set, ExistsHasTag DEF OldL2Hit, InL2
  <2>2. /\ L1' = IF Allocates(operation) THEN after.L1 ELSE L1
        /\ L2' = IF Allocates(operation) THEN after.L2 ELSE touched
    BY <1>6 DEF OldL2Hit
  <2>3. SameTags(touched, L2)
    BY <1>1, L2Marked, MarkedTags
  <2> HIDE DEF cells
  <2>4. new \in Cells2 /\ SetOK(new, Fits2(Set2(b)))
    BY <2>1, TouchedKeeps DEF Cells2
  <2> HIDE DEF new
  <2>5. L2OK(touched)
    BY <2>1, <2>4, L2Change
  <2> HIDE DEF touched
  <2>6. Brings(after.L1, L1, b) /\ SameTags(after.L2, touched)
    BY <2>1, <2>5, BringToL1Brings, BringToL1Same
  <2>7. SameTags(after.L2, L2)
    BY <2>3, <2>6, SameTwice
  <2> HIDE DEF after
  <2>8. CASE Allocates(operation)
    BY <1>3, <2>1, <2>2, <2>6, <2>7, <2>8 DEF Outcome, FromL2
  <2>9. CASE ~Allocates(operation)
    BY <1>4, <2>1, <2>2, <2>3, <2>9 DEF Outcome, Passes
  <2> QED
    BY <2>8, <2>9
<1>7. CASE OldMiss(b, operation)
  <2> DEFINE write == operation = "w" /\ config.writeAlloc
  <2>1. PICK idxInSet \in 0 .. config.L2Ways - 1 :
          LET mid   == BringToL2(L1, L2, b, idxInSet)
              after == BringToL1(mid.L1, mid.L2, b, write)
          IN  L1' = after.L1 /\ L2' = after.L2
    BY <1>7 DEF OldMiss
  <2> DEFINE mid   == BringToL2(L1, L2, b, idxInSet)
             after == BringToL1(mid.L1, mid.L2, b, write)
  <2>2. ~InL1(L1, b) /\ ~InL2(L2, b)
    BY <1>7 DEF OldMiss
  <2>3. L1OK(mid.L1) /\ L2OK(mid.L2) /\ ~InL1(mid.L1, b)
    BY <1>1, <2>2, BringToL2Keeps
  <2>4. MakesRoom(mid.L1, L1, L2, b) /\ Replaces(mid.L2, L2, b)
    BY <1>1, <2>2, BringToL2Loses, BringToL2Replaces
  <2>5. L1' = after.L1 /\ L2' = after.L2
    BY <2>1
  <2> HIDE DEF mid, write
  <2>6. Brings(after.L1, mid.L1, b) /\ SameTags(after.L2, mid.L2)
    BY <2>3, BringToL1Brings, BringToL1Same
  <2>7. Replaces(L2', L2, b) /\ Used(b)
    BY <1>1, <1>3, <2>4, <2>5, <2>6, ReplacesThenSame
  <2>8. FromMemory(b, mid.L1)
    BY <2>2, <2>4, <2>5, <2>6, <2>7 DEF FromMemory
  <2> QED
    BY <2>8 DEF Outcome
<1> QED
  BY <1>5, <1>6, <1>7 DEF OldCommand, cacheMemHandler

-----------------------------------------------------------------------------
(* The initial states and the steps of both simulators are those of        *)
(* LRUCache.                                                               *)
LEMMA InitRefines == InitBoth => LRUInv /\ LRU!Init
<1> SUFFICES ASSUME InitBoth
             PROVE  LRUInv /\ LRU!Init
  OBVIOUS
<1>1. CacheInv
  BY InitHolds
<1>2. /\ config \in Configs /\ recency = {}
      /\ L1 = NewCache(config.L1Sets, config.L1Ways)
      /\ L2 = NewCache(config.L2Sets, config.L2Ways)
  BY DEF InitBoth, Init
<1>3. /\ \A set \in DOMAIN L1 : \A way \in DOMAIN L1[set] : ~L1[set][way].valid
      /\ \A set \in DOMAIN L2 : \A way \in DOMAIN L2[set] : ~L2[set][way].valid
  BY <1>2 DEF NewCache, NewCells
<1>4. RanksInOrder(L1, recency) /\ HoldsBlocks(L2)
  BY <1>3 DEF RanksInOrder, HoldsBlocks
<1>5. \A b \in Blocks : Set1(b) \in DOMAIN L1 /\ Set2(b) \in DOMAIN L2
  <2>1. DOMAIN L1 = 0 .. config.L1Sets - 1 /\ DOMAIN L2 = 0 .. config.L2Sets - 1
    BY <1>2 DEF NewCache
  <2> QED
    BY <1>2, <2>1, Places, ConfigTypes
<1>6. Resident(L1) = {} /\ Below(L2) = {}
  BY <1>3, <1>5 DEF Resident, Below, InL1, InL2, exists, Holding, Holds, Ways
<1> QED
  BY <1>1, <1>2, <1>4, <1>6 DEF LRUInv, LRU!Init

LEMMA StepRefines ==
  LRUInv /\ [NextBoth]_allVars => LRUInv' /\ [LRU!Next]_(LRU!vars)
<1> SUFFICES ASSUME LRUInv, [NextBoth]_allVars
             PROVE  LRUInv' /\ [LRU!Next]_(LRU!vars)
  OBVIOUS
<1>1. CacheInv /\ CacheInv'
  BY StepHolds DEF LRUInv
<1>2. config \in Configs /\ L1OK(L1) /\ L2OK(L2)
      /\ RanksInOrder(L1, recency) /\ HoldsBlocks(L2)
  BY <1>1 DEF LRUInv, CacheInv, TypeOK
<1>3. CASE NextBoth
  <2>1. PICK b \in Blocks, operation \in Operations :
          NewCommand(b, operation) \/ OldCommand(b, operation)
    BY <1>3 DEF NextBoth
  <2>2. Outcome(b)
    BY <1>2, <2>1, NewOutcome, OldOutcome
  <2>3. config' = config
    BY <2>1 DEF NewCommand, cmdParser, Read, Write, ReadL1Hit, ReadL2Hit, ReadMiss,
         WriteL1Hit, WriteL2Hit, WriteMissAlloc, WriteMissNoAlloc,
         OldCommand, cacheMemHandler, OldL1Hit, OldL2Hit, OldMiss, Count
  <2>4. L2OK(L2')
    BY <1>1, <2>3 DEF CacheInv, L2OK, Fits2, Blocks, Set2, Tag2
  <2>5. /\ [LRU!Next]_(LRU!vars)
        /\ RanksInOrder(L1', recency') /\ HoldsBlocks(L2')
    BY <1>2, <2>2, <2>4, OutcomeRefines
  <2>6. RanksInOrder(L1, recency)' /\ HoldsBlocks(L2)'
    BY <2>3, <2>5, Primed DEF RanksInOrder
  <2> QED
    BY <1>1, <2>5, <2>6 DEF LRUInv
<1>4. CASE UNCHANGED allVars
  <2>1. UNCHANGED <<config, L1, L2, recency>>
    BY <1>4 DEF allVars, vars
  <2>2. SameTags(L2', L2) /\ L1' = L1
    BY <2>1, SameSelf
  <2>3. UNCHANGED LRU!vars
    BY <1>2, <2>1, <2>2, NoStep
  <2>4. RanksInOrder(L1, recency)' /\ HoldsBlocks(L2)'
    BY <1>2, <2>1, Primed DEF RanksInOrder
  <2> QED
    BY <1>1, <2>3, <2>4 DEF LRUInv
<1> QED
  BY <1>3, <1>4

(* The invariant with which the refinement is proved.                      *)
THEOREM LRUInvariance == SpecBoth => []LRUInv
<1>1. InitBoth => LRUInv
  BY InitRefines
<1>2. LRUInv /\ [NextBoth]_allVars => LRUInv'
  BY StepRefines
<1> QED
  BY <1>1, <1>2, PTL DEF SpecBoth

(* In both simulators, for every geometry and trace, L1 keeps the most     *)
(* recently used blocks of each set (HW2_NEW/cacheSim.cpp:169-224,         *)
(* HW2/cacheSim.cpp:167-216).                                              *)
THEOREM L1KeepsRecent == SpecBoth => L1IsLRU
<1>1. InitBoth => LRU!Init
  BY InitRefines
<1>2. LRUInv /\ [NextBoth]_allVars => [LRU!Next]_(LRU!vars)
  BY StepRefines
<1> QED
  BY <1>1, <1>2, LRUInvariance, PTL DEF SpecBoth, L1IsLRU, LRU!Spec

-----------------------------------------------------------------------------
(* A command that does not allocate finds its block in L1 or leaves L1     *)
(* alone.                                                                  *)
LEMMA NewcomersAllocated ==
  ASSUME config \in Configs, L1OK(L1), NEW b \in Blocks, NEW operation,
         ~Allocates(operation), ~AssignedRead(b),
         NewCommand(b, operation) \/ OldCommand(b, operation)
  PROVE  Resident(L1') \subseteq Resident(L1)
<1>1. Blocks \subseteq Nat /\ b \in Nat
  BY ConfigTypes
<1>2. ASSUME HitsIn(L1', L1, b) PROVE Resident(L1') \subseteq Resident(L1)
  BY <1>1, <1>2 DEF Resident, HitsIn
<1>3. CASE NewCommand(b, operation)
  <2>1. WriteL1Hit(b) \/ WriteL2Hit(b) \/ WriteMissNoAlloc(b)
    BY <1>3 DEF NewCommand, cmdParser, Write, WriteMissAlloc, Allocates
  <2>2. ~config.writeAlloc
    BY <1>3 DEF NewCommand, cmdParser, Allocates
  <2>3. CASE WriteL1Hit(b)
    <3>1. HitsIn(L1', L1, b)
      BY <1>1, <2>3, HitOrders DEF WriteL1Hit
    <3> QED
      BY <1>2, <3>1
  <2>4. CASE WriteL2Hit(b)
    BY <2>2, <2>4 DEF WriteL2Hit
  <2>5. CASE WriteMissNoAlloc(b)
    BY <2>5 DEF WriteMissNoAlloc
  <2> QED
    BY <2>1, <2>3, <2>4, <2>5
<1>4. CASE OldCommand(b, operation)
  <2>1. OldL1Hit(b, operation) \/ OldL2Hit(b, operation)
    BY <1>4 DEF OldCommand, cacheMemHandler, OldMiss, AssignedRead
  <2>2. CASE OldL1Hit(b, operation)
    <3> DEFINE touched == Touched(Tag1(b), L1[Set1(b)])
               marked  == Dirtied(Tag1(b), touched)
    <3>1. /\ HitsIn([L1 EXCEPT ![Set1(b)] = touched], L1, b)
          /\ HitsIn([L1 EXCEPT ![Set1(b)] = marked], L1, b)
      BY <1>1, <2>2, HitOrders DEF OldL1Hit
    <3>2. L1' = [L1 EXCEPT ![Set1(b)] = IF operation = "w" THEN marked ELSE touched]
      BY <2>2 DEF OldL1Hit
    <3> HIDE DEF marked, touched
    <3> QED
      BY <1>2, <3>1, <3>2
  <2>3. CASE OldL2Hit(b, operation)
    BY <2>3 DEF OldL2Hit
  <2> QED
    BY <2>1, <2>2, <2>3
<1> QED
  BY <1>3, <1>4

(* In both simulators, for every geometry and trace, a block that comes to *)
(* L1 was read, written with write-allocate, or missed both levels of HW2  *)
(* (HW2_NEW/cacheSim.cpp:396-416, HW2/cacheSim.cpp:286-325).               *)
THEOREM OnlyTheseAllocate == SpecBoth => AllocatesAsSaid
<1>1. CacheInv /\ [NextBoth]_allVars =>
        [\/ Resident(L1') \subseteq Resident(L1)
         \/ \A b \in Blocks, operation \in Operations :
              ~Allocates(operation) /\ ~AssignedRead(b) =>
                ~NewCommand(b, operation) /\ ~OldCommand(b, operation)]_allVars
  <2> SUFFICES ASSUME CacheInv, NEW b \in Blocks, NEW operation \in Operations,
                      ~Allocates(operation), ~AssignedRead(b),
                      NewCommand(b, operation) \/ OldCommand(b, operation)
               PROVE  Resident(L1') \subseteq Resident(L1)
    OBVIOUS
  <2>1. config \in Configs /\ L1OK(L1)
    BY DEF CacheInv, TypeOK
  <2> QED
    BY <2>1, NewcomersAllocated
<1> QED
  BY <1>1, CacheInvariance, PTL DEF SpecBoth, AllocatesAsSaid
=============================================================================
