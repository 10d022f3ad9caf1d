--------------------------------- MODULE Cache ---------------------------------
(***************************************************************************)
(* class Cache of HW2_NEW.  Every method works within one set, so the      *)
(* operators here take one set: a function from ways to cells.  A method   *)
(* that searches the ways returns at its first match.                      *)
(* The module has no variable; CacheMemHandler holds the two caches.       *)
(*                                                                         *)
(* An address is the number of its block: offsets play no part, and blocks *)
(* is the set of all addresses.                                            *)
(***************************************************************************)
EXTENDS Integers, FiniteSets

Ways(cells) == DOMAIN cells

Cell(ways, blocks) == [tag : Nat, dirty : BOOLEAN, valid : BOOLEAN,
                       address : blocks \cup {0}, LRU : 0 .. ways - 1]

(* addressHandler: a block of a cache with the given number of sets.       *)
SetOf(address, sets) == address % sets
TagOf(address, sets) == address \div sets

NewCells(ways) ==
  [way \in 0 .. ways - 1 |->
     [tag |-> 0, dirty |-> FALSE, valid |-> FALSE, address |-> 0, LRU |-> way]]

NewCache(sets, ways) == [set \in 0 .. sets - 1 |-> NewCells(ways)]

(* The way at which a search in increasing order stops.                    *)
First(S) == CHOOSE way \in S : \A other \in S : way <= other

Holds(cell, tag) == cell.valid /\ cell.tag = tag

WithTag(cells, tag) == {way \in Ways(cells) : cells[way].tag = tag}
Holding(cells, tag) == {way \in Ways(cells) : Holds(cells[way], tag)}
Invalid(cells)      == {way \in Ways(cells) : ~cells[way].valid}
Oldest(cells)       == {way \in Ways(cells) : cells[way].LRU = 0}

exists(tag, cells) == Holding(cells, tag) # {}

isEmpty(cells)   == Invalid(cells) # {}

(* Mistake: the search does not stop at the first empty cell.              *)
emptyCell_Last(cells) ==
  CHOOSE way \in Invalid(cells) : \A other \in Invalid(cells) : other <= way

emptyCell(cells) == First(Invalid(cells))

(* Mistakes: every other rank moves down; none does.                       *)
updateLRU_AllDown(tag, cells) ==
  LET hit == First(WithTag(cells, tag))
  IN  [way \in Ways(cells) |->
         IF way = hit THEN [cells[way] EXCEPT !.LRU = Cardinality(Ways(cells)) - 1]
         ELSE [cells[way] EXCEPT !.LRU = @ - 1]]
updateLRU_NoneDown(tag, cells) ==
  [cells EXCEPT ![First(WithTag(cells, tag))].LRU = Cardinality(Ways(cells)) - 1]

(* The first way with the tag, valid or not, becomes the newest; the ranks *)
(* above its old one move down.                                            *)
updateLRU(tag, cells) ==
  LET hit    == First(WithTag(cells, tag))
      old    == cells[hit].LRU
      raised == [cells EXCEPT ![hit].LRU = Cardinality(Ways(cells)) - 1]
      moves(cell) == ~Holds(cell, tag) /\ cell.LRU > old
  IN  [way \in Ways(cells) |->
         IF moves(raised[way]) THEN [raised[way] EXCEPT !.LRU = @ - 1]
         ELSE raised[way]]

(* evict: the loop is left after way 0, whatever way 0 holds.              *)
Evictable(tag, cells) == Holds(cells[0], tag)

evict(tag, cells) ==
  IF Evictable(tag, cells)
  THEN [way \in Ways(cells) |->
          IF way = 0 THEN [cells[0] EXCEPT !.valid = FALSE, !.LRU = 0]
          ELSE IF cells[way].LRU < cells[0].LRU
               THEN [cells[way] EXCEPT !.LRU = @ + 1]
               ELSE cells[way]]
  ELSE cells

(* evictLRU is called on a full set: the oldest cell is a valid one.       *)
evictLRU(cells) == [cells EXCEPT ![First(Oldest(cells))].valid = FALSE]

getLRU(cells) == cells[First(Oldest(cells))].address

isDirty(tag, cells) == cells[First(WithTag(cells, tag))].dirty

updateDirty(tag, cells) ==
  IF exists(tag, cells)
  THEN [cells EXCEPT ![First(Holding(cells, tag))].dirty = TRUE]
  ELSE cells

(* What both addToL1 and addToL2 do with the empty cell of a set.          *)
Fill(tag, address, cells) ==
  LET filled == [cells EXCEPT ![emptyCell(cells)] =
                   [tag |-> tag, dirty |-> FALSE, valid |-> TRUE,
                    address |-> address, LRU |-> @.LRU]]
  IN  updateLRU(tag, filled)

-----------------------------------------------------------------------------
(* What a set is expected to keep.                                         *)

RanksDiffer(cells) ==
  \A v, w \in Ways(cells) : cells[v].LRU = cells[w].LRU => v = w

(* A search by tag alone finds the valid cell of that tag.                 *)
FirstIsValid(cells) ==
  \A way \in Ways(cells) :
    cells[way].valid => First(WithTag(cells, cells[way].tag)) = way

(* What makes these two inductive: a tag is valid at most once, and where  *)
(* it is left over from a block that is gone, the valid cell comes first,  *)
(* as the first empty cell is the one that is filled.  fits says which     *)
(* addresses the valid cells of each tag may have.                         *)
ValidFirst(cells) ==
  \A v, w \in Ways(cells) :
    cells[w].valid /\ cells[v].tag = cells[w].tag /\ v # w =>
      ~cells[v].valid /\ w < v

SetOK(cells, fits) ==
  /\ RanksDiffer(cells)
  /\ ValidFirst(cells)
  /\ \A way \in Ways(cells) :
       cells[way].valid => <<cells[way].tag, cells[way].address>> \in fits
=============================================================================
