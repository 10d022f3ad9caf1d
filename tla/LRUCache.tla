-------------------------------- MODULE LRUCache --------------------------------
(***************************************************************************)
(* What the first level cache promises: in every set the most recently     *)
(* used blocks.  A command uses at most one block; which commands bring    *)
(* blocks in is left open.  One that brings a block in replaces, if the    *)
(* set is full, the least recently used; only if the level below lacks the *)
(* block too and has to make room for it, one other block may be           *)
(* invalidated anywhere in this level.                                     *)
(***************************************************************************)
EXTENDS Integers, FiniteSets

CONSTANT Configs   \* geometries of the two levels

VARIABLES
  config,    \* never changes
  resident,  \* the blocks the cache holds
  below,     \* the blocks the level below holds
  recency    \* the pairs of blocks it holds, the first last used before the second

vars == <<config, resident, below, recency>>

Init == config \in Configs /\ resident = {} /\ below = {} /\ recency = {}

Blocks == config.blocks

(* b is now the latest.                                                    *)
Use(b) ==
  /\ recency' = {p \in resident' \X resident' : p[1] # b /\ (p[2] = b \/ p \in recency)}
  /\ UNCHANGED config

LeastRecent(S) == CHOOSE b \in S : \A c \in S \ {b} : <<b, c>> \in recency

InSetOf(b, S, sets) == {c \in S : c % sets = b % sets}

Hit(b) ==
  /\ b \in resident
  /\ Use(b)
  /\ UNCHANGED <<resident, below>>

(* b enters this level; of what is left of it, a full set loses its oldest.*)
BringIn(b, left) ==
  LET set == InSetOf(b, left, config.L1Sets) IN
  /\ b \notin resident
  /\ resident' = {b} \cup IF Cardinality(set) = config.L1Ways
                          THEN left \ {LeastRecent(set)}
                          ELSE left
  /\ Use(b)

LowerHit(b) ==
  /\ b \in below
  /\ BringIn(b, resident)
  /\ UNCHANGED below

LowerMiss(b) ==
  LET lower == InSetOf(b, below, config.L2Sets) IN
  /\ b \notin below
  /\ IF Cardinality(lower) < config.L2Ways
     THEN /\ below' = below \cup {b}
          /\ BringIn(b, resident)
     ELSE /\ \E out \in lower : below' = (below \ {out}) \cup {b}
          /\ \E lost \in Blocks : BringIn(b, resident \ {lost})

Next == \E b \in Blocks : Hit(b) \/ LowerHit(b) \/ LowerMiss(b)

Spec == Init /\ [][Next]_vars
=============================================================================
