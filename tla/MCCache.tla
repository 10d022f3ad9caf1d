--------------------------------- MODULE MCCache ---------------------------------
(* Small caches in which sets fill up, and L2 has to evict what L1 holds.  *)
EXTENDS CacheVersions

Shape(version, l1sets, l1ways, l2sets, l2ways, alloc, blocks) ==
  [version |-> version,
   L1Sets |-> l1sets, L1Ways |-> l1ways, L2Sets |-> l2sets, L2Ways |-> l2ways,
   writeAlloc |-> alloc, blocks |-> blocks]

MCConfigs ==
  { Shape("HW2_NEW", 1, 2, 1, 2, TRUE, 0 .. 2), Shape("HW2_NEW", 1, 2, 2, 1, TRUE, 0 .. 3),
    Shape("HW2_NEW", 2, 1, 1, 2, FALSE, 0 .. 2),
    Shape("HW2", 1, 2, 1, 2, FALSE, 0 .. 2), Shape("HW2", 1, 2, 2, 1, TRUE, 0 .. 3),
    Shape("HW2", 1, 1, 2, 2, TRUE, {0, 2, 4, 6}), Shape("HW2", 2, 1, 2, 2, FALSE, {0, 2, 4, 1}) }
=============================================================================
