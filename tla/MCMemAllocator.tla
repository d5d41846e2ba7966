--------------------------- MODULE MCMemAllocator ---------------------------
(* Model checking instance of MemAllocator.                                *)
EXTENDS MemAllocatorView

Region(s, n) == [start |-> s, size |-> n]

\* Three pool slots, the middle one absent from the linker script.
MCLinkerPools ==
  [i \in 0..2 |-> CASE i = 0 -> Region(7, 4) [] i = 1 -> Region(0, 0) [] i = 2 -> Region(16, 1)]

\* A table with one region more than the allocator keeps.
MCConfigs == {[i \in 0..3 |-> Region(4 * i + 2, IF i = 1 THEN 4 ELSE 1)]}

\* Every address of the linker pools and NULL.
MCPointers == {NULL} \cup 7..10 \cup {16}
=============================================================================
