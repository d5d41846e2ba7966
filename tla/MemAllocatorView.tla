-------------------------- MODULE MemAllocatorView --------------------------
(***************************************************************************)
(* The refinement mapping from MemAllocator to AbstractHeap: the table     *)
(* becomes the set of its live descriptors, the region table its bounds.   *)
(***************************************************************************)
EXTENDS MemAllocator

View(b) ==
  [start |-> b.start, size |-> b.size, actual_size |-> b.actual_size,
   region_id |-> b.region_id]

LiveView(h) == {View(h.blocks[i]) : i \in 0..h.block_count-1}

RegionView(h) ==
  [r \in DOMAIN h.regions |-> [start |-> h.regions[r].start, size |-> h.regions[r].size]]

Abstract == INSTANCE AbstractHeap WITH
  MaxLive <- MAX_BLOCKS,
  MaxSize <- U32_MAX,
  ready <- heap.initialized,
  regions <- RegionView(heap),
  live <- LiveView(heap),
  call <- call

\* The table-based first-fit allocator implements the abstract heap: it hands
\* out only free aligned places, in the first region that has one, and refuses
\* a request only when AbstractHeap allows it to.
ImplementsAbstractHeap == Abstract!Spec
=============================================================================
