SPECIFICATION Spec
CONSTANTS
  MAX_BLOCKS = 3
  MAX_MEM_REGIONS = 3
  U32_MAX = 7
  LinkerPools <- MCLinkerPools
  Configs <- MCConfigs
  Sizes = {0, 1, 2, 7}
  Alignments = {0, 2, 3}
  Pointers <- MCPointers
INVARIANTS
  TypeOK
  TablePacked
  LiveBlocksDisjoint
  LiveBlocksInRegion
  UsageExact
  LargestFreeExact
  AllocReturnsBlock
PROPERTY
  ImplementsAbstractHeap
