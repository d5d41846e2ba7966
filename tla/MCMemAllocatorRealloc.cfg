SPECIFICATION Spec
CONSTANTS
  MAX_BLOCKS = 2
  MAX_MEM_REGIONS = 3
  U32_MAX = 7
  LinkerPools <- MCLinkerPools
  Configs <- MCConfigs
  Sizes = {0, 1, 2, 7}
  Alignments = {0, 2, 3}
  Pointers <- MCPointers
INVARIANT
  ReallocReturnsBlock
