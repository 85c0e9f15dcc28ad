SPECIFICATION Spec
CONSTANTS
  MaxU64 = 63
  Header = 4
  Page = 8
  ChunkSize = 8
  Bases = {8, 16}
  Sizes = {2, 4, 59}
  Alignments = {0, 8, 63}
  MaxLive = 2
  MaxTemps = 2
INVARIANT SlicesSound
CHECK_DEADLOCK FALSE
