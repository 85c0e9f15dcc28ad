SPECIFICATION FairSpec
CONSTANTS
  Captures = {{}, {"out"}, {"err"}, {"out", "err"}}
  Programs = {"child", "daemon"}
  Main = "child"
  Capacity = 2
  Chunk = 2
  MaxWrites = 3
INVARIANTS
  TypeOK
  CapturedAll
  ReadsNeverBlock
PROPERTY Returns
CHECK_DEADLOCK FALSE
