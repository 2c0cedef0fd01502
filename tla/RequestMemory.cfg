\* The inputs of Request.cfg.
SPECIFICATION Spec
CONSTANTS
  Tables <- TablesDef
  Paths <- PathsDef
  Methods = {"GET", "HEAD", "POST", "OPTIONS"}
  Values <- ValuesDef
  MaxArgs = 3
  BodyMax = 32
  Behind <- BehindDef
  Messages <- MessagesDef
  FirstChunk = 16384
  Limits <- LimitsDef
  Sizes <- SizesDef
  MaxAllocs = 4
CHECK_DEADLOCK FALSE
INVARIANT MemoryLimitKept
