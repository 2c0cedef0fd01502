\* A call buffer of 32 bytes, so that argument lists end on both sides of its bound; a handler of up to four allocations.
SPECIFICATION Spec
CONSTANTS
  Tables <- TablesDef
  Paths <- PathsDef
  Methods = {"GET", "HEAD", "POST", "OPTIONS"}
  Values <- ValuesDef
  MaxArgs = 3
  BodyMax = 32
  Behind <- BehindDef
  Messages <- MessagesDef
  FirstChunk = 16384
  Limits <- LimitsDef
  Sizes <- SizesDef
  MaxAllocs = 4
CHECK_DEADLOCK FALSE
INVARIANTS
  RouterChoosesFirst
  RouterParamsRebuildPath
  ArenaBlocksApart
  SfArgsArrive
  SfTruncatedRejected
  SfAnswerArrives
