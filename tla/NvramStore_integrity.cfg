CONSTANTS
  a = a
  b = b
  s = s
  empty = empty
  x = x
  z = z
  Name = {a, b, s}
  Value = {empty, x}
  NBucket = 2
  Hash <- MCHash
  NameLen <- MCNameLen
  ValueLen <- MCValueLen
  NVRAM_SPACE = 8
  HeaderSize = 1
  SdramSeq <- MCSdramSeq
  SdramDefault <- MCSdramDefault
  Reformat <- MCReformat
  BootImage <- MCBootImage
  CfeNames = {a}
  KmallocOutcome = {TRUE, FALSE}
  Reader = {}
  NULL = NULL
SPECIFICATION Spec
INVARIANTS TypeOK TuplesIntact ChainsSound ImageInSpace RehashHasRoom SetTakesEffect TuplesBounded
