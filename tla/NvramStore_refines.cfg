CONSTANTS
  a = a
  b = b
  s = s
  empty = empty
  x = x
  z = z
  Name = {a, s}
  Value = {x, z}
  NBucket = 2
  Hash <- MCHash
  NameLen <- MCNameLen
  ValueLen <- MCValueLen
  NVRAM_SPACE = 12
  HeaderSize = 1
  SdramSeq <- MCSdramSeq
  SdramDefault <- MCSdramDefault
  Reformat <- MCReformat
  BootImage <- MCBootImage
  CfeNames = {}
  KmallocOutcome = {TRUE}
  Reader = {r1}
  NULL = NULL
SPECIFICATION Spec
INVARIANT ReaderIntact
PROPERTY ImplementsMap
