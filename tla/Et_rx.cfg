CONSTANTS
  one = one
  other = other
  two = two
  three = three
  tail = tail
  f = f
  h = h
  g = g
  NoPkt = NoPkt
  NTXD = 2
  NRXD = 4
  NRXPOST = 3
  Pkt = {one, other}
  Descs <- MCDescs
  TailEmpty <- MCTailEmpty
  HeadEmpty <- MCHeadEmpty
  Frame = {f, h, g}
  Giant = {g}
  RXBND = 1
  DATAHIWAT = 2
  MaxErrors = 1
  MaxRequests = 1
SPECIFICATION FairSpec
CHECK_DEADLOCK FALSE
CONSTRAINT LightLoad
INVARIANTS RxRingSound HandOver
PROPERTIES StackGetsOldest FramesTaken PacketsFreed
