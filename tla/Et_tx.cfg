CONSTANTS
  one = one
  other = other
  two = two
  three = three
  tail = tail
  f = f
  h = h
  g = g
  NoPkt = NoPkt
  NTXD = 4
  NRXD = 2
  NRXPOST = 1
  Pkt = {two, three, tail, one}
  Descs <- MCDescs
  TailEmpty <- MCTailEmpty
  HeadEmpty <- MCHeadEmpty
  Frame = {}
  Giant = {}
  RXBND = 1
  DATAHIWAT = 2
  MaxErrors = 0
  MaxRequests = 3
SPECIFICATION Spec
CHECK_DEADLOCK FALSE
CONSTRAINT LateLoad
INVARIANTS TypeOK TxRingSound FetchesLive PacketsOwned TxavailSound BacklogHasWaker DownIsQuiet
PROPERTIES TransmitsInOrder WireGetsOldest
