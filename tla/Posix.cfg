CONSTANTS
  t1 = t1
  t2 = t2
  c1 = c1
  c2 = c2
  c3 = c3
  Willing = {1, 2}
  Asked <- TwoProcs
  AskedOfWaves <- ThreeInWaves
  Threads <- OneThread
  Children <- ThreeChildren
  Owner <- AllOwnedByOne
  HostReaps = FALSE
  NoPipe = NoPipe
  Preinstalled = NoPipe
SPECIFICATION SpecAny
INVARIANTS
  TypeOK
  NoLostWakeup
  ChainReachesHost
  DoneMeansReaped
  TypesOK
  SlotsExact
  StreamsComplete
  ReturnContracts
PROPERTY
  CallsReturn
