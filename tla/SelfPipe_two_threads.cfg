CONSTANTS
  t1 = t1
  t2 = t2
  c1 = c1
  c2 = c2
  c3 = c3
  Willing = {1, 2}
  Asked <- TwoProcs
  AskedOfWaves <- ThreeInWaves
  Threads <- TwoThreads
  Children <- TwoChildren
  Owner <- OneChildEach
  HostReaps = FALSE
  NoPipe = NoPipe
  Preinstalled = t1
SPECIFICATION SpecPipe
INVARIANT NoLostWakeup
