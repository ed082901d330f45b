CONSTANTS
  Call = {c1, c2}
  Fd <- MCFd
  App = App
  Free = Free
  NoWorker = NoWorker
  Job <- MCJob
  PipeCapacity = 1
  SigpipeIgnored = TRUE
  NoFd = NoFd
SPECIFICATION MCSpec
SYMMETRY Symmetric
INVARIANTS
  OnlyOwnEnds
  CallsReturn
  SlotsValid
  ReturnLeavesNothing
  TrueMeansComplete
CHECK_DEADLOCK FALSE
