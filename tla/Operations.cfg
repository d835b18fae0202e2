CONSTANTS
  NoContract = NoContract
  MaxRuns = 2
  MaxNonce = 3
  BatchSize = 2
  MaxLen = 3
  SaveEvery = 2
  MaxUpdates = 3
  Whole = 2
  DecayNum = 1
  DecayDen = 2
  Undecided = Undecided
SPECIFICATION Spec
INVARIANTS ReceiverIsOurs RerunReplaces ReadyIsServed OnPolicy RestartLosesLittle PosteriorForgets OperationsInv
