SPECIFICATION FairSpec
CONSTANTS
  UnrollFactor = 3
  MaxEvents = 5
  MaxIn = 2
  MaxHeld = 2
INVARIANTS
  Faithful
  Recoverable
  ContextsMatchProgram
PROPERTIES
  EngineReturns
  KeepsPromise
