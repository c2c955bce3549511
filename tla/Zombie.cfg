SPECIFICATION Spec
CONSTANTS
  UnrollFactor = 2
  MaxEvents = 6
  MaxIn = 1
  MaxHeld = 1
INVARIANTS
  TypeOK
  Faithful
  StackOK
  Dense
  ReplayInReach
  TargetsDecrease
  ContextsDisjoint
  ContextsMatchProgram
  Recoverable
  ReplayOnlyRepeats
