SPECIFICATION Spec
CONSTANTS
  Runs = {r1, r2}
  Agent = agent
  MaxMessages = 4
  MaxApart = 1
  MaxFaults = 1
SYMMETRY Symmetry
INVARIANTS
  TypeOK
  EscalationsAreEarned
  ThirdRefusalEndsFlow
  TriesOnlyWhileActive
  TriesAreExplained
