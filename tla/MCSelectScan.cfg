SPECIFICATION Spec
CONSTANTS
  Entries = 3
  MaxTime = 3
  Hold = 2
INVARIANTS ScanIsSelect
PROPERTIES TimeOnlyPromotes FreshTurnoverKeepsSelection
