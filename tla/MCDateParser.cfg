SPECIFICATION DateSpec
CONSTANTS
  Dates <- MCDates
  MaxIterations = 8
  MaxHops = 2
INVARIANTS SameInstant Normalized ReadsAsMeant KeepsDate
PROPERTIES ScanAdvances CallsAreBounded
