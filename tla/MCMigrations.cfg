SPECIFICATION Spec
CONSTANTS
  Scripts <- MCScripts
  Statements <- MCStatements
  Repeatable <- MCRepeatable
  Requires <- MCRequires
  MaxCrashes = 2
INVARIANTS
  RecordTells
  LaterOverKnown
CHECK_DEADLOCK FALSE
