\* CHECK_DEADLOCK FALSE: a fault ends the behaviour.
SPECIFICATION Spec
CONSTANTS
  Files = {f1, f2}
  Words <- MCWords
  Errors <- MCErrors
  Nothing = Nothing
SYMMETRY Symmetry
CHECK_DEADLOCK FALSE
INVARIANTS
  TypeOK
  IsPercent
  AnswersOwn
  FaultNeedsBadInitOrUnplug
