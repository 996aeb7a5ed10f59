SPECIFICATION Spec
CONSTANTS
  Files = {f1}
  Texts = {t1, t2}
  Welcome = t1
  Nothing = Nothing
  Torn = Torn
  Spills <- MCSpills
  Cats <- NoCats
  MaxReads = 3
CHECK_DEADLOCK FALSE
INVARIANT
  ShowsText
