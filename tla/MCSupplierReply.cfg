SPECIFICATION FairSpec
CONSTANTS
  Mails = {m1}
  Recoverers = {r1, r2}
  Console = Console
  Person = Person
  Answers = {plain, dearer}
  Deviating = {dearer}
  MaxAnalyses = 2
  MaxProjections = 2
  MaxDisturbances = 1
  Nothing = Nothing
INVARIANTS TypeOK RecordedOnce TwinIsOwed
CHECK_DEADLOCK FALSE
PROPERTIES   TwinCatchesUp
