SPECIFICATION Spec
CONSTANTS
  Files = {"code", "mark"}
  Lines = {"bad", "dos", "good", "page"}
  Newlines <- MCNewlines
  Split = {"page"}
  Specs <- MCSpecs
  Work <- MCWork
  Score <- MCScore
  Keys = {"success", "m"}
  Values = {0, 1, 2, NaN}
  None = None
  NaN = NaN
  Fixtures <- MCFixtures
  Edited = {"absent"}
  MinTrials = 2
  MaxRuns = 2
  MaxEdits = 1
  MaxChecks = 1
CHECK_DEADLOCK FALSE
INVARIANTS
  TypeOK
  ReportIsBacked
  PublishedRederives
  PassedBacksReport
  RealDifferencesAreThere
