SPECIFICATION Spec
CONSTANTS
  lib = lib
  tests = tests
  package = package
  top = top
  ui = ui
  db = db
  User = User
  Item = Item
  run = run
  load = load
  test_run = test_run
  Files <- MCFiles
  Names <- MCNames
  Blank = Blank
  ModuleOf <- MCModuleOf
  TestFiles = {tests}
  TestNames = {test_run}
  Sources <- MCSources
  Gone = Gone
  MaxEdits = 1
  MaxCrashes = 0
INVARIANTS
  CallsNeverDropped
