SPECIFICATION Spec
CONSTANTS
  lib = lib
  tests = tests
  package = package
  top = top
  ui = ui
  db = db
  User = User
  Item = Item
  run = run
  load = load
  test_run = test_run
  Files <- MCFiles
  Names <- MCNames
  Blank = Blank
  ModuleOf <- MCModuleOf
  TestFiles = {tests}
  TestNames = {test_run}
  Sources <- MCSources
  Gone = Gone
  Within <- MCWithin
  SearchLimit = 4
  FallbackLimit = 2
  Private = {}
  Top = top
  Packages <- MCPackages
  Allowed <- MCAllowed
  Core = "core"
  Marked = {}
  ManyCallers = 2
  ManyImporters = 1
  MaxEdits = 1
  MaxCrashes = 1
INVARIANTS
  TypeOK
  NodesMatchRecord
  IncrementalAgrees
  ForceRepairs
  VerdictsAreBacked
  FreshVerdictsAreRight
PROPERTIES
  IngestIsIdempotent
