SPECIFICATION Spec
CONSTANTS
  p1 = p1
  p2 = p2
  s1 = s1
  s2 = s2
  t1 = t1
  NoTask = NoTask
  Procs = {p1}
  Restored <- DecisionsFailures
  HandoffKinds <- DecisionsFailures
  Kinds = {"decisions", "failures", "surfacings"}
  Stmts = {s1}
  SplitStmts = {}
  Records <- MCRecords
  Split <- MCSplit
  Transcripts = {}
  Tasks = {t1}
  Ops = {"remember", "supersede", "resolve", "task", "snapshot", "restore"}
  OneWriter = TRUE
  Cuts = {"json", "junk"}
  MaxLines = 3
  MaxTorn = 1
  MaxId = 3
  MaxSnaps = 2
INVARIANTS
  TypeOK
  NoDuplicateIds
  RestoreIsComplete
PROPERTIES
  ImplementsLog

  SnapshotsAreFinal
