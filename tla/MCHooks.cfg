SPECIFICATION Spec
CONSTANTS
  p1 = p1
  p2 = p2
  s1 = s1
  s2 = s2
  t1 = t1
  NoTask = NoTask
  Procs <- MCProcs
  Restored <- Discoveries
  HandoffKinds <- Discoveries
  Kinds = {"discoveries", "surfacings"}
  Stmts <- MCStmts
  SplitStmts = {}
  Records <- MCRecords
  Split <- MCSplit
  Transcripts <- MCTranscripts
  Tasks = {t1}
  Ops = {"remember", "handoff", "hook"}
  OneWriter = FALSE
  Cuts = {"json", "junk"}
  MaxLines = 3
  MaxTorn = 1
  MaxId = 3
  MaxSnaps = 1
SYMMETRY ProcSymmetry
INVARIANTS
  HandoffIsHonest
  HookCaptures
PROPERTIES
  SnapshotIsComplete
  HookAddsOnlyNews
