SPECIFICATION MCSpec
CONSTANTS
  r1 = r1
  r2 = r2
  r3 = r3
  p1 = p1
  p2 = p2
  Procs <- MCProcs
  Kinds = {"decisions"}
  Records <- MCRecords
  Split = {r3}
  Cuts = {"json", "junk", "raw"}
  MaxLines = 3
  MaxTorn = 2
SYMMETRY ProcSymmetry
INVARIANTS
  LogTypeOK
  AckedRetained
  LossIsReported
PROPERTIES
  HistoryIsFixed
