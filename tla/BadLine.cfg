SPECIFICATION MCSpec
CONSTANTS
  r1 = r1
  r2 = r2
  r3 = r3
  p1 = p1
  p2 = p2
  Procs <- MCProcs
  Kinds = {"decisions"}
  Records <- MCRecords
  Split = {}
  Cuts = {"raw"}
  MaxLines = 2
  MaxTorn = 1
INVARIANTS
  BadLineContained
