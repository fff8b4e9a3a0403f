SPECIFICATION Spec
CONSTANTS
  p1 = p1
  p2 = p2
  v1 = v1
  v2 = v2
  n1 = n1
  n2 = n2
  n3 = n3
  Procs <- MCProcs
  Values <- MCValues
  Temps <- MCTemps
  NoValue = NoValue
  Torn = Torn
  Target = Target
  MaxKills = 1
INVARIANTS
  CallsAreApart
PROPERTIES
  ImplementsRegister
