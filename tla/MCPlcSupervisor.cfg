SPECIFICATION Spec
CONSTANTS
  x = x
  y = y
  none = none
  a = a
  b = b
  Vars <- MCTwoVars
  Overrun <- MCOverrun
  Interests <- MCInterests
  Values = {0, 1}
  InitValue = 1
  NoValue = none
  Setters <- MCSetters
  Watchers <- MCTwoClients
  MaxRestarts = 1
  MaxWrites = 2
SYMMETRY MCClientSymmetry
INVARIANTS MirrorsAgree ClientsAgree SkipsBounded TerminateTellsAll
CHECK_DEADLOCK FALSE
