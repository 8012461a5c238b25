\* Deadlock is not checked: after the exit, or with every call made, all threads rest.
CHECK_DEADLOCK FALSE
SPECIFICATION Spec
CONSTANTS
  Callers = {c1, c2}
  Workers = {w1, w2}
  Sizes = {3}
  Grains = {0, 2}
  Main = Main
  None = None
  MaxCalls = 2
  MaxThrows = 1
INVARIANTS NoStaleBody
PROPERTIES JobIsStable ImplementsLoop EveryCallReturns ExitTerminates
