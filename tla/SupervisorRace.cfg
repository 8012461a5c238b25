\* Two supervisors started at the same time; no kill is needed.
CHECK_DEADLOCK FALSE
SPECIFICATION Spec
CONSTANTS
  Supervisors = {s1, s2}
  Overlap = TRUE
  NoDir = NoDir
  NoPid = NoPid
  MaxStarts = 1
  MaxKills = 0
INVARIANTS SingleInstance
