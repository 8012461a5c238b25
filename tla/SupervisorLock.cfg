\* Starts and stops one at a time, hard kills anywhere. Deadlock is not checked: with
\* the starts used up and every supervisor gone, nothing is left to happen.
CHECK_DEADLOCK FALSE
SPECIFICATION Spec
CONSTANTS
  Supervisors = {s1, s2, s3}
  Overlap = FALSE
  NoDir = NoDir
  NoPid = NoPid
  MaxStarts = 2
  MaxKills = 2
INVARIANTS SingleInstance
PROPERTIES StaleLockIsCleared
