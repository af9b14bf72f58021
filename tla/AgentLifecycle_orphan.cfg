SPECIFICATION Spec
CONSTANTS
  Tasks = {t1}
  MaxSpawns = 2
  MaxProactive = 0
  Stubborn = {FALSE}
INVARIANTS
  KilledIsSignalled
CHECK_DEADLOCK FALSE
