SPECIFICATION FairSpec
CONSTANTS
  Tasks = {t1}
  MaxSpawns = 1
  MaxProactive = 0
  Stubborn = {TRUE}
PROPERTIES
  SignalledEnds
CHECK_DEADLOCK FALSE
