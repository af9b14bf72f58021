SPECIFICATION Spec
CONSTANTS
  Tasks = {t1}
  MaxSpawns = 2
  MaxProactive = 1
  Stubborn = {FALSE}
PROPERTIES
  SwapSparesStopped
CHECK_DEADLOCK FALSE
