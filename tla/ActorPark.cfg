CONSTANTS
  None = None
  Conn = {a1}
  Adopt = {a1}
  Reply = {}
  Gor = {g1, g2}
SPECIFICATION Spec
INVARIANTS OneActor NoLostWakeup HandedOnce ExitJoined
CHECK_DEADLOCK FALSE
SYMMETRY GorSymmetry
