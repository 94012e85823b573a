\* Selector routing with a lane that dies, and bond routing, under fairness.
CONSTANTS
  None = None
  Lane = {l1, l2}
  First = l1
  Fragile = {l1}
  SenderDials = TRUE
  Bond = FALSE
  OffsetLimit = 2
  SegMax = 1
  FwdMax = 1
  BackMax = 1
  W = 2
  Floor = 1
  Windows = {2}
  MayDrop = FALSE
  MayClose = FALSE
  Variants = {"dialer", "bond"}
SPECIFICATION MCFairSpec
PROPERTIES Delivered
CHECK_DEADLOCK FALSE
