\* Selector routing; the sender is the dialer or the passive side.
CONSTANTS
  None = None
  Lane = {l1, l2}
  First = l1
  Fragile = {l1}
  SenderDials = TRUE
  Bond = FALSE
  OffsetLimit = 2
  SegMax = 1
  FwdMax = 2
  BackMax = 1
  W = 2
  Floor = 1
  Windows = {0, 2}
  MayDrop = FALSE
  MayClose = TRUE
  Variants = {"dialer", "passive"}
SPECIFICATION MCSpec
INVARIANTS AckedIsDelivered NoByteForgotten SelectorInOrder NoWindowStall  NoViolation FinIsEnd
CHECK_DEADLOCK FALSE
