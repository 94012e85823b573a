\* The flows of PacketForward alone, against the comment on the end error its pump meets.
CONSTANTS
  Parts = {"packetforward"}
  MaxAge = 1
  BatchFrames = 2
  QueueMax = 2
  MaxRedo = 2
  PktPlans <- MCPktPlans
  FlowMax = 3
  MaxFlows = 2
  Quota <- MCQuota
  Inbox = 2
  Reserve = 1
  Tombs = 1
  FlowPlans <- MCFlowPlans
  OpenQueue = 1
  IngPlans <- MCIngPlans
  FwdPlans <- MCFwdPlans
  ServePlans <- MCServePlans
  PfPlans <- MCPfPlans
  StreamAfter = 1
  TcpPlans <- MCTcpPlans
SPECIFICATION MCSpec
INVARIANTS ClosedIsLocal
CHECK_DEADLOCK FALSE
