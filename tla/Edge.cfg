\* One component of the datagram path or of the l4 package per behaviour.
CONSTANTS
  Parts = {"packet", "udpflow", "ingress", "forward", "serving", "packetforward", "tcpserve"}
  MaxAge = 1
  BatchFrames = 2
  QueueMax = 2
  MaxRedo = 2
  PktPlans <- MCPktPlans
  FlowMax = 3
  MaxFlows = 2
  Quota <- MCQuota
  Inbox = 2
  Reserve = 1
  Tombs = 1
  FlowPlans <- MCFlowPlans
  OpenQueue = 1
  IngPlans <- MCIngPlans
  FwdPlans <- MCFwdPlans
  ServePlans <- MCServePlans
  PfPlans <- MCPfPlans
  StreamAfter = 1
  TcpPlans <- MCTcpPlans
SPECIFICATION MCSpec
INVARIANTS  FlowsExact  ForwardHonest ServedOnce FlowEndIsTrue ServeTcpExact
CHECK_DEADLOCK FALSE
