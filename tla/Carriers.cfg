\* One component of the carrier layer per behaviour.
CONSTANTS
  Parts = {"trunk", "rounds", "cut rounds", "pool", "rel", "depth"}
  MaxHandle = 2
  MaxData = 1
  MaxExpire = 1
  Plans <- MCTrunkPlans
  N = 2
  Seg = 2
  Quantum = 2
  Budget = 3
  MaxFrames = 3
  Capacity = 3
  Att = {1, 2, 3}
  PoolPlans <- MCPoolPlans
  RelWindow = 2
  RelFirstKeep = 1
  SeqMod = 16
  FirstCseq = 15
  RelPlans <- MCRelPlans
  HdrCap <- MCHdrCap
  DepthMax = 8
  DepthPlans <- MCDepthPlans
SPECIFICATION MCSpec
INVARIANTS TrunkRules  PoolExact  
CHECK_DEADLOCK FALSE
