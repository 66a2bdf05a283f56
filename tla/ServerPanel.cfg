SPECIFICATION PanelFairSpec
CONSTANTS
  Servers = 2
  Conns = {c1}
INVARIANTS PanelTypeOK IdleMeansEveryServerIsDone RunningStatusIsCurrent OptimizeMeetsOnlyStragglers
PROPERTIES PanelNoticesTheEnd
CHECK_DEADLOCK FALSE
