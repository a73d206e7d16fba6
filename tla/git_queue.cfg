CONSTANTS
  Root = root
  Subs = {sub}
  UserOps = {"Rename", "Pull", "FullDiff"}
  MaxAsks = 2
  MaxChanges = 1
SPECIFICATION FairSpec
INVARIANTS TypeOK NoLostWakeup OneRepository StaleIsRefreshed
PROPERTIES ShownSpec PanelCatchesUp
CHECK_DEADLOCK FALSE
