CONSTANTS
  Root = root
  Subs = {}
  UserOps = {"Stage", "Push"}
  MaxAsks = 2
  MaxChanges = 0
SPECIFICATION Spec
PROPERTIES FirstSuccessIsThePull
CHECK_DEADLOCK FALSE
