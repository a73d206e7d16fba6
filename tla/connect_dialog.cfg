CONSTANTS
  MaxAttempts = 2
  MaxSilent = 3
SPECIFICATION FairSpec
INVARIANTS TypeOK FacadeFollows ConnectIsTimed
PROPERTIES ConnectEnds DialogNeverHangs LostOnlyInSilence
CHECK_DEADLOCK FALSE
