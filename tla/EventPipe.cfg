SPECIFICATION FairSpec
CONSTANTS
  Producers <- TwoProducers
  MaxBuffer = 3
CHECK_DEADLOCK FALSE
INVARIANT NotificationNotLost
INVARIANT PipeMatchesFlag
PROPERTY DataNoticed
