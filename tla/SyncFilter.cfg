SPECIFICATION FairSpec
CONSTANTS
  Children = {c1, c2}
  Det = Det
  Local = Local
  Setups <- MCSetups
  Timeout = 2
  MaxElapsed = 2
  MaxPackets = 2
  MaxFailures = 1
CHECK_DEADLOCK FALSE
INVARIANT ExactlyOnceInOrder
INVARIANT WaveAligned
INVARIANT NoWaveLeft
INVARIANT WaveComplete
PROPERTY HeldIsDelivered
