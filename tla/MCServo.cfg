CONSTANTS
  Servos = {"a", "b"}
  MaxTracker = 3
  Track = 12
  Zone = 1
  Fast = 3
  Slow = 1
  StopDistance = 2
  StopTicks = 3
  StallTicks = 6
  RevertTicks = 3
  Scenes <- MCScenes
SPECIFICATION FairSpec
INVARIANTS TypeOK Driven HomingTracked HomedOnSwitch HomedAtEnd LimitNeverHomes
PROPERTY HomingEnds
