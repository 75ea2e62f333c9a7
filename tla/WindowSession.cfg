SPECIFICATION FairSpec
CONSTANTS
  Windows = {w1}
  Listeners = {w1}
  Visibilities = {"visible", "gone"}
  MaxUpdates = 5
  MaxPending = 2
INVARIANTS NoLostWakeup PeriodicIsWanted ShownWithToken
PROPERTIES FramesArrive
