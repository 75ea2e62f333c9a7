SPECIFICATION FairSpec
CONSTANTS
  Windows = {w1}
  Listeners = {}
  Visibilities = {"visible", "gone"}
  MaxUpdates = 4
  MaxPending = 2
INVARIANTS HiddenWithToken
