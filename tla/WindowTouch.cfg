SPECIFICATION Spec
CONSTANTS
  Reports = {TRUE, FALSE}
  Visibilities = {"visible", "hold", "gone"}
  MaxUpdates = 4
  MaxPending = 2
  QueueSize = 2
INVARIANTS
  OneAnimation
  TouchAgrees
PROPERTIES
  HideIsTold
  RemovalGoesOn
\* The window may be gone, and its app with it.
CHECK_DEADLOCK FALSE
