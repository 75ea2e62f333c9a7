SPECIFICATION QueueSpec
CONSTANTS
  k1 = k1
  k2 = k2
  k3 = k3
  k4 = k4
  stranger = stranger
  BufferIds <- MCIds
  ForeignKeys <- MCForeign
INVARIANTS SlotsMatchStates
PROPERTIES KeepsCycle
