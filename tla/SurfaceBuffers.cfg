SPECIFICATION FairSpec
CONSTANTS
  BufferCount = 2
  MaxSurfaces = 3
INVARIANTS EveryBufferInOnePlace ShownIsCurrent RingHoldsKeyOnce
PROPERTIES RefillErasesNothing ImplementsOwnership BuffersComeBack
