SPECIFICATION FairSpec
CONSTANTS
  BufferCount = 3
  MaxSurfaces = 3
INVARIANTS NamesMatch HiddenFreesMemory
PROPERTIES CrashFreesMemory
CHECK_DEADLOCK FALSE
