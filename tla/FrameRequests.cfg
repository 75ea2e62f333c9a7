SPECIFICATION RequestsFairSpec
CONSTANTS
  BufferCount = 2
  MaxSurfaces = 2
  RegionCount = 2
  MaxVersion = 2
INVARIANTS FrameIsAsked NewestIsWhole ScreenIsUi
PROPERTIES DrawnUnseen NeverOlder PictureArrives
