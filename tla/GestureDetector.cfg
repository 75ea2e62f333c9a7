SPECIFICATION Spec
CONSTANTS
  Width = 5
  Height = 4
  Edge = 1
  Far = 3
INVARIANTS OneDirection
PROPERTIES ReleaseVerdict WholeTouch
