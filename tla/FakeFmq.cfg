SPECIFICATION RingSpec
CONSTANTS
  RingIds <- MCIds
PROPERTIES ImplementsFifo
