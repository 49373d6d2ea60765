SPECIFICATION FairSpec
CONSTANTS
  Base = 16
  IHAVEOPT <- Magic
  Exports <- Names
  None = None
  SHARED_BUFFER_SIZE = 24
  DEFAULT_INITIAL_LENGTH = 1
  HeapLimit = 64
  Streams <- AllStreams
  NetworkFails = TRUE
INVARIANTS TypeOK HeapInBounds OptionAsSent NothingPending
PROPERTIES NegotiationImplemented EntersTransmission
