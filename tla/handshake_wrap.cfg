SPECIFICATION Spec
CONSTANTS
  Base = 16
  IHAVEOPT <- Magic
  Exports <- Names
  None = None
  SHARED_BUFFER_SIZE = 24
  DEFAULT_INITIAL_LENGTH = 1
  HeapLimit = 65535
  Streams <- LongStreams
  NetworkFails = TRUE
INVARIANTS OptionAsSent
