CONSTANTS
  Base = 4
  NBD_REQUEST_MAGIC <- RequestMagic
  NBD_REPLY_MAGIC <- ReplyMagic
  SHARED_BUFFER_SIZE = 60
  DEFAULT_INITIAL_LENGTH = 3
  ReadRequestSize = 2
  Sessions <- AllSessions
  NetworkFails = TRUE
SPECIFICATION FairSpec
INVARIANTS TypeOK HeapHoldsQueue NothingWaits BufferInBounds ReadsInDevice
PROPERTIES ServiceImplemented AllAnswered
