\* Four clients; pscp, downloading, meets no trouble.
SPECIFICATION FairSpec
CONSTANTS
  Clients = {"get", "put", "pscp", "send"}
  Block = 2
  MaxTotal = 6
  Piece = 2
  Sizes = {0, 3, 6}
  MaxSize = 7
  AnyOrder = {"get", "put", "send"}
  Growing = {"get"}
  Failing = {"get", "put", "send"}
INVARIANTS CopiesWhole RepliesMatch
PROPERTIES TransferEnds
CHECK_DEADLOCK FALSE
