SPECIFICATION Spec
CONSTANTS
  Handler = {h1, h2}
  MaxEntry = 3
  FirstCapacity = 2
  NULL = NULL
CHECK_DEADLOCK FALSE
INVARIANTS TypeOK PublishedOnce DiesOfAReply
PROPERTY PublishedNext
