SPECIFICATION RingSpec
CONSTANTS
  BUF_CAPACITY = 3
  Byte = {0, 1}
  MaxCount = 7
PROPERTIES
  QueueSpec
