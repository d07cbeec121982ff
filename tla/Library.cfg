SPECIFICATION LibrarySpec
CONSTANTS
  TSO = {t1, t2, t3, t4}
  END_TSO_QUEUE = END
  Threads = {u1, u2}
  NumBytes = 2
  ByteBits = 1
  Budget = 2
  Calls <- MCCalls
  USE_SYNC_FETCH_AND_NAND = FALSE
  HAVE_C11_ATOMICS = FALSE
  NumBlocks = 4
  MaxChar = 6
  Kinds = {"poll", "select", "console", "default", "pipe", "disk"}
  MaxMsecs = 2
  US = 2
  MS = 4
  SecMs = 2
  IntMax = 1
  INFINITE = 2
  Horizon = 11
  MaxInput = 1
  Bytes = {65, 128, 144, 160, 195, 224, 226, 237, 240, 244}
  Runs = {0, 4}
  MaxChunk = 2
  MaxBytes = 5
  JsonBytes = {56, 92, 100, 110, 117, 128, 195}
  LastBytes = {56, 110}
  MaxUnits = 2
  MaxLines = 3
INVARIANTS
  RunQueueLinked
  FoundIfInside
  UnicodeSound
  BarriersSound
  FdSound
  TextSound
  UnlitSound
  NumbersSound
PROPERTIES
  ImplementsAtomicObject
CHECK_DEADLOCK FALSE
