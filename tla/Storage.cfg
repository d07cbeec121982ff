SPECIFICATION StorageSpec
CONSTANTS
  Dynamic = {1, 2, 3, 4, 5, 6}
  NonMoved = {7}
  Limit = 7
  Heaps <- MCHeaps
  BlockClosures = 2
  MaxCalls = 3
  Small = {1, 2, 3}
  Arities = {0, 2}
  StaticArities = {1}
  Addresses = {1, 2, 3}
  Places <- LowestFree
  Plain = {v}
  Fns = {f, g}
  MaxCallbacks = 2
  MaxStable = 2
  MaxRunning = 1
  MaxCollections = 1
  OneShots = {FALSE, TRUE}
  Keeps = {FALSE}
  None = None
  NamedObjects = {"object", "thunk1", "thunk2"}
  Selectors = {"thunk1", "thunk2"}
  Tags = {0, 1}
  MaxNames = 4
  BLOCK_SHIFT = 2
  MBLOCK_SHIFT = 3
  BDESCR_SHIFT = 0
  W = 1
  MaxWord = 1024
  Objects = {"o1", "o2"}
  Sizes = {3, 5}
  NumMblocks = 6
  FreePlaces = 2
  gcThreshold = 4
  NoGroup = None
  Descriptors = {"b1", "b2", "b3", "b4"}
  Lists = {"large_objects", "scavenged"}
  NULL = None
  MUT_ARR_PTRS_CARD_BITS = 1
  WordBytes = 1
  WordBits = 8
  MemWords = 12
  MaxArrays = 2
  MaxElems = 2
  Contents = {"v1", "v2"}
  MaxArrayCollections = 1
INVARIANTS
  CollectionSound
  CopiedOnce
  OnlyPoolsLeft
  TablesSound
  PointersKept
  HeapSound
  NamesSound
  BackLinks
  ArraysSound
PROPERTIES
  CollectionsKeep
  ImplementsSequences
CHECK_DEADLOCK FALSE
