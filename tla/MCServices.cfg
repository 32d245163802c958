\* Heap: splits with and without room for another header, every alignment, a
\* size that wraps.  Pages: two callers, one table reserved and three more; the
\* allocator stops for good once map_page has met a missing table.  Files: more
\* names than slots, a name and a content that do not fit.  Console: a screen of
\* one line on a ring of two, lines that wrap, a history of two, two commands at
\* once with interrupts on.
CONSTANTS
  HEAP_SIZE = 100
  Header = 12
  MinSplit = 16
  SIZE_MOD = 256
  Requests = {0, 7, 17, 40, 112, 255}
  Callers = {c1, c2}
  TOTAL_PAGES = 8
  PAGES_PER_TABLE = 2
  RESERVED = 2
  Counts = {0, 1, 2, 3}
  NoOne = NoOne
  MAX_FILES = 3
  FileNames = {"readme", "a", "b", "c", "long name"}
  FileContents = {"", "text", "long text"}
  TooLong = {"long name", "long text"}
  Empty = ""
  Preloaded <- MCPreloaded
  LOG_ENTRIES = 2
  TypedLevels = {0, 1, 7}
  Entries <- MCEntries
  Writers = {main, kill}
  TIMER_MAX_CALLBACKS = 3
  Callbacks = {f, g, h}
  NoCallback = NoCallback
  VGA_WIDTH = 2
  SCROLLBACK_LINES = 2
  VISIBLE_LINES = 1
  Garbled = Garbled
  SCROLL_STEP = 1
  MAX_BUFFER = 2
  HISTORY_SIZE = 2
  Chars <- MCChars
  SPACE = "_"
  Prompt <- MCPrompt
  Outputs <- MCOutputs
  Unmasked <- MCUnmasked
  Handlers = {k1, k2}
SPECIFICATION Spec
INVARIANTS
  Tiling
  Coalesced
  HeldIsTaken
  AllFreedIsInitial
  FreeCountExact
  GrantsDisjoint
  LogKeepsLatest
  CallsRegistered
  TypeOK
  TextReachable
  HistoryDistinct
PROPERTIES
  ImplementsFileStore
  TypedLineKept
CHECK_DEADLOCK FALSE
SYMMETRY MCSymmetry
