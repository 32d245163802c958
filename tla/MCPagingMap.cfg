\* One caller of alloc_page_user.
CONSTANTS
  Callers = {c1}
  TOTAL_PAGES = 6
  PAGES_PER_TABLE = 2
  RESERVED = 2
  Counts = {1}
  NoOne = NoOne
SPECIFICATION PagingFairSpec
CHECK_DEADLOCK FALSE
PROPERTY AllocReturns
