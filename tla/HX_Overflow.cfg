CONSTANTS
  Fds = {1, 3, 9, 4}
  NSlots = 3
  GetHash <- MCGetHash
  Step = 2
  AllocMayFail = TRUE
SPECIFICATION Spec
INVARIANT MemorySafe
