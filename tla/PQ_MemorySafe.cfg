CONSTANTS
  Vals = {1, 2, 3}
  Fresh = {1, 2, 3}
  GrowSize = 2
  MaxCap = 4
  W = 8
  Ops = {"add", "removeFirst"}
SPECIFICATION Spec
INVARIANT MemorySafe
