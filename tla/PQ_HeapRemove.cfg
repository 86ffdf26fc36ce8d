CONSTANTS
  Vals = {1, 2, 3}
  Fresh = {1, 2, 3}
  GrowSize = 2
  MaxCap = 6
  W = 8
  Ops = {"add", "removeFirst", "remove"}
SPECIFICATION Spec
INVARIANT HeapOrdered
