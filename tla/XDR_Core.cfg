CONSTANTS
  Objs = {o1, o2, o3}
  Null = Null
  Codes = {k1, k2}
  Mapped = {k1}
  AllocMayFail = TRUE
  CommonMayFail = TRUE
SPECIFICATION Spec
INVARIANTS TypeOK NoLeak HeldAreDecoded
