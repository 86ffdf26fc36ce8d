CONSTANTS
  v1 = v1  v2 = v2  v3 = v3  v4 = v4  v5 = v5  v6 = v6
  s1 = s1  s2 = s2  a1 = a1  a2 = a2
  P1 = P1  P2 = P2  Root = Root
  NoAvm = NoAvm  NoServer = NoServer
  Vars = {v1, v2, v3, v4, v5, v6}
  Servers = {s1, s2}
  Avms = {a1, a2}
  Pkgs = {Root, P1, P2}
  SubPkgs <- MCSubPkgs
  VarsOf <- MCVarsOf
  ServerOf <- MCServerOf
  VarAvm <- MCVarAvm
  PkgAvm <- MCPkgAvm
  ServerAvm <- MCServerAvm
  ClientAvm = a1
  Dirty = {v1, v3, v4, v5, v6}
  DirtyOnly = TRUE
  AllocMayFail = TRUE
SPECIFICATION Spec
INVARIANT ValidMeansComplete
