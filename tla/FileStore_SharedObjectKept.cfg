SPECIFICATION Spec
CONSTANTS
  Users = {u1, u2}
  Hashes = {h1}
  Names = {n1}
  FileIds = {f1, f2, f3}
  DocIds = {d1}
  Procs = {p1}
  Quota = 2
  None = None
  Size <- MCSize
PROPERTY SharedObjectKept
