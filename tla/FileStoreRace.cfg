\* Two users, two requests at a time on two file ids, one content, one document,
\* failures and crashes.
SPECIFICATION FairSpec
CONSTANTS
  Users = {u1, u2}
  Hashes = {h1}
  Names = {n1}
  FileIds = {f1, f2}
  DocIds = {d1}
  Procs = {p1, p2}
  Quota = 2
  None = None
  Size <- MCSize
INVARIANTS TypeOK QuotaHeldToCommit DeleteHoldsRow UsageExact
PROPERTIES ImplementsCatalog RequestsFinish
CHECK_DEADLOCK TRUE
