SPECIFICATION Spec
CONSTANTS
  t1 = t1
  Ids = {t1}
  MaxV = 3
  MaxUploads = 3
  MaxArrivals = 2
  MaxStarts = 3
  Unreadable = Unreadable
INVARIANTS
  TypeOK
  NothingLost
  FileCaughtUp
  DeletedStaysDeleted
CHECK_DEADLOCK FALSE
