SPECIFICATION Spec
CONSTANTS
  Missing = Missing
  Torn = Torn
  Releases <- AllReleases
  Installed <- First
INVARIANTS
  TypeOK
  RunnableKept
  BackupIsPrevious
PROPERTY
  NeverOlder
CHECK_DEADLOCK FALSE
