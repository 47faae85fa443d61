SPECIFICATION Spec
CONSTANTS
  Threads <- AnyThread
  Configured = TRUE
  Commands = {"retry", "edit", "cancel", "delete"}
  MaxConns = 3
  MaxRuns = 3
INVARIANTS
  TypeOK
  AnswersStored
PROPERTIES
  NothingLost
CONSTRAINT
  StillCalm
