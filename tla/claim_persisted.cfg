SPECIFICATION Spec
CONSTANTS
  Threads <- AnyThread
  Configured = TRUE
  Commands = {}
  MaxConns = 2
  MaxRuns = 3
INVARIANTS
  AnswersPersisted
