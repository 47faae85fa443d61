SPECIFICATION Spec
CONSTANTS
  m1 = m1
  m2 = m2
  old = old
  NoMsg = NoMsg
  Msgs = {m1, m2, old}
  Images = {m2}
  MaxRuns = 2
  MaxRounds = 2
  MaxCalls = 1
  MaxFrames = 3
  Providers = {"anthropic"}
  FrameKinds = {"append", "retry", "edit", "leave"}
  Patient = FALSE
  Threads <- AnyThread
INVARIANTS
  TypeOK
  InflightBacked
  SingleRunUnlessCancelled
  RequestsWellFormed
  AnswersReachThread
