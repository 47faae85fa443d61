SPECIFICATION FairSpec
CONSTANTS
  m1 = m1
  m2 = m2
  old = old
  NoMsg = NoMsg
  Msgs = {m1, m2}
  Images = {}
  MaxRuns = 2
  MaxRounds = 2
  MaxCalls = 2
  MaxFrames = 3
  Providers = {"anthropic", "gemini", "openai", "custom"}
  FrameKinds = {"append", "cancel", "passthrough", "leave"}
  Patient = TRUE
  Threads <- NewThread
INVARIANTS
  PendingBacked
  UISettles
PROPERTIES
  RunsEnd
