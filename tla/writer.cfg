SPECIFICATION FairSpec
CONSTANTS
  main = main
  h1 = h1
  h2 = h2
  text = text
  thinking = thinking
  Main = main
  Hooks = {h1, h2}
  Blocks = {text, thinking}
  NoBlock = NoBlock
  QueueCap = 2
  MaxBuf = 3
  MaxWrites = 3
INVARIANTS
  TypeOK
  TextTimed
  NoSendAfterClose
  HooksFirst
PROPERTIES
  IsChannel
  DeltasArrive
  CloseEnds
