SPECIFICATION Spec
CONSTANTS
  o = o
  a = a
  b = b
  c = c
  r = r
  t1 = t1
  t2 = t2
  None = None
  Nodes = {o, a, b, c, r}
  Sets <- OneAccount
  SetSizeWithOutDelta <- OneAccountSizes
  ExcludedSets = {}
  Responders = {o, a, b, c, r}
  Hashes = {t1, t2}
  Operator = o
  Faulty = {o, r}
  FaultyVotes <- VotesToOne
  FaultyQcBits <- OperatorQcBits
  Tesseract = t1
  FailingNodes = {b}
  ExpiringNodes = {c}
INVARIANTS
  Agreement
  OneMajorityPerView
  TypeOK
  CommitMeansLocked
  
  PanicForgetsNoVote
PROPERTY
  ImplementsDecision
CHECK_DEADLOCK FALSE
