SPECIFICATION FairSpec
CONSTANTS
  o = o
  a = a
  b = b
  c = c
  r = r
  t1 = t1
  t2 = t2
  None = None
  Nodes = {o, a, b, r}
  Sets <- TwoAccounts
  SetSizeWithOutDelta <- TwoAccountsSizes
  ExcludedSets = {}
  Responders = {o, a, b, r}
  Hashes = {t1}
  Operator = o
  Faulty = {}
  FaultyVotes <- NoFaultyVotes
  FaultyQcBits = {}
  Tesseract = t1
  FailingNodes = {}
  ExpiringNodes = {}
PROPERTY
  OperatorCommits
CHECK_DEADLOCK FALSE
