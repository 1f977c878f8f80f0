SPECIFICATION Spec
CONSTANTS
  o = o
  a = a
  b = b
  c = c
  r = r
  t1 = t1
  t2 = t2
  None = None
  Nodes = {o, a, b, c, r}
  Sets <- OneAccount
  SetSizeWithOutDelta <- OneAccountSizes
  ExcludedSets = {}
  Responders = {o, a, b, c, r}
  Hashes = {t1}
  Operator = o
  Faulty = {}
  FaultyVotes <- NoFaultyVotes
  FaultyQcBits = {}
  Tesseract = t1
  FailingNodes = {}
  ExpiringNodes = {}
INVARIANT
  SentCertificatesVerify
CHECK_DEADLOCK FALSE
