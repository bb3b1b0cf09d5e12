SPECIFICATION LookupSpec

CONSTANTS
  c1 = c1
  n1 = n1
  n2 = n2
  w1 = w1
  w2 = w2
  v1 = v1
  v2 = v2
  Catalogs = {c1, releases}
  Unsupported = releases
  URLs = {u1, u2}
  AppNames = {n1, n2}
  AppVersions = {w1, w2}
  ConfigVersions = {v1, v2}
  Blank = Blank
  NoAnnotation = NoAnnotation
  Garbage = Garbage
  Pages <- MCPages
  None = None
  NotFound = NotFound
  Failed = Failed
  MaxEvents = 3

INVARIANT LookupTypeOK
INVARIANT AnswerWasServed
INVARIANT QuietCallIsExact
