SPECIFICATION MCHandoverSpec

CONSTANTS
  a1 = a1
  a2 = a2
  n1 = n1
  n2 = n2
  v1 = v1
  Apps = {a1, a2}
  Names = {n1, n2}
  Versions = {v1}
  None = None
  Draughtsman = Draughtsman
  Unknown = Unknown
  Project = p1
  Project2 = p2
  Projects = {p1, p2}
  StableName <- MCStableName
  Events = {"edit", "fail"}
  MaxEvents = 2

CHECK_DEADLOCK FALSE
INVARIANT HandoverInductive
PROPERTY WritesFollow
PROPERTY ForgetsOnlyOthers
PROPERTY ServedUnlessOutdated
PROPERTY HandoverConverges
