SPECIFICATION Spec

CONSTANTS
  a1 = a1
  a2 = a2
  a3 = a3
  n1 = n1
  n2 = n2
  n3 = n3
  v1 = v1
  v2 = v2
  Apps = {a1, a2}
  Names = {n1, n2}
  Versions = {v1}
  None = None
  Draughtsman = Draughtsman
  Unknown = Unknown
  Project = p1
  Projects = {p1}
  StableName <- MCStableName
  Events = {"edit", "fail"}
  MaxEvents = 2

INVARIANT NoLeak
