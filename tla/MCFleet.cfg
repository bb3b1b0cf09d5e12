SPECIFICATION MCFleetSpec

CONSTANTS
  a1 = a1
  a2 = a2
  v1 = v1
  x = x
  y = y
  z = z
  dash = dash
  dot = dot
  Apps = {a1, a2}
  Versions = {v1}
  None = None
  Draughtsman = Draughtsman
  Unknown = Unknown
  Project = p1
  Projects = {p1}
  Alnum = {x, y, z}
  Dash = dash
  Dot = dot
  HashLen = 1
  MaxLen = 4
  Digest <- MCDigest
  Names <- MCNames
  StableName <- MCStableName
  StableName2 <- MCStableName2
  Events = {"edit", "delete", "fail"}
  MaxEvents = 3

CHECK_DEADLOCK FALSE
INVARIANT FleetInductive
PROPERTY FleetKeepsLedger
PROPERTY FleetConverges
PROPERTY FleetDeletes
