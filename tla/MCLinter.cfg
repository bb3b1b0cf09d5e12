SPECIFICATION Spec

CONSTANTS
  i1 = i1
  i2 = i2
  a1 = a1
  a2 = a2
  p1 = p1
  p2 = p2
  r = r
  t1 = t1
  t2 = t2
  n1 = n1
  Installations <- MCInstallations
  Apps <- MCApps
  Paths <- MCPaths
  Nodes = {r}
  Under <- MCUnder
  Texts = {t1, t2}
  Falsy = {t2}
  Includes = {n1}
  None = None
  Failed = Failed
  InitialFiles <- MCInitialFiles
  Lines <- MCLines
  Options <- MCOptions
  MaxCommits = 2

INVARIANT NoCiphertext
INVARIANT NeverConfiguredFails
INVARIANT PatchErrorsMatch
INVARIANT CleanGenerates
PROPERTY EditsAreLocal
PROPERTY AdviceIsSafe
PROPERTY AdviceComesToAnEnd
CHECK_DEADLOCK FALSE
