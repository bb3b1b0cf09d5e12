SPECIFICATION Spec

CONSTANTS
  main = main
  None = None
  Tags <- MCTagsOne
  Listing <- MCListingOne
  PageSize = 1
  ConfigVersions <- MCVersions
  Branches <- MCBranches
  Initial <- MCInitialBare
  Expiration = 1
  Latency = 1
  MaxTime = 4
  MaxEvents = 2

INVARIANT TypeOK
INVARIANT Inductive
INVARIANT RightKind
INVARIANT TagNotTooOld
INVARIANT FilesNotTooOld
PROPERTY CallReturns
