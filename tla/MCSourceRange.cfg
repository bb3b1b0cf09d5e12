SPECIFICATION Spec

CONSTANTS
  main = main
  None = None
  Tags <- MCTags
  Listing <- MCListing
  PageSize = 2
  ConfigVersions <- MCVersions
  Branches <- MCBranches
  Initial <- MCInitial
  Expiration = 1
  Latency = 1
  MaxTime = 1
  MaxEvents = 1

INVARIANT RangeKeepsMajor
