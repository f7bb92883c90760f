\* One message, whose frontier outlives a crash during its pass.
SPECIFICATION FairSpec
CONSTANTS
  LastEvent = 1
  LastCycle = 1
  FrontierLease = 1
  MaxWait = 2
  LongestHint = 3
  ClaimLease = 3
  MaxPasses = 1
  MaxAttempts = 2
  MaxCrashes = 1
PROPERTIES
  RefusedRetries
