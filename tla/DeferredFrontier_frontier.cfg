\* Two messages and a completion, calls of any length, hints past the deadline, a crash.
SPECIFICATION FairSpec
CONSTANTS
  LastEvent = 2
  LastCycle = 2
  FrontierLease = 1
  MaxWait = 2
  LongestHint = 3
  ClaimLease = 3
  MaxPasses = 1
  MaxAttempts = 2
  MaxCrashes = 1
INVARIANTS
  TypeOK
  OneThinker
PROPERTIES
  FrontierEnds
