\* The main consumer, the idle path and the coordinator in one conversation; every kind of event.
SPECIFICATION Spec
CONSTANTS
  c1 = c1
  c2 = c2
  main = main
  lane = lane
  Conversations = {c1}
  LastEvent = 2
  LastWake = 2
  Kinds = {"owner", "own_time", "completion"}
  Consumers = {main}
  Serves <- MCServes
  MaxAttempts = 2
  Disturbances = {"lapse", "effect", "throw", "defer"}
INVARIANTS
  HeldWake
  OneLeasePerConversation
  UnknownFenced
  CompletedHasSettlement
  OnlyDeferralOrphans
PROPERTIES
  OnlyHolderSettles
  ImplementsFence
\* Arrivals are bounded: once they are used up and settled, the system is at rest.
CHECK_DEADLOCK FALSE
