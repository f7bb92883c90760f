\* Two conversations under one consumer, with a host that does not crash for ever.
SPECIFICATION FairSpec
CONSTANTS
  c1 = c1
  c2 = c2
  main = main
  lane = lane
  Conversations = {c1, c2}
  LastEvent = 2
  LastWake = 2
  Kinds = {"owner"}
  Consumers = {main}
  Serves <- MCServes
  MaxAttempts = 2
  Disturbances = {"lapse", "crash", "throw", "fail", "reject", "age", "abstain", "transfer"}
INVARIANTS
  TypeOK
  LiveObligationHasLiveWake
  SupersededUnsettled
  HeldWake
PROPERTIES
  ClosedForGood
  OwnerAnswered
  LaneReleased
  WakeFinishes
\* Arrivals are bounded: once they are used up and settled, the system is at rest.
CHECK_DEADLOCK FALSE
