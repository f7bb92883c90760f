\* An Owner message composes into the cycle of a completion, which abstains.
SPECIFICATION Spec
CONSTANTS
  c1 = c1
  c2 = c2
  main = main
  lane = lane
  Conversations = {c1}
  LastEvent = 3
  LastWake = 2
  Kinds = {"owner", "completion"}
  Consumers = {main}
  Serves <- MCServes
  MaxAttempts = 2
  Disturbances = {"abstain"}
INVARIANTS OwnerKeepsWake
\* Arrivals are bounded: once they are used up and settled, the system is at rest.
CHECK_DEADLOCK FALSE
