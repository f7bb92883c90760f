\* A crash between the settlement of an answer and its delivery.
SPECIFICATION Spec
CONSTANTS
  c1 = c1
  c2 = c2
  main = main
  lane = lane
  Conversations = {c1}
  LastEvent = 1
  LastWake = 1
  Kinds = {"owner"}
  Consumers = {main}
  Serves <- MCServes
  MaxAttempts = 3
  Disturbances = {"crash"}
INVARIANTS
  AnswerNotDiscarded
\* Arrivals are bounded: once they are used up and settled, the system is at rest.
CHECK_DEADLOCK FALSE
