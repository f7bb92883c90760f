\* One commitment, one crash and a deadline: an outcome that wakes nobody.
SPECIFICATION FairSpec
CONSTANTS
  m1 = m1
  q1 = q1
  Undertakings = {m1}
  OriginKind <- MCOriginKind
  MaxNonterminal = 1
  MaxPendingCuriosity = 1
  ScanLimit = 1
  Disturbances = {"deadline", "crash"}
  MaxFaults = 1
PROPERTIES
  OutcomeIsTold
