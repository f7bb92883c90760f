\* A commitment and a curiosity under fairness, with a crash or a lost projection.
SPECIFICATION FairSpec
CONSTANTS
  m1 = m1
  q1 = q1
  Undertakings = {m1, q1}
  OriginKind <- MCOriginKind
  MaxNonterminal = 2
  MaxPendingCuriosity = 1
  ScanLimit = 1
  Disturbances = {"probe_waits", "deadline", "crash", "lost"}
  MaxFaults = 1
PROPERTIES
  UndertakingEnds
