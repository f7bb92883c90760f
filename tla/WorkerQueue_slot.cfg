\* A commitment and a curiosity, with crashes, lost projections and every disturbance.
SPECIFICATION Spec
CONSTANTS
  m1 = m1
  q1 = q1
  Undertakings = {m1, q1}
  OriginKind <- MCOriginKind
  MaxNonterminal = 2
  MaxPendingCuriosity = 1
  ScanLimit = 1
  Disturbances = {"cancel", "probe_waits", "probe_denies", "worker_fails", "stale", "invalid", "ttl", "deadline", "crash", "lost"}
  MaxFaults = 2
INVARIANTS
  TypeOK
  SlotHeld
  WorkedOnce
  VerdictAgrees
  WakesAfterTruth
PROPERTIES
  ImplementsOneWorker
