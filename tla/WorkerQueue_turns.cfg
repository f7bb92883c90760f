\* Three requests of the Owner, a commitment and two curiosities at a full queue, with a
\* crash or a lost callback.
SPECIFICATION TurnsSpec
CONSTANTS
  o1 = o1
  o2 = o2
  o3 = o3
  m1 = m1
  q1 = q1
  q2 = q2
  Undertakings = {o1, o2, o3, m1, q1, q2}
  OriginKind <- MCOriginKind
  MaxNonterminal = 3
  MaxPendingCuriosity = 1
  ScanLimit = 8
  Disturbances = {"crash", "lost"}
  MaxFaults = 1
SYMMETRY MCSymmetry
INVARIANTS
  ServedInTurn
  WithinBounds
