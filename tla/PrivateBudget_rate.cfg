\* Two thoughts and a policy of one per window, revised to two, with crashes anywhere.
SPECIFICATION Spec
CONSTANTS
  p1 = p1
  p2 = p2
  Reservations = {p1, p2}
  Limit <- MCLimit
  Window = 2
  Tolerance = 1
  MaxTime = 3
  MaxAttempts = 3
SYMMETRY MCSymmetry
INVARIANTS
  TypeOK
  WithinRate
  CalledKeepsCapacity
  NoBlindRedispatch
  ProofsAreTrue
PROPERTIES
  ImplementsRateLimit
