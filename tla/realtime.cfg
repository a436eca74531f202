SPECIFICATION Spec
CONSTANTS
  p1 = p1
  p2 = p2
  a1 = a1
  a2 = a2
  b1 = b1
  alice = alice
  bob = bob
  Publishers = {p1, p2}
  Conns = {a1, a2}
  Users = {alice}
  Owner <- OwnerOf
  MaxEvents = 2
  MaxCrashes = 1
  MaxUpsets = 1
  ReplayMax = 2
INVARIANTS
  NoGap
  CaughtUp

  
CHECK_DEADLOCK FALSE
