SPECIFICATION Spec
CONSTANTS
  p1 = p1
  p2 = p2
  a1 = a1
  a2 = a2
  b1 = b1
  alice = alice
  bob = bob
  Publishers = {p1}
  Conns = {a1, b1}
  Users = {alice, bob}
  Owner <- OwnerOf
  MaxEvents = 1
  MaxCrashes = 0
  MaxUpsets = 0
  ReplayMax = 2
INVARIANT
  ConfirmedIsServed
CHECK_DEADLOCK FALSE
