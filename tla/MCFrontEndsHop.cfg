SPECIFICATION Spec
CONSTANTS
  p0 = p0
  p1 = p1
  p2 = p2
  p3 = p3
  Addresses = {p0, p1, p2, p3}
  Default <- AtFirst
  Orders <- Some
  Conns = {c1}
  Unset = unset
  MaxOrders = 3
INVARIANTS ConnectionKeepsItsHop
