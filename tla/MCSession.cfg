SPECIFICATION Spec
CONSTANTS
  Sessions = {"s1", "s0"}
  Legacy = {"s0"}
  Requests = {r1}
  Groups = {"admins"}
  TTL = 2
  TouchInterval = 1
  Lifetimes = {2, 3}
  MaxTime = 4
INVARIANTS
  RevokedStaysOut
  AbsoluteCap
  OwnerAsConfigured
  SweptOnSchedule
CHECK_DEADLOCK FALSE
