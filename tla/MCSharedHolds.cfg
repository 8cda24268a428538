SPECIFICATION Spec
CONSTANTS
  User = {u1, u2}
  Seat = {s1}
  QUEUE_TTL = 1
  HOLD_TTL = 1
  HOLD_EXTENSION = 1
  MaxHolds = 2
  MaxExpiry = 2
  Horizon = 2
INVARIANTS
  ExpiredHoldsKeepNoSeat
