SPECIFICATION MCSpec
CONSTANTS
  Request = {r1, r2, r3}
  Boot = Boot
  NULL = NULL
  seat = seat
  friday = friday
  Customer = Customer
  Visitor = Visitor
  h1 = h1
  h2 = h2
  draft = draft
  Waiter = {u1, u2, u3, u4}
INVARIANTS
  TypeOK
  AckedIsDurable
PROPERTIES
  DiskNeverRegresses
  EveryRequestAnswered
  ImplementsDurableStore
  AbandonedHoldEnds
  QueueServes
