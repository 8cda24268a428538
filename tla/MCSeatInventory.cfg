SPECIFICATION Spec
CONSTANTS
  Seat = {s1, s2}
  Performance = {friday}
  PerformanceOf <- MCPerformanceOf
  User = {u1, u2}
  HoldId = {h1, h2}
  DraftId = {d1}
  NULL = NULL
  HOLD_TTL = 1
  HOLD_EXTENSION = 2
  HOLD_MAX_EXTENSIONS = 1
  DRAFT_TTL = 1
  MAX_HOLD_SEATS = 2
  MAX_GROUP_PURCHASE_SEATS = 2
  Horizon = 3
  Visitor = Visitor
SYMMETRY Interchangeable
INVARIANTS
  TypeOK
  ClaimsKeepTheirSeats
  SeatsNameLiveClaims
  ClaimTimeBounded
  ConvertedClaimsArePaidFor
PROPERTIES
  ImplementsSeatBook
