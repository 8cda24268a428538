SPECIFICATION Spec
CONSTANTS
  NULL = NULL
  User = {u1, u2}
  Seat = {seat}
  QUEUE_TTL = 1
  HOLD_TTL = 1
  HOLD_EXTENSION = 1
  MaxHolds = 2
  MaxExpiry = 2
  SessionHorizon = 1
  Device = {d1}
  ChallengeId = {c1, c2}
  Request = {q1, q2}
  PROOF_TTL = 2
  VERIFY_TIMEOUT = 1
  AttestHorizon = 3
  Token = {"token"}
  NONCE_TTL = 1
  MaxCounter = 2
  DeviceHorizon = 2
  Retry = {t1, t2, t3}
  Payload = {a1, a2}
  Key = {"kept", "dropped"}
  Retention <- KeptAndDropped
  ReceiptHorizon = 2
  Nobody = Nobody
  Order = {r1, r2, r3}
  Buyer = {b1, b2}
  Ticket = {s1, s2}
  Payment = {p1, p2, p3}
  Zone = {za, zb}
  ZoneOf <- ZonePerTicket
  UserOf <- TwoOrdersUserOf
  KeyOf <- OneKey
  PaymentOf <- TwoOrdersPaymentOf
  TicketIds <- TwoOrdersTicketIds
  VerifiedBuyer = {b1}
  Prices = {1}
  SERVICE_FEE_PER_SEAT = 1
  Terminal = {"overlap", "gates"}
  Code = {"code"}
  Scan = {n1, n2}
  AdmitsAt <- OverlapOrGates
  FlushesOf <- TwoOrOneFlush
  QueueMaxOf <- QueueOfTwoOrOne
  Performance = {"fri", "sat"}
  Listed = {1, 2, 3, 4, 5}
  Label = {"a", "b", "c"}
  Place = {1, 2, 3, 4}
  TicketsOf <- ThreeAndTwoTickets
  LabelOf <- SameLabels
  Charts <- OneOrTwoObjects
  MAX_SELECTABLE_SEATS = 2
  App = {"late", "walks"}
  AppSeat = {s1}
  AttemptsOf <- OneOrTwoAttempts
  RivalsOf <- NoneOrOneRival
  CallsOf <- TwoOrOneCall
  MaxBackOf <- NoneOrTwoBack
  MayLogInOf <- LogInOrNot
  r1 = r1
  r2 = r2
  r3 = r3
  k1 = k1
  p1 = p1
  p2 = p2
  p3 = p3
  s1 = s1
  s2 = s2
  za = za
  zb = zb
  b1 = b1
  b2 = b2
INVARIANTS
  TypeOK
  RetriesAreSafe
  OnePurchasePerKey
  GateScansCountOnce
  ShopSelectsSeats
PROPERTIES
  SessionHoldsAreSound
  DevicesAreProven
  AppBookingsAreSound
CHECK_DEADLOCK FALSE
