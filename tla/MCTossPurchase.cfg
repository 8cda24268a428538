SPECIFICATION Spec
CONSTANTS
  r1 = r1
  r2 = r2
  r3 = r3
  u1 = u1
  u2 = u2
  k1 = k1
  k2 = k2
  p1 = p1
  p2 = p2
  p3 = p3
  s1 = s1
  s2 = s2
  za = za
  zb = zb
  Request = {r1, r2, r3}
  User = {u1, u2}
  Ticket = {s1, s2}
  Payment = {p1, p2}
  Zone = {za, zb}
  ZoneOf <- ZonePerTicket
  UserOf <- GroupUserOf
  KeyOf <- GroupKeyOf
  PaymentOf <- GroupPaymentOf
  TicketIds <- GroupTicketIds
  Nobody = Nobody
  Verified = {u1, u2}
  Prices = {1, 4}
  SERVICE_FEE_PER_SEAT = 1
INVARIANTS
  TypeOK
  CapturedIsAccounted
  RefundOrSeats
  OrdersAreWhole
  AmountsAddUp
  OneBuyerPerTicket
  AnswersAreKept
