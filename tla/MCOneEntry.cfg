SPECIFICATION Spec
CONSTANTS
  User = {u1, u2}
  Ticket = {t1}
  Pool = {p1}
  Code = {c1, c2}
  NULL = NULL
  Verified = {u1, u2}
  Institutional = {}
  Prices = {30}
  MaxTransfers = 2
INVARIANTS
  OneEntryPerTicket
