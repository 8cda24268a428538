SPECIFICATION Spec
CONSTANTS
  User = {u1, u2, u3}
  Ticket = {t1}
  Pool = {p1, p2, p3}
  Code = {c1, c2}
  NULL = NULL
  Verified = {u1, u2}
  Institutional = {}
  Prices = {30}
  MaxTransfers = 2
SYMMETRY Ids
INVARIANTS
  TypeOK
  SettlementsMatch
  CredentialIsOwners
  OffersStand
  OneEntryPerCode
PROPERTIES
  SoldCodesAreDead
