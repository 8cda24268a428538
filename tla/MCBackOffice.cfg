SPECIFICATION Spec
CONSTANTS
  NULL = NULL
  Catalogue = {"edits", "moves"}
  Zone = {zone1, zone2}
  Hall = {hall1, hall2}
  HallsOf <- OneOrTwoHalls
  Seat = {seat1, seat2, seat3}
  Seller = {seller}
  EditsOf <- TwoOrOneEdit
  Price = {1}
  SeatOf <- ThreeSeats
  ZoneOf <- ZonePerSeat
  ADMIN = ADMIN
  KEEP = KEEP
  MaxEventsOf <- TwoOrOneEvent
  Application = {x1, x2}
  Username = {"name"}
  EventDraft = {y1, y2}
  Paper = {"papers"}
  SELLER_MAX_AGE = 0
  MaxPassword = 2
  SellerHorizon = 1
  Login = {x1, x2}
  Subject = {y1, y2}
  STATE_MAX_AGE = 1
  HANDOFF_MAX_AGE = 1
  LOGIN_MAX_AGE = 2
  MaxSessions = 2
  LoginHorizon = 3
  Account = {x1, x2}
  Phone = {y1, y2}
  Person = {z1, z2}
  Verification = {1, 2, 3}
  Callback = {1, 2}
  MockAllowed = TRUE
  Watch = {x1, x2}
  Channels = {"push", "sms"}
  MaxNotices = 1
  ChartKey = {x1, x2}
  ChartVenue = {z1, z2}
  ChartRequest = {y1, y2}
  ChartsOf <- TwoOrOneChart
  UploadsOf <- OneOrTwoUploads
  Overlay = {background}
  CallsOf <- OneOrNoCall
  Limit = 2
  MaxRevisionOf <- TwoOrOneRevision
  ObjectsOf <- ThreeOneTwoObjects
  FloorsOf <- OneTwoOneFloor
  PlansOf <- TwoPlansAtMost
  PlacesOf <- OneOneTwoPlaces
  MaxStepsOf <- TwoThreeOneStep
  MaxRequestsOf <- NoneNoneTwoRequests
  OnlyChart = OnlyChart
  OnlyUpload = OnlyUpload
  edit1 = edit1
  edit2 = edit2
  zone1 = zone1
  zone2 = zone2
  hall1 = hall1
  hall2 = hall2
  seat1 = seat1
  seat2 = seat2
  seat3 = seat3
SYMMETRY Interchangeable
INVARIANTS
  TypeOK
  AccountsAreWhole
PROPERTIES
  DecisionsHold
  ChartFilesAreSound
  DesignerKeepsToItsChart
  DrawingsAreKept
CHECK_DEADLOCK FALSE
