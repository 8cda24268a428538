SPECIFICATION Spec
CONSTANTS
  MaxAttempts = 1
  Seat = {s1}
  Rival = {}
  Call = {c1}
  MaxBack = 0
  MayLogIn = FALSE
  NULL = NULL
PROPERTY
  HeldScreensAreTrue
