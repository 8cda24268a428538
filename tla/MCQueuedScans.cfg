SPECIFICATION Spec
CONSTANTS
  NULL = NULL
  Code = {c1}
  Gate = {g1}
  Admits <- AllCodes
  Scan = {q1, q2}
  Flush = {f1, f2}
  GATE_QUEUE_MAX = 30
INVARIANTS
  QueuedScansAreKept
