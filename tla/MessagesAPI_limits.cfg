SPECIFICATION Spec
CONSTANTS
  Readers = {r1, r2}
  Writers = {w1}
  Limits = {1, 2}
  MaxItems = 2
  TTL = 1
  TouchOnHit = TRUE
  Faults = FALSE
  MaxVersion = 1
  MaxTotal = 2
  Nothing = Nothing
INVARIANT NoneLeftOut
