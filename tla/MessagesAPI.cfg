SPECIFICATION Spec
CONSTANTS
  Readers = {r1, r2}
  Writers = {w1, w2}
  Limits = {1, 2}
  MaxItems = 1
  TTL = 1
  TouchOnHit = TRUE
  Faults = TRUE
  MaxVersion = 2
  MaxTotal = 2
  Nothing = Nothing
SYMMETRY Symmetry
INVARIANT TypeOK
INVARIANT InvalidationOwed
INVARIANT AckedVisible
