SPECIFICATION FairSpec
CONSTANTS
  Readers = {r1, r2}
  Writers = {w1}
  Limits = {1, 2, 3}
  MaxItems = 2
  TTL = 2
  TouchOnHit = FALSE
  Faults = TRUE
  MaxVersion = 1
  MaxTotal = 3
  Nothing = Nothing
PROPERTY EventuallyFresh
INVARIANT LastUnlessNarrow
