SPECIFICATION FairSpec
CONSTANTS
  Readers = {r1, r2}
  Writers = {w1}
  Limits = {1}
  MaxItems = 2
  TTL = 2
  TouchOnHit = TRUE
  Faults = FALSE
  MaxVersion = 1
  MaxTotal = 1
  Nothing = Nothing
PROPERTY EventuallyFresh
