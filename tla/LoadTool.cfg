SPECIFICATION Spec
CONSTANTS
  Workers = {w1, w2, w3}
  Jobs = 3
  Attempts = 2
INVARIANT TypeOK
INVARIANT AllCounted
INVARIANT OkStored
PROPERTY Terminates
