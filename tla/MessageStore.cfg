SPECIFICATION Spec
CONSTANTS
  Threads = {t1, t2}
  Ids = {m1}
  Contents = {empty, hello}
  Paths = {file}
  Empty = empty
  Null = Null
  NoRow = NoRow
  Requests = {r1, r2, r3}
SYMMETRY Symmetry
INVARIANT TypeOK
INVARIANT DeleteOnce
PROPERTY ThreadConfined
PROPERTY TombstonesStay
PROPERTY AtomicWrites
