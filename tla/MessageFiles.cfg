SPECIFICATION FairSpec
CONSTANTS
  p1 = p1
  p2 = p2
  Posts = {p1, p2}
  Attached <- FileCounts
  Gets = {g1, g2}
  Limit = 2
  None = None
INVARIANT TypeOK
INVARIANT NoOrphans
INVARIANT FilesWithTheirMessage
INVARIANT PageCarriesFiles
INVARIANT AllTried
PROPERTY PagesEnd
