SPECIFICATION Spec
CONSTANTS
  Paths = {p}
  Others = {q}
  Vals = {a, b}
  Requests = {r1, r2}
  Inodes = {1, 2, 3}
  MaxSize = 2
  FullSizes = {0, 2}
  PartSizes = {1}
  MaxRequests = 3
  Totals = {1}
  PartStarts = {1}
  GetStarts = {0}
  GetSizes = {2}
SYMMETRY Symmetry
VIEW LiveView
INVARIANTS TypeOK NeverHalf AnsweredStands GetsOneBody
PROPERTIES WholeFilesImplemented
