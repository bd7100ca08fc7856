SPECIFICATION Spec
CONSTANTS
  Handles = {h1}
  Vals = {a, b}
  Zero = zero
  MaxSize = 3
  ReadBufCap = 2
SYMMETRY Symmetry
INVARIANT ReadsOwnWrites
