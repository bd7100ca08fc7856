SPECIFICATION Spec
CONSTANTS
  Files = {f1}
  Handles = {h1}
  Vals = {a, b}
  Zero = zero
  MaxSize = 3
  RemoteWrites = TRUE
  WriteBufCap = 3
SYMMETRY Symmetry
INVARIANTS FinalSizeCoversBuffer BufferBounded ViewIntact
