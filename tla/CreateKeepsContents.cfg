SPECIFICATION Spec
CONSTANTS
  Files = {f1}
  Handles = {h1, h2}
  Vals = {a, b}
  Zero = zero
  MaxSize = 2
  RemoteWrites = FALSE
  WriteBufCap = 2
PROPERTY CreateKeepsContents
