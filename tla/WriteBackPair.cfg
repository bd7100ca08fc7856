SPECIFICATION Spec
CONSTANTS
  Files = {f1}
  Handles = {h1, h2}
  Vals = {a, b}
  Zero = zero
  MaxSize = 2
  RemoteWrites = TRUE
  WriteBufCap = 2
SYMMETRY Symmetry
INVARIANTS TypeOK BytesInPlace ViewIntact SyncedDurable DurableAtRest
PROPERTIES LifeImplemented ContractImplemented
