SPECIFICATION Spec
CONSTANTS
  Handles = {h1, h2}
INVARIANTS TypeOK NothingLeftMounted
PROPERTIES LifeImplemented SecondSignalEnds FirstSignalEnds
CHECK_DEADLOCK FALSE
