SPECIFICATION Spec
CONSTANTS
  DirNames = {}
  FileNames = {x, y}
  Handles = {h1}
  NegTTL = 1
  ListTTL = 2
  MetaTTL = 2
  DisableCache = FALSE
  OtherClients = TRUE
  MaxInode = 3
SYMMETRY Symmetry
INVARIANTS TypeOK MissingBounded ListingBounded MetadataBounded 
