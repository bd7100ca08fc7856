SPECIFICATION Spec
CONSTANTS
  DirNames = {d, e}
  FileNames = {x}
  Handles = {h1}
  NegTTL = 0
  ListTTL = 0
  MetaTTL = 0
  DisableCache = TRUE
  OtherClients = FALSE
  MaxInode = 5
INVARIANT HandleFollowsDirectory
