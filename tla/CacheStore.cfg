SPECIFICATION Spec
CONSTANTS
  Keys = {k1, k2, k3, k4}
  Capacity = 2
  TTL = 2
  NegTTL = 2
  Soft = 2
  Hard = 3
SYMMETRY Symmetry
INVARIANT TypeOK
PROPERTIES NeverRenewed RecentStayUnlessReloaded ValidMissingStay
