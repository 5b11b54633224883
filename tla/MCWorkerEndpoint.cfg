SPECIFICATION Spec
CONSTANTS
  Workers = {w1, w2, w3}
  Sockets = {s1, s2}
  MaxEpoch = 4
  None = None
SYMMETRY Symmetry
INVARIANTS OneOwner ServingIsReachable RecordedIsCertifiable
