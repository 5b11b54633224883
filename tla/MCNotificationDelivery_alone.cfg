SPECIFICATION DeliverySpec
CONSTANTS
  Events = {1}
  Completion = {1}
  Windows = {w1, w2}
  Scopes = {0}
  Lease = 3
  Tokens = {1, 2, 3, 4, 5}
  MaxLate = 1
INVARIANT
  ShowsAlone
CHECK_DEADLOCK FALSE
