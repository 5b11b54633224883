SPECIFICATION DeliveryFairSpec
CONSTANTS
  Events = {1}
  Completion = {1}
  Windows = {w1}
  Scopes = {0,1}
  Lease = 3
  Tokens = {1, 2, 3, 4}
  MaxLate = 1
CHECK_DEADLOCK FALSE
INVARIANTS ShownUnderItsClaim
PROPERTIES ClaimsStand EventIsPresented
