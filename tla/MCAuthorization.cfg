CONSTANTS
  Account = {a1, a2}
  Key = {k1}
  Request = {r1, r2}
  MaxCode = 2
  none = none
  torn = torn
SYMMETRY Symmetry
SPECIFICATION Spec
INVARIANTS ServesPinnedAccount MarkerVouches
PROPERTY EndedStaysEnded
