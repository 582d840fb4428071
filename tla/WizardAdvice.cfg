CONSTANTS
  Request = {r1}
SPECIFICATION Spec
INVARIANT NoRetryAdvised
