CONSTANTS
  Request = {r1, r2}
SPECIFICATION Spec
PROPERTY ProgressIsKept
