CONSTANTS
  Request = {r1, r2}
SYMMETRY Symmetry
SPECIFICATION Spec
INVARIANTS
  StagesInOrder
  NothingWithoutEvidence
  AtMostOneTestSheet
  PaperIsOnRecord
