CONSTANTS
  Personal = {p1, p2}
  Random = {r1, r2}
  Nothing = Nothing
  MaxFaults = 3
  LateCard = FALSE
  LosesData = FALSE
SPECIFICATION FairSpec
INVARIANTS
  CardOpensDevice
  ImportedAndDeleted
  WayIn
PROPERTY Completes
