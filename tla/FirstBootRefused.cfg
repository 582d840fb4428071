CONSTANTS
  Personal = {p1, p2}
  Random = {r1, r2}
  Nothing = Nothing
  MaxFaults = 1
  LateCard = FALSE
  LosesData = FALSE
SPECIFICATION FairSpec
PROPERTY EnvelopeGoes
