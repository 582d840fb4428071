CONSTANTS
  Pid = {p1, p2, p3}
  CapKill = FALSE
  MaxKills = 3
  nobody = nobody
SPECIFICATION LedFairSpec
PROPERTIES GoesDark OrphansEnd
