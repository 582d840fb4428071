CONSTANTS
  Conn = {c1, c2}
  Types <- MCTypes
  Minute = 3
  MaxFaults = 3
  MaxInbox = 2
SPECIFICATION Spec
INVARIANT ReadyMeansListening
