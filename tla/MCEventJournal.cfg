CONSTANTS
  Daemon = {d1, d2}
  Event = {e1, e2}
  NoDaemon = NoDaemon
  NoEvent = NoEvent
  Cut = Cut
  MaxLines = 3
  MaxTail = 1
SPECIFICATION Spec
INVARIANTS
  AtMostOneAttempt
  DuplicateIsRecorded
PROPERTIES
  ImplementsPrintOnce
