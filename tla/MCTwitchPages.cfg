CONSTANTS
  Gift = {g1, g2}
  Person = {p1}
  Totals = {1, 2}
  Window = 1
  MaxLag = 1
  MaxOrder = 2
  Nothing = Nothing
  Cheer = {c1}
  Raid = {}
  MaxRestarts = 1
  NoPage = NoPage
SPECIFICATION FairPagesSpec
INVARIANTS
  OnePageEver
  NoGiftIsMislaid
PROPERTIES
  ClockNeverTurnedBack
  LeavesOnItsPage
  EveryEntryEnds
