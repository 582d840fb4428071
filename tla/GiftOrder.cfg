CONSTANTS
  Gift = {g1, g2}
  Person = {p1}
  Totals = {1, 2}
  Window = 1
  MaxLag = 0
  MaxOrder = 3
  Nothing = Nothing
  Cheer = {}
  Raid = {}
  MaxRestarts = 0
  NoPage = NoPage
SPECIFICATION PagesSpec
PROPERTY FlushedInArrivalOrder
