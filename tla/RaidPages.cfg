CONSTANTS
  Gift = {}
  Person = {p1}
  Totals = {1, 2}
  Window = 1
  MaxLag = 0
  MaxOrder = 2
  Nothing = Nothing
  Cheer = {}
  Raid = {r1}
  MaxRestarts = 1
  NoPage = NoPage
SPECIFICATION PagesSpec
INVARIANT NoPageIsRefused
