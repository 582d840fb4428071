CONSTANTS
  root = root
  twinA = twinA
  twinB = twinB
  plain = plain
  d4 = d4
  d5 = d5
  d6 = d6
  release = release
  other = other
  rebuilt = rebuilt
  Cards = {root, twinA, twinB, plain}
  Root = root
  Ids = {d4, d5, d6}
  Slots = {1, 2, 3}
  Media <- MCMedia
  NoMedia = 0
  Size <- MCSize
  Images = {release, other, rebuilt}
  Release = release
  ImageSize <- MCImageSize
  Old = Old
  Partial = Partial
  Nothing = Nothing
  MaxMoves = 5
SPECIFICATION Spec
INVARIANTS
  OnlyTheConfirmedCard
  RootIsSafe
  CompleteMeansFlashed
CHECK_DEADLOCK FALSE
