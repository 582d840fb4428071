CONSTANTS
  Symbols = 3
  ByteBits = 2
  MaxNodes = 5
  MaxBits = 5
  MaxLetters = 16
  MaxWords = 5
  MinSize = 2
  MaxSize = 12
  PageWidth = 30
  PageHeight = 24
  Gap = 2
  WordLengths = {1, 2, 4}
  Totals = {10, 24, 26, 30}
  MaxNames = 28
  MaxBlank = 2
  NarrowBytes = 1
  NativeBytes = 2
  WordSize = 3
  MaxDamages = 2
  SettingsTried <- MCSettings
SPECIFICATION PrintingSpec
INVARIANTS
  RebuildsExactly
  DecodesExactly
  LargestType
  EveryGiftIsOnThePage
  RoundTrip
  OnlyTheWholeJob
  DesktopAgrees
CHECK_DEADLOCK FALSE
