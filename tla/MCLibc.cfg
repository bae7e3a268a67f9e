CONSTANTS
  NFILE = 2
  Content <- Files
  NoFile = "null"
  Key = {65, 10}
  Eof = 256
  NL = 10
  SizeMax = 3
  Counts = {0, 1, 2, 3}
  Pushes = {67}
  Offsets <- SeekBy
  PlaceMax = 3
  Char = {1, 2}
  MaxString = 3
  MemSize = 5
  LongMax = 15
  Digits = {0, 1, 8}
  Space = 40
  Plus = 41
  Minus = 42
  X = 33
  MaxText = 4
  MaxItems = 4
  ArrayMax = 7
  Width = 6
  MF = 3
  MD = 6
  EMin <- LeastExponent
  EMax = 5
  DBias = 7
  TickWrap = 6
  PerSecond = 2
  MaxReads = 3
  PerHour = 2
  PerDay = 3
  Years <- YearsTried
  Align = 2
  Images <- ImagesTried
  PATH_MAX = 6
  Slash = 47
  Dot = 46
  Letter = 97
  MaxName = 6
  Names <- TreeNames
  Bits = 6
  Mantissas = {0, 1, 2, 3, 5, 7, 9, 13, 15}
  Exponents <- ExponentsTried
  Precisions = {0, 1, 2, 3}
  Extremes <- LongestFloats
  MaxWidth = 5
  MaxRoom = 5
  DumpStrings <- DumpedStrings
  Scalars <- DumpedScalars
SPECIFICATION Spec
INVARIANTS StringsAgree StdlibAgrees NumbersExact TimeAgrees AcceptedImagesWalk PathIsNormal PrintsNearest PrintsAll DumpTellsApart
PROPERTY ImplementsStreams
