CONSTANTS
  Spans <- MCSpans
  DayLength = 2
  LastDay = 2
  Fids = {0, 1, 2}
  Names = {"a"}
  NoName = "none"
  NameOf <- MCNameOf
  Contents <- MCContents
  MaxFields = 2
  RmdsDictionary <- MCRmds
  MamaDictionary <- MCMama
  Rows <- MCRows
  MaxRows = 2
  FirstFids = {0, 5, 7}
  Fields <- MCFields
  Published <- MCPublished
  Decimals <- MCDecimals
  EnumTable = {0, 1}
  OrderIds = {1, 2}
  BookPrices = {1, 2}
  OrderSizes = {1, 2}
  MaxBookMessages = 3
  MaxBookEntries = 2
  PointKeys = {1, 2}
  PointPrices = {1, 2}
  PointSizes = {1, 2}
  MaxPriceMessages = 3
  MaxPricePoints = 2
  Texts <- MCTexts
  LoginTextSize = 3
  DirectoryTextSize = 4
  ServiceIds = {1, 2}
  ServiceNames <- MCServiceNames
  NoServiceName <- MCNoServiceName
  MaxCapabilities = 2
  MaxResponses = 2
  s1 = s1
  s2 = s2
  s3 = s3
  n1 = n1
  n2 = n2
  n3 = n3
  n4 = n4
  n5 = n5
  Snapshots <- MCSnapshots
  UnknownSource <- MCUnknownSource
  Books <- MCBooks
  NoSnapshot = NoSnapshot
  FirstSnapId = 16
  NumSnapIds = 2
  MaxSnapPending = 2
  MaxLosses = 1
  StartStreamID = 16
  NumStreamIds = 4
  Subs <- MCSubs
  NoItem = NoItem
SPECIFICATION DataSpec
INVARIANT DateTimeArrives
CHECK_DEADLOCK FALSE
