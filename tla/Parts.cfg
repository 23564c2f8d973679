SPECIFICATION PartsSpec
CONSTANTS
  Threads = {"t1"}
  Main = "main"
  Servers = {"p", "q"}
  Ours = "ours"
  Empty = "empty"
  EditTimes = {"off"}
  MaxEdits = 3
  MaxCalls = 3
  MaxSeconds = 3
  Combinations = {"k1", "k2"}
  Unusable = "bad"
  MaxRequests = 3
  MaxSessions = 2
  MaxQuestions = 5
  MaxSearches = 3
  RetryCount = 2
  Resolvers = {"r1"}
  DefaultResolver = "r1"
  OwnResolvers = {"own"}
  BadText = "bad"
  NoText = "empty"
  Isp = "isp"
  MaxChoices = 2
  MaxChecks = 1
  MaxTests = 1
  MaxDialogs = 3
  MaxStarts = 3
  MaxFrames = 3
  MaxFiles = 1
  LegacyRecords = {101}
  StoredRecords = {102}
  MaxRecords = 2
  MaxLoads = 1
  MaxLists = 4
  MaxCores = 1
  MaxMoves = 2
  MaxChanges = 2
  MaxCrashes = 1
  Colours = {"c1", "c2"}
  Short = "short"
  Unfinished = "part"
  Black = "c1"
  Presets <- TwoThemes
  Default <- World
  NoTheme <- Themeless
  MaxThemes = 2
  MAX_LOG_ENTRIES = 2
  MaxLines = 4
  ConnectionIds = {1, 2, 3}
  HostOf <- Hosts
  ProcessOf <- Programs
  MULTIPART_SUFFIXES <- TwoLabels
  Before <- Alphabet
  MaxBytes = 1
  Links = {1, 2}
  NoLink = 0
  Lists <- TwoLists
  SubIds <- TwoSubs
  NameOf <- Names
  TypeOf <- Protocols
  Found = {1}
  MaxLatency = 1
  MaxAsked = 1
  Parts = {"proxy", "settings", "history", "screen", "log", "connections", "dialogs",
                  "servers", "camera", "hotkeys", "dns", "badges", "address", "qr", "theme",
                  "palette", "traffic"}
INVARIANTS PartsTypeOK ProxyComesBack ChoicesArriveOnDisk SeenIsAlive ListsAreCurrent
           ThemeHolds PaletteIsLegible TotalsAreTheSessions DialogsEnd KeysAreHonest
           ResolverIsHonest  SymbolsAreRead
PROPERTY HistoryIsKept
CHECK_DEADLOCK FALSE
