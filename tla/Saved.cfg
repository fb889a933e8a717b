SPECIFICATION MCSpec
CONSTANTS
  SongObjects = {"s1", "s2", "s3"}
  Title <- MCTitle
  Names = {"Ann", "Anna", "Bob"}
  Includes <- MCIncludes
  Levels = {0, 1}
  Minimums = {0, 2}
  MaximumScorePoints = 4
  MaximumStoredScores = 2
  ScoreLists <- MCScoreLists
  Files <- MCFiles
  MaxChanges = 4
  Languages <- MCLanguages
  SystemLanguage = "Danish"
  Backends <- MCBackends
  TypeOf <- MCTypeOf
  ThemeSets <- OneSet
  Factory <- MCFactory
  ConfigMenu <- MCConfigMenu
  Home = "home"
  ParentPath <- MCParentPath
  Hidden = {}
  MaxVolume = 1
  MaxSteps = 3
  Computers <- MCComputers
  Links <- MCLinks
  Wanted <- MCWanted
  MaxLaunches <- MCMaxLaunches
INVARIANTS
  
  
  LogsKept
PROPERTIES
  
  SavedIsRead
CHECK_DEADLOCK FALSE
