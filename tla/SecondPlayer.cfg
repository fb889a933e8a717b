SPECIFICATION MCSpec
CONSTANTS
  SongObjects = {"s1"}
  Title <- MCTitle
  Names = {"Ann", "Bob"}
  Includes <- MCIncludes
  Levels = {0}
  Minimums = {0}
  MaximumScorePoints = 4
  MaximumStoredScores = 2
  ScoreLists <- MCScoreLists
  Files <- FreshInstall
  MaxChanges = 6
  Languages <- MCLanguages
  SystemLanguage = "Danish"
  Backends <- MCBackends
  TypeOf <- MCTypeOf
  ThemeSets <- OneSet
  Factory <- MCFactory
  ConfigMenu <- MCConfigMenu
  Home = "home"
  ParentPath <- MCParentPath
  Hidden = {}
  MaxVolume = 1
  MaxSteps = 1
  Computers <- MCComputers
  Links <- MCLinks
  Wanted <- MCWanted
  MaxLaunches <- MCMaxLaunches
PROPERTY
  NewPlayerIsKept
CHECK_DEADLOCK FALSE
