CONSTANTS
  Disk <- MCDisk
  Broken <- MCBroken
  Filters <- MCFilters
  NoFilter <- MCNoFilter
  Matches <- MCMatches
  Orders <- MCOrders
  Clients = {"ui"}
  MaxReloads = 2
  Category <- MCCategory
  MusicOf <- MCMusicOf
  WithBackground = {"a"}
  MenuOrders <- MCMenuOrders
  MaxQueue = 1
SPECIFICATION MCSpec
PROPERTIES
  EventsServed
CHECK_DEADLOCK FALSE
