SPECIFICATION MCSpec
CONSTANTS
  Pids = {1, 2, 3}
  MaxBirths = 3
  TreePids = {1, 2, 3, 4}
  Shown = {1, 2}
  Longest = 2
  ofUser = {1}
  Hideable = {1}
  INCSEARCH_MAX = 2
  resetRefreshTimeout = 1
  MeterTypes = {"CPU", "Memory"}
  LAST_PROCESSFIELD = 3
  LAST_METERMODE = 3
  Options = {"tree"}
  MaxMeters = 2
  MaxColumns = 4
  Drives = {C}
  Disks = {hd1, hd2}
  Cards = {net1}
  Nothing = Nothing
CHECK_DEADLOCK FALSE
INVARIANTS ProcessesListed ChosenIsMeant ReportsTrue
PROPERTIES SettingsLast
