SPECIFICATION AllSpec
CONSTANTS
  Items = {w1, w2}
  ActionIds = {1}
  Limits = {1}
  MaxActs = 2
  MaxCrashes = 1
  MaxFaults = 1
  server = server
  watcher = watcher
  Repos = {repo}
  Defaults = {}
  Values = {value}
  Procs = {server, watcher}
  Requests = {1}
  MaxEdits = 2
  Polls = {1, 2}
  MaxSaves = 2
  MaxMoves = 1
CHECK_DEADLOCK FALSE
PROPERTIES
  ActionsSettle
  AnalyseHeeded
  RegistryCatchesUp
  SessionsCatchUp
