SPECIFICATION AllSpec
CONSTANTS
  w1 = w1
  w2 = w2
  session = session
  review = review
  plan = plan
  code = code
  Items = {w1, w2}
  ActionIds = {1, 2}
  Limits = {1, 2}
  MaxActs = 3
  MaxCrashes = 1
  MaxFaults = 1
  Comments = {comment}
  RowKeys = {key}
  Troubles = 1
  UserIds = 3
  Callers = {1, 2}
  MaxEdits = 2
  server = server
  job1 = job1
  Repos = {repo}
  Defaults = {}
  Values = {value}
  Procs = {server, job1}
  Watchers = {wa, wb}
  Days = 2
  CycleDays = {1, 2}
  MaxRows = 2
  Sources = {session, review}
  Sessions = {session}
  Stages = {plan, code}
  Stored <- MCStored
  Page = 1
  Keep = 2
  MaxEntries = 3
  MaxClicks = 3
  MaxPolls = 1
  MaxAccidents = 2
  MaxRuns = 4
  sa = sa
  sb = sb
  SubAgents = {sa, sb}
  Responses = 2
  MaxRetries = 2
  MaxMessages = 3
  MaxChanges = 1
  MaxDeploys = 1
  MaxStarts = 2
  MaxErrors = 1
  CardRows = 2
  MaxOpens = 2
  MaxTroubles = 1
  MaxMoves = 1
  PanelPhases <- MCPhases
  PanelOpened <- MCOpened
  PanelPosts = 2
  PanelClicks = 3
  Members = {me, other}
  me = me
  MaxOthers = 1
  MaxPosts = 2
  MaxFields = 1
  ReviewKinds <- MCReviews
  Baseline = 1
  Fragile = {"value", "integrity"}
  MaxDay = 1
  MaxLoads = 2
  MaxFailures = 1
  MaxWork = 3
  Problems = {"a", "b", "l", "m"}
  WithFile = {"a", "b"}
  Swept <- MCSwept
  DidVotes <- MCDidVotes
  SaidVotes <- MCSaidVotes
  MaxSaved = 2
  Shas = {"earlier", "later"}
  History <- MCHistory
  Checkers = {"checker", "planner"}
  ModelNames = {"sonnet", "opus", "long"}
  Declared <- MCDeclared
  Flagged = {"long"}
  Doings <- MCDoings
  MaxShifts = 2
  MaxShown = 1
  Subjects = 2
  Selections = {{"scoped", "lean"}, {"baseline"}}
  Rosters <- MCRosters
  MaxKills = 1
  Timeout = 4
  Interval = 3
  CodingReports <- MCReports
  Verdicts <- MCVerdicts
  BuildResults = {"succeeded", "canceled"}
  MaxBuilds = 1
  MaxRounds = 2
  MaxReturns = 1
SYMMETRY ItemSymmetry
CHECK_DEADLOCK FALSE
INVARIANTS
  Supervised
  ActionRunsOnce
  ReviewsQueuedOnce
  NeverSilent
  ClaimsTrue
  AdminsServed
  OnePending
  ViewsPure
  WorkspaceRestored
  UsageOnce
  RunsAsShown
  FiguresHold
PROPERTIES
  PoolRespected
  OutcomeFinal
  SuggestionsCurrent
  RunUndisturbed
  ClicksMeant
  OffersHonoured
  AuditTellsBefore
