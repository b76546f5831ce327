----------------------------- MODULE MCServices -----------------------------
(***************************************************************************)
(* Instance for TLC of the components beside the pipeline that are checked *)
(* for safety.  They share no state, so their interleavings say nothing    *)
(* new: `part` picks the one that moves, and all but the fleet keep their  *)
(* state in the same variables v1, v2, ...                                 *)
(***************************************************************************)
EXTENDS FleetProps, TLC

CONSTANTS
  w1, w2, session, review, plan, code,          \* work items, logs and stages
  Comments, RowKeys, Troubles,                  \* Review
  UserIds, Callers, MaxEdits,                   \* Accounts
  server, job1, Repos, Defaults, Values, Procs, \* Registry
  Watchers, Days, CycleDays, MaxRows,           \* Reflection
  Sources, Sessions, Stages, Stored, Page, Keep, MaxEntries, MaxClicks, MaxPolls, \* LogViewer
  MaxAccidents, MaxRuns,                        \* AgentWorkspace
  sa, sb, SubAgents, Responses, MaxRetries, MaxMessages, \* AgentRun
  MaxChanges, MaxDeploys, MaxStarts, MaxErrors, \* Settings
  CardRows, MaxOpens, MaxTroubles,              \* ReflectionCard
  PanelPhases, PanelOpened, MaxMoves, PanelPosts, PanelClicks, \* ActionPanel
  Members, me, MaxOthers, MaxPosts, MaxFields,  \* UserForms, RepoForms
  ReviewKinds, Baseline, Fragile, MaxDay, MaxLoads, MaxFailures, MaxWork, \* Stats
  Problems, WithFile, Swept, DidVotes, SaidVotes, MaxSaved, \* ReviewValue
  Shas, History, Checkers, ModelNames, Declared, Flagged, Doings, MaxShifts, MaxShown, \* Ribbon
  Subjects, Selections, Rosters, MaxKills,      \* Experiment
  Timeout, Interval, CodingReports, Verdicts, BuildResults, MaxBuilds, MaxRounds, MaxReturns \* CodingRounds

VARIABLES
  part,   \* the component that moves
  \* The state of a component other than the fleet; one with fewer variables leaves the last.
  v1, v2, v3, v4, v5, v6, v7, v8, v9, v10, v11, v12

\* A quiet run, the two gates, a failure of each loop, and an item that is done: between them
\* every action is offered for some and not for others.
Phase(at, error) == [at |-> at, error |-> error, ended |-> FALSE, quiet |-> FALSE, pr |-> FALSE,
                     env |-> FALSE]

MCPhases == { [Phase("none", "none") EXCEPT !.quiet = TRUE],
              Phase("plan-approved", "none"),
              [Phase("pr-published", "none") EXCEPT !.pr = TRUE],
              Phase("none", "planning"),
              [Phase("none", "coding") EXCEPT !.env = TRUE],
              [Phase("none", "test-cases") EXCEPT !.pr = TRUE],
              [Phase("pr-completed", "none") EXCEPT !.ended = TRUE, !.pr = TRUE] }

\* The page is opened with items whose pull request is published.
MCOpened == { r \in MCPhases : r.at = "pr-published" }

\* A registration that leaves its flags out.
MCConfigs == { [autoReview |-> "absent", testCases |-> "absent", url |-> "a", env |-> "absent"] }

\* A production review, a test review of the same pull request, and one that failed.
Reviewed == [test |-> FALSE, costed |-> TRUE, cost |-> 3, orchestrator |-> 1, measured |-> 1,
             roster |-> 1, dispatched |-> 2, listed |-> TRUE, finds |-> {"inline"}, path |-> "full",
             verdict |-> "reject", error |-> "none", wrapped |-> 0, sha |-> "sha"]

MCReviews ==
  { Reviewed, [Reviewed EXCEPT !.test = TRUE, !.finds = {"loose"}],
    [Reviewed EXCEPT !.test = TRUE, !.costed = FALSE, !.cost = 0, !.orchestrator = 0, !.measured = 0,
       !.roster = 0, !.dispatched = 0, !.listed = FALSE, !.finds = {}, !.verdict = "(none)",
       !.error = "no-result", !.wrapped = 1] }

MCWindows == [w \in {"7d", "90d"} |-> IF w = "7d" THEN 1 ELSE 2]

\* Findings that were traced with and without a reply and a lead time.
MCSwept ==
  { [evidence |-> "none", lead |-> "before"], [evidence |-> "stale-signal", lead |-> "after"],
    [evidence |-> "thread-reply", lead |-> "null"], [evidence |-> "pr-discussion", lead |-> "before"] }

MCDidVotes == { [did |-> "ADDRESSED", confidence |-> "unanimous"], [did |-> "SPLIT", confidence |-> "split"] }

\* The last is what an older batch job has left.
MCSaidVotes ==
  { [said |-> "rejected-wrong", confidence |-> "majority"], [said |-> "null", confidence |-> "split"],
    [said |-> "null", confidence |-> "single-vote"] }

\* One commit after another, which declares another model.
MCHistory == [c \in Shas |-> IF c = "later" THEN {"earlier", "later"} ELSE {c}]

MCDeclared == [c \in Shas |-> [a \in Checkers |->
                 IF a = "planner" THEN "none" ELSE IF c = "later" THEN "opus" ELSE "sonnet"]]

\* A review that ran as the later one declares, one on the long-context tier whose roster is
\* incomplete, and one whose roster has no model.
Did(a, m) == [agent |-> a, model |-> m]

MCDoings ==
  { [usage |-> {"opus"}, ran |-> {Did("checker", "opus")}, roster |-> {Did("checker", "opus")}],
    [usage |-> {"sonnet", "long"}, ran |-> {Did("checker", "sonnet"), Did("planner", "long")},
     roster |-> {Did("planner", "long")}],
    [usage |-> {"sonnet"}, ran |-> {Did("checker", "sonnet")}, roster |-> {Did("checker", "null")}] }

\* The validator and the agent whose prompt is cut, or all; all are dispatched or not.
MCRosters == { {"validator", "security"}, {"validator", "quality", "security"} }

\* A passed build with a complete validation, one without tests, and a failed one whose
\* environment could not be used.
Told(ci, published, tests, skip) ==
  [ci |-> ci, published |-> published, tests |-> tests, skip |-> skip, wizard |-> published]

MCReports == { Told("passed", TRUE, TRUE, FALSE), Told("passed", TRUE, FALSE, FALSE),
               Told("failed", FALSE, FALSE, TRUE) }

MCVerdicts == { [verdict |-> "approve", issues |-> {}], [verdict |-> "revise", issues |-> {"key"}] }

MCKinds == { [p \in {server, job1} |-> IF p = server THEN "server" ELSE "job"] }

Re == INSTANCE ReviewProofs
        WITH Keys <- RowKeys, pr <- v1, hook <- v2, asked <- v3, queue <- v4, job <- v5,
             box <- v6, threads <- v7, rows <- v8, told <- v9, posted <- v10, calm <- v11,
             broken <- v12
Rc == INSTANCE ReflectionCard
        WITH Limit <- CardRows, MaxFaults <- MaxTroubles, rows <- v1, list <- v2,
             busy <- v3, trouble <- v4, armed <- v5, selected <- v6, loads <- v7,
             post <- v8, opens <- v9, faults <- v10, meant <- v11
Sc == INSTANCE Stats
        WITH Kinds <- ReviewKinds, WindowDays <- MCWindows, reviews <- v1, outcomes <- v2,
             today <- v3, window <- v4, population <- v5, token <- v6, loads <- v7,
             cards <- v8, value <- v9, refreshing <- v10, failed <- v11
Rv == INSTANCE ReviewValue
        WITH Findings <- Problems, Anchored <- WithFile, Traces <- Swept, DidBallots <- DidVotes,
             SaidBallots <- SaidVotes, MaxReviews <- MaxSaved,
             rows <- v1, listed <- v2, reviews <- v3, missing <- v4
Rb == INSTANCE Ribbon
        WITH Commits <- Shas, Agents <- Checkers, Models <- ModelNames, Pins <- Declared,
             Ran <- Doings, MaxMoves <- MaxShifts, MaxRuns <- MaxShown, head <- v1, kept <- v2,
             mounted <- v3, services <- v4, image <- v5, rows <- v6, load <- v7, drift <- v8,
             integrity <- v9, config <- v10, moves <- v11
Ap == INSTANCE ActionPanel
        WITH Phases <- PanelPhases, Opened <- PanelOpened, MaxPosts <- PanelPosts, MaxClicks <- PanelClicks,
             row <- v1, queue <- v2, page <- v3, seen <- v4, posts <- v5, tracked <- v6,
             form <- v7, text <- v8, moves <- v9, clicks <- v10
Rm == INSTANCE RepoForms
        WITH RepoKeys <- Repos, Configs <- MCConfigs, rows <- v1, list <- v2, loads <- v3,
             panel <- v4, form <- v5, shown <- v6, edited <- v7, posts <- v8,
             others <- v9, sent <- v10
Lv == INSTANCE LogViewer
        WITH log <- v1, poller <- v2, polls <- v3, stream <- v4, viewer <- v5,
             fetches <- v6, clicks <- v7, ticks <- v8, faults <- v9
St == INSTANCE Settings
        WITH MaxEdits <- MaxChanges, table <- v1, env <- v2, place <- v3, saved <- v4,
             run <- v5, edits <- v6, deploys <- v7, starts <- v8, errors <- v9
Uf == INSTANCE UserForms
        WITH users <- v1, list <- v2, loads <- v3, panel <- v4, password <- v5,
             busy <- v6, posts <- v7, others <- v8, sent <- v9
Ar == INSTANCE AgentRun
        WITH Ids <- Responses, pc <- v1, attempt <- v2, stream <- v3, result <- v4, failure <- v5,
             outcome <- v6, left <- v7, heard <- v8
Aw == INSTANCE AgentWorkspace
        WITH MaxCrashes <- MaxAccidents, own <- v1, target <- v2, bak <- v3, run <- v4,
             crashes <- v5, runs <- v6, damaged <- v7
Ex == INSTANCE ExperimentProofs
        WITH MaxAccidents <- MaxKills, image <- v1, default <- v2,
             matrix <- v3, box <- v4, orphans <- v5, live <- v6, rows <- v7, lines <- v8,
             accidents <- v9
Cr == INSTANCE CodingRounds
        WITH Reports <- CodingReports, Results <- BuildResults, Reviews <- Verdicts,
             pc <- v1, budget <- v2, mode <- v3, env <- v4, changeset <- v5, reviews <- v6, told <- v7, builds <- v8, script <- v9,
             heard <- v10, seen <- v11, refused <- v12
Rf == INSTANCE ReflectionProofs
        WITH today <- v1, watcher <- v2, lock <- v3, box <- v4, run <- v5,
             proposals <- v6, faults <- v7
Rg == INSTANCE RegistryProps
        WITH Kinds <- MCKinds, Requests <- Callers, kind <- v1, manifest <- v2,
             rows <- v3, req <- v4, proc <- v5, budget <- v6
Ac == INSTANCE AccountsProofs
        WITH Ids <- UserIds, Requests <- Callers, user <- v1, req <- v2, edits <- v3

\* The variables after the first n, and that they are not used.
after11 == << v12 >>
after10 == << v11, after11 >>
after9 == << v10, after10 >>
after8 == << v9, after9 >>
after7 == << v8, after8 >>
after6 == << v7, after7 >>
after4 == << v5, v6, after6 >>
after3 == << v4, after4 >>
after0 == << v1, v2, v3, after3 >>
Off11 == v12 = "unused"
Off10 == v11 = "unused" /\ Off11
Off9 == v10 = "unused" /\ Off10
Off8 == v9 = "unused" /\ Off9
Off7 == v8 = "unused" /\ Off8
Off6 == v7 = "unused" /\ Off7
Off4 == v5 = "unused" /\ v6 = "unused" /\ Off6
Off3 == v4 = "unused" /\ Off4
Off0 == v1 = "unused" /\ v2 = "unused" /\ v3 = "unused" /\ Off3

all == << part, vars, after0 >>

AllInit ==
  /\ Init
  /\ \/ part = "fleet" /\ Off0
     \/ /\ limit = CHOOSE n \in Limits : TRUE
        /\ \/ part = "review" /\ Re!Init
           \/ part = "accounts" /\ Ac!Init /\ Off3
           \/ part = "registry" /\ Rg!Init /\ Off6
           \/ part = "reflection" /\ Rf!Init /\ Off7
           \/ part = "logs" /\ Lv!Init /\ Off9
           \/ part = "files" /\ Aw!Init /\ Off7
           \/ part = "agent" /\ Ar!Init /\ Off8
           \/ part = "policy" /\ St!Init /\ Off9
           \/ part = "card" /\ Rc!Init /\ Off11
           \/ part = "panel" /\ Ap!Init /\ Off10
           \/ part = "users" /\ Uf!Init /\ Off9
           \/ part = "repos" /\ Rm!Init /\ Off10
           \/ part = "stats" /\ Sc!Init /\ Off11
           \/ part = "value" /\ Rv!Init /\ Off4
           \/ part = "ribbon" /\ Rb!Init /\ Off11
           \/ part = "matrix" /\ Ex!Init /\ Off9
           \/ part = "rounds" /\ Cr!Init

AllNext ==
  /\ UNCHANGED part
  /\ \/ part = "fleet" /\ Next /\ UNCHANGED after0
     \/ /\ UNCHANGED vars
        /\ \/ part = "review" /\ Re!Next
           \/ part = "accounts" /\ Ac!Next /\ UNCHANGED after3
           \/ part = "registry" /\ Rg!Next /\ UNCHANGED after6
           \/ part = "reflection" /\ Rf!Next /\ UNCHANGED after7
           \/ part = "logs" /\ Lv!Next /\ UNCHANGED after9
           \/ part = "files" /\ Aw!Next /\ UNCHANGED after7
           \/ part = "agent" /\ Ar!Next /\ UNCHANGED after8
           \/ part = "policy" /\ St!Next /\ UNCHANGED after9
           \/ part = "card" /\ Rc!Next /\ UNCHANGED after11
           \/ part = "panel" /\ Ap!Next /\ UNCHANGED after10
           \/ part = "users" /\ Uf!Next /\ UNCHANGED after9
           \/ part = "repos" /\ Rm!Next /\ UNCHANGED after10
           \/ part = "stats" /\ Sc!Next /\ UNCHANGED after11
           \/ part = "value" /\ Rv!Next /\ UNCHANGED after4
           \/ part = "ribbon" /\ Rb!Next /\ UNCHANGED after11
           \/ part = "matrix" /\ Ex!Next /\ UNCHANGED after9
           \/ part = "rounds" /\ Cr!Next

AllSpec == AllInit /\ [][AllNext]_all

\* What is in the logs when the dashboard is opened.
MCStored == << <<session, plan>>, <<session, code>> >>

ASSUME MatrixAssumption == Ex!ParametersOK
ASSUME RoundsAssumption == Cr!ParametersOK
ASSUME StatsAssumption == Sc!ParametersOK
ASSUME ValueAssumption == Rv!ParametersOK
ASSUME RibbonAssumption == Rb!ParametersOK

ItemSymmetry == Permutations({w1, w2})

-----------------------------------------------------------------------------
(* Invariants are evaluated for the part that moves.                         *)

\* One review of a pull request for all its automatic triggers, one for each comment.
ReviewsQueuedOnce == part = "review" => Re!ReviewsQueuedOnce

\* A completed review action, unless it was dropped before anything was started
\* (action-processor.ts:178-190), has left something a person can see; a coder whose round
\* was refused is told why, and a ci-waiter whose build has not ended how to watch on.
NeverSilent ==
  /\ part = "review" => Re!NeverSilent
  /\ part = "rounds" => Cr!RefusalTold /\ Cr!WatchGoesOn

\* A suggestion is put on the pull request only after it matched a commit at least as recent
\* as the head when the agent ended; what is pushed after that is not looked at.
SuggestionsCurrent == [][part = "review" => Re!FixCurrent]_all

\* A review never claims a better tree than the one it read, nor an exit code or accepted code
\* a better build than the one that was read.
ClaimsTrue ==
  /\ part = "review" => Re!TreeClaimTrue
  /\ part = "rounds" => Cr!ExitsTrue /\ Cr!AcceptedClean

\* Concurrent requests leave an active admin and do not deadlock.
AdminsServed == part = "accounts" => Ac!LastAdminStays /\ Ac!NeverDeadlocked

\* Audit entries of repositories tell what they replaced.
AuditTellsBefore == [][part = "registry" => Rg!EntryTellsBefore]_all

\* One proposal of a cycle waits for a decision.
OnePending == part = "reflection" => Rf!OnePending

\* A watcher's dispatch leaves the container another watcher waits for alone.
RunUndisturbed == [][part = "reflection" => Rf!DispatchSpares]_all

\* A run ends with the repository's own files in place.
WorkspaceRestored == part = "files" => Aw!WorkspaceRestored

\* A sub-agent's turns are counted once.
UsageOnce == part = "agent" => Ar!UsageOnce

\* A run works with the models and turns the Config tab shows, a scored run of the matrix with
\* the levers of its arm.
RunsAsShown ==
  /\ part = "policy" => St!RunsAsShown
  /\ part = "matrix" => Ex!CompliantInEffect /\ Ex!PromptsAgree

\* A view shows what was selected: the log viewer one log, the statistics one window and one
\* population.
ViewsPure == (part = "logs" => Lv!LogViewPure) /\ (part = "stats" => Sc!StatsAsSelected)

\* What a click sends is meant for what it was aimed at: a decision for the proposal its
\* button was armed on, a form for the row it was filled in for and with what it showed.
ClicksMeant ==
  /\ [][part = "card" => Rc!ClickMeant]_all
  /\ [] /\ part = "panel" => Ap!FeedbackMeant
        /\ part = "users" => Uf!PasswordMeant
        /\ part = "repos" => Rm!SavesWhatWasShown

\* A request of the sessions page is accepted just when its action is offered for the row as it
\* is by then, with one exception: `continue` is offered for a stalled row and refused.  On a
\* list that is up to date, the users screen blocks exactly what the server would refuse.
OffersHonoured ==
  [][part = "panel" => Ap!OfferHonoured]_all /\ [](part = "users" => Uf!GuardsAgree)

\* The figures of the statistics are consistent: those of the value card with each other and
\* its sentences with the findings they are about, the cards of one window and population, the
\* ribbon with what is deployed and what ran, and the pools of the matrix's arms.
FiguresHold ==
  /\ part = "stats" => Sc!ValueAddsUp /\ Sc!CardsAgree
  /\ part = "value" => Rv!SentencesTrue
  /\ part = "ribbon" => Rb!RibbonTrue
  /\ part = "matrix" => Ex!PoolsComplete
=============================================================================
