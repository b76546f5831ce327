------------------------------ MODULE Pipeline ------------------------------
(***************************************************************************)
(* One work item's pipeline, from the first save of `pipeline run` to      *)
(* completion: the container that runs runPipeline() over the stages       *)
(* (src/pipeline/orchestrator.ts, checkpoint.ts, revision-loop.ts), the    *)
(* watcher that starts it and settles its exit (src/cli/watch), and the    *)
(* humans, pull request and git remote both of them look at.               *)
(*                                                                         *)
(* A step of the container is the code between two awaits another actor    *)
(* can see.  The watcher's decision and the start of the container it      *)
(* leads to are one step here; its pool and its action queue are not in    *)
(* this module.                                                            *)
(***************************************************************************)
EXTENDS RevisionLoop

CONSTANTS
  Faults,      \* what may go wrong: see FaultKinds
  Inputs,      \* what humans do: see InputKinds
  Disciplined  \* humans use a command only where README.md's table offers it

FaultKinds == {"crash", "error", "plain", "ado", "tag", "report", "remote",
               "foreign", "watcher", "empty"}
InputKinds == {"/rerun-plan", "/fix", "continue", "analyse", "dashboard", "cli",
               "untag", "abandon"}

ASSUME FaultAssumption == Faults \subseteq FaultKinds
ASSUME InputAssumption == Inputs \subseteq InputKinds /\ Disciplined \in BOOLEAN

VARIABLES
  db,          \* the row in the state store
  s,           \* runPipeline's `state`; equal to db while no container runs
  pre,         \* `state` as the current stage received it
  pc,          \* where the container is
  i,           \* index of the current stage in the container's list
  cmd,         \* the container's command: "run" or "continue"
  sig,         \* control-flow signal of the last stage
  exit,        \* exit of the last container, until the watcher has settled it
  planTag,     \* the plan-approved tag is on the work item
  needInput,   \* the need-input tag is on the work item
  asks,        \* commands commented since checkpoint.enteredAt
  heard,       \* commands commented since error.timestamp, else enteredAt
  prStatus,    \* the newest pull request: see PrStatuses
  branch,      \* the work item's branch on the remote
  approved,    \* ghost: plan versions a human approved
  charge,      \* ghost: producer runs of each loop since its budget was granted
  owed         \* ghost: the loop that owes an accepted human command a new output

container == << db, s, pre, pc, i, cmd, sig, exit >>
world     == << planTag, needInput, asks, heard, prStatus, branch >>
ghosts    == << approved, charge, owed >>
vars      == << container, world, ghosts >>

\* "dropped" is a draft that was abandoned; the pull request of "abandoned" was published.
PrStatuses == {"none", "draft", "active", "completed", "abandoned", "dropped"}

TypeOK ==
  /\ db \in State /\ s \in State /\ pre \in State
  /\ pc \in {"down", "enter", "stage", "produce", "review", "leave", "notify"}
  /\ cmd \in {"run", "continue"}
  /\ i \in 1..Len(StageList(cmd))
  /\ sig \in {"none", "pause", "rewind"}
  /\ exit \in {"none", "ok", "failed"}
  /\ planTag \in BOOLEAN /\ needInput \in BOOLEAN
  /\ asks \subseteq {"/rerun-plan", "/fix"} /\ heard \subseteq asks
  /\ prStatus \in PrStatuses
  /\ branch \in {"none", "ours", "foreign"}
  /\ approved \subseteq Plans \cup {NoPlan}
  /\ charge \in [Loops -> 0..MaxAttempts + 1]
  /\ owed \in Loops \cup {"none"}

Stopped == pc = "down" /\ exit = "none"

NoCharge == [l \in Loops |-> 0]

\* One more run of l's producer; one past the budget is as far as the ghost counts.
Charge(l, c) == [c EXCEPT ![l] = IF @ > MaxAttempts THEN @ ELSE @ + 1]

\* A new plan takes a version no row refers to.
PlansInUse == {db.plan, db.code, s.plan, s.code, pre.plan, pre.code}
FreshPlans == Plans \ PlansInUse

\* The first save of `pipeline run` has just created the row.
Init ==
  /\ db = InitialState /\ s = InitialState /\ pre = InitialState
  /\ pc = "stage" /\ i = 1 /\ cmd = "run" /\ sig = "none" /\ exit = "none"
  /\ planTag = FALSE /\ needInput = FALSE /\ asks = {} /\ heard = {}
  /\ prStatus = "none"
  /\ branch \in IF "foreign" \in Faults THEN {"none", "foreign"} ELSE {"none"}
  /\ approved = {} /\ charge = NoCharge /\ owed = "none"

-----------------------------------------------------------------------------
(* Helpers of the container *)

Stage == StageList(cmd)[i]

\* The row saved when a stage throws; `at` is what the thrown error preserved.
Fail(at, type) ==
  /\ db' = [at EXCEPT !.err = type, !.errAt = Stage]
  /\ s' = db' /\ pre' = db'
  /\ pc' = "down" /\ exit' = "failed" /\ sig' = "none"
  /\ heard' = {}
  /\ asks' = IF at.cp = db.cp THEN asks ELSE {}
  /\ UNCHANGED << i, cmd >>

Stop(row, how) ==
  /\ db' = row /\ s' = row /\ pre' = row
  /\ pc' = "down" /\ exit' = how /\ sig' = "none"
  /\ UNCHANGED << i, cmd >>

\* A stage returned `result`, with a control-flow signal.
Return(result, signal) ==
  /\ s' = result /\ pre' = result /\ sig' = signal /\ pc' = "leave"
  /\ UNCHANGED << db, i, cmd, exit >>

\* The target of a rewind is ignored.
LoadMutant(row, command) ==
  /\ s' = [row EXCEPT !.target = "none"] /\ pre' = s' /\ cmd' = command
  /\ i' = LET stored == StageIndex(StageList(command), row.stage)
          IN  IF stored > 0 THEN stored ELSE 1
  /\ pc' = "enter" /\ sig' = "none" /\ exit' = "none"

\* runPipeline loads the row and picks the stage to start from.
Load(row, command) ==
  LET wanted == IF row.target # "none" THEN row.target ELSE row.stage
      found  == StageIndex(StageList(command), wanted)
      stored == StageIndex(StageList(command), row.stage)
  IN  /\ s' = [row EXCEPT !.target = "none"]
      /\ pre' = s'
      /\ cmd' = command
      /\ i' = IF found > 0 THEN found ELSE IF stored > 0 THEN stored ELSE 1
      /\ pc' = "enter" /\ sig' = "none" /\ exit' = "none"

-----------------------------------------------------------------------------
(* The container: runPipeline() and the stages *)

EnterStage ==
  /\ pc = "enter"
  /\ LET row == [s EXCEPT !.stage = Stage]
     IN  IF CanRun(Stage, row)
         THEN /\ db' = row /\ s' = row /\ pre' = row /\ pc' = "stage"
              /\ UNCHANGED << i, cmd, sig, exit >>
         ELSE Stop(row, "failed")   \* PreconditionError: thrown outside the try
  /\ UNCHANGED << world, ghosts >>

\* analyzer, draft-pr, test-case-activation, documenter, docs-writer.
RunPlainStage ==
  /\ pc = "stage" /\ Stage \in PlainStages
  /\ Return(PlainOutputs(Stage, s), "none")
  /\ prStatus' = IF Stage = "draft-pr" /\ ~ s.pr THEN "draft" ELSE prStatus
  /\ UNCHANGED << planTag, needInput, asks, heard, branch, ghosts >>

\* A plain stage throws; nothing but the row it received survives.
FailPlainStage ==
  /\ pc = "stage" /\ Stage \in PlainStages /\ "error" \in Faults
  /\ \E type \in {"needs-input", "unknown"} :
       /\ type = "needs-input" => Stage = "analyzer"
       /\ Fail(s, type)
  /\ UNCHANGED << planTag, needInput, prStatus, branch, ghosts >>

\* classifyCollision: a branch in the way of a fresh start, or the named branch gone.
Collides(row) == IF row.code = NoPlan THEN branch # "none" ELSE branch = "none"

\* Record attempt n and persist it before the producer runs.
StartAttempt(l, n, row) ==
  /\ s' = RecordAttempt(l, n, row)
  /\ \/ db' = s'
     \/ "report" \in Faults /\ db' = db      \* reportActiveAgent swallows a failed save
  /\ pc' = "produce"
  /\ UNCHANGED << pre, i, cmd, sig, exit >>

EnterLoop(l) ==
  LET row == Entered(l, s)
      spent == PriorAttempts(l, s)
      kept == IF l = "planning" /\ ~ (s.rerun \/ s.skip)
              THEN [charge EXCEPT !["coding"] = 0, !["test-cases"] = 0]
              ELSE charge
  IN  /\ pc = "stage" /\ Stage = l
      /\ \/ /\ ~ BudgetLeft(spent)
            /\ Fail(row, "revision-exhausted")
            /\ charge' = kept
            /\ UNCHANGED << planTag, needInput, prStatus, branch, approved, owed >>
         \/ /\ BudgetLeft(spent)
            /\ l = "coding" /\ Collides(row)
            /\ Fail(s, "needs-input")
            /\ UNCHANGED << planTag, needInput, prStatus, branch, ghosts >>
         \/ /\ BudgetLeft(spent)
            /\ l = "coding" /\ Collides(row) => "remote" \in Faults  \* the check fails open
            /\ StartAttempt(l, spent + 1, row)
            /\ charge' = Charge(l, kept)
            /\ UNCHANGED << world, approved, owed >>

\* The coder pushes its branch before it reports a changeset.
PushBranch ==
  /\ pc = "produce" /\ Stage = "coding" /\ branch = "none"
  /\ branch' = "ours"
  /\ UNCHANGED << container, planTag, needInput, asks, heard, prStatus, ghosts >>

\* The agent may find no test case to write.
TestOutputs == IF "empty" \in Faults THEN {"empty", "some"} ELSE {"some"}

\* The producer returns and the row is persisted before the reviewer runs.
Produce(l) ==
  /\ pc = "produce" /\ Stage = l
  /\ l = "coding" => branch # "none"
  /\ \E p \in IF l = "planning" THEN FreshPlans ELSE {NoPlan},
        built \in IF l = "coding" THEN BOOLEAN ELSE {FALSE},
        tests \in IF l = "test-cases" THEN TestOutputs ELSE {"none"} :
       s' = Produced(l, p, built, tests, s)
  /\ \/ db' = s'
     \/ "report" \in Faults /\ db' = db
  /\ pc' = "review"
  /\ approved' = IF l = "planning" THEN approved \cap {db.plan, db.code} ELSE approved
  /\ owed' = IF owed = l THEN "none" ELSE owed
  /\ UNCHANGED << pre, i, cmd, sig, exit, world, charge >>

\* The reviewer returns: approve, ask a human, go round again, or run out.
Review(l) ==
  /\ pc = "review" /\ Stage = l
  /\ \E v \in {"approve", "revise"}, fell \in BOOLEAN :
       LET row  == Reviewed(l, v, s)
           next == IF Converges(l, cmd) THEN Counted(l, fell, row) ELSE row
       IN  \/ /\ IsApproved(l, v, row)
              /\ Return(Approved(l, row), "none")
              /\ charge' = [charge EXCEPT ![l] = 0]
              /\ UNCHANGED << world, approved, owed >>
           \/ /\ ~ IsApproved(l, v, row) /\ Converges(l, cmd) /\ Plateaued(l, next)
              /\ Return(Escalated(l, next), "pause")
              /\ UNCHANGED << world, ghosts >>
           \/ /\ ~ IsApproved(l, v, row) /\ ~ (Converges(l, cmd) /\ Plateaued(l, next))
              /\ BudgetLeft(next.attempts[l])
              /\ StartAttempt(l, next.attempts[l] + 1, next)
              /\ charge' = Charge(l, charge)
              /\ UNCHANGED << world, approved, owed >>
           \/ /\ ~ IsApproved(l, v, row) /\ ~ (Converges(l, cmd) /\ Plateaued(l, next))
              /\ ~ BudgetLeft(next.attempts[l])
              /\ Fail(next, "revision-exhausted")
              /\ UNCHANGED << planTag, needInput, prStatus, branch, ghosts >>

\* Whatever throws, the row the stage received is what is saved.
FailLoopMutant(l) ==
  /\ pc \in {"produce", "review"} /\ Stage = l
  /\ Faults \cap {"error", "plain"} # {} /\ Fail(pre, "unknown")
  /\ UNCHANGED << planTag, needInput, prStatus, branch, ghosts >>

\* Producer, CI hook or reviewer throws.  A PipelineError carries the loop's row;
\* any other error does not, and the row the stage received is what is saved.
FailLoop(l) ==
  /\ pc \in {"produce", "review"} /\ Stage = l
  /\ \/ "error" \in Faults /\ Fail(s, "unknown")
     \/ "plain" \in Faults /\ Fail(pre, "unknown")
  /\ UNCHANGED << planTag, needInput, prStatus, branch, ghosts >>

\* The commands a checkpoint scans, in order, as <<command, target>>.
GateCommands(gate) ==
  CASE gate = "checkpoint:plan-approved" -> << << "/rerun-plan", "planning" >> >>
    [] gate = "checkpoint:pr-published"  ->
         << << "/fix", "coding" >>, << "/rerun-plan", "planning" >> >>
    [] OTHER                             -> << << "/fix", "coding" >> >>

\* The first command of a gate's list that is among the comments.
FirstMatch(gate) ==
  LET hits == { k \in 1..Len(GateCommands(gate)) : GateCommands(gate)[k][1] \in asks }
  IN  GateCommands(gate)[CHOOSE k \in hits : \A m \in hits : k <= m]

Commented(gate) ==
  /\ s.cp # "none"                     \* only a resume has a time window to scan
  /\ \E k \in 1..Len(GateCommands(gate)) : GateCommands(gate)[k][1] \in asks

\* Being resumed counts as the plan's approval.
SatisfiedByResume(gate) ==
  CASE gate = "checkpoint:plan-approved" -> planTag \/ s.cp = "plan-approved"
    [] gate = "checkpoint:pr-published"  -> s.pr /\ prStatus \notin {"draft", "dropped"}
    [] OTHER                             -> s.pr /\ prStatus = "completed"

\* A pull request that was closed counts as completed.
SatisfiedByClosed(gate) ==
  CASE gate = "checkpoint:plan-approved" -> planTag
    [] gate = "checkpoint:pr-published"  -> s.pr /\ prStatus \notin {"draft", "dropped"}
    [] OTHER                             -> s.pr /\ prStatus \in {"completed", "abandoned"}

Satisfied(gate) ==
  CASE gate = "checkpoint:plan-approved" -> planTag
    [] gate = "checkpoint:pr-published"  -> s.pr /\ prStatus \notin {"draft", "dropped"}
    [] OTHER                             -> s.pr /\ prStatus = "completed"

\* A checkpoint finds a command: clear the checkpoint, record the rewind.
GateRewind ==
  /\ pc = "stage" /\ Stage \in Gates /\ Commented(Stage)
  /\ LET hit == FirstMatch(Stage)
     IN  /\ Return([s EXCEPT !.cp = "none",
                             !.rerun = hit[1] # "/rerun-plan",
                             !.target = hit[2],
                             !.feedback = TRUE], "rewind")
         /\ owed' = hit[2]
         /\ \/ planTag' = (planTag /\ ~ (/\ hit[1] = "/rerun-plan"
                                         /\ Stage = "checkpoint:pr-published"))
            \/ "tag" \in Faults /\ planTag' = planTag
  /\ charge' = NoCharge
  /\ UNCHANGED << needInput, asks, heard, prStatus, branch, approved >>

GatePass ==
  /\ pc = "stage" /\ Stage \in Gates /\ ~ Commented(Stage) /\ Satisfied(Stage)
  /\ Return([s EXCEPT !.cp = "none"], "none")
  /\ UNCHANGED << world, ghosts >>

GatePause ==
  /\ pc = "stage" /\ Stage \in Gates /\ ~ Commented(Stage) /\ ~ Satisfied(Stage)
  /\ Return([s EXCEPT !.cp = CheckpointName(Stage)], "pause")
  /\ UNCHANGED << world, ghosts >>

\* The REST call behind a checkpoint throws.
FailGate ==
  /\ pc = "stage" /\ Stage \in Gates /\ "ado" \in Faults
  /\ Fail(s, "unknown")
  /\ UNCHANGED << planTag, needInput, prStatus, branch, ghosts >>

\* The row is persisted after the stage.
SaveResult ==
  /\ pc = "leave"
  /\ db' = s /\ pc' = "notify"
  /\ asks'  = IF s.cp = db.cp THEN asks ELSE {}
  /\ heard' = IF s.cp = db.cp THEN heard ELSE {}
  /\ UNCHANGED << s, pre, i, cmd, sig, exit, planTag, needInput, prStatus, branch, ghosts >>

\* onStageComplete keeps need-input in step with the checkpoint; then the signal is obeyed.
Notify ==
  /\ pc = "notify"
  /\ \/ needInput' = IF s.cp # "none" THEN TRUE
                     ELSE IF Stage \in Gates THEN FALSE ELSE needInput
     \/ "tag" \in Faults /\ needInput' = needInput
  /\ \/ /\ sig = "pause"
        /\ Stop(s, "ok")
     \/ /\ sig = "rewind"
        /\ s' = [s EXCEPT !.target = "none"] /\ pre' = s'
        /\ i' = StageIndex(StageList(cmd), s.target)
        /\ pc' = "enter" /\ sig' = "none"
        /\ UNCHANGED << db, cmd, exit >>
     \/ /\ sig = "none" /\ i < Len(StageList(cmd))
        /\ i' = i + 1 /\ pc' = "enter"
        /\ UNCHANGED << db, s, pre, cmd, sig, exit >>
     \/ /\ sig = "none" /\ i = Len(StageList(cmd))
        /\ Stop([s EXCEPT !.done = TRUE], "ok")
  /\ UNCHANGED << planTag, asks, heard, prStatus, branch, ghosts >>

\* The container dies between any two steps.
Crash ==
  /\ pc # "down" /\ "crash" \in Faults
  /\ Stop(db, "failed")
  /\ UNCHANGED << world, ghosts >>
-----------------------------------------------------------------------------
(* The watcher: settling an exit and starting the next container *)

\* classifyContainerOutcome: a reported error, or no evidence of finished work.
Failed == exit = "failed" /\ (db.err # "none" \/ (~ db.done /\ db.cp = "none"))

\* A container that died without a word leaves the row as it is.
OutcomeRowMutant == db

\* The error recorded for a container that failed without recording one.
OutcomeRow ==
  IF Failed /\ db.err = "none"
  THEN [db EXCEPT !.err = "ContainerError", !.errAt = "container"]
  ELSE db

\* handleContainerOutcome.
HandleOutcome ==
  /\ exit # "none"
  /\ db' = OutcomeRow /\ s' = OutcomeRow /\ pre' = OutcomeRow
  /\ heard' = IF OutcomeRow = db THEN heard ELSE {}
  /\ \/ needInput' = Failed
     \/ "tag" \in Faults /\ needInput' = needInput
  /\ exit' = "none"
  /\ UNCHANGED << pc, i, cmd, sig, planTag, asks, prStatus, branch, ghosts >>

\* The watcher restarts before it has settled the exit.
LoseOutcome ==
  /\ exit # "none" /\ "watcher" \in Faults
  /\ exit' = "none"
  /\ UNCHANGED << db, s, pre, pc, i, cmd, sig, world, ghosts >>

\* The row is rewritten to `row` and a `pipeline continue` container started on it; the
\* first thing cont() does there is to take need-input off.
Continue(row) ==
  /\ db' = row /\ Load(row, "continue")
  /\ \/ needInput' = FALSE
     \/ "tag" \in Faults /\ needInput' = needInput

\* What the comment window shows once the row's error is gone.
Rewindowed(row) == asks' = asks /\ heard' = IF row.err # db.err THEN asks ELSE heard

\* A human's retry of an exhausted loop grants it a fresh budget; of any other error
\* it does not.
Granted(c) == IF db.err = "revision-exhausted" THEN NoCharge ELSE c

\* detectWork path 1b: the `continue` tag; the dashboard's Continue button does the same
\* to an errored item.
ContinueTag ==
  /\ Stopped /\ "continue" \in Inputs
  /\ db.err # "none" \/ db.cp # "none"
  /\ LET row == IF db.err # "none" THEN ClearError(db) ELSE db
     IN  Continue(row) /\ Rewindowed(row)
  /\ charge' = Granted(charge)
  /\ UNCHANGED << planTag, prStatus, branch, approved, owed >>

\* detectWork path 2: the plan-approved tag, at its checkpoint or after an error.
PlanTagAtGate == planTag /\ db.cp = "plan-approved"
PlanTagRetry  == planTag /\ db.cp # "plan-approved" /\ db.err # "none" /\ ~ needInput

ContinueApproved ==
  /\ Stopped /\ (PlanTagAtGate \/ PlanTagRetry)
  /\ LET row == IF PlanTagRetry THEN ClearError(db) ELSE db
     IN  Continue(row) /\ Rewindowed(row)
  /\ UNCHANGED << planTag, prStatus, branch, ghosts >>

\* applyRerun followed by executeContinue; only the comment scan touches tags.
Rerun(c) ==
  /\ Continue(ApplyRerun(c, db))
  /\ asks' = {} /\ heard' = {}
  /\ charge' = NoCharge
  /\ owed' = RerunTarget(c, db)
  /\ UNCHANGED << prStatus, branch, approved >>

\* detectWork paths 3 to 5: a command in the comments of a stopped item.
ScanRerun(c) ==
  /\ Stopped /\ Scannable(db) /\ ~ PlanTagAtGate /\ ~ PlanTagRetry
  /\ c \in heard
  /\ c = "/fix" => "/rerun-plan" \notin heard
  /\ Rerun(c)
  /\ \/ planTag' = (planTag /\ RerunTarget(c, db) # "planning")
     \/ "tag" \in Faults /\ planTag' = planTag

\* detectWork path 6: the pull request completed.
ContinueMerged ==
  /\ Stopped /\ PrCompletedCandidate(db) /\ prStatus = "completed"
  /\ Scannable(db) => heard = {}
  /\ Continue(db)
  /\ UNCHANGED << planTag, asks, heard, prStatus, branch, ghosts >>

\* findOrphanedSessions, when the watcher starts.
ResumeOrphan ==
  /\ Stopped /\ ~ db.done /\ db.cp = "none" /\ db.err = "none" /\ ~ needInput
  /\ Continue(db)
  /\ UNCHANGED << planTag, asks, heard, prStatus, branch, ghosts >>

\* executeStartFresh for the `analyse` tag; refused while a pull request is active.
StartFresh ==
  /\ Stopped /\ "analyse" \in Inputs
  /\ ~ (db.pr /\ prStatus \in {"draft", "active"})
  /\ db' = db /\ Load(InitialState, "run")
  /\ branch' = IF branch = "ours" THEN "foreign" ELSE branch
  /\ asks' = {} /\ heard' = {}
  /\ charge' = NoCharge /\ owed' = "none"
  /\ UNCHANGED << planTag, needInput, prStatus, approved >>

\* Dashboard buttons validated by validateAction and run by executeAction.
DashboardRerun(c) ==
  /\ Stopped /\ "dashboard" \in Inputs /\ c \in Inputs
  /\ \/ db.cp = "pr-published"
     \/ /\ c = "/rerun-plan"
        /\ db.cp = "plan-approved" \/ db.errAt \in {"planning", "coding", "draft-pr"}
     \/ c = "/fix" /\ db.errAt \in {"coding", "draft-pr", "test-cases"}
  /\ Rerun(c)
  /\ UNCHANGED planTag

\* An operator runs `pipeline continue` by hand: the row is loaded as it is, and what
\* cont() clears it clears on a copy runPipeline never sees.
CliContinue ==
  /\ Stopped /\ "cli" \in Inputs
  /\ Continue(db)
  /\ UNCHANGED << planTag, asks, heard, prStatus, branch, ghosts >>

-----------------------------------------------------------------------------
(* Humans, the pull request and the git remote *)

\* A comment counts when the item waits for one: at a checkpoint or after an error.
Ask(c) ==
  /\ c \in Inputs /\ c \notin heard
  /\ db.cp # "none" \/ db.err # "none"
  /\ Disciplined => IF c = "/fix" THEN db.code # NoPlan ELSE db.ready
  /\ heard' = heard \cup {c} /\ asks' = asks \cup {c}
  /\ UNCHANGED << container, planTag, needInput, prStatus, branch, ghosts >>

\* The human reads the plan the row holds and tags the work item.
ApprovePlan ==
  /\ db.cp = "plan-approved" /\ Stopped
  /\ ~ (planTag /\ db.plan \in approved)
  /\ planTag' = TRUE
  /\ approved' = approved \cup {db.plan}
  /\ UNCHANGED << container, needInput, asks, heard, prStatus, branch, charge, owed >>

\* Removing need-input after an error asks for a retry.
RemoveNeedInput ==
  /\ "untag" \in Inputs /\ Stopped /\ needInput /\ db.err # "none"
  /\ needInput' = FALSE
  /\ charge' = Granted(charge)
  /\ UNCHANGED << container, planTag, asks, heard, prStatus, branch, approved, owed >>

PullRequest ==
  /\ \/ prStatus = "draft"  /\ prStatus' = "active"    /\ branch' = branch
     \/ prStatus = "active" /\ prStatus' = "completed" /\ branch' \in {branch, "none"}
     \/ /\ "abandon" \in Inputs /\ branch' = branch
        /\ \/ prStatus = "draft"  /\ prStatus' = "dropped"
           \/ prStatus = "active" /\ prStatus' = "abandoned"
  /\ UNCHANGED << container, planTag, needInput, asks, heard, ghosts >>

\* A human renames or deletes the branch a needs-input error named.
FreeBranch ==
  /\ db.err = "needs-input" /\ Stopped /\ branch # "none"
  /\ branch' = "none"
  /\ UNCHANGED << container, planTag, needInput, asks, heard, prStatus, ghosts >>

-----------------------------------------------------------------------------
Container ==
  \/ EnterStage \/ RunPlainStage \/ FailPlainStage
  \/ PushBranch \/ GateRewind \/ GatePass \/ GatePause \/ FailGate
  \/ SaveResult \/ Notify
  \/ \E l \in Loops : EnterLoop(l) \/ Produce(l) \/ Review(l) \/ FailLoop(l)

Watcher ==
  \/ HandleOutcome \/ LoseOutcome
  \/ ContinueTag \/ ContinueApproved \/ ContinueMerged \/ ResumeOrphan
  \/ StartFresh \/ CliContinue
  \/ \E c \in {"/rerun-plan", "/fix"} : ScanRerun(c) \/ DashboardRerun(c)

Human ==
  \/ ApprovePlan \/ RemoveNeedInput \/ PullRequest \/ FreeBranch
  \/ \E c \in {"/rerun-plan", "/fix"} : Ask(c)

Next == Container \/ Crash \/ Watcher \/ Human

Spec == Init /\ [][Next]_vars
=============================================================================
