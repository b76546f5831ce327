---------------------------- MODULE PipelineProps ----------------------------
(***************************************************************************)
(* What the pipeline of one work item promises.                            *)
(***************************************************************************)
EXTENDS Pipeline

\* The circuit breaker (revision-loop.ts:112-119): between two grants of a budget - an
\* approval, a new plan, a rerun command, a human's retry of an exhausted loop - a
\* loop's producer runs at most MaxAttempts times, however often the container dies or
\* fails in between and whoever resumes it.
BudgetRespected == \A l \in Loops : charge[l] <= MaxAttempts

\* The inductive invariant behind BudgetRespected.  It needs every grant of a budget
\* to come from a human: no `/fix` whose rerunMode outlives a crash, no error that
\* loses the loop's row, no lost save or tag, no exit the watcher never settles.  A hand-run
\* `continue`, which keeps the error, is left out for RowInStep's sake.
OnlyHumansGrant ==
  /\ Inputs \cap {"/fix", "cli"} = {}
  /\ Faults \cap {"plain", "report", "tag", "watcher"} = {}

AtPlanGate(row) ==
  /\ row.stage = "checkpoint:plan-approved" /\ row.target = "none"
  /\ row.err # "revision-exhausted"

\* Where the container is, and what its copy of the row may hold there.
RowInStep ==
  /\ asks \subseteq Inputs
  /\ ~ db.rerun /\ ~ s.rerun
  /\ pc = "down" => s = db
  /\ pc \notin {"down", "enter"} => s.stage = Stage
  /\ pc \notin {"leave", "notify"} => sig = "none"
  /\ pc # "down" => s.err # "revision-exhausted" /\ (sig # "rewind" => s.target = "none")
  /\ db.cp = "plan-approved" => AtPlanGate(db)
  /\ pc # "down" /\ s.cp = "plan-approved" => Stage = "checkpoint:plan-approved" /\ AtPlanGate(s)
  /\ pc \in {"leave", "notify"} /\ sig # "pause" => s.cp # "plan-approved"
  /\ pc \in {"produce", "review"} => ~ db.skip /\ ~ s.skip

\* What is charged is on record in every copy of the row, and a copy grants a fresh
\* budget only when nothing is charged.
ChargeOnRecord ==
  /\ \A l \in Loops : charge[l] <= db.attempts[l] /\ charge[l] <= s.attempts[l]
  /\ db.skip \/ s.skip => charge = NoCharge
  /\ exit = "ok" => db.err # "revision-exhausted"
  /\ Stopped /\ db.err = "revision-exhausted" /\ ~ needInput => charge = NoCharge

BudgetInv == OnlyHumansGrant => RowInStep /\ ChargeOnRecord

\* A rerun command a run has accepted (checkpoint.ts:241, applyRerun) is answered
\* even if the container dies at any point: until the loop it was sent to has
\* produced again, the row holds the feedback and resumes no later than that loop,
\* or still holds the checkpoint whose scan finds the comment again.
FeedbackDurable ==
  owed # "none" =>
    \/ /\ db.feedback
       /\ \/ db.target = owed
          \/ db.target = "none" /\ Pos(db.stage) <= Pos(owed)
    \/ /\ db.cp # "none"
       /\ (IF owed = "planning" THEN "/rerun-plan" ELSE "/fix") \in asks

\* The coding gate (pipeline-definition.ts:32): the row only moves past coding with
\* a changeset whose last review approved it and whose CI passed, and no rewind,
\* reset or resume brings the row back there with less.
ReviewedCodeOnly ==
  Pos(db.stage) > Pos("coding") =>
    db.code # NoPlan /\ db.review = "approve" /\ db.built

\* The code past the coding loop implements the plan the row holds.
CodeMatchesPlan ==
  Pos(db.stage) > Pos("coding") => db.code = db.plan

\* Documentation is written for merged work only (checkpoint:pr-completed).
DocsAfterMerge ==
  Pos(db.stage) > Pos("checkpoint:pr-completed") => db.pr /\ prStatus = "completed"

\* An error in the row means the pipeline is stopped at it.
ErrorMeansStopped == pc \notin {"down", "enter"} => db.err = "none"

\* A stopped item can be moved by someone: the `continue` tag acts on an error or a
\* checkpoint, and an orphan scan on an item without need-input.
NeverStranded ==
  Stopped /\ ~ db.done => db.err # "none" \/ db.cp # "none" \/ ~ needInput

\* What NeverStranded rests on while a container runs: a pause has a checkpoint, and a
\* container that ends well has paused or finished.  An exit that is never settled
\* leaves whatever tag the container had set.
ExitsSettled == "watcher" \notin Faults
PauseHasCheckpoint ==
  /\ pc \notin {"leave", "notify"} => sig = "none"
  /\ sig = "pause" => s.cp # "none"
  /\ exit = "ok" => db.done \/ db.cp # "none"

\* "CHECKPOINT: Human approves plan" (pipeline-definition.ts:261): coding starts
\* from a plan version a human approved.
PlanApprovedBeforeCoding ==
  pc = "produce" /\ Stage = "coding" => s.plan \in approved

\* A stage the pipeline reaches finds the outputs it needs: no precondition fails
\* once the analyzer has approved the item, however it was rewound or resumed.
StageInputsReady ==
  pc = "enter" /\ s.ready /\ s.tests # "empty" => CanRun(Stage, s)

\* A branch this run pushed is never mistaken for a stranger's leftover
\* (branch-collision.ts:34).
OwnBranchKnown ==
  pc = "stage" /\ Stage = "coding" /\ s.code = NoPlan /\ branch = "ours" => s.prior

\* "A resume would re-run an already-spent attempt" (revision-loop.ts:160): a failure
\* or a crash inside a loop loses neither the attempts the row counts nor the plan and
\* the code of the rounds before it.
FailureKeepsProgress ==
  [][ (pc \in {"produce", "review"} /\ pc' = "down") =>
      (db'.attempts = db.attempts /\ db'.plan = db.plan /\ db'.code = db.code) ]_vars

\* The invariant behind FailureKeepsProgress: inside a loop the store holds the row the
\* container works on, unless a save may be lost.
NoLostSave  == Faults \cap {"plain", "report"} = {}
SavedInLoop == pc \in {"produce", "review"} => db = s

\* An escalation to a human is earned (revision-loop.ts:98, pipeline-definition.ts:188):
\* since its budget was granted the loop has run Window rounds without progress.
EscalationEarned ==
  sig = "pause" /\ Stage \in Loops => charge[Stage] >= Window

\* The course of the item is the one StageOrder promises.
Order == INSTANCE StageOrder WITH at <- db.stage, done <- db.done, ask <- owed
StagesInOrder == Order!Spec

-----------------------------------------------------------------------------
(* Fairness: a container that runs keeps running (Claude sessions have a     *)
(* timeout), and the watcher polls for ever: it settles every exit and acts  *)
(* on comments and merged pull requests.  Humans and faults are never forced. *)

FairSpec ==
  /\ Spec
  /\ WF_vars(Container)
  /\ WF_vars(HandleOutcome)
  /\ WF_vars(ContinueApproved)
  /\ WF_vars(ContinueMerged)
  /\ \A c \in {"/rerun-plan", "/fix"} : WF_vars(ScanRerun(c))

\* Every container run ends: the loops are bounded, and a rewind needs a new comment.
RunsEnd == (pc # "down") ~> (pc = "down")

\* A command the watcher can see at a stopped item is taken up (detectWork paths 3-5).
CommandHeeded ==
  \A c \in {"/rerun-plan", "/fix"} :
    (Stopped /\ c \in heard /\ (db.err # "none" \/ db.cp \notin {"none", "pr-completed"}))
      ~> (owed # "none")

\* A merged pull request finishes the item, or the row says why not.
MergeFinishes ==
  (Stopped /\ db.err = "none" /\ db.cp \in {"pr-published", "pr-completed"}
    /\ prStatus = "completed")
    ~> (db.done \/ db.err # "none" \/ owed # "none")

-----------------------------------------------------------------------------
(* Claims of the documentation that the code does not keep.  The first two   *)
(* are the Div runs; README.md tells the shortest behaviour against each.    *)

\* Optional stages run only when the repo config enables them
\* (pipeline-definition.ts:359).
OptionalStagesRespected ==
  /\ db.stage \in {"test-cases", "test-case-activation"} => TestCases
  /\ db.stage = "docs-writer" => DocsWriter

\* "An automatic resume (e.g. after a container crash) does NOT [refill the budget]"
\* (revision-loop.ts:87).
ResumeKeepsBudget == [][ResumeOrphan => ~ GrantsFreshBudget(db)]_vars

\* "Resume a stopped run: [...] refills the revision budget" (README.md:264): the loop a
\* `continue` tag restarts has its whole budget again.
ContinueRefills ==
  [][ContinueTag => (Stage \in Loops => PriorAttempts(Stage, s) = 0)']_vars

\* "Tag work item with need-input at checkpoints" (continue.ts:108): an item paused
\* for a human keeps the tag that says so.
PauseAsksForInput ==
  Stopped /\ db.cp # "none" /\ db.err = "none" => needInput

\* Publishing the pull request moves the item on (README.md:265).
PublishingAdvances ==
  (Stopped /\ db.cp = "pr-published" /\ prStatus = "active") ~> (db.cp # "pr-published")
=============================================================================
