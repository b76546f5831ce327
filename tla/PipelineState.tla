--------------------------- MODULE PipelineState ---------------------------
(***************************************************************************)
(* The row the pipeline persists for one work item (PipelineState in       *)
(* src/types/pipeline.types.ts) and the pure functions that rewrite it.    *)
(*                                                                         *)
(* Control data is kept as it is in the code.  Payloads are abstracted to  *)
(* what the properties tell apart: a plan is a version, a changeset is the *)
(* version of the plan it was coded from, a list of reviews is the verdict *)
(* of its last element, a pull request is present or not.  Plan and test   *)
(* case reviews are consulted only by the step that adds them, so the row  *)
(* here keeps none.  Telemetry, the liveness marker and prompts are left   *)
(* out.                                                                    *)
(***************************************************************************)
EXTENDS Naturals, Sequences

CONSTANTS
  Plans,        \* versions a development plan can have
  NoPlan,       \* no plan, or no changeset
  MaxAttempts,  \* config.revisionLoops.maxAttempts
  Window,       \* convergence.window (3 in pipeline-definition.ts)
  TestCases,    \* RepoConfig.testCases
  DocsWriter    \* RepoConfig.docsWriter

ASSUME PlanAssumption     == NoPlan \notin Plans
ASSUME BudgetAssumption   == MaxAttempts \in Nat \ {0}
ASSUME WindowAssumption   == Window \in Nat /\ Window >= 2
ASSUME FeaturesAssumption == TestCases \in BOOLEAN /\ DocsWriter \in BOOLEAN

---------------------------------------------------------------------------
(* Stages *)

Loops       == {"planning", "coding", "test-cases"}
Gates       == {"checkpoint:plan-approved", "checkpoint:pr-published",
                "checkpoint:pr-completed"}
PlainStages == {"analyzer", "draft-pr", "test-case-activation", "documenter",
                "docs-writer"}
Stages      == Loops \cup Gates \cup PlainStages

\* buildDefaultPipeline: the list every `pipeline continue` runs.
DefaultStages ==
  << "analyzer", "planning", "checkpoint:plan-approved", "coding", "test-cases",
     "draft-pr", "checkpoint:pr-published", "test-case-activation",
     "checkpoint:pr-completed", "documenter", "docs-writer" >>

\* buildPipeline: the list `pipeline run` assembles from the repo's features.
RepoStages ==
  << "analyzer", "planning", "checkpoint:plan-approved", "coding" >>
  \o (IF TestCases THEN << "test-cases" >> ELSE << >>)
  \o << "draft-pr", "checkpoint:pr-published" >>
  \o (IF TestCases THEN << "test-case-activation" >> ELSE << >>)
  \o << "checkpoint:pr-completed", "documenter" >>
  \o (IF DocsWriter THEN << "docs-writer" >> ELSE << >>)

StageList(cmd) == IF cmd = "run" THEN RepoStages ELSE DefaultStages

\* findStageIndex, with 0 for "not found".
StageIndex(list, name) ==
  IF \E j \in 1..Len(list) : list[j] = name
  THEN CHOOSE j \in 1..Len(list) : list[j] = name
  ELSE 0

\* The full list orders the stages of both lists.
Position == [name \in Stages |-> StageIndex(DefaultStages, name)]
Pos(name) == Position[name]

\* The name a checkpoint stage records in state.checkpoint.
CheckpointName(stage) ==
  CASE stage = "checkpoint:plan-approved" -> "plan-approved"
    [] stage = "checkpoint:pr-published"  -> "pr-published"
    [] OTHER                              -> "pr-completed"

CheckpointNames == {"plan-approved", "pr-published", "pr-completed",
                    "convergence:planning", "convergence:coding"}

ConvergenceName(l) ==
  IF l = "planning" THEN "convergence:planning" ELSE "convergence:coding"

ErrorTypes == {"revision-exhausted", "needs-input", "unknown", "ContainerError"}

---------------------------------------------------------------------------
(* The row *)

State ==
  [ stage    : Stages,                      \* currentStage
    ready    : BOOLEAN,                     \* readiness.verdict = 'proceed'
    plan     : Plans \cup {NoPlan},         \* devPlan
    code     : Plans \cup {NoPlan},         \* changeset, by the plan it implements
    built    : BOOLEAN,                     \* CI and environment conjuncts of the gate
    tests    : {"none", "empty", "some"},   \* testCases
    review   : {"none", "approve", "revise"},  \* verdict of the last code review
    pr       : BOOLEAN,                     \* draftPR
    docs     : BOOLEAN,                     \* workItemUpdate
    prior    : BOOLEAN,                     \* priorBranches names the item's branch
    attempts : [Loops -> 0..MaxAttempts],   \* revisionAttempts
    stall    : [Loops -> 0..Window],        \* trailing non-decreasing revisionIssueCounts
    esc      : Loops \cup {"none"},         \* convergenceEscalation.loop
    rerun    : BOOLEAN,                     \* rerunMode is set
    skip     : BOOLEAN,                     \* skipResetState
    cp       : CheckpointNames \cup {"none"},  \* checkpoint.name
    target   : Loops \cup {"none"},         \* revisionFeedback.targetStage
    feedback : BOOLEAN,                     \* humanFeedback
    err      : ErrorTypes \cup {"none"},    \* error.type
    errAt    : Stages \cup {"container", "none"},  \* error.stage
    done     : BOOLEAN ]                    \* completedAt

\* createInitialState.
InitialState ==
  [ stage |-> "analyzer", ready |-> FALSE, plan |-> NoPlan, code |-> NoPlan,
    built |-> FALSE, tests |-> "none", review |-> "none",
    pr |-> FALSE, docs |-> FALSE, prior |-> FALSE,
    attempts |-> [l \in Loops |-> 0], stall |-> [l \in Loops |-> 0],
    esc |-> "none", rerun |-> FALSE, skip |-> FALSE, cp |-> "none",
    target |-> "none", feedback |-> FALSE, err |-> "none", errAt |-> "none",
    done |-> FALSE ]

\* The branch of the discarded changeset is forgotten.
PlanningResetForgetsBranch(s) ==
  [ s EXCEPT !.review = "none", !.code = NoPlan, !.built = FALSE, !.pr = FALSE,
             !.tests = "none", !.docs = FALSE,
             !.attempts = [@ EXCEPT !["coding"] = 0, !["test-cases"] = 0],
             !.stall = [l \in Loops |-> 0] ]

\* The issue counts of the rounds on the old plan are kept.
PlanningResetKeepsCounts(s) ==
  [ s EXCEPT !.prior = @ \/ s.code # NoPlan,
             !.review = "none", !.code = NoPlan, !.built = FALSE, !.pr = FALSE,
             !.tests = "none", !.docs = FALSE,
             !.attempts = [@ EXCEPT !["coding"] = 0, !["test-cases"] = 0] ]

\* planningResetState.
PlanningReset(s) ==
  [ s EXCEPT !.prior    = @ \/ s.code # NoPlan,
             !.review   = "none",
             !.code     = NoPlan,
             !.built    = FALSE,
             !.pr       = FALSE,
             !.tests    = "none",
             !.docs     = FALSE,
             !.attempts = [@ EXCEPT !["coding"] = 0, !["test-cases"] = 0],
             !.stall    = [l \in Loops |-> 0] ]

\* The resetState hook of each loop; test-cases only drops its own reviews.
ResetState(l, s) ==
  CASE l = "planning" -> PlanningReset(s)
    [] l = "coding"   -> [s EXCEPT !.review = "none"]
    [] OTHER          -> s

\* The documenter's result is returned and never stored.
PlainOutputsMutant(stage, s) ==
  [s EXCEPT !.ready = @ \/ stage = "analyzer",
            !.pr    = @ \/ stage = "draft-pr"]

\* applyOutput of the stages that are neither loops nor checkpoints.
PlainOutputs(stage, s) ==
  [s EXCEPT !.ready = @ \/ stage = "analyzer",
            !.pr    = @ \/ stage = "draft-pr",
            !.docs  = @ \/ stage = "documenter"]

\* canRun of each stage; a loop can run when its producer can.
CanRun(stage, s) ==
  CASE stage = "planning"             -> s.ready
    [] stage = "coding"               -> s.plan # NoPlan
    [] stage = "test-cases"           -> s.code # NoPlan
    [] stage = "draft-pr"             -> s.code # NoPlan
    [] stage = "test-case-activation" -> s.tests = "some"
    [] stage = "documenter"           -> s.pr
    [] stage = "docs-writer"          -> s.docs
    [] OTHER                          -> TRUE

---------------------------------------------------------------------------
(* What the watcher and the dashboard write between two containers *)

\* resolveFixTarget: the loop that asked gets the answer, else coding, else planning.
FixTarget(s) ==
  IF s.errAt \in Loops THEN s.errAt
  ELSE IF s.code # NoPlan \/ s.plan # NoPlan THEN "coding"
  ELSE "planning"

FixExistingBranch(s) == FixTarget(s) = "coding" /\ s.code # NoPlan

RerunTarget(c, s) == IF c = "/rerun-plan" THEN "planning" ELSE FixTarget(s)

\* Any command on a row with a changeset is taken for a fix of it.
ApplyRerunMutant(c, s) ==
  LET t == RerunTarget(c, s)
  IN  [ s EXCEPT !.err = "none", !.errAt = "none", !.cp = "none",
                 !.rerun = @ \/ FixExistingBranch(s), !.target = t,
                 !.attempts = [@ EXCEPT ![t] = 0], !.feedback = TRUE ]

\* applyRerun, for the command c.
ApplyRerun(c, s) ==
  LET t == RerunTarget(c, s)
  IN  [ s EXCEPT !.err      = "none",
                 !.errAt    = "none",
                 !.cp       = "none",
                 !.rerun    = @ \/ (c # "/rerun-plan" /\ FixExistingBranch(s)),
                 !.target   = t,
                 !.attempts = [@ EXCEPT ![t] = 0],
                 !.feedback = TRUE ]

\* The delta of a `continue`: clear the error, keep an exhausted loop's outputs.
ClearError(s) ==
  [ s EXCEPT !.skip  = @ \/ s.err = "revision-exhausted",
             !.err   = "none",
             !.errAt = "none" ]

\* Comments are read at checkpoints only.
ScannableMutant(s) == ~ s.done /\ s.cp \in CheckpointNames \ {"pr-completed"}

\* isCheckpointScannable.
Scannable(s) ==
  /\ ~ s.done
  /\ \/ s.err # "none"
     \/ s.cp \in CheckpointNames \ {"pr-completed"}

\* A pull request that completes before its publication was noticed is overlooked.
PrCompletedCandidateMutant(s) ==
  ~ s.done /\ s.err = "none" /\ s.cp = "pr-completed" /\ s.pr

\* isPrCompletedCandidate.
PrCompletedCandidate(s) ==
  /\ ~ s.done
  /\ s.err = "none"
  /\ s.cp \in {"pr-published", "pr-completed"}
  /\ s.pr
=============================================================================
