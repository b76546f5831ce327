# A TLA+ model of DevOpsWorker

DevOpsWorker takes a work item from Azure DevOps through analysis, planning, coding,
review, pull request and documentation. Claude agents do the work, humans steer it with
tags, comments and a dashboard, and a watcher starts a docker container whenever there is
something to do. Beside that it reviews pull requests on webhooks, reflects on its own
reviews once a cycle, and lets admins edit repositories, settings and users.

Two things are hard about it. One JSON row per work item is all that survives between two
containers: who writes it, when it is saved and what a crash leaves in it decides
everything (modules around `Pipeline`). And a dozen processes, timers, requests and open
browser tabs meet in a few tables, locks and in-memory maps (the other modules). Paths
below are relative to `src/src/` unless they start otherwise; `PROJECT.json` maps each
definition to its lines.

## 1. The system

| Component | State | Operations | Hard behaviour | Module |
|---|---|---|---|---|
| Persisted row (`types/pipeline.types.ts`) | stage, outputs, attempts, issue counts, checkpoint, error, rewind, grants | rewritten as a whole by every save | the only memory across containers | `PipelineState` |
| Orchestrator (`pipeline/orchestrator.ts`) | its copy of the row, stage index | load, enter, save, fail, pause, rewind, complete | a crash between any two saves; errors with and without partial state | `Pipeline` |
| Revision loop (`pipeline/revision-loop.ts`) | attempt counter, issue counts | producer, CI hook, reviewer; approve, escalate, retry, run out | the budget must hold across crashes and resumes | `RevisionLoop`, `Pipeline` |
| Checkpoints (`pipeline/checkpoint.ts`) | `checkpoint` in the row | scan commands, pass, pause, rewind | comment windows; two systems updated one after the other | `Pipeline` |
| Stage lists and gates (`pipeline/pipeline-definition.ts`) | none | two stage lists, resets, approval gates | `run` and `continue` use different lists | `PipelineState`, `Pipeline` |
| Branch gate (`pipeline/branch-collision*.ts`) | `priorBranches` | compare the remote with the row | own leftovers against a stranger's branch; fails open | `Pipeline` |
| Stage agents (`agents/*/config.ts`) | none | `canRun`, `applyOutput` | preconditions after rewinds | `PipelineState`, `RevisionLoop` |
| Work detection (`cli/watch/work-detector.ts`) | none | six paths from tags, comments and pull requests to actions | priority of the paths, stale commands, one list for many items | `Pipeline`, `Fleet` |
| Container dispatch (`cli/watch/container-dispatcher.ts`) | none | start, continue, settle an exit | containers that die without a word | `Pipeline`, `Fleet` |
| Watcher loop and pool (`cli/watch.ts`) | running map, concurrency | poll, dispatch, orphan scan, janitor, clean-up | actions dropped when full; promises that die with the process | `Fleet` |
| Dashboard actions (`dashboard/actions.ts`, `cli/watch/action-processor.ts`) | action queue | offer, validate, queue, claim, execute | validated at one time, executed at another | `ActionPanel`, `Fleet` |
| Environment actions (`cli/watch/env-actions.ts`) | `environment` in the row | start, stop, delete, share | whole-row save after a long call | `Fleet` |
| CLI (`cli/run.ts`, `cli/continue.ts`) | none | start, continue | clears the error on a copy | `Pipeline` |
| Webhook server, PR review (`webhook-server/`, `cli/review-pr.ts`) | event log, actions, review rows, threads | deduplicate, queue, review, comment | redelivered and simultaneous webhooks; a moving head; a container that dies anywhere | `Review` |
| Reflection, scheduler (`cli/reflect.ts`, `cli/watch/scheduler.ts`) | proposal per cycle, advisory lock | dispatch, run, save, decide | several watchers tick; runs by hand | `Reflection`, `ReflectionCard` |
| Agent runner (`sdk/run-agent.ts`, `agent-stream.ts`, `agent-workspace.ts`) | attempt, usage per sub-agent, files moved aside | stream, classify, retry; stage and clean up | fragments and totals in any order; runs that die with files moved | `AgentRun`, `AgentWorkspace` |
| Registry (`config/seed.ts`, `hydrate*.ts`, `db/pg-registry-store.ts`) | a table and one copy per process | seed, hydrate, refresh, audited edits | failed seeds, stale copies, concurrent edits | `Registry`, `RepoForms` |
| Settings (`cli/config.ts`, `overlay/agent-knobs.ts`) | a table, environment, what a row saved | resolve, snapshot, resume | the same knob from five places | `Settings` |
| Users (`dashboard/admin-api.ts`) | users table, row locks | create, role, switch, password | last admin under concurrent requests | `Accounts`, `UserForms` |
| Dashboard server (`dashboard/*-poller.ts`, `server.ts`) | watermarks | poll, broadcast, pages | a change the watermark does not show; overlapping polls | `LiveSessions`, `LogViewer` |
| Dashboard client (`dashboard/client/`) | one set of signals per screen | load, arm, click, submit | answers that come after the next click | `LogViewer`, `ReflectionCard`, `ActionPanel`, `UserForms`, `RepoForms`, `Stats`, `ReviewValue`, `Ribbon` |
| Statistics (`dashboard/stats.ts`, `client/assessors.ts`) | none | count, sum, compare, ask git | several queries over moving tables set against each other; HEAD moves between two calls of git; sentences chosen from counts that may be unknown | `Stats`, `ReviewValue`, `Ribbon` |
| Coding rounds (`agents/coder/`, `pipeline/pipeline-definition.ts`, `scripts/await-pipeline.ts` beside `src/`) | builds, invocations, `codeReviews`, `gateFailure` | trigger, attach, poll, report, check, refuse | a script that has to end before its build does; what a coder is told after which refusal | `CodingRounds` |
| Review experiments (`scripts/pr-review-tooling-ab.ts` beside `src/`, levers of `cli/review-pr.ts`) | results file, review rows, containers | run a cell, find its row, judge it | production writes the same table; killed scripts leave containers | `Experiment` |
| Azure DevOps client, prompts, formatters, overlay | none | REST, text, plug-ins | none of their own here | - |

How they interact. The watcher reads tags, comments and pull request status over REST,
rewrites the row, and starts a container with `pipeline run`, `pipeline continue` or
`review-pr`. The container loads the row once, then saves it at stage entry, before each
agent of a loop, after each stage, on failure and at the end; it never reads it again.
When it exits, the watcher classifies the exit from the exit code and the row. Humans
answer through tags (`plan-approved`, `continue`, `need-input`), comments (`/fix`,
`/rerun-plan`), the pull request, and dashboard buttons, which put actions into a queue
the watcher claims from. Webhooks put review actions into the same queue. The dashboard
polls the tables the containers write and streams changes to browsers.

What must hold: bounded attempts whatever crashes; no lost or invented approval; no lost
human command; no code past its gate without review; no documentation before the merge; no
item nobody can move; stages in order; one container per item within the pool; every
queued action run at most once and settled; one review per trigger and never silence; one
pending proposal per cycle; an active admin always; audit entries that tell the truth;
copies that catch up with their tables; and screens on which a click means what it was
aimed at.

## 2. Modules

The pipeline of one item:

- **`PipelineState`**: the row as a record, both stage lists, and the pure functions that
  rewrite the row: resets, outputs, preconditions, `/fix` routing, `applyRerun`, the
  `continue` delta, and two predicates of the watcher. A plan is a version, a changeset is
  the version of the plan it implements, the code reviews are the verdict of the last one.
  `stall` is the length of the trailing run of issue counts that did not fall, which is
  all `hasPlateaued` looks at.
- **`RevisionLoop`**: the loop's pure parts: what entering does to the row, who gets a
  fresh budget, recording an attempt, outputs, approval, plateau and escalation.
- **`Pipeline`**: the state machine. `db` is the stored row, `s` the container's copy,
  `pre` the copy the current stage received (what a plain exception falls back to). `pc`
  goes `enter`, `stage`, then either `leave` and `notify`, or, in a loop, `produce` and
  `review` as often as needed. One step is the code between two awaits at which another
  actor or a crash can be seen. `exit` keeps the exit of the last container until
  `HandleOutcome` settles it. The watcher's decision and the start of the container it
  leads to are one step. `asks` and `heard` are the commands inside the two comment
  windows of the code: since the checkpoint was entered (read by the container), and since
  the error, else the checkpoint (read by the watcher). The ghosts `approved`, `charge`
  and `owed` are read by properties only.
- **`StageOrder`**: the abstract specification: stages in order, only optional ones
  skipped, only a human's command sends the item elsewhere, and the item neither moves on
  nor finishes while a command is unanswered. `StagesInOrder` is the refinement, with `at`
  the stored stage, `done` its completion and `ask` the ghost `owed`.
- **`PipelineProps`**: properties, the inductive invariant, fairness. **`MCPipeline`**:
  TLC instances; only adds the symmetry of plan versions.
- **`PipelineProofs`** (types, attempt budgets, failures and stops), **`CourseProofs`**
  (what each stage may rely on, commands that survive, earned escalations, the plan gate, the
  refinement of `StageOrder`): theorems and proofs.

Faults of `Pipeline` are a constant set, so that each run says what may go wrong: `crash`
(the container dies between two steps), `error` (an agent throws a PipelineError), `plain`
(any other exception), `ado` (a REST read behind a checkpoint fails), `tag` (a tag write
fails and is swallowed), `report` (the save before an agent fails and is swallowed),
`remote` (the branch check fails open), `foreign` (a stranger's branch exists), `watcher`
(the watcher restarts before it has settled an exit), `empty` (no test cases found).
Inputs are a set too: `/rerun-plan`, `/fix`, `continue`, `analyse` (start over),
`dashboard`, `cli` (continue by hand), `untag` (remove `need-input`), `abandon` (the pull
request). `Disciplined` restricts comments to where README.md's interaction table offers
them: `/fix` with a changeset, `/rerun-plan` after the analysis.

Around it:

- **`Fleet`**, **`FleetProps`**: the watcher over several items. `loop` is the watcher's
  place in its cycle (`down`, `reap`, `actions`, `poll`, `apply`, `cleanup`), `running` the
  map that is the pool, `jobs` its promises, `box` docker's containers (which outlive the
  watcher), `queue` the action rows (those failed as duplicates are marked, as
  their error text does), `found` and `todo` what one poll listed. A container
  is a few whole-row saves and an exit; `Pipeline` has the detail. `env` stands for start,
  stop, delete and share. `Crash` kills the watcher with everything it holds in memory. Proofs
  in **`FleetProofs`**.
- **`Review`**, **`ReviewProps`**: one pull request with its webhooks (delivered, delivered
  again, two at once), the scopes and the lock behind them, the review actions, those the
  watcher drops unread (`Drop`, with the ghost `dropped`), the
  container from connection to comments, the ladder of trees it may check out, threads
  and suggestions against a head the author may push to. Proofs in **`ReviewProofs`**.
- **`Reflection`**: ticks of several watchers, the guard and the advisory lock, the
  container of a cycle, runs by hand, saves that supersede, decisions. Proofs in **`ReflectionProofs`**.
  **`ReflectionCard`**: the browser card with its armed buttons and overlapping loads.
- **`Accounts`**: transactions that select from a snapshot, lock row by row, test again,
  count and commit. **`AccountsProofs`**: that an active admin remains and requests do not
  wait in a circle.
- **`Registry`**, **`RegistryProps`**: seed, start, hydrate, refresh when stale and after a
  mutation, audited edits under row locks at READ COMMITTED.
- **`Settings`**: the policy of a run from table, environment, overlay, code and saved row,
  against what the Config tab shows.
- **`LiveSessions`**: saves that commit out of order, the watermark, overlapping polls.
  **`LogViewer`**: the live log of one stage: writer, poller, stream, pages, one viewer.
- **`AgentRun`**: the messages of a stream in every order the code is ready for, usage per
  sub-agent, the output, classification of failures, retries. **`AgentWorkspace`**: files of
  the repository moved aside for the agent's own, in a volume that outlives containers.
- **`ActionPanel`**: what the page offers for a row and the server accepts, the tracked
  action, the one feedback form, and answers that come after the next click. Of the environment
  panel, what it sends: `env` stands for its four actions.
- **`UserForms`**, **`RepoForms`**: the two admin screens in one browser: the list as loaded,
  the one panel, forms made from stored configurations and back, late answers.
- **`Stats`**: the counts and sums of the six endpoints as functions of the review rows, the
  value card query by query, and the tab with its windows, populations and load token.
- **`ReviewValue`**: the rows of `finding_outcomes` as the batch job traces and judges them, and
  each sentence of the value card as an operator: the tag of the clause that the code chooses,
  with the counts it prints. One pull request: windows and the identity of findings in SQL are
  left to `Stats`. A verdict is given once; a finding that is worded anew is another finding.
- **`Ribbon`**: two cards of the status ribbon. `head` and the commits git still has (`kept`),
  the mount of `.git`, the build of the services and that of the image reviews and reflection
  runs (both in `rows`) take place in move while
  the endpoints read; the distance to HEAD is counted where HEAD is by then. The batch of
  statistics and the configuration report are separate fetches that land in either order.
- **`CodingRounds`**: the coding loop around its CI builds, round by round. `script` is the
  invocation that watches a build (agents run one command at a time), `heard` the exit codes
  of all, `told` the row's `gateFailure`, `refused` the reason of the latest refusal itself. The
  agents are free: any command the guard lets through, any report the schema allows. The loop's
  budget is in `Pipeline` in detail, here only as far as it decides what a coder is told.
- **`Experiment`**: the matrix of pull requests and arms: the script (`matrix`), the container
  of its cell, containers that outlived an earlier script (`orphans`), production (`live`) and
  the table all of them write to. The levers are functions on the reviewer's prompts, applied in
  the order of the code to texts that may have drifted from what the levers look for (`image`).
  Proofs in **`ExperimentProofs`**.
- **`MCServices`**, **`MCServicesLive`**: instances for TLC. The components share no
  variable, so their interleavings say nothing new: `part` picks, in the initial state,
  the one that moves, and each component is explored as if alone. `MCServices` extends
  `Fleet`; the others keep their state in the same variables `v1`..`v12`, to which
  INSTANCE ... WITH maps theirs. Every invariant and action property is therefore guarded
  by its `part`.
- **`ServicesProofs`**: theorems about that composition, so that the components' theorems
  are about the very properties the run `Services` checks; and the proofs about the
  components that have no module of proofs: `AgentRun`, `AgentWorkspace`, `Settings`,
  `Registry`, `ReflectionCard`, `ActionPanel`, `UserForms`, `RepoForms`, `Stats`,
  `ReviewValue`, `Ribbon`, `LogViewer`, `CodingRounds`.

## 3. Runs

The `Pipeline...` and the first three `Div...` runs use module `MCPipeline`. Deadlock is
checked in none: an item that is done or waits for a human who never comes, a bound on
edits that is used up, a finished review really stop.

| Run | What moves | Distinct states | What it shows |
|---|---|---|---|
| `PipelineResume` | crash, error / `/rerun-plan`, continue, untag; 2 attempts | 1.0 M | attempts stay within the budget, failures lose nothing, the item stays movable, code matches the plan, stage order refines `StageOrder` |
| `PipelineApproval` | crash, error / `/fix`, continue; 2 attempts | 340 k | coding starts only from an approved plan |
| `PipelineRewinds` | foreign / `/rerun-plan`; 3 attempts | 13 k | escalations are earned, own branches are known, preconditions hold after rewinds |
| `PipelineFaults` | all faults / `/fix`, undisciplined; 1 attempt; optional stages on | 1.8 M | accepted commands survive, nothing unreviewed passes coding |
| `PipelineByHand` | error, ado / `/fix`, dashboard, cli, untag, analyse, abandon, undisciplined; 1 attempt | 410 k | documentation only after the merge |
| `PipelineLive` | error / `/fix`; fair; 1 attempt; optional stages on | 7.9 k | runs end, visible commands are taken up, merged pull requests finish the item |
| `Services` | the eighteen components of `MCServices` | 5.7 M | the safety properties of section 3.2 |
| `ServicesLive` | fleet, registry, session poller; fair | 196 k | actions settle, analyse tags are taken up, processes come to hold the registry, browsers the rows |
| `DivStaleApproval` | none / `/rerun-plan`, dashboard | violated | see section 6 |
| `DivResumeRefills` | crash, watcher / `/fix` | violated | see section 6 |
| `DivOptionalStages` | none / none | violated | see section 6 |
| `DivManifestWiped` | the registry of `MCServicesLive` | violated | see section 6 |

### 3.1 Bounds of the pipeline

*Plans*: a new plan takes a version that no row refers to; the copies `db`, `s` and `pre`
refer to two plans and two changesets, so with four versions (three in the liveness run) a
fresh one is left whenever a planner returns, and versions are reused: reuse is what lets
an unbounded life of re-plans be finite. When a version is reused its old approval is
forgotten, which only makes `PlanApprovedBeforeCoding` harder to satisfy. *MaxAttempts*: 1
has exhaustion at the first disagreement, 2 has retry after a crash in the middle, 3 has
room for a plateau before the budget ends. *Window*: 2, where the repository configures 3,
so that a plateau fits. Nothing else is bounded: crashes, resumes, comments and rewinds
are unlimited in every run. `charge` counts to one past the budget, enough to see it
exceeded. *Symmetry* over plan versions is used in the runs without liveness properties:
versions are only compared for equality.

### 3.2 The services

| Part | States | Bounds and why they are enough | Properties |
|---|---|---|---|
| fleet | 1.66 M | two items, a pool of one or two, so that one waits for the other; two action rows and three acts of humans (a tag, a comment, a queued action, another limit); one crash of the watcher, one failed call | `Supervised`, `PoolRespected`, `ActionRunsOnce`, `OutcomeFinal` |
| review | 1.33 M | creation, publication and a comment as triggers, each delivered twice; one finding key beside others, so that a later review may miss it; one trouble (crash, failed call or save, push, reply), on top of which a full review may always end in an error | `ReviewsQueuedOnce`, `NeverSilent`, `ClaimsTrue`, `SuggestionsCurrent` |
| registry | 323 k | one key, two processes (server, job), two concurrent requests, two edits | `AuditTellsBefore` |
| reflection | 320 k | two watchers, two days, two proposals, so that one supersedes another | `OnePending`, `RunUndisturbed` |
| accounts | 87 k | three accounts, two of them admins, two concurrent requests | `AdminsServed` |
| logs | 475 k | entries of two stages already stored, one more written, pages of one, one poll beside the clicks | `ViewsPure` |
| files | 36 k | four runs in one volume, two of which may die | `WorkspaceRestored` |
| agent | 260 k | two sub-agents, two response ids, three messages, one retry | `UsageOnce` |
| policy | 56 k | one change, one deployment, two starts, one failed read | `RunsAsShown` |
| card | 54 k | two proposals, two mounts, one failed request | `ClicksMeant` |
| panel | 142 k | two items, opened with a published pull request, one of which moves to any of seven rows (quiet, either gate, a failure of each loop, done), so that every action is offered and accepted and those of the opened row are also refused; two requests, three clicks | `ClicksMeant`, `OffersHonoured` |
| users | 100 k | the admin at the screen and one other account, one change by others, two requests | `ClicksMeant`, `OffersHonoured` |
| repos | 176 k | one registration that leaves its flags out, one change by others, two requests, one edited field | `ClicksMeant` |
| stats | 90 k | a production review, a test review of the same pull request and a failed one; two windows, a day passing, two loads, one failure | `ViewsPure`, `FiguresHold` |
| value | 78 k | four findings, two of them with a file, so that either kind can be missing or left over; two reviews, with and without a cost; four kinds of evidence, a clear and a tied vote on the diff, a clear, a tied and an unreadable one on the replies | `FiguresHold` |
| ribbon | 252 k | two commits, one after the other, that declare different models; three things a review may do; two moves, builds or deployments; one review or reflection run | `FiguresHold` |
| matrix | 125 k | two pull requests; two arms with levers in common, or the baseline; two rosters; one review by production or one killed script | `RunsAsShown`, `FiguresHold` |
| rounds | 106 k | one build; reads that overrun the time (4 and 3 seconds); two rounds, one return to the loop; a complete report, one without tests and a failed one; a build that succeeds or is canceled | `ClaimsTrue`, `NeverSilent` |

`ServicesLive` has two items, a pool of one and two requests for the fleet (33 k states),
a server and a watcher with two edits for the registry (101 k), two overlapping polls and
two saves for the poller (61 k). Work items are symmetric in `Services`; the liveness run
uses no symmetry.

### 3.3 Fairness

`Pipeline` (`FairSpec`): a running container keeps taking steps, because agent sessions
have a time limit and everything else is plain code. The watcher's loop polls for ever and
catches errors inside, so exits are settled and approvals, commands and merges it sees are
acted on; weak fairness is enough since each stays visible until acted on. Nothing is
assumed of humans, orphan scans, or faults. Fairness of the watcher's actions stands for a
free slot in the pool, which the single-item model always has.

`ServicesLive`: compose restarts the watcher (`Boot`), its loop and its promises go on,
containers end, the janitor's interval fires: weak fairness. `Claim(i)` is strongly fair:
`listPending` serves every waiting item in its turn, and a full pool only disables a claim
for a while. `Throw`, crashes and humans are never forced. Registry: docker restarts a
process, its start goes on, its refresh interval passes, queries return; weak. Session
poller: its interval fires and its queries return; weak.

## 4. Proofs

Every theorem is about the specifications TLC runs, for every value of their constants:
any number of plans, attempts, items, watchers, comments or accounts, any set of faults
and of inputs. A hypothesis is an operator with a name and a reason below. What it
excludes breaks the property, as TLC shows on the instance given, unless it is said to be
there only for the proof. Every inductive invariant was checked by TLC before it was
proved. There is one lemma per action, over lemmas on what a handler leaves alone in the
row (`SamePlace`, `SameWork`, `Works`, `Carries`), a job (`Advance`) or a container.

| Theorem | States | Hypothesis | Inductive invariant |
|---|---|---|---|
| `TypeCorrect` | `TypeOK` of `Pipeline` | - | itself |
| `BudgetBounded` | `BudgetRespected` | `OnlyHumansGrant` | `BudgetInv`, itself `BudgetOnRecord` |
| `ProgressKept` | `FailureKeepsProgress` | `NoLostSave` | `SavedInLoop` |
| `AlwaysMovable` | `NeverStranded` | `ExitsSettled` | with `PauseHasCheckpoint` |
| `BranchesRemembered` | `OwnBranchKnown` | `RowsKept`, `CodersReturn` | `BranchInv` |
| `DocsAfterMergeOnly` | `DocsAfterMerge` | - | `CInv` |
| `ReviewedCodePasses` | `ReviewedCodeOnly` | `ErrorsFresh` | `CInv` |
| `CodeImplementsPlan` | `CodeMatchesPlan` | no `/fix` | `CInv` |
| `InputsReady` | `StageInputsReady` | `ErrorsFresh`, `TestsRun` | `CInv` |
| `CommandsSurvive` | `FeedbackDurable` | - | `OInv` |
| `EscalationsEarned` | `EscalationEarned` | `OnlyHumansGrant`, `NoStaleCounts` | `EInv` |
| `PlanGateHolds` | `PlanApprovedBeforeCoding` | `NoRestart`, `FixesCode` | `NInv` |
| `CourseRefined` | `StagesInOrder` (refines `StageOrder`) | `StraightCourse` | `NInv` |
| `FleetTyped` | `FleetTypeOK` | - | `TypeInv` |
| `BodyRunsOnce` | `ActionRunsOnce` | - | `OnceInv` |
| `VerdictStands` | `OutcomeFinal` | - | `TypeInv` |
| `ContainersSupervised` | `Supervised` | - | `WatchInv` |
| `PoolWithinLimit` | `PoolRespected` | - | `WatchInv` |
| `ReviewTypes` | `TypeOK` of `Review` | - | itself |
| `OneReviewPerTrigger` | `ReviewsQueuedOnce` | comments are not called "created" or "published" | `QueueInv` |
| `NobodyLeftWaiting` | `NeverSilent` of `Review` | - | `TellInv` |
| `NobodySilent` | `NeverSilent` | - | `TellInv`, `RoundsInv` |
| `TreeNeverOverstated` | `TreeClaimTrue`, the half of `ClaimsTrue` about reviews | - | `BoxInv` |
| `ClaimsHold` | `ClaimsTrue` | - | `BoxInv`, `RoundsInv` |
| `SuggestionsMatchTheirCommit` | `SuggestionsCurrent` | - | `BoxInv` |
| `OneProposalWaits` | `OnePending` | - | `SaveInv` |
| `DispatchesSpareEachOther` | `RunUndisturbed` | watchers are not called `None` or `Nobody` | `LockInv` |
| `LastAdminAlways` | `LastAdminStays` | - | with `HeldApart`, `CountedHeld` |
| `RequestsNeverBlock` | `NeverDeadlocked` | - | `OrderInv` |
| `TurnsCountedOnce` | `UsageOnce` | - | `UsageInv` |
| `FilesRestored` | `WorkspaceRestored` | - | `FilesInv` |
| `PolicyAsShown` | `RunsAsShown` | - | `PolicyInv`, `MatrixInv` |
| `AuditsTellBefore` | `AuditTellsBefore` | - | `AuditInv` |
| `ClicksAimed` | `ClicksMeant` | the bound `PanelPosts` is a natural | `CardInv`, `PanelInv`, `UsersInv`, `ReposInv` |
| `OffersAccepted` | `OffersHonoured` | the bound `PanelPosts` is a natural | `PanelInv` |
| `ViewsStayPure` | `ViewsPure` | `Stored` is a sequence of entries, `Page` and `Keep` are naturals | `LogsInv`, `StatsInv` |
| `FiguresConsistent` | `FiguresHold` | - | `StatsInv`, `ValueInv`, `RibbonInv`, `MatrixInv` |

The theorems of `ReviewProofs`, `ReflectionProofs` and `AccountsProofs` come back in
`ServicesProofs` as theorems about the composition that `Services` runs: `ReviewsQueued`,
`NobodySilent`, `ClaimsHold`, `SuggestionsMatch`, `ProposalsPending`, `DispatchesSpare`
and `AccountsServed` (section 4.6).

### 4.1 Budgets, failures and stops (`PipelineProofs`)

`BudgetRespected` (`charge[l] <= MaxAttempts`) is not inductive: it says nothing of the
row the next container will read the counter from. The strengthening has three parts.
`ChargeOnRecord`: what is charged is recorded in both copies of the row, a copy that
carries a grant has nothing charged, and an exhausted item without `need-input` has been
granted a retry (`RemoveNeedInput`, `ContinueTag`). `RowInStep`: where the container is,
which stage its copy names, and that a checkpoint at the plan gate is always resumed at
that gate, so a resume there cannot enter a loop with a grant it did not earn. The type
invariant: `revisionAttempts` never exceeds `MaxAttempts`. A producer run then charges one
where one is recorded, and `BudgetLeft` bounds the record.

The hypothesis `OnlyHumansGrant` excludes what gives attempts away without a human in this
code; for each of these TLC finds `BudgetRespected` violated: `/fix`, whose `rerunMode`
outlives a crash (with `crash` and `continue`); `plain`, which loses the loop's row;
`report` with `crash`, a lost save; `tag` or `watcher`, after which an exhausted item
lacks `need-input` and is retried though nobody asked. `cli` is excluded only for the
proof: a hand-run `continue` keeps the stored error while the container runs, which
`RowInStep` rules out. TLC finds no violation with it; a finer invariant would cover it.

`FailureKeepsProgress` follows from `SavedInLoop`: inside a loop the store holds the row
the container works on. It fails with `report`, and with `plain` the loop's row is thrown
away; TLC finds both.

`NeverStranded` alone is not inductive: settling an exit takes `need-input` off or leaves
the tag as it is, so a container that ended well must have left a checkpoint or a finished
row. That is `PauseHasCheckpoint`. The hypothesis (`watcher \notin Faults`: every exit is
settled) is needed: when coding pauses on a convergence checkpoint, is continued and
approved, the approval sets `need-input` once more; the next checkpoint is passed, and a
crash before its tag is taken off, with an exit nobody settles, leaves an item no path
picks up.

`OwnBranchKnown` speaks of a row about to enter coding; `BranchInv` of every row. Once the
branch is the item's own, both copies of the row have a changeset or remember the branch of
one they dropped: the loop's resets and the rewinds keep that, a coder works from a plan
(`CodingHasPlan`), so it returns a changeset, and what a coder knew the store knew before
(`AttemptKnown`). The one gap is a coder between its push and its report. `CodersReturn` is
a condition on behaviours, that nobody dies there (`CoderLost`); crashes and failures
anywhere else are allowed. `RowsKept` excludes `plain`, which throws the loop's row away,
and a lost save (`report`) followed by a crash. TLC finds the property violated without
either.

### 4.2 What a stage may rely on (`CourseProofs`)

The four properties say of the row before a stage what `canRun` or a gate asks for. None
is inductive, because a row is read long after it was written, and resumes, `/fix` and
errors send it to places it was not at. `CourseInv` says it of all three copies: whatever
stage a row names, and whatever stage its pending command or its error names, every stage
before that has delivered (`Reached`, `Delivered`: planning a plan, coding a reviewed,
built changeset of that plan, the last gate a merged pull request, ...). Two more parts
say that the container is where its copy says (`InStep`), and what holds on the way into,
through and out of a stage (`Entering`, `Drafting`, `Leaving`, `FirstRun`).

`ErrorsFresh` (not both `/fix` and `cli`): a hand-run `continue` keeps an old error of the
test-cases loop; the gate rewinds to planning, the container crashes, and `/fix`, which
goes by the error, is sent to test cases over a changeset the re-plan has dropped.
`TestsRun` (test cases are switched on, or no item is started over): the list of `run`
skips test cases, the list of `continue` then comes to activating tests nobody wrote.
`CodeImplementsPlan` is about the plan a changeset was written for; `/fix` keeps the branch
on purpose.

`FeedbackDurable` needs to know where a command is while nobody holds it in memory. `Owing`
has three places: it was sent (the row names the loop and carries the feedback), it is
being served (the row is in that loop and its producer has not returned), or it will be
scanned again (the row is at its gate and the comment in the window). Every fault is
allowed: a crash moves the command between these places, and drops none.

`EscalationEarned` (a convergence checkpoint or an exhausted budget stands for `Window`
charged rounds) speaks of the row that asks for help. `EInv` adds to the budget invariant
what the rows on the way there count: each round is charged before it is counted
(`RoundsCharged`), a stored row that resumes inside the coding loop counts no more rounds
than are charged (`ResumesInBounds`), and planning, the one way back into the loop without
`/fix`, counts afresh. Counts and budget are two fields that are not always reset together.
`NoStaleCounts` is a condition on behaviours that excludes the two places where the code
resets one of them alone: `HumanRetry`, where a human removes `need-input` from an exhausted
item, so that the next container has a new budget and the old issue counts, and `GrantLost`,
where the container dies between the coder's approval, or a fresh start, and the save of a
row that is past the loop, so that the stored row still has its counts. Crashes, failed
agents and failed reads anywhere else are allowed.

### 4.3 Order and the plan gate (`CourseProofs`)

`StagesInOrder` is a refinement: `Init` gives `Order!Init`, and each step of `Pipeline` is
a step of `StageOrder` or a stutter. The save at stage entry is `Advance`, or `Obey` when
a command sent the item there; a gate's rewind and the watcher's rerun are `Command`; a
producer's return is `Answer` when the command was its own; the last notification is
`Finish`; everything else stutters. That the mapped guards hold is the work of `NInv`, the
course invariant with `OrderInv`: an error names the container, the plan gate or the
row's stage, a checkpoint belongs to the stage it was set at, a finished row is at the end
with no command (`HaltOK`); a container starts over no error but the plan gate's
(`Running`); and it enters the stage its row names or the next one (`Coming`, `Going`).
For the plan gate the row must also say that a plan past it is an approved one (`PlanOK`),
that a command cannot reach an item before coding (`AheadOK`), and the tag on the item
stands for the plan in its row (`Ahead`).

All faults are allowed. What is not, each with a counterexample of TLC:

- `NoRestart`: neither `analyse` nor `cli`. An item started over keeps the plan-approved
  tag of its former life, and the new plan passes with it. A hand-run `continue` works
  over a stored error; after a crash, `/fix` is sent where that error points.
- `FixesCode`: `/fix` only with a changeset, as README.md of the repository offers it, and
  no `/rerun-plan`. When a planner dies with its container after the plan was written, an
  undisciplined `/fix` goes straight to coding, past the gate. `/rerun-plan` is section 6,
  number 1.
- `StraightCourse`: `NoRestart`, and `/fix` only under `FixesCode`. The order thus holds
  with `/rerun-plan`, and with `/fix`; with both, `/fix` on an item that re-plans jumps the
  gate.

### 4.4 The watcher (`FleetProofs`)

`ActionRunsOnce` counts an action's bodies. `OnceInv` adds what makes the count right:
an action has one promise at most, a promise that has not begun has run nothing, an action
in the queue or refused as a duplicate has no promise, and one that is completed has run and
has none any more. No action ever returns to the queue, a lemma of its own.
`OutcomeFinal` follows from one fact per writer: claim, janitor, refusal and record all
test the status they write over.

`Supervised` needs the three maps to agree: while no poll found two actions for one item
(the ghost `dual`), each promise holds its item's slot, is the only one of the item, and
one waits behind each container of this watcher (`Orderly`); a watcher that is down holds
nothing; and what a poll has found holds no slot while it waits to be launched. The pool's
size then counts its promises, and `PoolRespected` is an argument about cardinalities:
launching stops at the limit, and all other steps only free slots. No hypothesis beyond
the ASSUMEs of `Fleet`: the number of items, crashes and faults is arbitrary.

### 4.5 Reviews, reflection, accounts

`ReviewsQueuedOnce`: between looking for an action of the same scope and queueing one, a
delivery holds the advisory lock of its scope, so no two of a scope are there at once, and
nothing of that scope appears in the queue meanwhile (`QueueInv`). `NeverSilent`: the exit
code of a container is explained by what it left (`TellInv`: rows, container, exit,
completed action), and what is dropped before that is marked. `TreeClaimTrue` and `SuggestionsCurrent`: the claim is the tree that
landed or the default branch, and the commit a suggestion was checked against was read
after the agent's end (`BoxInv`).

`OnePending`: two saves of a cycle are never in their transaction together, and one in its
transaction has seen exactly the pending rows there are (`SaveInv`). `RunUndisturbed`: a
watcher that has not lost its connection holds the lock from tick to release, and a
container is waited for by the watcher that started it (`LockInv`).

`LastAdminStays` is not inductive, because a request counts admins long before it commits.
`HeldApart` (no row is locked by two requests) and `CountedHeld` (a request holds every
admin it has counted, and they are active as long as it holds them) make it so: a commit
that takes an admin away has another one locked. That uses the row locks, not their order.
`NeverDeadlocked` uses the order: a request locks rows by ascending id (`OrderInv`), so of
a set of requests the one that waits for the highest row waits for nobody in the set.

### 4.6 The composition, agents, policy and screens (`ServicesProofs`)

In `MCServices` one part moves and the others rest: `part` never changes, and while it is
`review` every step is one of `Review` (`ReviewMoves`, `ReviewRests`, and their like). So
each component's theorem holds of the composition, for every value of its constants.

`UsageOnce`: the set of counted pairs is exactly the responses heard, sub-agent by sub-agent
(`Tallied`), so a fragment of a counted response changes nothing, and a total is taken only
while nothing was heard.

`WorkspaceRestored` goes part by part (`PartOK`). A part is whole, or its original is in the
backup with nothing, a link or the agent's file in its place; which of these depends on
whether it is linked, is being placed, or waits to be put back. A link left behind belongs to
a run that does not claim to be clean. A dead run's leftovers are what makes the
invariant: the next run meets them with an empty list of backups.

`RunsAsShown`: an undisturbed run has the deployment's environment and, once it has read
the settings, the configuration that the table gives now (`PolicyInv`); every change by an
operator disturbs all runs. A resumed run keeps the saved place, because `Resumed` replaces
models and settings only. Its second part is about the matrix of experiments. A line is counted
when the row says so, and what the row says of its levers is a record of changed files: an
exact count (`RequiredCounts`) is reached only if the text the lever looks for was there, so
the prompts read as the arm means them. `MatrixInv` relates the row at hand to its cell: until a
script has been killed, a row of the current cell's pull request that nobody posted was left by
the cell's own container or by a failed review of production, and the latter has no levers and
no sub-agents, so it is never compliant. `PromptsAgree` is a fact about the levers alone, one
after the other (`ExperimentProofs`). `PoolsComplete`, the second part of `FiguresHold`, counts:
the lines of the file are the cells before the current one, in order.

`ClaimsTrue` and `NeverSilent` have the coding rounds as their second part. `RoundsInv` says of a
watching invocation that it has what its last read found, that it was let through by the guard
(so it has the sentinel and started nothing), and how long it can have run; of the exit codes
that they tell of builds that ended, which never change again; of a report that it is past its
check when it is reviewed (`ReportOK`); and of what the coder is told that it is the last
refusal without the review, which the reviews show by themselves unless a resumption has
cleared them (`ToldOK`).

`AuditTellsBefore`: between reading a row and committing, a request that saw a row holds its
lock, and the row is still what it saw (`Informed`); a request that saw none tells none. The
seeds insert only keys nobody has, so they touch no row that was seen.

`ClicksMeant` has four screens. A decision: whatever a refresh brings, the armed button is
that of the proposal on the card, or is disarmed (`CardInv`). A comment: the text shared by
all forms is empty or was typed for the form that is open, and requests carry the form's item
and type to the queue (`Addressed`, kept by every way a request is answered). A password: the
shared field, when a panel is open on it, is of that panel's user, and it travels with the
request (`UsersInv`). A repository: what the form shows outside the edited fields is what
building it from the row gives (`Untouched`), and the way back from a form to a row gives the
meaning of the row again (`FormFaithful`), a lemma over every combination of absent and
present flags.

`OffersHonoured`: the two lists of conditions agree on every row but for `continue` of a stalled
one (`OfferAccepted`), whatever set of rows `PanelPhases` is. Only the server's step answers a
request, and it is the one that is answered: numbers are
fresh, since fewer requests than `PanelPosts` leave one free (`NumberFree`). The users screen
and the server apply the same conditions to the same list (`GuardsMirrored`).

`ViewsPure` of the log viewer: a request that is not stale asks for what is on screen, and
its answer is of what it asked for, since entries never change their source or stage while
the table grows (`Fetch`, `LogGrows`). Sequences are the work here: the ids of a page are
ordered by a sequence that exists because every finite set of naturals can be ranked
(`OrderedSeq`), and parts and concatenations of pure views are pure. Of the statistics: a
batch that is not superseded is of the window and population selected, and each card of its
answers is of the batch (`Scoped`, `Batch`).

`FiguresHold` of the value card: the rows, the findings and the spend of a batch are finite sets
read at three moments. A traced finding rests on a review of the population that is there still
when the spend is read (`Backing`); counts of subsets do the rest (`PartsOfTheWhole`). Of the
other cards: a sum is the number of its units (`SumOf`), so that no fold has to be reasoned
about. The units of what was measured and of what the reviewer spent go into those of the cost
one by one (`UnitsCovered`), and the rows fall into classes that cover them (`FourClasses`).

Two more parts of `FiguresHold` are about sentences. `SentencesTrue` of the value card: there is
one row for a finding, what nobody voted on has no label, and neither has a tie (`ValueInv`).
Each sentence then rests on counts of subsets
of the rows: a count equals that of the whole only if the subset is the whole (`PartSize`), and
a gap between two counts is the count of the difference (`GapCounted`, `FindsCounted`).
`RibbonTrue`: a distance, wherever it is kept, was counted from the stamp of a build, against
HEAD as recorded beside it, and it is zero just when nothing of HEAD is missing (`DistanceTold`).
The rows are numbered from one, so that there is a latest (`Numbered`). An entry of a roster that
names a model is one of the dispatches, whence the bound on entries off pin (`SentenceTold`).

### 4.7 Assumptions, and what is only model-checked

The assumptions on constants are the named ASSUMEs of `PipelineState`, `Pipeline` and
`Fleet`, those of `MCServices` on inputs (`--arms` selects at least one arm; the cost of a review
includes what its agents are seen to have spent; reports, verdicts and results are ones the
schemas allow; times are naturals; the batch job leaves a confidence with every vote and no label
with a tie, `ValueAssumption`; a commit is reachable from itself, and a roster has at most one
entry of a sub-agent, which ran, `RibbonAssumption`), that the number of users is a positive natural, and the two hypotheses on names in
the table, which keep model values apart that the code keeps apart by type. The hypotheses on
`PanelPosts`, `Stored`, `Page` and `Keep` say what kind of value they are. What
`MCServices` defines instead of leaving it to a constant is fixed in its theorems, too: the
bodies of a form, the kinds of process and of review, the windows.

Every invariant and action property that a passing run checks is proved, under the hypotheses
of the table. Liveness stays with TLC: the prover knows neither ENABLED nor fairness.

## 5. Each property has a mutant

Next to a mapped definition stands, where a property needs one, the same operator with a
plausible bug (`...Mutant`, `RecordAttemptLate`, `SatisfiedByClosed`, ...), preceded by a
comment that names the bug. They are used by no specification; `PROJECT.json` says which
one breaks which property. A property with a part for each of several components or clauses has a mutant
of one of them; that the others can fail was tried by hand: `ClaimsTrue` when the exit code 0 is
given to every ended build or when the check ignores errors, `NeverSilent` when the guard lets
a waiter start builds, when the hint omits the sentinel or when the gate explains nothing,
`RunsAsShown` when compliance does not compare the number of changed files, `ActionRunsOnce` when
a duplicate is dispatched all the same or when the action is completed at the claim, and
`OffersHonoured` when an arm of `validateAction` is missing or accepts more than is offered. Of the 18 bugs tried
on the sentences of `ReviewValue` one stays unseen: silence counted together with stale signals,
which shifts what the sentence is about but leaves it true. Of the 25 tried on `Ribbon`
(an unknown distance told as zero or taken for fine, a distance the wrong way round, the
long-context flag ignored, ...) four do: a configuration report that is not failed by a deployment
and rows of reflection runs among those of the integrity card, which do no harm, and the oldest
run in place of the latest or a latest one looked for among the reviews alone: what is said of an
image is as true of an older one.

## 6. Where code and documentation disagree

The first four are runs.

1. **A re-plan keeps the old approval** (`DivStaleApproval`). `/rerun-plan` from the
   dashboard removes no tag, while the comment scan (`cli/watch/work-detector.ts:298`) and
   the pr-published checkpoint do. With `plan-approved` on the item the new plan passes the
   gate unread. The plan gate's own rerun command has no `removeTag` either, and a `/fix`
   that answers a stalled planning loop keeps the tag on a row the gate will see again.
2. **`/fix` and a crash refill the budget** (`DivResumeRefills`). `rerunMode` stays in the
   row until the coder returns, and the automatic resume takes it for a human's grant,
   against the comment at `pipeline/revision-loop.ts:87`.
3. **`continue` ignores optional stages** (`DivOptionalStages`). `pipeline continue` always
   builds the default list.
4. **The manifest is wiped** (`DivManifestWiped`). A process that could not seed an empty
   table is said to run on the manifest's repositories (`config/hydrate-startup.ts:72`);
   the next tick or refresh replaces them by the empty table.

The rest of this section is what the models except or leave to a stronger property, all of
it plain from the code. For `Pipeline` each is reproducible by adding the named definition
of `PipelineProps`, or the named input, to a run:

- `ContinueRefills`: the repository's README.md:264 says the `continue` tag refills the
  budget; the code does so only after `revision-exhausted`.
- `PauseAsksForInput`: the container tags `need-input` at a checkpoint, and the watcher
  removes it when it settles the exit (`container-dispatcher.ts:240`).
- `PublishingAdvances`: publishing the draft alone moves nothing; detection path 6 waits
  for the merge.
- `FailureKeepsProgress` with fault `plain`: an exception that is not a PipelineError
  loses the loop's attempts and outputs (`revision-loop.ts:184`).
- `ErrorMeansStopped` with input `cli`: `cont()` clears the error on its own copy (`continue.ts:59`) and
  `runPipeline` loads the row again, error and all.
- `CodeMatchesPlan` with `/fix` and `/rerun-plan`: `rerunMode` left by the first makes the
  planning loop skip its reset for the second.
- `OwnBranchKnown` with fault `error` or `crash` and input `continue`: a coder that dies
  after its push leaves a branch the row has never heard of; the next run takes it for a
  stranger's.
- `StagesInOrder` and `PlanApprovedBeforeCoding` with undisciplined `/fix`: when the
  container dies in the planning loop after the plan was written, the error names the
  container and not the stage (`container-dispatcher.ts:260`), so `/fix`
  is sent to coding and jumps the plan gate. A disciplined `/fix` does the same on an item
  that `/rerun-plan` sent back with its changeset. With `cli`, a stored error that is out
  of date sends a command to the wrong loop.
- A convergence checkpoint stays in the row while the resumed loop runs; a container
  killed there counts as paused (`container-dispatcher.ts:203`).
- `EscalationEarned` with `/fix`: issue counts survive the human's answer.
- The plan-approved tag restarts an item at its gate whether or not `need-input` is set;
  only the retry after an error looks at it (`work-detector.ts:405`).

What the models of the other components except, or show without a property against it:

*Watcher and queue* (`Fleet`)

- An item tagged both `analyse` and `plan-approved` gives two jobs for one row in one poll
  (`work-detector.ts:399`); the ghost `dual` marks it and `Supervised` excepts it.
- The dispatch loop stops at a full pool after the row deltas and tags of all detected
  actions were applied (`watch.ts:718`): what is left over is forgotten.
- `executeEnvDelete` and the clean-up of finished items load a row, wait for minutes and
  save it whole (`env-actions.ts:128`, `watch.ts:467`): whatever was saved in between, an
  analyse restart included, is overwritten.
- The janitor fails actions after 30 minutes although their job goes on (`watch.ts:633`);
  the job's own outcome is then dropped, which is what `OutcomeFinal` holds on to.
- Orphans beyond the limit at start are never looked for again (`watch.ts:651`). A stage
  that failed at the plan gate with its tag on is restarted at each poll. A failed query
  for `need-input` counts as nobody having it, and the retry goes ahead.
- `executeStartFresh` that throws after the analyse tag was removed leaves neither tag nor
  row. All review actions share work item 0 in the running map.

*Reviews* (`Review`)

- `consumed_at` is never set, so the "pending only" scope narrows nothing
  (`webhook-server/index.ts:69`).
- `/review` while a review runs is failed as a duplicate (`action-processor.ts:138`),
  although `index.ts:66` says a second look must always be got.
- The last fallback of a sanity review records `default-branch` (`review-pr.ts:1494`). A
  review action of an unregistered repository, or with an invalid payload, completes without a
  word (`action-processor.ts:178`): no row, no summary, no notification. `NeverSilent` excepts
  it by the ghost `dropped`.

*Experiments* (`Experiment`)

- A failed review has no comment, so a failed review by production of the same pull request is
  taken for an arm's row, which `pr-review-tooling-ab.ts:327` says must never happen. It voids
  the arm, which is as far as it goes: `CompliantInEffect`.
- After the script was killed, a container it left behind can write the row that the next
  script counts for another arm; `first` excepts it.
- `expectedDispatch` is the whole active set (`pr-review-tooling-ab.ts:274`), so an arm that
  routes, and does leave an agent out, is void. A reviewer's model from the settings table voids
  every arm, since `allowedModelsFor` reads the environment alone. `--post` makes every run end
  without a row.

*Coding rounds* (`CodingRounds`)

- `await-pipeline.ts:12` says that the default timeout of 100 s returns before 120 s. The time
  is looked at before a sleep of 30 s, so the last read is made at 120 s or later.
- The check fails a build for errors of its tasks only: one that is still running, or was
  canceled, passes (`ci-verification.ts:23`); `seen` excepts it in `AcceptedClean`.
- The prompts for `/fix` and `/fix-test` do not tell why the gate refused; `RefusalTold` speaks
  of the fresh prompt. A resumption after a crash clears the reviews and with them what the
  last one asked for. Issues of earlier reviews are listed as resolved though the latest may
  have them again.

*Registry and settings*

- The Config tab words a model or an effort by the environment alone
  (`stats-config.tsx:80`, `:110`): one that comes from the settings table is shown with
  "fallback — DEFAULT_MODEL unset". `PR_REVIEW_AGENT_SET=","` is shown as active though
  `review-pr.ts:293` then does nothing.
- A seed that fails half-way is reported as failed while its rows stand, against
  `seed.ts:13`. Deleting every row and restarting seeds again, against `seed.ts:31`. A
  seed that loses a race can overwrite an admin's edit without an audit entry. Two
  requests that create one key both audit that there was nothing before.
- `costs.maxBudgetPerAgentUsd` and `maxBudgetPerRunUsd` reach no agent (`cli/config.ts:117`,
  `run-agent.ts:333`). The Config tab's effort is not what the reviewer pins
  (`pr-reviewer/config.ts:413`), and its "(SDK default: high)" is not what
  `run-agent.ts:294` says. Deleting `runner.maxConcurrency` leaves the limit of a running
  watcher (`watch.ts:694`). A failed read of the settings drops every override for that
  run without a word; `RunsAsShown` excepts a run so disturbed.

*Reflection*

- A watcher that loses its database connection loses the lock without noticing; the ghost
  `cut` excepts it. A save that fails is dispatched again at every tick of the day. Rows
  with an error are `pending` and block the cycle. A restarted watcher removes and restarts
  the container that runs. A run by hand can add a pending row beside an approved one.
- The card: two overlapping loads let the later answer carry an armed decision to a newer
  proposal (against the comment "a stale arm never survives"); `meant = 0` excepts it. The
  error of one decision may stand under another proposal, and a 409 does not load the list.

*Screens*

- `ActionPanel`: `continue` is offered for a stalled item and refused by the server, the
  one exception of `OfferHonoured` (in `Offered`); `fix-test` has no arm in `validateAction`. A submit that
  is answered late closes the form that is open by then and drops its text; so does a
  refused one. A second action overwrites the tracker, a refusal clears whatever it tracks.
  Ctrl+Enter sends although the button is disabled.
- The environment panel (modelled only in what it sends) keeps its armed deletion, e-mail and tracked action
  per page and not per work item: "Confirm Delete" can reach the item selected since.
- `UserForms`, `RepoForms`: a PUT carries no version and overwrites or re-creates what
  another admin changed or deleted. List answers have no token, so an older one can replace
  a newer. The answer to one change closes whichever panel is open, and shows its error
  there. `busyEmail` is one slot for all rows. The last-admin clauses of the screen's guards
  decide nothing while the person at the screen is an active admin.
- `Stats`: reviews that leave the window between two queries of the value card give a price
  of nothing per addressed finding; the ghost `edge` excepts it (TLC finds the violation
  without). The same between the two queries of the cost card makes "true orchestrator
  spend is <= this" (`stats.ts:790`) false; that card is read in one step here. A remount
  with another window in the address while a refresh is under way keeps the old figures
  under the new selector, since `refreshStatsTab` then does nothing; a remount is not
  modelled.
- `Ribbon`: "in sync with HEAD" is also said when HEAD was reset to before the build, since only
  commits that are missing are counted. HEAD as shown may be older than the one the distance was
  counted from. An entry of a roster without a model counts as off pin, although
  `assessors.ts:91` and the note beside it call the count a floor; `ModelsTrue` allows for it.
  The declarations are of the dashboard's build, the runs of the image's.
- `LiveSessions`: `readAllSessions` answers with nothing when its list fails, so the
  watermark is kept although the scan was not made, against `session-poller.ts:78`; the
  ghost `missed` excepts it, and a save that commits behind a later one. A move of a slot
  alone moves no watermark. Events lost while a stream reconnects are not sent again.
- `LogViewer`: late lower ids are missed or come twice, `loadOlder` drops the newest
  entries, a page replaces entries appended live, and the end of a stale `loadOlder` clears
  the loading flag of another view. Neither uniqueness nor completeness is claimed, only
  that a view holds one log.

*Agent runner*

- `NON_RETRYABLE_SUBTYPES` has `error_max_budget` (`run-agent.ts:52`), the SDK says
  `error_max_budget_usd` (`types/pipeline.types.ts:424`): a spent budget is retried, against
  `run-agent.ts:93`. A failure that is retried and fails again arrives as a
  `TransientAgentError`, which carries neither session nor telemetry, against
  `run-agent.ts:399`. A sub-agent's text replaces the text the output is looked for in. Costs
  of failed attempts are dropped. A rate-limit event that says `allowed` still marks the run
  as rate limited (`agent-stream.ts:201`).
- `AgentWorkspace`: a crash between renaming a file and linking the agent's leaves the
  repository's own in the backup only, and a copy left by a crash is backed up over it.
  `WorkspaceRestored` excepts parts so `damaged`.

## 7. Not modelled, and what could come next

Left out for good: prompts, formatting and telemetry, layout of pages, the Azure DevOps
client (its results are inputs of the models), and the overlay, of which the repository
holds none. Of the experiments, `--runs`, `--collect` and the checks before a run. Of the coding
rounds, the pauses and crashes that `Pipeline` has. Of `stats.ts`, medians and percentiles, effort, tool mix, and findings that
were fixed without a word (`describeSilentlyFixed`). Of the ribbon, the other cards and badges;
the latest image is looked for in one row by the run, in any number of them by the theorem.
Of the reviews, how findings are made, matched in text and formatted. Of the users,
password hashes and login sessions. `/fix-test` differs from `/fix` in its prompt only.

Next:

1. The environment panel's signals and the commands (`reprovision-env`, comment path 7 of the detector).
2. Login sessions: expiry and revocation against open requests; the edge sign-in.
3. `Fleet` refined by `Pipeline`: that one container's saves are those of one item.
4. Pure algorithms over bounded inputs: `hasPlateaued` on real counts against `stall`,
   `classifyCollision` with several branches, `reconcileFindings` with several keys.
5. Proofs: the budget theorem without the exclusion of `cli`.
