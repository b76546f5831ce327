------------------------------- MODULE Fleet -------------------------------
(***************************************************************************)
(* The watcher over several work items (src/cli/watch.ts, cli/watch/):     *)
(* the poll loop and its pool, the containers docker runs for it, the      *)
(* queue of dashboard actions with its janitor, and what survives when the *)
(* process dies.                                                           *)
(*                                                                         *)
(* Pipeline models one container step by step; here a container is a few   *)
(* whole-row saves and an exit code, and a row is what the watcher reads   *)
(* of it.  The order in which the watcher lists items is abstracted to any *)
(* order.  Comments are one command per item; a pull request is merged or  *)
(* still open.                                                             *)
(***************************************************************************)
EXTENDS Naturals, FiniteSets

CONSTANTS
  Items,       \* work items
  ActionIds,   \* ids of the actions table, in order of insertion
  Limits,      \* values the concurrency setting takes
  MaxActs,     \* bound: what humans do
  MaxCrashes,  \* bound: crashes and shutdowns of the watcher
  MaxFaults    \* bound: failed calls to Azure DevOps, docker and containers

ASSUME ActionIdsAssumption == ActionIds \subseteq Nat \ {0} /\ IsFiniteSet(ActionIds)
ASSUME LimitsAssumption    == Limits \subseteq Nat \ {0} /\ Limits # {}
ASSUME ItemsAssumption     == IsFiniteSet(Items)
ASSUME BoundsAssumption    == MaxActs \in Nat /\ MaxCrashes \in Nat /\ MaxFaults \in Nat

VARIABLES
  row,       \* the persisted row of each item
  tags,      \* the tags of each work item
  note,      \* an unanswered command comment
  merged,    \* the pull request completed
  box,       \* docker: the container named wi-<item>
  queue,     \* the actions table
  loop,      \* where the poll loop is; "down" when no watcher runs
  todo,      \* items listPending returned
  found,     \* actions detected and not yet applied
  ready,     \* actions applied and not yet dispatched
  clean,     \* the completed row the clean-up holds
  jobs,      \* promises in flight
  running,   \* the pool: which promise holds an item's slot
  limit,     \* maxConcurrency
  acts, crashes, faults,   \* how much of each bound is left
  begun,     \* ghost: how often an action's body was started
  dual       \* ghost: a poll found two actions for one item

item    == << row, tags, note, merged >>
process == << loop, todo, found, ready, clean, jobs, running, limit >>
bounds  == << acts, crashes, faults >>
ghosts  == << begun, dual >>
vars    == << item, box, queue, process, bounds, ghosts >>

-----------------------------------------------------------------------------
(* Rows, containers, actions and jobs *)

Gates == {"plan-approved", "pr-published", "pr-completed"}

\* What the watcher reads of a row.
Rows == [ here : BOOLEAN, cp : Gates \cup {"none"}, err : BOOLEAN,
          pr : BOOLEAN, env : BOOLEAN, done : BOOLEAN ]

NoRow    == [here |-> FALSE, cp |-> "none", err |-> FALSE,
             pr |-> FALSE, env |-> FALSE, done |-> FALSE]
FreshRow == [NoRow EXCEPT !.here = TRUE]

TagNames == {"analyse", "plan-approved", "continue", "need-input"}

\* `mine`: started by the watcher that runs now.
Boxes == [on : {"no", "starting", "yes"}, cmd : {"run", "continue"},
          mem : Rows, mine : BOOLEAN]
NoBox == [on |-> "no", cmd |-> "run", mem |-> NoRow, mine |-> FALSE]

ActionTypes == {"approve-plan", "rerun", "continue", "env", "force-poll"}
Statuses    == {"unused", "pending", "running", "completed", "failed"}

\* Of the error text of a failed action only the refusal of a duplicate is told apart.
Action(i, type) == [item |-> i, type |-> type, status |-> "pending", duplicate |-> FALSE]

Pcs == {"begin", "call", "clear", "spawn", "wait", "exit0", "exit1", "escalate",
        "returned", "threw"}

\* act = 0: dispatched by a poll or at boot; `copy` is the row an action body loaded.
Jobs == [item : Items, cmd : {"run", "continue", "env"}, act : ActionIds \cup {0},
         pc : Pcs, copy : Rows]

Job(i, cmd, a) == [item |-> i, cmd |-> cmd, act |-> a, pc |-> "begin", copy |-> NoRow]

\* The promise a slot of the pool holds.
Promise(j) == << j.cmd, j.act >>
Free       == << "none", 0 >>

Busy   == { i \in Items : running[i] # Free }
HasSlotMutant == Cardinality(Busy) <= limit   \* off by one
HasSlot == Cardinality(Busy) < limit

Pending == { a \in ActionIds : queue[a].status = "pending" }

\* executeAction's `continue` and a poll's delta clear the error; applyRerun clears
\* the checkpoint too.
Resumed(s) == [s EXCEPT !.err = FALSE]
Rewound(s) == [s EXCEPT !.err = FALSE, !.cp = "none"]

-----------------------------------------------------------------------------
Init ==
  /\ row = [i \in Items |-> NoRow]
  /\ tags = [i \in Items |-> {}]
  /\ note = [i \in Items |-> FALSE]
  /\ merged = [i \in Items |-> FALSE]
  /\ box = [i \in Items |-> NoBox]
  /\ queue = [a \in ActionIds |->
                [item |-> "none", type |-> "force-poll", status |-> "unused", duplicate |-> FALSE]]
  /\ loop = "down" /\ todo = {} /\ found = {} /\ ready = {} /\ clean = {}
  /\ jobs = {} /\ running = [i \in Items |-> Free]
  /\ limit \in Limits
  /\ acts = MaxActs /\ crashes = MaxCrashes /\ faults = MaxFaults
  /\ begun = [a \in ActionIds |-> 0]
  /\ dual = FALSE

-----------------------------------------------------------------------------
(* Helpers *)

\* A tag call that may fail; what its callers do with a failure is up to them.
Retag(i, add, del) ==
  \/ tags' = [tags EXCEPT ![i] = (@ \ del) \cup add] /\ faults' = faults
  \/ faults > 0 /\ faults' = faults - 1 /\ tags' = tags

Move(j, pc) == jobs' = (jobs \ {j}) \cup {[j EXCEPT !.pc = pc]}

\* A poll's promise just settles and is reaped later; an action's is recorded first.
Settle(j, how) == IF j.act = 0 THEN jobs' = jobs \ {j} ELSE Move(j, how)

\* The exit code reaches the job that waits for the container.
Exit(i, code) ==
  jobs' = { IF k.item = i /\ k.pc = "wait" THEN [k EXCEPT !.pc = code] ELSE k : k \in jobs }

-----------------------------------------------------------------------------
(* The container, seen from outside: runPipeline's saves and its exit *)

SaveRow(i, s) ==
  /\ row' = [row EXCEPT ![i] = s]
  /\ box' = [box EXCEPT ![i].mem = s, ![i].on = "yes"]

EndBox(i, s, code) ==
  /\ row' = [row EXCEPT ![i] = s]
  /\ box' = [box EXCEPT ![i] = NoBox]
  /\ Exit(i, code)

InBox(i) == box[i].on = "yes" /\ UNCHANGED << queue, loop, todo, found, ready, clean,
                                              running, limit, acts, crashes, ghosts >>

\* `run` replaces the row; `continue` loads it and takes need-input off.
BoxStart(i) ==
  /\ box[i].on = "starting"
  /\ \/ /\ box[i].cmd = "run"
        /\ SaveRow(i, FreshRow)
        /\ UNCHANGED << tags, faults, jobs >>
     \/ /\ box[i].cmd = "continue" /\ row[i].here /\ ~ row[i].done
        /\ SaveRow(i, row[i])
        /\ Retag(i, {}, {"need-input"})
        /\ UNCHANGED jobs
     \/ /\ box[i].cmd = "continue" /\ ~ (row[i].here /\ ~ row[i].done)
        /\ EndBox(i, row[i], IF row[i].done THEN "exit0" ELSE "exit1")
        /\ UNCHANGED << tags, faults >>
  /\ UNCHANGED << note, merged, queue, loop, todo, found, ready, clean, running, limit,
                  acts, crashes, ghosts >>

\* What the checkpoint stages ask Azure DevOps; a publication is not told apart.
Approved(i)  == "plan-approved" \in tags[i]
GateOpen(i, cp) ==
  CASE cp = "plan-approved" -> Approved(i)
    [] cp = "pr-completed"  -> merged[i]
    [] OTHER                -> TRUE

\* The gate the row waited at is passed: mid-run, with neither checkpoint nor error.
BoxPass(i) ==
  /\ InBox(i) /\ box[i].mem.cp # "none" /\ GateOpen(i, box[i].mem.cp)
  /\ SaveRow(i, [box[i].mem EXCEPT !.cp = "none"])
  /\ UNCHANGED << tags, note, merged, faults, jobs >>

\* Pause at a gate: the one it came from, or one the stages lead to.
BoxPause(i) ==
  /\ InBox(i)
  /\ \E cp \in Gates :
       LET old == box[i].mem
           new == [old EXCEPT !.cp = cp, !.pr = cp # "plan-approved",
                              !.env = @ \/ cp # "plan-approved"]
       IN  /\ old.cp \in {"none", cp}
           /\ IF cp = "plan-approved" THEN ~ Approved(i) ELSE ~ (old.pr /\ merged[i])
           /\ old.cp = "none" /\ cp # "plan-approved" => old.pr \/ Approved(i)
           /\ EndBox(i, new, "exit0")
           /\ merged' = [merged EXCEPT ![i] = @ /\ old.pr]
  /\ Retag(i, {"need-input"}, {})
  /\ note' = [note EXCEPT ![i] = FALSE]   \* older than the pause

BoxDone(i) ==
  /\ InBox(i) /\ box[i].mem.cp = "none" /\ box[i].mem.pr /\ merged[i]
  /\ EndBox(i, [box[i].mem EXCEPT !.done = TRUE], "exit0")
  /\ UNCHANGED << tags, note, merged, faults >>

\* A stage throws; the checkpoint the row came from is still in it when its own gate did.
BoxFail(i) ==
  /\ InBox(i) /\ faults > 0
  /\ EndBox(i, [box[i].mem EXCEPT !.err = TRUE], "exit1")
  /\ faults' = faults - 1
  /\ note' = [note EXCEPT ![i] = FALSE]
  /\ UNCHANGED << tags, merged >>

\* The container is killed (memory, host, docker).
BoxDie(i) ==
  /\ InBox(i) /\ faults > 0
  /\ EndBox(i, row[i], "exit1")
  /\ faults' = faults - 1
  /\ UNCHANGED << tags, note, merged >>

-----------------------------------------------------------------------------
(* A job: executeStartFresh, executeContinue and executeAction *)

InJob == UNCHANGED << queue, loop, todo, found, ready, clean, running, limit, acts, crashes, dual >>

\* A fresh run of an item whose pull request is still open.
Blocked(i) == row[i].pr /\ ~ merged[i]

\* A refused run keeps its tag.
BeginFreshMutant(j) ==
  /\ j.pc = "begin" /\ j.cmd = "run" /\ InJob
  /\ IF Blocked(j.item) THEN jobs' = jobs \ {j} /\ UNCHANGED << tags, faults >>
     ELSE Move(j, "clear") /\ Retag(j.item, {}, {"analyse"})
  /\ UNCHANGED << row, note, merged, box, begun >>

\* executeStartFresh up to docker: the guard, then the analyse tag comes off.
BeginFresh(j) ==
  /\ j.pc = "begin" /\ j.cmd = "run" /\ InJob
  /\ IF Blocked(j.item) THEN jobs' = jobs \ {j} ELSE Move(j, "clear")
  /\ Retag(j.item, {}, {"analyse"})
  /\ UNCHANGED << row, note, merged, box, begun >>

BeginContinue(j) ==
  /\ j.pc = "begin" /\ j.cmd = "continue" /\ j.act = 0 /\ InJob
  /\ Move(j, "clear")
  /\ UNCHANGED << item, box, faults, begun >>

\* executeAction up to docker, for the actions that restart the pipeline.
BeginAction(j) ==
  /\ j.pc = "begin" /\ j.cmd = "continue" /\ j.act # 0 /\ InJob
  /\ begun' = [begun EXCEPT ![j.act] = @ + 1]
  /\ LET i == j.item
         type == queue[j.act].type
     IN  \/ /\ type = "approve-plan"
            /\ Retag(i, {"plan-approved"}, {}) /\ Move(j, "clear") /\ UNCHANGED row
         \/ /\ type \in {"rerun", "continue"}
            /\ row' = [row EXCEPT ![i] = IF type = "rerun" THEN Rewound(@) ELSE Resumed(@)]
            /\ Move(j, "clear") /\ UNCHANGED << tags, faults >>
  /\ UNCHANGED << note, merged, box >>

\* The env- actions load the row and call the provider, without a slot of the pool.
BeginEnv(j) ==
  /\ j.pc = "begin" /\ j.cmd = "env" /\ InJob
  /\ begun' = [begun EXCEPT ![j.act] = @ + 1]
  /\ IF row[j.item].env
     THEN jobs' = (jobs \ {j}) \cup {[j EXCEPT !.pc = "call", !.copy = row[j.item]]}
     ELSE Move(j, "returned")
  /\ UNCHANGED << item, box, faults >>

\* start, stop and share save nothing; delete saves the row it loaded.
EndEnv(j) ==
  /\ j.pc = "call" /\ InJob
  /\ Move(j, "returned")
  /\ \/ row' = row
     \/ row' = [row EXCEPT ![j.item] = [j.copy EXCEPT !.env = FALSE]]
  /\ UNCHANGED << tags, note, merged, box, faults, begun >>

\* removeStaleContainer: whoever runs under this name is killed.
ClearBox(j) ==
  /\ j.pc = "clear" /\ InJob
  /\ box' = [box EXCEPT ![j.item] = NoBox]
  /\ jobs' = { IF k = j THEN [k EXCEPT !.pc = "spawn"]
               ELSE IF k.item = j.item /\ k.pc = "wait" THEN [k EXCEPT !.pc = "exit1"]
               ELSE k : k \in jobs }
  /\ UNCHANGED << item, faults, begun >>

\* spawnContainer; docker refuses a name in use, and may refuse for its own reasons.
Spawn(j) ==
  /\ j.pc = "spawn" /\ InJob
  /\ \/ /\ box[j.item].on = "no"
        /\ box' = [box EXCEPT ![j.item] =
                     [on |-> "starting", cmd |-> j.cmd, mem |-> NoRow, mine |-> TRUE]]
        /\ Move(j, "wait") /\ faults' = faults
     \/ box[j.item].on # "no" /\ Move(j, "exit1") /\ UNCHANGED << box, faults >>
     \/ faults > 0 /\ faults' = faults - 1 /\ Move(j, "exit1") /\ UNCHANGED box
  /\ UNCHANGED << item, begun >>

\* The repository, the configuration, a volume or a REST call is missing.
Throw(j) ==
  /\ j.pc \in {"begin", "call", "clear"} /\ InJob
  /\ faults > 0 /\ faults' = faults - 1
  /\ Settle(j, "threw")
  /\ UNCHANGED << item, box, begun >>

\* classifyContainerOutcome.
FailedExit(j) ==
  /\ j.pc = "exit1"
  /\ row[j.item].err \/ ~ (row[j.item].done \/ row[j.item].cp # "none")

\* handleContainerOutcome: the row.
Outcome(j) ==
  /\ j.pc \in {"exit0", "exit1"} /\ InJob
  /\ \/ /\ FailedExit(j)
        /\ row' = [row EXCEPT ![j.item].err = @ \/ row[j.item].here]
        /\ note' = [note EXCEPT ![j.item] = @ /\ row[j.item].err]
        /\ Move(j, "escalate")
        /\ UNCHANGED << tags, faults >>
     \/ /\ ~ FailedExit(j)
        /\ Retag(j.item, {}, {"need-input"})
        /\ Settle(j, "returned")
        /\ UNCHANGED << row, note >>
  /\ UNCHANGED << merged, box, begun >>

\* handleContainerOutcome: the tags.
Escalate(j) ==
  /\ j.pc = "escalate" /\ InJob
  /\ \/ Retag(j.item, {"need-input"}, {"analyse"})
     \/ /\ faults > 0 /\ faults' = faults - 1   \* the second call fails
        /\ tags' = [tags EXCEPT ![j.item] = @ \cup {"need-input"}]
  /\ Settle(j, "returned")
  /\ UNCHANGED << row, note, merged, box, begun >>

-----------------------------------------------------------------------------
(* The actions table *)

\* The status is set whatever it was.
SetStatusMutant(a, st) == queue' = [queue EXCEPT ![a].status = st]

\* markCompleted and markFailed touch a running action only.
SetStatus(a, st) ==
  queue' = [queue EXCEPT ![a].status = IF @ = "running" THEN st ELSE @]

\* The `finally` of an action's promise; an env- action never had a slot.
SlotAfter(j) == IF j.cmd = "env" THEN running[j.item] ELSE Free

\* trackedExecute records how the body ended; then the slot is free.
Record(j) ==
  /\ j.pc \in {"returned", "threw"}
  /\ SetStatus(j.act, IF j.pc = "returned" THEN "completed" ELSE "failed")
  /\ jobs' = jobs \ {j}
  /\ running' = [running EXCEPT ![j.item] = SlotAfter(j)]
  /\ UNCHANGED << item, box, loop, todo, found, ready, clean, limit, bounds, ghosts >>

\* The janitor puts the action back into the queue.
JanitorMutant(a) ==
  /\ loop # "down" /\ queue[a].status = "running"
  /\ queue' = [queue EXCEPT ![a].status = "pending"]
  /\ UNCHANGED << item, box, process, bounds, ghosts >>

\* The janitor invents a status.
JanitorStale(a) ==
  /\ loop # "down" /\ queue[a].status = "running"
  /\ queue' = [queue EXCEPT ![a].status = "stale"]
  /\ UNCHANGED << item, box, process, bounds, ghosts >>

\* The janitor gives up only what this watcher runs.
JanitorOwn(a) ==
  /\ loop # "down" /\ queue[a].status = "running" /\ \E j \in jobs : j.act = a
  /\ queue' = [queue EXCEPT ![a].status = "failed"]
  /\ UNCHANGED << item, box, process, bounds, ghosts >>

\* recoverStale: an action that has been running for half an hour is given up.
Janitor(a) ==
  /\ loop # "down" /\ queue[a].status = "running"
  /\ queue' = [queue EXCEPT ![a].status = "failed"]
  /\ UNCHANGED << item, box, process, bounds, ghosts >>

-----------------------------------------------------------------------------
(* The poll loop *)

InLoop == UNCHANGED << box, acts, crashes, begun >>

\* findOrphanedSessions: rows in mid-run that nobody is asked to look at.
Orphans(asked) == { i \in Items : /\ row[i].here /\ ~ row[i].done
                                  /\ row[i].cp = "none" /\ ~ row[i].err
                                  /\ i \notin asked }

\* A second promise for an item replaces the first in the pool.
Dispatch(some) ==
  /\ jobs' = jobs \cup { Job(d.item, d.cmd, 0) : d \in some }
  /\ running' = [i \in Items |->
       LET cmds == { d.cmd : d \in { e \in some : e.item = i } }
       IN  IF "continue" \in cmds THEN << "continue", 0 >>
           ELSE IF "run" \in cmds THEN << "run", 0 >> ELSE running[i]]

Asked == { i \in Items : "need-input" \in tags[i] }

\* The watcher starts: recent orphans are launched up to the limit.  A failed query for
\* need-input counts as no item having it.
Boot ==
  /\ loop = "down" /\ loop' = "reap"
  /\ \E asked \in {Asked, {}} :
       /\ faults' = IF asked = Asked THEN faults ELSE faults - 1
       /\ faults' >= 0
       /\ \E recent \in SUBSET Orphans(asked) :
            /\ Cardinality(recent) <= limit
            /\ Dispatch({ [item |-> i, cmd |-> "continue"] : i \in recent })
  /\ UNCHANGED << item, queue, todo, found, ready, clean, limit, dual >> /\ InLoop

\* reapSettled; then the concurrency setting, which an operator may have changed, and
\* listPending are read.
Reap ==
  /\ loop = "reap" /\ loop' = "actions"
  /\ running' = [i \in Items |->
       IF \E j \in jobs : j.item = i /\ Promise(j) = running[i] THEN running[i] ELSE Free]
  /\ \/ limit' = limit /\ acts' = acts
     \/ limit' \in Limits \ {limit} /\ acts > 0 /\ acts' = acts - 1
  /\ todo' = { queue[a].item : a \in Pending }
  /\ UNCHANGED << item, queue, found, ready, clean, jobs, faults, dual,
                  box, crashes, begun >>

\* claimNextPending: the oldest pending action of the item.
Oldest(i) == CHOOSE a \in Pending : queue[a].item = i /\
               \A b \in Pending : queue[b].item = i => a <= b

\* An action is taken whatever runs for its item.
TakenMutant(i, type) == FALSE

\* The pipeline of the item already runs.
Taken(i, type) == type # "env" /\ running[i] # Free

\* processActionFiles, one item: claim, then run, reject or complete.
Claim(i) ==
  LET a == Oldest(i)
      type == queue[a].type
      cmd == IF type = "env" THEN "env" ELSE "continue"
      taken == type # "force-poll" /\ Taken(i, type)
  IN  /\ loop = "actions" /\ i \in todo /\ HasSlot
      /\ todo' = todo \ {i}
      /\ queue' = [queue EXCEPT ![a].status =
                     CASE type = "force-poll" -> "completed"
                       [] taken -> "failed"
                       [] OTHER -> "running",
                               ![a].duplicate = taken]
      /\ IF type = "force-poll" \/ taken THEN UNCHANGED << jobs, running >>
         ELSE /\ jobs' = jobs \cup {Job(i, cmd, a)}
              /\ running' = [running EXCEPT ![i] = IF cmd = "env" THEN @ ELSE << cmd, a >>]
      /\ UNCHANGED << item, loop, found, ready, clean, limit, faults, dual >> /\ InLoop

ActionsDone ==
  /\ loop = "actions" /\ (todo = {} \/ ~ HasSlot)
  /\ todo' = {}
  /\ loop' = IF HasSlot THEN "poll" ELSE "cleanup"
  /\ UNCHANGED << item, queue, found, ready, clean, jobs, running, limit, faults, dual >> /\ InLoop

\* isCheckpointScannable and isPrCompletedCandidate on the watcher's view of a row.
Scannable(s) == s.here /\ ~ s.done /\ (s.err \/ s.cp \in {"plan-approved", "pr-published"})
Mergeable(s) == s.here /\ ~ s.done /\ ~ s.err /\ s.cp \in {"pr-published", "pr-completed"} /\ s.pr

\* `seen`: the tags the queries of this poll returned.
ByAnalyse(i, seen)  == "analyse" \in seen[i]
ByContinue(i, seen) == "continue" \in seen[i] /\ (row[i].err \/ row[i].cp # "none")
AtPlanGate(i) == row[i].cp = "plan-approved"

ByApproval(i, seen) ==
  /\ "plan-approved" \in seen[i] /\ ~ ByContinue(i, seen)
  /\ AtPlanGate(i) \/ (row[i].err /\ "need-input" \notin seen[i])
Claimed(i, seen)   == ByAnalyse(i, seen) \/ ByContinue(i, seen) \/ ByApproval(i, seen)
ByComment(i, seen) == ~ Claimed(i, seen) /\ Scannable(row[i]) /\ note[i]
ByMerge(i, seen)   == /\ ~ Claimed(i, seen) /\ ~ ByComment(i, seen)
                      /\ Mergeable(row[i]) /\ merged[i]

\* The items whose ids are not in skipIds.
Idle == Items \ Busy

\* detectWork.
Detected(seen) ==
  LET To(S, cmd, why) == { [item |-> i, cmd |-> cmd, why |-> why] : i \in S }
  IN  To({ i \in Idle : ByAnalyse(i, seen) }, "run", "analyse")
      \cup To({ i \in Idle : ByContinue(i, seen) }, "continue", "continue")
      \cup To({ i \in Idle : ByApproval(i, seen) }, "continue", "approval")
      \cup To({ i \in Idle : ByComment(i, seen) }, "continue", "comment")
      \cup To({ i \in Idle : ByMerge(i, seen) }, "continue", "merge")

\* gatherWorkDetectionInputs and detectWork.
Gather(seen) ==
  /\ found' = Detected(seen) /\ loop' = "apply"
  /\ dual' = (dual \/ \E d, e \in Detected(seen) : d # e /\ d.item = e.item)

\* A failed query for need-input or continue counts as no item having the tag; one for the start tags ends the poll.
Poll ==
  /\ loop = "poll"
  /\ \/ Gather(tags) /\ UNCHANGED faults
     \/ /\ faults > 0 /\ faults' = faults - 1
        /\ \/ Gather([i \in Items |-> tags[i] \ {"need-input"}])
           \/ Gather([i \in Items |-> tags[i] \ {"continue"}])
           \/ loop' = "cleanup" /\ UNCHANGED << found, dual >>
  /\ UNCHANGED << item, queue, todo, ready, clean, jobs, running, limit, box, acts, crashes, begun >>

\* applyDetectedActions, one action: the row delta, then the tags.
Apply(d) ==
  LET i == d.item
      s == row[i]
      del == CASE d.why = "continue" -> {"continue", "need-input"}
               [] d.why = "comment"  -> {"need-input"}
               [] OTHER              -> {}
  IN  /\ loop = "apply" /\ d \in found
      /\ found' = found \ {d} /\ ready' = ready \cup {d}
      /\ row' = [row EXCEPT ![i] =
                   IF d.why = "comment" THEN Rewound(s)
                   ELSE IF d.why = "continue" \/ (d.why = "approval" /\ ~ AtPlanGate(i))
                   THEN Resumed(s) ELSE s]
      /\ note' = [note EXCEPT ![i] = @ /\ d.why # "comment"]
      /\ \/ del = {} /\ UNCHANGED << tags, faults >>
         \/ del # {} /\ Retag(i, {}, del)
         \/ d.why = "comment" /\ Retag(i, {}, del \cup {"plan-approved"})   \* back to planning
      /\ UNCHANGED << merged, loop, queue, todo, clean, jobs, running, limit, dual >> /\ InLoop

\* The dispatch loop stops where the pool is full; what is left over is forgotten.
Launch ==
  /\ loop = "apply" /\ found = {}
  /\ \E some \in SUBSET ready :
       LET Used(S) == Cardinality(Busy \cup { d.item : d \in S })
       IN  /\ some = {} \/ \E last \in some : Used(some \ {last}) < limit
           /\ some = ready \/ Used(some) >= limit
           /\ Dispatch(some)
  /\ ready' = {} /\ loop' = "cleanup"
  /\ UNCHANGED << item, queue, todo, found, clean, limit, faults, dual >> /\ InLoop

\* cleanupCompletedEnvironments: load, wait for docker, save the copy.
CleanLoad(i) ==
  /\ loop = "cleanup" /\ clean = {} /\ row[i].done /\ row[i].env
  /\ clean' = {<< i, row[i] >>}
  /\ UNCHANGED << item, queue, loop, todo, found, ready, jobs, running, limit, faults, dual >>
  /\ InLoop

CleanSave ==
  /\ loop = "cleanup"
  /\ \E c \in clean : row' = [row EXCEPT ![c[1]] = [c[2] EXCEPT !.env = FALSE]]
  /\ clean' = {}
  /\ UNCHANGED << tags, note, merged, queue, loop, todo, found, ready, jobs, running,
                  limit, faults, dual >>
  /\ InLoop

\* The smart sleep ends by itself, on a pending action or when a job settles.
Sleep ==
  /\ loop = "cleanup" /\ clean = {} /\ \A i \in Items : ~ (row[i].done /\ row[i].env)
  /\ loop' = "reap"
  /\ UNCHANGED << item, queue, todo, found, ready, clean, jobs, running, limit, faults, dual >>
  /\ InLoop

\* The process dies: its promises, its pool and its place in the loop are gone; the
\* containers run on.
Crash ==
  /\ loop # "down" /\ crashes > 0 /\ crashes' = crashes - 1
  /\ loop' = "down" /\ todo' = {} /\ found' = {} /\ ready' = {} /\ clean' = {}
  /\ jobs' = {} /\ running' = [i \in Items |-> Free]
  /\ box' = [i \in Items |-> [box[i] EXCEPT !.mine = FALSE]]
  /\ UNCHANGED << item, queue, limit, acts, faults, ghosts >>

-----------------------------------------------------------------------------
(* Humans *)

Human(i) ==
  /\ acts' = acts - 1
  /\ UNCHANGED << row, box, process, crashes, faults, begun, dual >>

AddTag(i, t) ==
  /\ t \notin tags[i] /\ tags' = [tags EXCEPT ![i] = @ \cup {t}]
  /\ Human(i) /\ UNCHANGED << note, merged, queue >>

RemoveNeedInput(i) ==
  /\ "need-input" \in tags[i] /\ tags' = [tags EXCEPT ![i] = @ \ {"need-input"}]
  /\ Human(i) /\ UNCHANGED << note, merged, queue >>

Comment(i) ==
  /\ ~ note[i] /\ (row[i].err \/ row[i].cp # "none") /\ note' = [note EXCEPT ![i] = TRUE]
  /\ Human(i) /\ UNCHANGED << tags, merged, queue >>

Merge(i) ==
  /\ row[i].pr /\ ~ merged[i] /\ merged' = [merged EXCEPT ![i] = TRUE]
  /\ Human(i) /\ UNCHANGED << tags, note, queue >>

\* validateAction, by what the watcher's view of the row can tell.
Valid(type, s) ==
  CASE type = "approve-plan" -> s.cp = "plan-approved"
    [] type = "rerun"        -> s.cp \in {"plan-approved", "pr-published"} \/ s.err
    [] type = "continue"     -> s.err
    [] type = "env"          -> s.env
    [] OTHER                 -> TRUE

\* The server inserts the action after validating it.
Post(i, type) ==
  /\ Human(i) /\ row[i].here /\ Valid(type, row[i])
  /\ \E a \in ActionIds :
       /\ queue[a].status = "unused"
       /\ \A b \in ActionIds : b <= a <=> (b = a \/ queue[b].status # "unused")
       /\ queue' = [queue EXCEPT ![a] = Action(i, type)]
  /\ UNCHANGED << tags, note, merged >>

-----------------------------------------------------------------------------
Container(i) == BoxStart(i) \/ BoxPass(i) \/ BoxPause(i) \/ BoxDone(i) \/ BoxFail(i) \/ BoxDie(i)

\* One promise goes on; Throw is a fault and never forced.
JobStep(j) ==
  \/ BeginFresh(j) \/ BeginContinue(j) \/ BeginAction(j) \/ BeginEnv(j) \/ EndEnv(j)
  \/ ClearBox(j) \/ Spawn(j) \/ Outcome(j) \/ Escalate(j) \/ Record(j)

Loop ==
  \/ Reap \/ ActionsDone \/ Poll \/ Launch \/ CleanSave \/ Sleep
  \/ \E i \in Items : Claim(i) \/ CleanLoad(i)
  \/ \E d \in found : Apply(d)

Humans ==
  /\ acts > 0
  /\ \E i \in Items :
       \/ \E t \in TagNames \ {"need-input"} : AddTag(i, t)
       \/ RemoveNeedInput(i) \/ Comment(i) \/ Merge(i)
       \/ \E type \in ActionTypes : Post(i, type)

Next ==
  \/ Boot \/ Loop \/ Crash \/ Humans
  \/ \E i \in Items : Container(i)
  \/ \E j \in jobs : JobStep(j) \/ Throw(j)
  \/ \E a \in ActionIds : Janitor(a)

Spec == Init /\ [][Next]_vars
=============================================================================
