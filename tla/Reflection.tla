----------------------------- MODULE Reflection -----------------------------
(***************************************************************************)
(* The reflection agent: a task every watcher's scheduler ticks            *)
(* (src/cli/watch/scheduler.ts), the dispatch behind an advisory lock      *)
(* (executeReflection in src/cli/watch/container-dispatcher.ts), the run   *)
(* itself (src/cli/reflect.ts), in a container or started by hand, and the *)
(* proposals it saves, which a human decides on                            *)
(* (src/db/pg-reflection-store.ts, the dashboard).                         *)
(*                                                                         *)
(* A cycle is its day.  Its container has one name, so a dispatch for the  *)
(* cycle removes the container of an earlier one.                          *)
(***************************************************************************)
EXTENDS Naturals, Sequences, FiniteSets

CONSTANTS
  Watchers,    \* watchers that overlap
  Days,        \* bound: days that pass
  CycleDays,   \* the days a cycle starts on
  MaxRows,     \* bound: proposals ever saved
  MaxFaults    \* bound: crashes, lost connections, failed calls

VARIABLES
  today,      \* the UTC day
  watcher,    \* each watcher's tick
  lock,       \* the session-level advisory lock: who holds it
  box,        \* who waits for the container of each cycle, if there is one
  run,        \* the reflect process in each cycle's container, and process 0 by hand
  proposals,  \* the table, in order of creation
  faults

vars == << today, watcher, lock, box, run, proposals, faults >>

-----------------------------------------------------------------------------
None == "none"
NoTick == [pc |-> "idle", cycle |-> 0, cut |-> FALSE]
Nobody == "nobody"   \* the watcher that started the container is gone
NoRun  == [pc |-> "off", cycle |-> 0, rows |-> {}]

\* Proposals of a cycle with a status.
With(cycle, statuses) ==
  { i \in DOMAIN proposals : proposals[i].cycle = cycle /\ proposals[i].status \in statuses }

Init ==
  /\ today = 1
  /\ watcher = [w \in Watchers |-> NoTick]
  /\ lock = None
  /\ box = [c \in CycleDays |-> None]
  /\ run = [r \in CycleDays \cup {0} |-> NoRun]
  /\ proposals = << >>
  /\ faults = 0

Fault == faults < MaxFaults /\ faults' = faults + 1
Step(w, pc) == watcher' = [watcher EXCEPT ![w].pc = pc]

Midnight ==
  /\ today < Days /\ today' = today + 1
  /\ UNCHANGED << watcher, lock, box, run, proposals, faults >>

-----------------------------------------------------------------------------
(* A tick. *)

\* The guard alone is inside the lock.
LockUntilMutant == "guard"

\* The lock is held until the container has ended.
LockUntil == "release"

\* The scheduler never overlaps two ticks of a task; pg_try_advisory_lock does not wait.
Tick(w) ==
  /\ watcher[w].pc = "idle" /\ lock = None
  /\ watcher' = [watcher EXCEPT ![w] = [NoTick EXCEPT !.pc = "guard", !.cycle = today]]
  /\ lock' = w
  /\ UNCHANGED << today, box, run, proposals, faults >>

\* shouldDispatchReflection, on what findByCycle finds.
Guard(w) ==
  LET cycle == watcher[w].cycle
      due == cycle \in CycleDays
             /\ With(cycle, {"pending", "approved", "rejected", "applied"}) = {}
  IN  /\ watcher[w].pc = "guard"
      /\ Step(w, IF due THEN "clear" ELSE "release")
      /\ lock' = IF due /\ LockUntil = "guard" /\ lock = w THEN None ELSE lock
      /\ UNCHANGED << today, box, run, proposals, faults >>

\* removeContainer: whatever runs under the cycle's name is gone.
Clear(w) ==
  /\ watcher[w].pc = "clear" /\ Step(w, "spawn")
  /\ box' = [box EXCEPT ![watcher[w].cycle] = None]
  /\ run' = [run EXCEPT ![watcher[w].cycle] = NoRun]
  /\ UNCHANGED << today, lock, proposals, faults >>

\* docker run; it fails when the name is taken.
Spawn(w) ==
  /\ watcher[w].pc = "spawn"
  /\ IF box[watcher[w].cycle] = None
     THEN /\ box' = [box EXCEPT ![watcher[w].cycle] = w]
          /\ run' = [run EXCEPT ![watcher[w].cycle] = [NoRun EXCEPT !.pc = "connect",
                                                                  !.cycle = watcher[w].cycle]]
          /\ Step(w, "wait")
     ELSE Step(w, "release") /\ UNCHANGED << box, run >>
  /\ UNCHANGED << today, lock, proposals, faults >>

\* The container has ended, or was removed: whatever its code, it is only logged.
Awake(w) ==
  /\ watcher[w].pc = "wait" /\ box[watcher[w].cycle] # w /\ Step(w, "release")
  /\ UNCHANGED << today, lock, box, run, proposals, faults >>

Release(w) ==
  /\ watcher[w].pc = "release"
  /\ watcher' = [watcher EXCEPT ![w] = NoTick]
  /\ lock' = IF lock = w THEN None ELSE lock
  /\ UNCHANGED << today, box, run, proposals, faults >>

\* A query or docker fails: logged, never thrown.
TickFails(w) ==
  /\ watcher[w].pc \in {"guard", "clear", "spawn"} /\ Fault /\ Step(w, "release")
  /\ UNCHANGED << today, lock, box, run, proposals >>

\* The connection of the lock is lost, and with it the lock.
Cut(w) ==
  /\ lock = w /\ Fault /\ lock' = None
  /\ watcher' = [watcher EXCEPT ![w].cut = TRUE]
  /\ UNCHANGED << today, box, run, proposals >>

\* The watcher is restarted; the container goes on without it.
Restart(w) ==
  /\ watcher[w].pc # "idle" /\ Fault
  /\ watcher' = [watcher EXCEPT ![w] = NoTick]
  /\ lock' = IF lock = w THEN None ELSE lock
  /\ box' = [c \in CycleDays |-> IF box[c] = w THEN Nobody ELSE box[c]]
  /\ UNCHANGED << today, run, proposals >>

-----------------------------------------------------------------------------
(* runReflect. *)

Move(r, pc) == run' = [run EXCEPT ![r].pc = pc]

\* `pipeline reflect`, for any cycle; --dry-run saves nothing and is left out.
ByHand ==
  /\ run[0].pc = "off" /\ Len(proposals) < MaxRows
  /\ \E cycle \in 1..today :
       run' = [run EXCEPT ![0] = [NoRun EXCEPT !.pc = "connect", !.cycle = cycle]]
  /\ UNCHANGED << today, watcher, lock, box, proposals, faults >>

\* The end of the process; docker run --rm, so the container goes too.
Exit(r) ==
  /\ run' = [run EXCEPT ![r] = NoRun]
  /\ box' = [c \in CycleDays |-> IF c = r THEN None ELSE box[c]]

\* Without a database there is nothing to query and nothing to save.
Connect(r) ==
  /\ run[r].pc = "connect" /\ Move(r, "query")
  /\ UNCHANGED << today, watcher, lock, box, proposals, faults >>

NoDatabase(r) ==
  /\ run[r].pc = "connect" /\ Fault /\ Exit(r)
  /\ UNCHANGED << today, watcher, lock, proposals >>

\* Too few disputed findings: a row that says so, and no agent.
Query(r) ==
  /\ run[r].pc = "query" /\ \E enough \in BOOLEAN : Move(r, IF enough THEN "agent" ELSE "save")
  /\ UNCHANGED << today, watcher, lock, box, proposals, faults >>

\* The agent ends or fails: either way a row is saved, with the error if there is one.
Agent(r) ==
  /\ run[r].pc = "agent" /\ Move(r, "save")
  /\ UNCHANGED << today, watcher, lock, box, proposals, faults >>

\* No pg_advisory_xact_lock.
SaveFreeMutant(r) == TRUE

\* pg_advisory_xact_lock on the cycle.
SaveFree(r) == \A s \in DOMAIN run : run[s].pc = "insert" => run[s].cycle # run[r].cycle

\* The transaction: the UPDATE finds the pending rows of the cycle and locks them.
Supersede(r) ==
  /\ run[r].pc = "save" /\ SaveFree(r) /\ Len(proposals) < MaxRows
  /\ run' = [run EXCEPT ![r].pc = "insert", ![r].rows = With(run[r].cycle, {"pending"})]
  /\ UNCHANGED << today, watcher, lock, box, proposals, faults >>

\* INSERT and COMMIT, then the notification and the exit.
Insert(r) ==
  /\ run[r].pc = "insert"
  /\ proposals' =
       Append([i \in DOMAIN proposals |->
                 IF i \in run[r].rows THEN [proposals[i] EXCEPT !.status = "superseded"]
                 ELSE proposals[i]],
              [cycle |-> run[r].cycle, status |-> "pending"])
  /\ Exit(r)
  /\ UNCHANGED << today, watcher, lock, faults >>

\* A save that fails is logged; the process ends as if it had saved.
SaveFails(r) ==
  /\ run[r].pc \in {"save", "insert"} /\ Fault /\ Exit(r)
  /\ UNCHANGED << today, watcher, lock, proposals >>

\* The process is killed.
Killed(r) ==
  /\ run[r].pc # "off" /\ Fault /\ Exit(r)
  /\ UNCHANGED << today, watcher, lock, proposals >>

-----------------------------------------------------------------------------
(* The dashboard and the apply step. *)

Locked(i) == \E r \in DOMAIN run : run[r].pc = "insert" /\ i \in run[r].rows

\* decide and markApplied test the status in the UPDATE; anything else is a 409.
Decide(i, from, to) ==
  /\ i \in DOMAIN proposals /\ proposals[i].status = from /\ ~ Locked(i)
  /\ proposals' = [proposals EXCEPT ![i].status = to]
  /\ UNCHANGED << today, watcher, lock, box, run, faults >>

Human(i) ==
  \/ Decide(i, "pending", "approved") \/ Decide(i, "pending", "rejected")
  \/ Decide(i, "approved", "applied")

-----------------------------------------------------------------------------
Ticks(w) ==
  \/ Tick(w) \/ Guard(w) \/ Clear(w) \/ Spawn(w) \/ Awake(w) \/ Release(w)
  \/ TickFails(w) \/ Cut(w) \/ Restart(w)

Runs(r) ==
  \/ Connect(r) \/ NoDatabase(r) \/ Query(r) \/ Agent(r) \/ Supersede(r) \/ Insert(r)
  \/ SaveFails(r) \/ Killed(r)

Next ==
  \/ Midnight \/ ByHand
  \/ \E w \in Watchers : Ticks(w)
  \/ \E r \in CycleDays \cup {0} : Runs(r)
  \/ \E i \in 1..MaxRows : Human(i)

Spec == Init /\ [][Next]_vars

-----------------------------------------------------------------------------
\* "At most one row for a given cycle is ever 'pending' at a time"
\* (reflection-store.interface.ts:9), with a container and a run by hand saving together.
OnePending == \A cycle \in 1..Days : Cardinality(With(cycle, {"pending"})) <= 1

\* A dispatch finds the container another watcher waits for, and leaves it.
DispatchSpares ==
  \A w, v \in Watchers :
    /\ watcher[v].pc = "clear" /\ watcher'[v].pc = "spawn"
    /\ box[watcher[v].cycle] = w /\ v # w /\ ~ watcher[w].cut /\ ~ watcher[v].cut
    => box' = box

\* The lock covers the guard and the run (container-dispatcher.ts:535): no dispatch removes
\* the container another watcher waits for, unless one of them has lost its connection.
RunUndisturbed == [][DispatchSpares]_vars
=============================================================================
