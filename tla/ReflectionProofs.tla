-------------------------- MODULE ReflectionProofs --------------------------
(***************************************************************************)
(* The reflection agent for every number of watchers, cycles and days: a   *)
(* cycle has one pending proposal, however many processes save together,   *)
(* and a dispatch leaves the container another watcher waits for alone.    *)
(***************************************************************************)
EXTENDS Reflection, FiniteSetTheorems, TLAPS

Places == {"idle", "guard", "clear", "spawn", "wait", "release"}

Watches == [pc : Places, cycle : Nat, cut : BOOLEAN]

Processes == [pc : {"off", "connect", "query", "agent", "save", "insert"}, cycle : Nat,
              rows : SUBSET Nat]

Proposals == [cycle : Nat, status : {"pending", "approved", "rejected", "applied", "superseded"}]

Runners == CycleDays \cup {0}

TypeOK ==
  /\ today \in Nat
  /\ watcher \in [Watchers -> Watches]
  /\ lock \in Watchers \cup {None}
  /\ box \in [CycleDays -> Watchers \cup {None, Nobody}]
  /\ run \in [Runners -> Processes]
  /\ proposals \in Seq(Proposals)

-----------------------------------------------------------------------------
(* Types *)

LEMMA RecordTypes == NoRun \in Processes /\ NoTick \in Watches
  BY DEF NoRun, Processes, NoTick, Watches, Places

LEMMA InitType == Init => TypeOK
  BY RecordTypes DEF Init, TypeOK, Runners

LEMMA StepType == ASSUME TypeOK, NEW w \in Watchers, NEW pc \in Places, Step(w, pc)
                  PROVE  watcher' \in [Watchers -> Watches]
  <1>1. [watcher[w] EXCEPT !.pc = pc] \in Watches
    BY DEF TypeOK, Watches
  <1> QED
    BY <1>1 DEF Step, TypeOK

LEMMA TicksType == ASSUME TypeOK, NEW w \in Watchers, Ticks(w) PROVE TypeOK'
  <1> USE RecordTypes DEF TypeOK
  <1>1. UNCHANGED << today, proposals >>
    BY DEF Ticks, Tick, Guard, Clear, Spawn, Awake, Release, TickFails, Cut, Restart
  <1>2. watcher' \in [Watchers -> Watches]
    <2>1. CASE Tick(w)
      <3>1. [NoTick EXCEPT !.pc = "guard", !.cycle = today] \in Watches
        BY DEF Watches, Places
      <3> QED
        BY <2>1, <3>1 DEF Tick
    <2>2. CASE Cut(w)
      <3>1. [watcher[w] EXCEPT !.cut = TRUE] \in Watches
        BY DEF Watches
      <3> QED
        BY <2>2, <3>1 DEF Cut
    <2>3. CASE Release(w) \/ Restart(w)
      BY <2>3 DEF Release, Restart
    <2>4. CASE \E pc \in Places : Step(w, pc)
      BY <2>4, StepType
    <2>5. CASE Guard(w) \/ Clear(w) \/ Spawn(w) \/ Awake(w) \/ TickFails(w)
      <3>1. {"clear", "release", "spawn", "wait"} \subseteq Places
        BY DEF Places
      <3> QED
        BY <2>5, <3>1, <2>4 DEF Guard, Clear, Spawn, Awake, TickFails
    <2> QED
      BY <2>1, <2>2, <2>3, <2>5 DEF Ticks
  <1>3. lock' \in Watchers \cup {None}
    BY DEF Ticks, Tick, Guard, Clear, Spawn, Awake, Release, TickFails, Cut, Restart
  <1>4. box' \in [CycleDays -> Watchers \cup {None, Nobody}]
    BY DEF Ticks, Tick, Guard, Clear, Spawn, Awake, Release, TickFails, Cut, Restart
  <1>5. run' \in [Runners -> Processes]
    <2>1. watcher[w].cycle \in Nat
      BY DEF Watches
    <2>2. [NoRun EXCEPT !.pc = "connect", !.cycle = watcher[w].cycle] \in Processes
      BY <2>1 DEF Processes
    <2> QED
      BY <2>2 DEF Ticks, Tick, Guard, Clear, Spawn, Awake, Release, TickFails, Cut, Restart
  <1> QED
    BY <1>1, <1>2, <1>3, <1>4, <1>5

LEMMA ExitType == ASSUME TypeOK, NEW r \in Runners, Exit(r)
                  PROVE  /\ run' \in [Runners -> Processes]
                         /\ box' \in [CycleDays -> Watchers \cup {None, Nobody}]
  BY RecordTypes DEF TypeOK, Exit

LEMMA RunsType == ASSUME TypeOK, NEW r \in Runners, Runs(r) PROVE TypeOK'
  <1>1. UNCHANGED << today, watcher, lock >>
    BY DEF Runs, Connect, NoDatabase, Query, Agent, Supersede, Insert, SaveFails, Killed
  <1>2. box' \in [CycleDays -> Watchers \cup {None, Nobody}]
    BY ExitType DEF TypeOK, Runs, Connect, NoDatabase, Query, Agent, Supersede, Insert, SaveFails,
      Killed
  <1>3. run[r] \in Processes /\ run \in [Runners -> Processes]
    BY DEF TypeOK
  <1>4. run' \in [Runners -> Processes]
    <2>1. CASE Exit(r)
      BY <2>1, ExitType
    <2>2. CASE Connect(r) \/ Query(r) \/ Agent(r)
      <3>1. PICK pc \in {"query", "agent", "save"} : run' = [run EXCEPT ![r].pc = pc]
        BY <2>2 DEF Connect, Query, Agent, Move
      <3>2. [run[r] EXCEPT !.pc = pc] \in Processes
        BY <1>3 DEF Processes
      <3> QED
        BY <1>3, <3>1, <3>2
    <2>3. CASE Supersede(r)
      <3>1. With(run[r].cycle, {"pending"}) \in SUBSET Nat
        BY DEF TypeOK, With
      <3>2. [[run[r] EXCEPT !.pc = "insert"] EXCEPT !.rows = With(run[r].cycle, {"pending"})]
              \in Processes
        BY <1>3, <3>1 DEF Processes
      <3> QED
        BY <1>3, <2>3, <3>2 DEF Supersede
    <2> QED
      BY <2>1, <2>2, <2>3 DEF Runs, NoDatabase, Insert, SaveFails, Killed
  <1>5. proposals' \in Seq(Proposals)
    <2>1. CASE Insert(r)
      <3> DEFINE q == [i \in DOMAIN proposals |->
                         IF i \in run[r].rows THEN [proposals[i] EXCEPT !.status = "superseded"]
                         ELSE proposals[i]]
                 x == [cycle |-> run[r].cycle, status |-> "pending"]
      <3>1. \A i \in DOMAIN proposals : /\ proposals[i] \in Proposals
                                        /\ [proposals[i] EXCEPT !.status = "superseded"] \in Proposals
        <4>1. \A i \in DOMAIN proposals : proposals[i] \in Proposals
          BY DEF TypeOK
        <4>2. \A p \in Proposals : [p EXCEPT !.status = "superseded"] \in Proposals
          BY DEF Proposals
        <4> QED
          BY <4>1, <4>2
      <3>2. q \in Seq(Proposals)
        BY <3>1 DEF TypeOK
      <3>3. x \in Proposals
        BY <1>3 DEF Processes, Proposals
      <3>4. proposals' = Append(q, x)
        BY <2>1 DEF Insert
      <3> HIDE DEF q, x
      <3> QED
        BY <3>2, <3>3, <3>4
    <2>2. CASE proposals' = proposals
      BY <2>2 DEF TypeOK
    <2> QED
      BY <2>1, <2>2 DEF Runs, Connect, NoDatabase, Query, Agent, Supersede, SaveFails, Killed
  <1> QED
    BY <1>1, <1>2, <1>4, <1>5 DEF TypeOK

\* A decision changes the status of one proposal.
LEMMA DecideType ==
  ASSUME TypeOK, NEW i, NEW from, NEW to \in {"approved", "rejected", "applied"}, Decide(i, from, to)
  PROVE  TypeOK'
  <1>1. i \in DOMAIN proposals /\ proposals[i] \in Proposals
    BY DEF TypeOK, Decide
  <1>2. [proposals[i] EXCEPT !.status = to] \in Proposals
    BY <1>1 DEF Proposals
  <1> QED
    BY <1>1, <1>2 DEF Decide, TypeOK

LEMMA TypeStep == ASSUME TypeOK, [Next]_vars PROVE TypeOK'
  <1>1. CASE Midnight \/ UNCHANGED vars
    BY <1>1 DEF Midnight, vars, TypeOK
  <1>2. CASE ByHand
    <2>1. PICK cycle \in 1..today :
            run' = [run EXCEPT ![0] = [NoRun EXCEPT !.pc = "connect", !.cycle = cycle]]
      BY <1>2 DEF ByHand
    <2>2. cycle \in Nat
      BY DEF TypeOK
    <2>3. [NoRun EXCEPT !.pc = "connect", !.cycle = cycle] \in Processes
      BY <2>2, RecordTypes DEF Processes
    <2> QED
      BY <1>2, <2>1, <2>3 DEF ByHand, TypeOK, Runners
  <1>3. ASSUME NEW i \in 1..MaxRows, Human(i) PROVE TypeOK'
    BY <1>3, DecideType DEF Human
  <1> QED
    BY <1>1, <1>2, <1>3, TicksType, RunsType DEF Next, Runners

LEMMA Typing == Spec => []TypeOK
  <1>1. TypeOK /\ [Next]_vars => TypeOK'
    BY TypeStep
  <1> QED
    BY InitType, <1>1, PTL DEF Spec

-----------------------------------------------------------------------------
(* One pending proposal.  The lock of a save is its cycle: two transactions  *)
(* after their UPDATE are of different cycles, so the rows one has found are *)
(* all the pending rows of its cycle until it commits.                       *)

Pending(cycle) == With(cycle, {"pending"})

SavesApart ==
  \A r, s \in Runners :
    r # s /\ run[r].pc = "insert" /\ run[s].pc = "insert" => run[r].cycle # run[s].cycle

RowsCurrent == \A r \in Runners : run[r].pc = "insert" => run[r].rows = Pending(run[r].cycle)

PendingOnce == \A cycle \in Nat : \A i, j \in Pending(cycle) : i = j

SaveInv == SavesApart /\ RowsCurrent /\ PendingOnce

\* A step that begins no transaction and touches no pending row.
LEMMA NothingSaved ==
  ASSUME SaveInv, \A cycle \in Nat : Pending(cycle)' = Pending(cycle),
         \A r \in Runners : run'[r].pc = "insert" => run'[r] = run[r] /\ run[r].cycle \in Nat
  PROVE  SaveInv'
  <1>1. SavesApart'
    BY DEF SaveInv, SavesApart
  <1>2. RowsCurrent'
    BY DEF SaveInv, RowsCurrent
  <1>3. PendingOnce'
    BY DEF SaveInv, PendingOnce
  <1> QED
    BY <1>1, <1>2, <1>3 DEF SaveInv

LEMMA SamePending == ASSUME proposals' = proposals PROVE \A cycle \in Nat : Pending(cycle)' = Pending(cycle)
  BY DEF Pending, With

LEMMA TicksSave == ASSUME TypeOK, SaveInv, NEW w \in Watchers, Ticks(w) PROVE SaveInv'
  <1>1. proposals' = proposals
    BY DEF Ticks, Tick, Guard, Clear, Spawn, Awake, Release, TickFails, Cut, Restart
  <1> DEFINE begun == [NoRun EXCEPT !.pc = "connect", !.cycle = watcher[w].cycle]
  <1>2. PICK c : run' = run \/ run' = [run EXCEPT ![c] = NoRun] \/ run' = [run EXCEPT ![c] = begun]
    BY Zenon DEF Ticks, Tick, Guard, Clear, Spawn, Awake, Release, TickFails, Cut, Restart
  <1>3. NoRun.pc # "insert" /\ begun.pc # "insert"
    BY DEF NoRun
  <1> HIDE DEF begun
  <1>4. \A r \in Runners : run[r].cycle \in Nat
    BY DEF TypeOK, Processes
  <1>5. \A r \in Runners : run'[r].pc = "insert" => run'[r] = run[r]
    BY <1>2, <1>3 DEF TypeOK
  <1> QED
    BY <1>1, <1>4, <1>5, SamePending, NothingSaved

LEMMA SupersedeSave == ASSUME TypeOK, SaveInv, NEW r \in Runners, Supersede(r) PROVE SaveInv'
  <1>1. /\ run'[r].pc = "insert" /\ run'[r].cycle = run[r].cycle
        /\ run'[r].rows = Pending(run[r].cycle)
        /\ \A s \in Runners \ {r} : run'[s] = run[s]
    BY DEF Supersede, Pending, TypeOK, Processes
  <1>2. \A cycle \in Nat : Pending(cycle)' = Pending(cycle)
    BY SamePending DEF Supersede
  <1>3. \A s \in Runners : run[s].pc = "insert" => run[s].cycle # run[r].cycle
    BY DEF Supersede, SaveFree, TypeOK
  <1>4. \A s \in Runners : run[s].cycle \in Nat
    BY DEF TypeOK, Processes
  <1>5. SavesApart'
    BY <1>1, <1>3 DEF SaveInv, SavesApart
  <1>6. RowsCurrent'
    BY <1>1, <1>2, <1>4 DEF SaveInv, RowsCurrent
  <1>7. PendingOnce'
    BY <1>2 DEF SaveInv, PendingOnce
  <1> QED
    BY <1>5, <1>6, <1>7 DEF SaveInv

LEMMA ExitSave == ASSUME TypeOK, NEW r \in Runners, Exit(r)
                  PROVE  \A s \in Runners : run'[s].pc = "insert" => run'[s] = run[s] /\ s # r
  BY DEF TypeOK, Exit, NoRun

LEMMA InsertSave == ASSUME TypeOK, SaveInv, NEW r \in Runners, Insert(r) PROVE SaveInv'
  <1>0. PICK n, c : n = Len(proposals) + 1 /\ c = run[r].cycle
    OBVIOUS
  <1>1. /\ DOMAIN proposals' = DOMAIN proposals \cup {n} /\ n \notin DOMAIN proposals
        /\ proposals'[n] = [cycle |-> c, status |-> "pending"]
        /\ \A i \in DOMAIN proposals :
             proposals'[i] = IF i \in run[r].rows THEN [proposals[i] EXCEPT !.status = "superseded"]
                             ELSE proposals[i]
    BY <1>0 DEF Insert, TypeOK
  <1>2. run[r].pc = "insert" /\ run[r].rows = Pending(c) /\ c \in Nat
    BY <1>0 DEF Insert, SaveInv, RowsCurrent, TypeOK, Processes
  <1>3. \A i \in DOMAIN proposals : proposals[i] \in Proposals
    BY DEF TypeOK
  <1>4. \A i \in DOMAIN proposals :
          /\ proposals'[i].cycle = proposals[i].cycle
          /\ proposals'[i].status = IF i \in Pending(c) THEN "superseded" ELSE proposals[i].status
    BY <1>1, <1>2, <1>3 DEF Proposals
  <1>5. Pending(c)' = {n}
    BY <1>1, <1>4 DEF Pending, With
  <1>6. \A cycle \in Nat \ {c} : Pending(cycle)' = Pending(cycle)
    BY <1>1, <1>4 DEF Pending, With
  <1>7. \A s \in Runners : run'[s].pc = "insert" => run'[s] = run[s] /\ s # r
    BY ExitSave DEF Insert
  <1>8. SavesApart'
    BY <1>7 DEF SaveInv, SavesApart
  <1>9. RowsCurrent'
    <2>1. \A s \in Runners : run'[s].pc = "insert" => run[s].cycle # c /\ run[s].cycle \in Nat
      BY <1>0, <1>2, <1>7 DEF SaveInv, SavesApart, TypeOK, Processes
    <2> QED
      BY <1>6, <1>7, <2>1 DEF SaveInv, RowsCurrent
  <1>10. PendingOnce'
    BY <1>5, <1>6 DEF SaveInv, PendingOnce
  <1> QED
    BY <1>8, <1>9, <1>10 DEF SaveInv

LEMMA RunsSave == ASSUME TypeOK, SaveInv, NEW r \in Runners, Runs(r) PROVE SaveInv'
  <1>1. \A s \in Runners : run[s].cycle \in Nat
    BY DEF TypeOK, Processes
  <1>2. CASE Connect(r) \/ Query(r) \/ Agent(r)
    <2>1. proposals' = proposals
      BY <1>2 DEF Connect, Query, Agent
    <2>2. \A s \in Runners : run'[s].pc = "insert" => run'[s] = run[s]
      BY <1>2 DEF Connect, Query, Agent, Move, TypeOK, Processes
    <2> QED
      BY <1>1, <2>1, <2>2, SamePending, NothingSaved
  <1>3. CASE NoDatabase(r) \/ SaveFails(r) \/ Killed(r)
    BY <1>1, <1>3, ExitSave, SamePending, NothingSaved DEF NoDatabase, SaveFails, Killed
  <1> QED
    BY <1>2, <1>3, SupersedeSave, InsertSave DEF Runs

\* A row a transaction has locked waits for its commit; another is pending no more.
LEMMA DecideSave ==
  ASSUME TypeOK, SaveInv, NEW i, NEW from, NEW to \in {"approved", "rejected", "applied"},
         Decide(i, from, to)
  PROVE  SaveInv'
  <1>1. \A j \in DOMAIN proposals : proposals[j] \in Proposals
    BY DEF TypeOK
  <1>2. /\ DOMAIN proposals' = DOMAIN proposals /\ run' = run
        /\ \A j \in DOMAIN proposals : /\ proposals'[j].cycle = proposals[j].cycle
                                      /\ proposals'[j].status = IF j = i THEN to ELSE proposals[j].status
    BY <1>1 DEF Decide, Proposals
  <1>3. \A cycle \in Nat : Pending(cycle)' = Pending(cycle) \ {i}
    BY <1>2 DEF Pending, With
  <1>4. \A r \in Runners : run[r].pc = "insert" => i \notin Pending(run[r].cycle)
    BY DEF Decide, Locked, SaveInv, RowsCurrent, TypeOK
  <1>5. \A r \in Runners : run[r].cycle \in Nat
    BY DEF TypeOK, Processes
  <1>6. SavesApart'
    BY <1>2 DEF SaveInv, SavesApart
  <1>7. RowsCurrent'
    BY <1>2, <1>3, <1>4, <1>5 DEF SaveInv, RowsCurrent
  <1>8. PendingOnce'
    BY <1>3 DEF SaveInv, PendingOnce
  <1> QED
    BY <1>6, <1>7, <1>8 DEF SaveInv

LEMMA SaveStep == ASSUME TypeOK, SaveInv, [Next]_vars PROVE SaveInv'
  <1>1. \A s \in Runners : run[s].cycle \in Nat
    BY DEF TypeOK, Processes
  <1>2. CASE Midnight \/ UNCHANGED vars
    BY <1>1, <1>2, SamePending, NothingSaved DEF Midnight, vars
  <1>3. CASE ByHand
    <2>1. proposals' = proposals
      BY <1>3 DEF ByHand
    <2>2. \A s \in Runners : run'[s].pc = "insert" => run'[s] = run[s]
      BY <1>3 DEF ByHand, TypeOK, NoRun
    <2> QED
      BY <1>1, <2>1, <2>2, SamePending, NothingSaved
  <1>4. ASSUME NEW i \in 1..MaxRows, Human(i) PROVE SaveInv'
    BY <1>4, DecideSave DEF Human
  <1> QED
    BY <1>2, <1>3, <1>4, TicksSave, RunsSave DEF Next, Runners

\* At most one proposal of a cycle waits for a decision, whoever saves, decides, fails or
\* is killed meanwhile.
THEOREM OneProposalWaits == Spec => []OnePending
  <1>1. Init => SaveInv
    BY DEF Init, SaveInv, SavesApart, RowsCurrent, PendingOnce, Pending, With, NoRun, Runners
  <1>2. TypeOK /\ SaveInv /\ [Next]_vars => SaveInv'
    BY SaveStep
  <1>3. SaveInv => OnePending
    <2> SUFFICES ASSUME SaveInv, NEW cycle \in 1..Days
                 PROVE  Cardinality(Pending(cycle)) <= 1
      BY DEF OnePending, Pending
    <2>1. CASE Pending(cycle) = {}
      BY <2>1, FS_EmptySet
    <2>2. CASE Pending(cycle) # {}
      <3>1. PICK i : Pending(cycle) = {i}
        BY <2>2 DEF SaveInv, PendingOnce
      <3> QED
        BY <3>1, FS_Singleton
    <2> QED
      BY <2>1, <2>2
  <1> QED
    BY <1>1, <1>2, <1>3, Typing, PTL DEF Spec

-----------------------------------------------------------------------------
(* The lock and the container.  A watcher whose connection was not cut holds *)
(* the lock from its tick to its release, and a container that somebody      *)
(* waits for is waited for by that watcher under that cycle.                 *)

LockKept == \A w \in Watchers : watcher[w].pc # "idle" /\ ~ watcher[w].cut => lock = w

WaitsForIt ==
  \A c \in CycleDays : box[c] \in Watchers =>
    watcher[box[c]].pc = "wait" /\ watcher[box[c]].cycle = c

LockInv == LockKept /\ WaitsForIt

LEMMA TicksLock ==
  ASSUME Watchers \cap {None, Nobody} = {}, TypeOK, LockInv, NEW w \in Watchers, Ticks(w)
  PROVE  LockInv'
  <1>1. watcher[w] \in Watches /\ \A v \in Watchers \ {w} : watcher'[v] = watcher[v]
    BY DEF TypeOK, Ticks, Tick, Guard, Clear, Spawn, Awake, Release, TickFails, Cut, Restart, Step
  <1>2. CASE Tick(w)
    <2>1. watcher[w].pc = "idle" /\ lock = None /\ lock' = w /\ box' = box
      BY <1>2 DEF Tick
    <2>2. LockKept'
      BY <1>1, <2>1 DEF LockInv, LockKept
    <2>3. WaitsForIt'
      BY <1>1, <2>1 DEF LockInv, WaitsForIt
    <2> QED
      BY <2>2, <2>3 DEF LockInv
  <1>3. CASE Guard(w) \/ TickFails(w)
    <2>1. watcher[w].pc \in {"guard", "clear", "spawn"} /\ lock' = lock /\ box' = box
      BY <1>3 DEF Guard, TickFails, LockUntil
    <2>2. watcher'[w].cut = watcher[w].cut
      BY <1>1, <1>3 DEF Guard, TickFails, Step, TypeOK, Watches
    <2>3. LockKept'
      BY <1>1, <2>1, <2>2 DEF LockInv, LockKept
    <2>4. WaitsForIt'
      BY <1>1, <2>1 DEF LockInv, WaitsForIt
    <2> QED
      BY <2>3, <2>4 DEF LockInv
  <1>4. CASE Clear(w) \/ Spawn(w) \/ Awake(w)
    <2>1. watcher[w].pc # "idle" /\ lock' = lock
      BY <1>4 DEF Clear, Spawn, Awake
    <2>2. watcher'[w].cut = watcher[w].cut /\ watcher'[w].cycle = watcher[w].cycle
      BY <1>1, <1>4 DEF Clear, Spawn, Awake, Step, TypeOK, Watches
    <2>3. LockKept'
      BY <1>1, <2>1, <2>2 DEF LockInv, LockKept
    <2>4. WaitsForIt'
      <3> SUFFICES ASSUME NEW c \in CycleDays, box'[c] \in Watchers
                   PROVE  watcher'[box'[c]].pc = "wait" /\ watcher'[box'[c]].cycle = c
        BY DEF WaitsForIt
      <3>1. CASE box'[c] # w
        <4>1. box[c] = box'[c]
          BY <1>4, <3>1 DEF Clear, Spawn, Awake, TypeOK
        <4> QED
          BY <1>1, <3>1, <4>1 DEF LockInv, WaitsForIt
      <3>2. CASE box'[c] = w
        <4>1. CASE box[c] = w
          <5>1. watcher[w].pc = "wait" /\ watcher[w].cycle = c
            BY <4>1 DEF LockInv, WaitsForIt
          <5> QED
            BY <1>4, <4>1, <5>1 DEF Clear, Spawn, Awake
        <4>2. CASE box[c] # w
          BY <1>4, <3>2, <4>2, <2>2 DEF Clear, Spawn, Awake, Step, TypeOK, Watches
        <4> QED
          BY <4>1, <4>2
      <3> QED
        BY <3>1, <3>2
    <2> QED
      BY <2>3, <2>4 DEF LockInv
  <1>5. CASE Release(w) \/ Restart(w)
    <2>1. watcher'[w].pc = "idle" /\ lock' = IF lock = w THEN None ELSE lock
      BY <1>5 DEF Release, Restart, TypeOK, NoTick
    <2>2. LockKept'
      BY <1>1, <2>1 DEF LockInv, LockKept
    <2>3. \A c \in CycleDays : box'[c] = box[c] \/ box'[c] = Nobody
      BY <1>5 DEF Release, Restart, TypeOK
    <2>4. \A c \in CycleDays : box'[c] # w
      BY <1>5 DEF Release, Restart, TypeOK, LockInv, WaitsForIt
    <2>5. WaitsForIt'
      BY <1>1, <2>3, <2>4 DEF LockInv, WaitsForIt
    <2> QED
      BY <2>2, <2>5 DEF LockInv
  <1>6. CASE Cut(w)
    <2>1. lock = w /\ box' = box /\ watcher' = [watcher EXCEPT ![w].cut = TRUE]
      BY <1>6 DEF Cut
    <2>2. watcher'[w].cut /\ watcher'[w].pc = watcher[w].pc /\ watcher'[w].cycle = watcher[w].cycle
      BY <1>1, <2>1 DEF TypeOK, Watches
    <2>3. LockKept'
      BY <1>1, <2>1, <2>2 DEF LockInv, LockKept
    <2>4. WaitsForIt'
      BY <1>1, <2>1, <2>2 DEF LockInv, WaitsForIt
    <2> QED
      BY <2>3, <2>4 DEF LockInv
  <1> QED
    BY <1>2, <1>3, <1>4, <1>5, <1>6 DEF Ticks

LEMMA LockStep ==
  ASSUME Watchers \cap {None, Nobody} = {}, TypeOK, LockInv, [Next]_vars
  PROVE  LockInv'
  <1>1. ASSUME UNCHANGED << watcher, lock >>,
               \A c \in CycleDays : box'[c] \in {box[c], None}
        PROVE  LockInv'
    BY <1>1 DEF LockInv, LockKept, WaitsForIt
  <1>2. ASSUME NEW r \in Runners, Runs(r) PROVE LockInv'
    <2>1. UNCHANGED << watcher, lock >>
      BY <1>2 DEF Runs, Connect, NoDatabase, Query, Agent, Supersede, Insert, SaveFails, Killed
    <2>2. \A c \in CycleDays : box'[c] \in {box[c], None}
      BY <1>2 DEF Runs, Connect, NoDatabase, Query, Agent, Supersede, Insert, SaveFails, Killed, Exit
    <2> QED
      BY <1>1, <2>1, <2>2
  <1>3. CASE Midnight \/ ByHand \/ UNCHANGED vars
    BY <1>1, <1>3 DEF Midnight, ByHand, vars
  <1>4. ASSUME NEW i \in 1..MaxRows, Human(i) PROVE LockInv'
    BY <1>1, <1>4 DEF Human, Decide
  <1> QED
    BY <1>2, <1>3, <1>4, TicksLock DEF Next, Runners

\* Only its own dispatch moves a watcher's tick.
LEMMA OnlyClears ==
  ASSUME TypeOK, Next, NEW v \in Watchers, watcher[v].pc = "clear", watcher'[v].pc = "spawn"
  PROVE  Clear(v)
  <1>1. watcher[v] \in Watches /\ watcher' # watcher
    BY DEF TypeOK
  <1>2. PICK w \in Watchers : Ticks(w)
    BY <1>1 DEF Next, Midnight, ByHand, Human, Decide, Runs, Connect, NoDatabase, Query, Agent,
      Supersede, Insert, SaveFails, Killed
  <1>3. w = v
    BY <1>2 DEF TypeOK, Ticks, Tick, Guard, Clear, Spawn, Awake, Release, TickFails, Cut, Restart, Step
  <1> QED
    BY <1>1, <1>2, <1>3 DEF TypeOK, Watches, Ticks, Tick, Guard, Spawn, Awake, Release, TickFails,
      Cut, Restart, Step, NoTick

\* No dispatch removes the container another watcher waits for, unless one of the two has
\* lost the connection its lock lived on.
THEOREM DispatchesSpareEachOther ==
  ASSUME Watchers \cap {None, Nobody} = {}
  PROVE  Spec => RunUndisturbed
  <1>1. Init => LockInv
    BY DEF Init, LockInv, LockKept, WaitsForIt, NoTick
  <1>2. TypeOK /\ LockInv /\ [Next]_vars => LockInv'
    BY LockStep
  <1>3. TypeOK /\ LockInv /\ [Next]_vars => [DispatchSpares]_vars
    <2> SUFFICES ASSUME TypeOK, LockInv, Next, NEW w \in Watchers, NEW v \in Watchers,
                        watcher[v].pc = "clear", watcher'[v].pc = "spawn",
                        box[watcher[v].cycle] = w, v # w, ~ watcher[w].cut, ~ watcher[v].cut
                 PROVE  box' = box
      BY DEF DispatchSpares
    <2>1. Clear(v)
      BY OnlyClears
    <2>2. CASE watcher[v].cycle \in CycleDays
      BY <2>2 DEF LockInv, LockKept, WaitsForIt
    <2>3. CASE watcher[v].cycle \notin CycleDays
      BY <2>1, <2>3 DEF Clear, TypeOK
    <2> QED
      BY <2>2, <2>3
  <1> QED
    BY <1>1, <1>2, <1>3, Typing, PTL DEF Spec, RunUndisturbed
=============================================================================
