----------------------------- MODULE FleetProofs -----------------------------
(***************************************************************************)
(* The watcher for every number of items, actions, crashes and faults and  *)
(* every limit: an action's body runs at most once and its outcome is      *)
(* final; a container of this watcher is awaited and counted; the pool     *)
(* never grows beyond the limit.                                           *)
(***************************************************************************)
EXTENDS FleetProps, FiniteSetTheorems, WellFoundedInduction, TLAPS

-----------------------------------------------------------------------------
(* Types *)

Detections == [item : Items, cmd : {"run", "continue"},
               why : {"analyse", "continue", "approval", "comment", "merge"}]

Actions == [item : Items \cup {"none"}, type : ActionTypes, status : Statuses, duplicate : BOOLEAN]

Slots == {"none", "run", "continue"} \X (ActionIds \cup {0})

\* An env- action never waits for a container.
EnvPcs == {"begin", "call", "returned", "threw"}

FleetTypes ==
  /\ row \in [Items -> Rows]
  /\ tags \in [Items -> SUBSET TagNames]
  /\ note \in [Items -> BOOLEAN] /\ merged \in [Items -> BOOLEAN]
  /\ box \in [Items -> Boxes]
  /\ queue \in [ActionIds -> Actions]
  /\ \A a \in ActionIds : queue[a].status # "unused" => queue[a].item \in Items
  /\ loop \in {"down", "reap", "actions", "poll", "apply", "cleanup"}
  /\ todo \subseteq Items
  /\ found \subseteq Detections /\ ready \subseteq Detections
  /\ clean \subseteq Items \X Rows
  /\ jobs \subseteq Jobs /\ \A j \in jobs : j.cmd = "env" => j.pc \in EnvPcs
  /\ running \in [Items -> Slots]
  /\ limit \in Limits
  /\ begun \in [ActionIds -> Nat]
  /\ dual \in BOOLEAN

\* What the loop has still to claim is pending.
TodoPending == \A i \in todo : \E a \in Pending : queue[a].item = i

Below == { p \in Nat \X Nat : p[1] < p[2] }

\* A set of action ids that is not empty has an oldest member.
LEMMA OldestMember ==
  ASSUME NEW S \in SUBSET ActionIds, S # {}
  PROVE  \E a \in S : \A b \in S : a <= b
  <1>1. IsWellFoundedOn(Below, Nat)
    BY NatLessThanWellFounded DEF OpToRel, Below
  <1>2. S \subseteq Nat
    BY ActionIdsAssumption
  <1>3. PICK a \in S : \A b \in S : << b, a >> \notin Below
    BY <1>1, <1>2, WFMin
  <1>4. ASSUME NEW b \in S PROVE a <= b
    <2>1. a \in Nat /\ b \in Nat
      BY <1>2
    <2>2. << b, a >> \in Nat \X Nat /\ ~ (b < a)
      BY <1>3, <2>1 DEF Below
    <2> QED
      BY <2>1, <2>2
  <1> QED
    BY <1>4

\* Oldest: of the pending actions of an item the loop has listed, one is claimed.
LEMMA OldestPending ==
  ASSUME TodoPending, NEW i \in todo
  PROVE  /\ Oldest(i) \in ActionIds
         /\ queue[Oldest(i)].status = "pending" /\ queue[Oldest(i)].item = i
  <1> DEFINE S == { a \in Pending : queue[a].item = i }
  <1>1. S \subseteq ActionIds /\ S # {}
    BY DEF TodoPending, Pending
  <1>2. PICK a \in S : \A b \in S : a <= b
    BY <1>1, OldestMember
  <1>3. \E x \in Pending : queue[x].item = i /\ \A b \in Pending : queue[b].item = i => x <= b
    BY <1>2
  <1>4. Oldest(i) \in Pending /\ queue[Oldest(i)].item = i
    BY <1>3 DEF Oldest
  <1> QED
    BY <1>4 DEF Pending

-----------------------------------------------------------------------------
(* Rows, tags and boxes *)

LEMMA RowTypes ==
  /\ NoRow \in Rows /\ FreshRow \in Rows
  /\ \A s \in Rows :
       /\ Resumed(s) \in Rows /\ Rewound(s) \in Rows
       /\ [s EXCEPT !.cp = "none"] \in Rows /\ [s EXCEPT !.done = TRUE] \in Rows
       /\ [s EXCEPT !.err = TRUE] \in Rows /\ [s EXCEPT !.env = FALSE] \in Rows
  BY DEF NoRow, FreshRow, Rows, Resumed, Rewound, Gates

LEMMA BoxTypes ==
  /\ NoBox \in Boxes
  /\ \A b \in Boxes : [b EXCEPT !.mine = FALSE] \in Boxes
  /\ \A b \in Boxes, s \in Rows : [[b EXCEPT !.mem = s] EXCEPT !.on = "yes"] \in Boxes
  BY RowTypes DEF NoBox, Boxes

LEMMA RetagType ==
  ASSUME FleetTypes, NEW i \in Items, NEW add \in SUBSET TagNames, NEW del, Retag(i, add, del)
  PROVE  tags' \in [Items -> SUBSET TagNames]
  BY DEF FleetTypes, Retag

LEMMA SaveRowType ==
  ASSUME FleetTypes, NEW i \in Items, NEW s \in Rows, SaveRow(i, s)
  PROVE  /\ row' \in [Items -> Rows] /\ box' \in [Items -> Boxes]
         /\ box' = [box EXCEPT ![i] = [[box[i] EXCEPT !.mem = s] EXCEPT !.on = "yes"]]
  <1>1. box[i] \in Boxes
    BY DEF FleetTypes
  <1>2. box' = [box EXCEPT ![i] = [[box[i] EXCEPT !.mem = s] EXCEPT !.on = "yes"]]
    BY DEF FleetTypes, SaveRow
  <1>3. box' \in [Items -> Boxes]
    BY <1>1, <1>2, BoxTypes DEF FleetTypes
  <1> QED
    BY <1>2, <1>3 DEF SaveRow, FleetTypes

-----------------------------------------------------------------------------
(* Jobs advance: a step moves jobs on and lets some end, and never changes whose they are *)

Carries(k, l) ==
  /\ l.item = k.item /\ l.cmd = k.cmd /\ l.act = k.act
  /\ l.pc = "begin" => k.pc = "begin"
  /\ k.cmd = "env" => l.pc \in EnvPcs

Heirs(g, S) == { g[k] : k \in S }

Advance ==
  \E S \in SUBSET jobs, g \in [jobs -> Jobs] :
    jobs' = Heirs(g, S) /\ \A k \in jobs : Carries(k, g[k])

LEMMA MoveAdvances ==
  ASSUME FleetTypes, NEW j \in jobs, NEW l \in Jobs, Carries(j, l),
         jobs' = (jobs \ {j}) \cup {l}
  PROVE  Advance
  <1> DEFINE g == [k \in jobs |-> IF k = j THEN l ELSE k]
  <1>1. g \in [jobs -> Jobs]
    BY DEF FleetTypes
  <1>2. jobs' = Heirs(g, jobs)
    BY DEF Heirs
  <1>3. \A k \in jobs : Carries(k, g[k])
    BY DEF Carries, FleetTypes
  <1> QED
    BY <1>1, <1>2, <1>3 DEF Advance

LEMMA FewerAdvances ==
  ASSUME FleetTypes, jobs' \subseteq jobs
  PROVE  Advance
  <1> DEFINE g == [k \in jobs |-> k]
  <1>1. g \in [jobs -> Jobs]
    BY DEF FleetTypes
  <1>2. jobs' = Heirs(g, jobs') /\ jobs' \in SUBSET jobs
    BY DEF Heirs
  <1>3. \A k \in jobs : Carries(k, g[k])
    BY DEF Carries, FleetTypes
  <1> QED
    BY <1>1, <1>2, <1>3 DEF Advance

LEMMA ExitAdvances ==
  ASSUME FleetTypes, NEW i \in Items, NEW code \in {"exit0", "exit1"}, Exit(i, code)
  PROVE  Advance
  <1> DEFINE g == [k \in jobs |-> IF k.item = i /\ k.pc = "wait" THEN [k EXCEPT !.pc = code] ELSE k]
  <1>1. \A k \in jobs : g[k] \in Jobs /\ Carries(k, g[k])
    BY DEF FleetTypes, Jobs, Pcs, Carries, EnvPcs
  <1>2. jobs' = Heirs(g, jobs)
    BY DEF Heirs, Exit
  <1>3. g \in [jobs -> Jobs]
    BY <1>1
  <1> QED
    BY <1>1, <1>2, <1>3 DEF Advance

LEMMA AdvanceType ==
  ASSUME FleetTypes, Advance
  PROVE  jobs' \subseteq Jobs /\ \A j \in jobs' : j.cmd = "env" => j.pc \in EnvPcs
  BY DEF Advance, Heirs, Carries

\* The steps of one job, docker and the queue's record included.
LEMMA JobAdvances ==
  ASSUME FleetTypes, NEW j \in jobs, JobStep(j) \/ Throw(j)
  PROVE  Advance
  <1>1. j \in Jobs /\ (j.cmd = "env" => j.pc \in EnvPcs)
    BY DEF FleetTypes
  <1>2. ASSUME NEW pc \in Pcs \ {"begin"}, Move(j, pc), j.cmd # "env" \/ pc \in EnvPcs
        PROVE  Advance
    <2>1. [j EXCEPT !.pc = pc] \in Jobs /\ Carries(j, [j EXCEPT !.pc = pc])
      BY <1>1, <1>2 DEF Jobs, Carries
    <2> QED
      BY <1>2, <2>1, MoveAdvances DEF Move
  <1>3. ASSUME NEW how \in {"returned", "threw"}, Settle(j, how)
        PROVE  Advance
    BY <1>2, <1>3, FewerAdvances DEF Settle, Pcs, EnvPcs
  <1>4. CASE BeginFresh(j) \/ BeginContinue(j) \/ BeginAction(j)
    BY <1>2, <1>4, FewerAdvances DEF BeginFresh, BeginContinue, BeginAction, Pcs
  <1>5. CASE BeginEnv(j)
    <2>1. CASE Move(j, "returned")
      BY <1>2, <2>1 DEF Pcs, EnvPcs
    <2>2. CASE jobs' = (jobs \ {j}) \cup {[j EXCEPT !.pc = "call", !.copy = row[j.item]]}
      <3>1. row[j.item] \in Rows
        BY <1>1 DEF FleetTypes, Jobs
      <3>2. /\ [j EXCEPT !.pc = "call", !.copy = row[j.item]] \in Jobs
            /\ Carries(j, [j EXCEPT !.pc = "call", !.copy = row[j.item]])
        BY <1>1, <3>1 DEF Jobs, Carries, Pcs, EnvPcs
      <3> QED
        BY <2>2, <3>2, MoveAdvances
    <2> QED
      BY <1>5, <2>1, <2>2 DEF BeginEnv
  <1>6. CASE EndEnv(j) \/ Throw(j) \/ Escalate(j)
    BY <1>1, <1>2, <1>3, <1>6 DEF EndEnv, Throw, Escalate, Pcs, EnvPcs
  <1>7. CASE ClearBox(j)
    <2> DEFINE g == [k \in jobs |->
                       IF k = j THEN [k EXCEPT !.pc = "spawn"]
                       ELSE IF k.item = j.item /\ k.pc = "wait" THEN [k EXCEPT !.pc = "exit1"]
                       ELSE k]
    <2>1. ASSUME NEW k \in jobs PROVE g[k] \in Jobs /\ Carries(k, g[k])
      <3>1. k \in Jobs /\ (k.cmd = "env" => k.pc \in EnvPcs)
        BY DEF FleetTypes
      <3> QED
        BY <1>7, <3>1 DEF ClearBox, Jobs, Pcs, Carries, EnvPcs
    <2>2. jobs' = Heirs(g, jobs)
      BY <1>7 DEF Heirs, ClearBox
    <2>3. g \in [jobs -> Jobs]
      BY <2>1
    <2> QED
      BY <2>1, <2>2, <2>3 DEF Advance
  <1>8. CASE Spawn(j)
    BY <1>1, <1>2, <1>8 DEF Spawn, Pcs, EnvPcs
  <1>9. CASE Outcome(j)
    BY <1>1, <1>2, <1>3, <1>9 DEF Outcome, Pcs, EnvPcs
  <1>10. CASE Record(j)
    BY <1>10, FewerAdvances DEF Record
  <1> QED
    BY <1>4, <1>5, <1>6, <1>7, <1>8, <1>9, <1>10 DEF JobStep

LEMMA ContainerAdvances ==
  ASSUME FleetTypes, NEW i \in Items, Container(i)
  PROVE  Advance
  <1>1. CASE jobs' = jobs
    BY <1>1, FewerAdvances
  <1>2. CASE \E code \in {"exit0", "exit1"} : Exit(i, code)
    BY <1>2, ExitAdvances
  <1> QED
    BY <1>1, <1>2 DEF Container, BoxStart, BoxPass, BoxPause, BoxDone, BoxFail, BoxDie, EndBox
-----------------------------------------------------------------------------
(* Types and the list of claims, step by step *)

TypeInv == FleetTypes /\ TodoPending

\* What containers and the jobs' own work leave alone.
LoopState == << queue, loop, todo, found, ready, clean, running, limit, dual >>

LEMMA TodoKept ==
  ASSUME TodoPending, UNCHANGED << queue, todo >>
  PROVE  TodoPending'
  BY DEF TodoPending, Pending

LEMMA ContainerType ==
  ASSUME TypeInv, NEW i \in Items, Container(i)
  PROVE  TypeInv' /\ UNCHANGED << LoopState, begun >>
  <1> USE DEF TypeInv
  <1>1. UNCHANGED << LoopState, begun >>
    BY Zenon DEF Container, BoxStart, BoxPass, BoxPause, BoxDone, BoxFail, BoxDie, InBox, ghosts,
      LoopState
  <1>2. row[i] \in Rows /\ box[i] \in Boxes /\ box[i].mem \in Rows
    BY DEF FleetTypes, Boxes
  <1>3. row' \in [Items -> Rows] /\ box' \in [Items -> Boxes]
    <2>1. ASSUME NEW s \in Rows, NEW code, EndBox(i, s, code)
          PROVE  row' \in [Items -> Rows] /\ box' \in [Items -> Boxes]
      BY <2>1, BoxTypes DEF FleetTypes, EndBox
    <2>2. CASE BoxStart(i) \/ BoxPass(i)
      BY <1>2, <2>1, <2>2, RowTypes, SaveRowType DEF BoxStart, BoxPass
    <2>3. CASE BoxPause(i)
      <3>1. PICK cp \in Gates :
              EndBox(i, [box[i].mem EXCEPT !.cp = cp, !.pr = cp # "plan-approved",
                                           !.env = @ \/ cp # "plan-approved"], "exit0")
        BY <2>3 DEF BoxPause
      <3>2. [box[i].mem EXCEPT !.cp = cp, !.pr = cp # "plan-approved",
                               !.env = @ \/ cp # "plan-approved"] \in Rows
        BY <1>2 DEF Rows
      <3> QED
        BY <2>1, <3>1, <3>2
    <2>4. CASE BoxDone(i) \/ BoxFail(i) \/ BoxDie(i)
      BY <1>2, <2>1, <2>4, RowTypes DEF BoxDone, BoxFail, BoxDie
    <2> QED
      BY <2>2, <2>3, <2>4 DEF Container
  <1>4. tags' \in [Items -> SUBSET TagNames]
    <2>1. CASE tags' = tags
      BY <2>1 DEF FleetTypes
    <2>2. CASE \E del : \E add \in SUBSET TagNames : Retag(i, add, del)
      BY <2>2, RetagType
    <2>3. {} \in SUBSET TagNames /\ {"need-input"} \in SUBSET TagNames
      BY DEF TagNames
    <2> QED
      BY <2>1, <2>2, <2>3 DEF Container, BoxStart, BoxPass, BoxPause, BoxDone, BoxFail, BoxDie
  <1>5. note' \in [Items -> BOOLEAN] /\ merged' \in [Items -> BOOLEAN]
    BY DEF FleetTypes, Container, BoxStart, BoxPass, BoxPause, BoxDone, BoxFail, BoxDie
  <1>6. jobs' \subseteq Jobs /\ \A j \in jobs' : j.cmd = "env" => j.pc \in EnvPcs
    BY ContainerAdvances, AdvanceType
  <1>7. TodoPending'
    BY <1>1, TodoKept DEF LoopState
  <1> QED
    BY <1>1, <1>3, <1>4, <1>5, <1>6, <1>7 DEF FleetTypes, LoopState

\* The steps of a job that leave the queue and the pool alone.
Work(j) ==
  \/ BeginFresh(j) \/ BeginContinue(j) \/ BeginAction(j) \/ BeginEnv(j) \/ EndEnv(j)
  \/ ClearBox(j) \/ Spawn(j) \/ Outcome(j) \/ Escalate(j) \/ Throw(j)

LEMMA WorkType ==
  ASSUME TypeInv, NEW j \in jobs, Work(j)
  PROVE  TypeInv' /\ UNCHANGED LoopState
  <1> USE DEF TypeInv
  <1>1. UNCHANGED LoopState
    BY Zenon DEF Work, BeginFresh, BeginContinue, BeginAction, BeginEnv, EndEnv, ClearBox, Spawn,
      Outcome, Escalate, Throw, InJob, LoopState
  <1>2. j \in Jobs
    BY DEF FleetTypes
  <1>3. j.item \in Items /\ j.cmd \in {"run", "continue", "env"} /\ j.copy \in Rows
    BY <1>2 DEF Jobs
  <1>4. row' \in [Items -> Rows]
    <2>1. CASE row' = row
      BY <2>1 DEF FleetTypes
    <2>2. CASE \E s \in Rows : row' = [row EXCEPT ![j.item] = s]
      BY <2>2 DEF FleetTypes
    <2>3. row[j.item] \in Rows
      BY <1>3 DEF FleetTypes
    <2>4. [row[j.item] EXCEPT !.err = @ \/ row[j.item].here] \in Rows
      BY <2>3 DEF Rows
    <2>5. Outcome(j) => row' = row
                        \/ row' = [row EXCEPT ![j.item] = [row[j.item] EXCEPT !.err = @ \/ row[j.item].here]]
      BY <1>3 DEF Outcome, FleetTypes
    <2>6. CASE BeginAction(j)
      BY <2>1, <2>2, <2>3, <2>6, RowTypes, Zenon DEF BeginAction
    <2>7. CASE EndEnv(j)
      BY <1>3, <2>1, <2>2, <2>7, RowTypes, Zenon DEF EndEnv
    <2> QED
      BY <2>1, <2>2, <2>4, <2>5, <2>6, <2>7
      DEF Work, BeginFresh, BeginContinue, BeginEnv, ClearBox, Spawn, Escalate, Throw, item
  <1>5. tags' \in [Items -> SUBSET TagNames]
    <2>1. CASE tags' = tags
      BY <2>1 DEF FleetTypes
    <2>2. CASE \E del : \E add \in SUBSET TagNames : Retag(j.item, add, del)
      BY <1>3, <2>2, RetagType
    <2>3. {} \in SUBSET TagNames /\ {"need-input"} \in SUBSET TagNames /\ {"plan-approved"} \in SUBSET TagNames
      BY DEF TagNames
    <2>4. CASE Escalate(j)
      <3>1. CASE tags' = [tags EXCEPT ![j.item] = @ \cup {"need-input"}]
        BY <1>3, <2>3, <3>1 DEF FleetTypes
      <3> QED
        BY <2>2, <2>3, <2>4, <3>1 DEF Escalate
    <2> QED
      BY <2>1, <2>2, <2>3, <2>4
      DEF Work, BeginFresh, BeginContinue, BeginAction, BeginEnv, EndEnv, ClearBox, Spawn, Outcome,
        Throw, item
  <1>6. note' \in [Items -> BOOLEAN] /\ merged' \in [Items -> BOOLEAN]
    <2>1. merged' = merged
      BY DEF Work, BeginFresh, BeginContinue, BeginAction, BeginEnv, EndEnv, ClearBox, Spawn, Outcome,
        Escalate, Throw, item
    <2>2. CASE Outcome(j)
      BY <1>3, <2>2 DEF Outcome, FleetTypes, Rows
    <2>3. note' = note \/ Outcome(j)
      BY DEF Work, BeginFresh, BeginContinue, BeginAction, BeginEnv, EndEnv, ClearBox, Spawn,
        Escalate, Throw, item
    <2> QED
      BY <2>1, <2>2, <2>3 DEF FleetTypes
  <1>7. box' \in [Items -> Boxes]
    <2>1. box' = box \/ ClearBox(j) \/ Spawn(j)
      BY DEF Work, BeginFresh, BeginContinue, BeginAction, BeginEnv, EndEnv, Outcome, Escalate, Throw
    <2>2. CASE ClearBox(j)
      BY <1>3, <2>2, BoxTypes DEF ClearBox, FleetTypes
    <2>3. CASE Spawn(j)
      <3>1. j.cmd # "env"
        BY <2>3 DEF Spawn, FleetTypes, EnvPcs
      <3>2. [on |-> "starting", cmd |-> j.cmd, mem |-> NoRow, mine |-> TRUE] \in Boxes
        BY <1>3, <3>1, RowTypes DEF Boxes
      <3> QED
        BY <1>3, <2>3, <3>2 DEF Spawn, FleetTypes
    <2> QED
      BY <2>1, <2>2, <2>3 DEF FleetTypes
  <1>8. begun' \in [ActionIds -> Nat]
    BY DEF FleetTypes, Work, BeginFresh, BeginContinue, BeginAction, BeginEnv, EndEnv, ClearBox, Spawn,
      Outcome, Escalate, Throw
  <1>9. jobs' \subseteq Jobs /\ \A k \in jobs' : k.cmd = "env" => k.pc \in EnvPcs
    BY JobAdvances, AdvanceType DEF Work, JobStep
  <1>10. TodoPending'
    BY <1>1, TodoKept DEF LoopState
  <1> QED
    BY <1>1, <1>4, <1>5, <1>6, <1>7, <1>8, <1>9, <1>10 DEF FleetTypes, LoopState

Marked(q, st, d) == [[q EXCEPT !.status = st] EXCEPT !.duplicate = d]

\* An action of the table gets a status and the mark of a duplicate; the rest is left alone.
LEMMA FieldsType ==
  ASSUME FleetTypes, NEW a \in ActionIds, NEW st \in Statuses, NEW d \in BOOLEAN,
         queue' = [queue EXCEPT ![a] = Marked(queue[a], st, d)]
  PROVE  /\ queue' \in [ActionIds -> Actions]
         /\ \A b \in ActionIds :
              /\ queue'[b].item = queue[b].item /\ queue'[b].type = queue[b].type
              /\ queue'[b].status = IF b = a THEN st ELSE queue[b].status
              /\ queue'[b].duplicate = IF b = a THEN d ELSE queue[b].duplicate
  <1>1. PICK q \in Actions : q = queue[a]
    BY DEF FleetTypes
  <1>2. DEFINE p == Marked(q, st, d)
  <1>3. queue' = [queue EXCEPT ![a] = p]
    BY <1>1
  <1>4. /\ p \in Actions /\ p.item = q.item /\ p.type = q.type
        /\ p.status = st /\ p.duplicate = d
    BY <1>1 DEF Actions, Marked
  <1> HIDE DEF p
  <1>5. \A b \in ActionIds : queue'[b] = IF b = a THEN p ELSE queue[b]
    BY <1>3 DEF FleetTypes
  <1> QED
    BY <1>1, <1>3, <1>4, <1>5 DEF FleetTypes

\* An action changes its status, if it is one of the table, and nothing else.
LEMMA StatusType ==
  ASSUME FleetTypes, NEW a, NEW st, a \in ActionIds => st \in Statuses,
         queue' = [queue EXCEPT ![a].status = st]
  PROVE  /\ queue' \in [ActionIds -> Actions]
         /\ \A b \in ActionIds :
              /\ queue'[b].item = queue[b].item /\ queue'[b].type = queue[b].type
              /\ queue'[b].status = IF b = a THEN st ELSE queue[b].status
              /\ queue'[b].duplicate = queue[b].duplicate
  <1>1. CASE a \in ActionIds
    <2>1. PICK q \in Actions : q = queue[a]
      BY <1>1 DEF FleetTypes
    <2>2. DEFINE p == [q EXCEPT !.status = st]
    <2>3. queue' = [queue EXCEPT ![a] = p]
      BY <2>1 DEF FleetTypes
    <2>4. /\ p \in Actions /\ p.item = q.item /\ p.type = q.type
          /\ p.status = st /\ p.duplicate = q.duplicate
      BY <1>1, <2>1 DEF Actions
    <2> HIDE DEF p
    <2>5. \A b \in ActionIds : queue'[b] = IF b = a THEN p ELSE queue[b]
      BY <2>3 DEF FleetTypes
    <2> QED
      BY <1>1, <2>1, <2>3, <2>4, <2>5 DEF FleetTypes
  <1>2. CASE a \notin ActionIds
    <2>1. queue' = queue
      BY <1>2 DEF FleetTypes
    <2> QED
      BY <1>2, <2>1 DEF FleetTypes
  <1> QED
    BY <1>1, <1>2

LEMMA RecordType ==
  ASSUME TypeInv, NEW j \in jobs, Record(j)
  PROVE  TypeInv'
  <1> USE DEF TypeInv
  <1>1. j \in Jobs
    BY DEF FleetTypes
  <1>2. /\ queue' \in [ActionIds -> Actions]
        /\ \A b \in ActionIds :
             /\ queue'[b].item = queue[b].item
             /\ \/ queue'[b].status = queue[b].status
                \/ queue[b].status = "running" /\ queue'[b].status \in {"completed", "failed"}
    <2> DEFINE st == IF queue[j.act].status = "running"
                     THEN IF j.pc = "returned" THEN "completed" ELSE "failed"
                     ELSE queue[j.act].status
    <2>1. queue' = [queue EXCEPT ![j.act].status = st]
      BY DEF Record, SetStatus
    <2>2. j.act \in ActionIds => st \in Statuses
      BY DEF FleetTypes, Actions, Statuses
    <2>3. st # queue[j.act].status => queue[j.act].status = "running" /\ st \in {"completed", "failed"}
      OBVIOUS
    <2> HIDE DEF st
    <2>4. /\ queue' \in [ActionIds -> Actions]
          /\ \A b \in ActionIds :
               /\ queue'[b].item = queue[b].item /\ queue'[b].type = queue[b].type
               /\ queue'[b].status = IF b = j.act THEN st ELSE queue[b].status
               /\ queue'[b].duplicate = queue[b].duplicate
      BY <2>1, <2>2, StatusType, Zenon
    <2>5. ASSUME NEW b \in ActionIds
          PROVE  \/ queue'[b].status = queue[b].status
                 \/ queue[b].status = "running" /\ queue'[b].status \in {"completed", "failed"}
      <3>1. CASE b = j.act
        BY <2>3, <2>4, <3>1
      <3>2. CASE b # j.act
        BY <2>4, <3>2
      <3> QED
        BY <3>1, <3>2
    <2> QED
      BY <2>4, <2>5
  <1>4. running' \in [Items -> Slots]
    BY <1>1 DEF FleetTypes, Record, SlotAfter, Free, Slots, Jobs
  <1>5. TodoPending'
    BY <1>2 DEF TodoPending, Pending, Record
  <1>6. \A a \in ActionIds : queue'[a].status # "unused" => queue'[a].item \in Items
    BY <1>2 DEF FleetTypes
  <1> QED
    BY <1>2, <1>4, <1>5, <1>6 DEF FleetTypes, Record, item, bounds, ghosts

LEMMA JanitorType ==
  ASSUME TypeInv, NEW a \in ActionIds, Janitor(a)
  PROVE  TypeInv'
  <1> USE DEF TypeInv
  <1>1. /\ queue' \in [ActionIds -> Actions]
        /\ \A b \in ActionIds :
             /\ queue'[b].item = queue[b].item
             /\ queue'[b].status = queue[b].status \/ queue[b].status = "running"
    BY StatusType DEF Janitor, Statuses
  <1>2. TodoPending'
    BY <1>1 DEF TodoPending, Pending, Janitor, process
  <1>3. \A b \in ActionIds : queue'[b].status # "unused" => queue'[b].item \in Items
    BY <1>1 DEF FleetTypes, Janitor
  <1> QED
    BY <1>1, <1>2, <1>3 DEF FleetTypes, Janitor, item, bounds, ghosts, process
-----------------------------------------------------------------------------
(* Types: the loop, crashes and humans *)

LEMMA DispatchType ==
  ASSUME FleetTypes, NEW some, Dispatch(some),
         \A d \in some : d.item \in Items /\ d.cmd \in {"run", "continue"}
  PROVE  /\ jobs' \subseteq Jobs /\ \A j \in jobs' : j.cmd = "env" => j.pc \in EnvPcs
         /\ running' \in [Items -> Slots]
  <1>1. \A d \in some : Job(d.item, d.cmd, 0) \in Jobs /\ Job(d.item, d.cmd, 0).pc = "begin"
    BY RowTypes DEF Job, Jobs, Pcs
  <1>2. jobs' \subseteq Jobs /\ \A j \in jobs' : j.cmd = "env" => j.pc \in EnvPcs
    BY <1>1 DEF FleetTypes, Dispatch, EnvPcs
  <1>3. << "continue", 0 >> \in Slots /\ << "run", 0 >> \in Slots
    BY DEF Slots
  <1>4. running' \in [Items -> Slots]
    BY <1>3 DEF FleetTypes, Dispatch
  <1> QED
    BY <1>2, <1>4

LEMMA BootType == ASSUME TypeInv, Boot PROVE TypeInv'
  <1> USE DEF TypeInv
  <1>1. jobs' \subseteq Jobs /\ (\A j \in jobs' : j.cmd = "env" => j.pc \in EnvPcs)
          /\ running' \in [Items -> Slots]
    <2>1. PICK recent \in SUBSET Items : Dispatch({ [item |-> i, cmd |-> "continue"] : i \in recent })
      BY DEF Boot, Orphans
    <2> QED
      BY <2>1, DispatchType
  <1>2. TodoPending'
    BY TodoKept DEF Boot
  <1> QED
    BY <1>1, <1>2 DEF FleetTypes, Boot, InLoop, item

LEMMA ReapType == ASSUME TypeInv, Reap PROVE TypeInv'
  <1> USE DEF TypeInv
  <1>1. running' \in [Items -> Slots]
    BY DEF FleetTypes, Reap, Slots, Free
  <1>2. todo' \subseteq Items
    BY DEF FleetTypes, Reap, Pending
  <1>3. TodoPending'
    BY DEF TodoPending, Pending, Reap
  <1> QED
    BY <1>1, <1>2, <1>3 DEF FleetTypes, Reap, item

\* What a claim does to the action, and that it is the only pending one that changes.
LEMMA ClaimFacts ==
  ASSUME TypeInv, NEW i \in Items, Claim(i)
  PROVE  /\ Oldest(i) \in ActionIds
         /\ queue[Oldest(i)].status = "pending" /\ queue[Oldest(i)].item = i
         /\ queue' \in [ActionIds -> Actions]
         /\ \A b \in ActionIds :
              /\ queue'[b].item = queue[b].item /\ queue'[b].type = queue[b].type
              /\ b # Oldest(i) => /\ queue'[b].status = queue[b].status
                                  /\ queue'[b].duplicate = queue[b].duplicate
         /\ queue'[Oldest(i)].status \in {"completed", "failed", "running"}
         /\ queue'[Oldest(i)].duplicate => queue'[Oldest(i)].status = "failed"
         /\ queue'[Oldest(i)].status = "completed" => queue[Oldest(i)].type = "force-poll"
         /\ \/ UNCHANGED << jobs, running >>
            \/ \E cmd \in {"env", "continue"} :
                 /\ jobs' = jobs \cup {Job(i, cmd, Oldest(i))}
                 /\ running' = [running EXCEPT ![i] = IF cmd = "env" THEN @ ELSE << cmd, Oldest(i) >>]
                 /\ cmd = "continue" => running[i] = Free
                 /\ queue'[Oldest(i)].status = "running"
  <1> DEFINE a == Oldest(i)
             taken == queue[a].type # "force-poll" /\ Taken(i, queue[a].type)
             st == CASE queue[a].type = "force-poll" -> "completed"
                     [] taken -> "failed"
                     [] OTHER -> "running"
  <1>1. a \in ActionIds /\ queue[a].status = "pending" /\ queue[a].item = i
    BY OldestPending DEF Claim, TypeInv
  <1>2. queue' = [queue EXCEPT ![a] = Marked(queue[a], st, taken)]
    BY <1>1 DEF Claim, Marked, TypeInv, FleetTypes
  <1>3. /\ st \in {"completed", "failed", "running"} /\ taken \in BOOLEAN
        /\ taken => st = "failed"
        /\ st = "completed" => queue[a].type = "force-poll"
    OBVIOUS
  <1>4. \/ UNCHANGED << jobs, running >>
        \/ \E cmd \in {"env", "continue"} :
             /\ jobs' = jobs \cup {Job(i, cmd, a)}
             /\ running' = [running EXCEPT ![i] = IF cmd = "env" THEN @ ELSE << cmd, a >>]
             /\ cmd = "continue" => running[i] = Free
             /\ st = "running"
    <2>1. CASE queue[a].type = "env"
      BY <2>1 DEF Claim, Taken
    <2>2. CASE queue[a].type # "env"
      BY <2>2 DEF Claim, Taken
    <2> QED
      BY <2>1, <2>2
  <1> HIDE DEF st, taken
  <1>5. /\ queue' \in [ActionIds -> Actions]
        /\ \A b \in ActionIds :
             /\ queue'[b].item = queue[b].item /\ queue'[b].type = queue[b].type
             /\ queue'[b].status = IF b = a THEN st ELSE queue[b].status
             /\ queue'[b].duplicate = IF b = a THEN taken ELSE queue[b].duplicate
    <2>1. FleetTypes /\ st \in Statuses /\ taken \in BOOLEAN /\ a \in ActionIds
      BY <1>1, <1>3 DEF TypeInv, Statuses
    <2> HIDE DEF a
    <2> QED
      BY <1>2, <2>1, FieldsType, Zenon
  <1>6. /\ queue'[a].status = st /\ queue'[a].duplicate = taken
        /\ \A b \in ActionIds : b # a => /\ queue'[b].status = queue[b].status
                                        /\ queue'[b].duplicate = queue[b].duplicate
    BY <1>1, <1>5
  <1> QED
    BY <1>1, <1>3, <1>4, <1>5, <1>6

LEMMA ClaimType == ASSUME TypeInv, NEW i \in Items, Claim(i) PROVE TypeInv'
  <1> DEFINE a == Oldest(i)
  <1>1. /\ a \in ActionIds /\ queue[a].status = "pending" /\ queue[a].item = i
        /\ queue' \in [ActionIds -> Actions]
        /\ \A b \in ActionIds :
             /\ queue'[b].item = queue[b].item
             /\ b # a => queue'[b].status = queue[b].status
        /\ \/ UNCHANGED << jobs, running >>
           \/ \E cmd \in {"env", "continue"} :
                /\ jobs' = jobs \cup {Job(i, cmd, a)}
                /\ running' = [running EXCEPT ![i] = IF cmd = "env" THEN @ ELSE << cmd, a >>]
    BY ClaimFacts
  <1> HIDE DEF a
  <1> USE DEF TypeInv
  <1>2. jobs' \subseteq Jobs /\ \A j \in jobs' : j.cmd = "env" => j.pc \in EnvPcs
    <2>1. \A cmd \in {"env", "continue"} : Job(i, cmd, a) \in Jobs /\ Job(i, cmd, a).pc = "begin"
      BY <1>1, RowTypes DEF Job, Jobs, Pcs
    <2> QED
      BY <1>1, <2>1 DEF FleetTypes, EnvPcs
  <1>3. running' \in [Items -> Slots]
    <2>1. << "continue", a >> \in Slots
      BY <1>1 DEF Slots
    <2> QED
      BY <1>1, <2>1 DEF FleetTypes
  <1>4. \A b \in ActionIds : queue'[b].status # "unused" => queue'[b].item \in Items
    BY <1>1 DEF FleetTypes
  <1>5. todo' = todo \ {i}
    BY DEF Claim
  <1>6. TodoPending'
    BY <1>1, <1>5 DEF TodoPending, Pending
  <1>7. UNCHANGED << row, tags, note, merged, box, loop, found, ready, clean, limit, begun, dual >>
    BY DEF Claim, InLoop, item
  <1> QED
    BY <1>1, <1>2, <1>3, <1>4, <1>5, <1>6, <1>7 DEF FleetTypes

LEMMA PollType == ASSUME TypeInv, Poll PROVE TypeInv'
  <1> USE DEF TypeInv
  <1>1. ASSUME NEW seen PROVE Detected(seen) \subseteq Detections
    BY DEF Detected, Detections, Idle
  <1>2. loop' \in {"apply", "cleanup"} /\ found' \subseteq Detections /\ dual' \in BOOLEAN
    BY <1>1, Zenon DEF Poll, Gather, FleetTypes
  <1>3. TodoPending'
    BY TodoKept DEF Poll
  <1>4. UNCHANGED << item, queue, todo, ready, clean, jobs, running, limit, box, begun >>
    BY DEF Poll
  <1> QED
    BY <1>2, <1>3, <1>4 DEF FleetTypes, item

LEMMA ApplyType == ASSUME TypeInv, NEW d \in found, Apply(d) PROVE TypeInv'
  <1> USE DEF TypeInv
  <1>1. d \in Detections /\ d.item \in Items
    BY DEF FleetTypes, Detections
  <1>2. row' \in [Items -> Rows]
    <2>1. row[d.item] \in Rows
      BY <1>1 DEF FleetTypes
    <2>2. \E s \in {row[d.item], Rewound(row[d.item]), Resumed(row[d.item])} :
            row' = [row EXCEPT ![d.item] = s]
      BY DEF Apply
    <2>3. Rewound(row[d.item]) \in Rows /\ Resumed(row[d.item]) \in Rows
      BY <2>1, RowTypes
    <2>4. PICK s \in Rows : row' = [row EXCEPT ![d.item] = s]
      BY <2>1, <2>2, <2>3
    <2> QED
      BY <2>4 DEF FleetTypes
  <1>3. tags' \in [Items -> SUBSET TagNames]
    <2>1. CASE tags' = tags
      BY <2>1 DEF FleetTypes
    <2>2. CASE \E del : Retag(d.item, {}, del)
      BY <1>1, <2>2, RetagType
    <2> QED
      BY <2>1, <2>2, Zenon DEF Apply
  <1>4. note' \in [Items -> BOOLEAN]
    BY DEF Apply, FleetTypes
  <1>5. TodoPending'
    BY TodoKept DEF Apply
  <1>6. found' \subseteq Detections /\ ready' \subseteq Detections
    BY <1>1 DEF Apply, FleetTypes
  <1>7. UNCHANGED << merged, loop, queue, todo, clean, jobs, running, limit, dual, box, begun >>
    BY DEF Apply, InLoop
  <1> QED
    BY <1>2, <1>3, <1>4, <1>5, <1>6, <1>7 DEF FleetTypes

LEMMA LaunchType == ASSUME TypeInv, Launch PROVE TypeInv'
  <1> USE DEF TypeInv
  <1>1. PICK some \in SUBSET ready : Dispatch(some)
    BY DEF Launch
  <1>2. \A d \in some : d.item \in Items /\ d.cmd \in {"run", "continue"}
    BY <1>1 DEF FleetTypes, Detections
  <1>3. jobs' \subseteq Jobs /\ (\A j \in jobs' : j.cmd = "env" => j.pc \in EnvPcs)
          /\ running' \in [Items -> Slots]
    BY <1>1, <1>2, DispatchType
  <1>4. TodoPending'
    BY TodoKept DEF Launch
  <1> QED
    BY <1>3, <1>4 DEF FleetTypes, Launch, InLoop, item

LEMMA CleanType ==
  ASSUME TypeInv, (\E i \in Items : CleanLoad(i)) \/ CleanSave
  PROVE  TypeInv'
  <1> USE DEF TypeInv
  <1>1. UNCHANGED << tags, note, merged, box, queue, loop, todo, found, ready, jobs, running, limit,
                     begun, dual >>
    BY DEF CleanLoad, CleanSave, InLoop, item
  <1>2. TodoPending'
    BY <1>1, TodoKept
  <1>3. row' \in [Items -> Rows] /\ clean' \subseteq Items \X Rows
    <2>1. CASE \E i \in Items : CleanLoad(i)
      BY <2>1 DEF CleanLoad, item, FleetTypes
    <2>2. CASE CleanSave
      <3>1. PICK c \in clean : row' = [row EXCEPT ![c[1]] = [c[2] EXCEPT !.env = FALSE]]
        BY <2>2 DEF CleanSave
      <3>2. c[1] \in Items /\ c[2] \in Rows
        BY DEF FleetTypes
      <3>3. [c[2] EXCEPT !.env = FALSE] \in Rows
        BY <3>2, RowTypes
      <3> QED
        BY <2>2, <3>1, <3>2, <3>3 DEF CleanSave, FleetTypes
    <2> QED
      BY <2>1, <2>2
  <1> QED
    BY <1>1, <1>2, <1>3 DEF FleetTypes

LEMMA LoopType == ASSUME TypeInv, Loop PROVE TypeInv'
  <1>1. CASE ActionsDone \/ Sleep
    <2>1. TodoPending'
      BY <1>1, TodoKept DEF TypeInv, TodoPending, ActionsDone, Sleep
    <2> QED
      BY <1>1, <2>1 DEF TypeInv, FleetTypes, ActionsDone, Sleep, InLoop, item
  <1> QED
    BY <1>1, ReapType, PollType, LaunchType, CleanType, ClaimType, ApplyType, Zenon DEF Loop

LEMMA CrashType == ASSUME TypeInv, Crash PROVE TypeInv'
  <1> USE DEF TypeInv
  <1>1. box' \in [Items -> Boxes]
    BY BoxTypes DEF FleetTypes, Crash
  <1>2. running' \in [Items -> Slots]
    BY DEF FleetTypes, Crash, Slots, Free
  <1>3. TodoPending'
    BY DEF Crash, TodoPending
  <1> QED
    BY <1>1, <1>2, <1>3 DEF FleetTypes, Crash, item, ghosts

\* A human never touches an action that is already in the table.
LEMMA PostFacts ==
  ASSUME TypeInv, NEW i \in Items, NEW type \in ActionTypes, Post(i, type)
  PROVE  /\ queue' \in [ActionIds -> Actions]
         /\ \A b \in ActionIds :
              \/ queue'[b] = queue[b]
              \/ queue[b].status = "unused" /\ queue'[b].status = "pending" /\ queue'[b].item = i
                 /\ ~ queue'[b].duplicate
  <1>1. PICK a \in ActionIds :
          /\ queue[a].status = "unused"
          /\ queue' = [queue EXCEPT ![a] = Action(i, type)]
    BY DEF Post
  <1>2. Action(i, type) \in Actions /\ ~ Action(i, type).duplicate
          /\ Action(i, type).status = "pending" /\ Action(i, type).item = i
    BY DEF Actions, Statuses, Action
  <1> QED
    BY <1>1, <1>2 DEF TypeInv, FleetTypes

LEMMA HumansType == ASSUME TypeInv, Humans PROVE TypeInv'
  <1> USE DEF TypeInv
  <1>1. UNCHANGED << row, box, process, begun, dual >>
    BY DEF Humans, AddTag, RemoveNeedInput, Comment, Merge, Post, Human
  <1>2. tags' \in [Items -> SUBSET TagNames]
    BY DEF Humans, AddTag, RemoveNeedInput, Comment, Merge, Post, FleetTypes
  <1>3. note' \in [Items -> BOOLEAN] /\ merged' \in [Items -> BOOLEAN]
    BY DEF Humans, AddTag, RemoveNeedInput, Comment, Merge, Post, FleetTypes
  <1>4. CASE UNCHANGED queue
    BY <1>1, <1>2, <1>3, <1>4, TodoKept DEF FleetTypes, process
  <1>5. CASE \E i \in Items : \E type \in ActionTypes : Post(i, type)
    <2>1. PICK i \in Items :
            /\ queue' \in [ActionIds -> Actions]
            /\ \A b \in ActionIds :
                 \/ queue'[b] = queue[b]
                 \/ queue[b].status = "unused" /\ queue'[b].status = "pending" /\ queue'[b].item = i
      BY <1>5, PostFacts
    <2>2. TodoPending'
      BY <1>1, <2>1 DEF TodoPending, Pending, process
    <2>3. \A b \in ActionIds : queue'[b].status # "unused" => queue'[b].item \in Items
      BY <2>1 DEF FleetTypes
    <2> QED
      BY <1>1, <1>2, <1>3, <2>1, <2>2, <2>3 DEF FleetTypes, process
  <1> QED
    BY <1>4, <1>5 DEF Humans, AddTag, RemoveNeedInput, Comment, Merge

LEMMA TypesNext == ASSUME TypeInv, [Next]_vars PROVE TypeInv'
  <1>1. CASE UNCHANGED vars
    BY <1>1, TodoKept DEF TypeInv, FleetTypes, vars, item, process, ghosts
  <1>2. CASE \E j \in jobs : JobStep(j) \/ Throw(j)
    BY <1>2, WorkType, RecordType DEF JobStep, Work
  <1>3. CASE \E i \in Items : Container(i)
    BY <1>3, ContainerType
  <1>4. CASE \E a \in ActionIds : Janitor(a)
    BY <1>4, JanitorType
  <1> QED
    BY <1>1, <1>2, <1>3, <1>4, BootType, LoopType, CrashType, HumansType DEF Next

LEMMA TypesInit == Init => TypeInv
  <1> SUFFICES ASSUME Init PROVE TypeInv
    OBVIOUS
  <1>1. row \in [Items -> Rows] /\ box \in [Items -> Boxes]
    BY RowTypes, BoxTypes DEF Init
  <1>2. queue \in [ActionIds -> Actions] /\ \A a \in ActionIds : queue[a].status = "unused"
    BY DEF Init, Actions, ActionTypes, Statuses
  <1>3. running \in [Items -> Slots]
    BY DEF Init, Slots, Free
  <1>4. TodoPending
    BY DEF Init, TodoPending
  <1> QED
    BY <1>1, <1>2, <1>3, <1>4 DEF Init, TypeInv, FleetTypes

LEMMA TypesHold == Spec => []TypeInv
  BY TypesInit, TypesNext, PTL DEF Spec

\* The watcher's state is what its declarations say, for every fleet: rows, tags, containers,
\* the actions table, jobs and the loop.
THEOREM FleetTyped == Spec => []FleetTypeOK
  <1>1. TypeInv => FleetTypeOK
    BY DEF TypeInv, FleetTypes, FleetTypeOK, Actions
  <1> QED
    BY <1>1, TypesHold, PTL
-----------------------------------------------------------------------------
(* An action's body runs at most once *)

Underway(j) == j.pc \notin {"begin", "threw"}

NoJob(a) == \A j \in jobs : j.act # a

BegunOnce(a)   == begun[a] <= 1
Untouched(a)   == queue[a].status \in {"unused", "pending"} \/ queue[a].duplicate => begun[a] = 0 /\ NoJob(a)
Over(a)        == queue[a].status = "completed" => NoJob(a) /\ (begun[a] = 1 \/ queue[a].type = "force-poll")
Refused(a)     == queue[a].duplicate => queue[a].status = "failed"
OneJob(a)      == \A j, k \in jobs : j.act = a /\ k.act = a => j = k
BeginsFresh(a) == \A j \in jobs : j.act = a /\ j.pc = "begin" => begun[a] = 0
Running(a)     == \A j \in jobs : j.act = a /\ Underway(j) => begun[a] = 1

Once(a) == /\ BegunOnce(a) /\ Untouched(a) /\ Over(a) /\ Refused(a)
           /\ OneJob(a) /\ BeginsFresh(a) /\ Running(a)

\* An action has one promise, its body has not run while that promise begins and has while it
\* is underway, and an action still in the queue or refused was never begun.
OnceInv == (\A a \in ActionIds : Once(a)) /\ \A j \in jobs : j.cmd = "run" => j.act = 0

\* No action returns to the queue, none completes before its body has, and a refusal stands.
QueueKept ==
  \A a \in ActionIds :
    /\ queue'[a].type = queue[a].type \/ queue'[a].status # "completed"
    /\ queue'[a].status \in {"unused", "pending"} => queue[a].status \in {"unused", "pending"}
    /\ queue'[a].duplicate => queue[a].duplicate /\ queue'[a].status = queue[a].status
    /\ \/ queue'[a].status # "completed" \/ queue[a].status = "completed"
       \/ begun[a] = 1 /\ \A j \in jobs' : j.act # a

\* No body of an action starts.
NoneBegins ==
  \A l \in jobs' : Underway(l) => l.act = 0 \/ \E k \in jobs : k.act = l.act /\ Underway(k)

LEMMA SameQueueKept == ASSUME UNCHANGED queue PROVE QueueKept
  BY DEF QueueKept

LEMMA FewerNoneBegins == ASSUME jobs' \subseteq jobs PROVE NoneBegins
  BY DEF NoneBegins

LEMMA OnceAdvances ==
  ASSUME OnceInv, Advance, begun' = begun, QueueKept, NoneBegins
  PROVE  OnceInv'
  <1>1. PICK S \in SUBSET jobs, g \in [jobs -> Jobs] :
          jobs' = Heirs(g, S) /\ \A k \in jobs : Carries(k, g[k])
    BY DEF Advance
  <1>2. ASSUME NEW l \in jobs'
        PROVE  \E k \in jobs : /\ l = g[k] /\ l.act = k.act /\ l.cmd = k.cmd
                               /\ l.pc = "begin" => k.pc = "begin"
    BY <1>1 DEF Heirs, Carries
  <1>3. ASSUME NEW a \in ActionIds
        PROVE  Once(a)'
    <2>1. Once(a)
      BY DEF OnceInv
    <2>2. NoJob(a) => NoJob(a)'
      BY <1>2 DEF NoJob
    <2>3. BegunOnce(a)'
      BY <2>1 DEF BegunOnce, Once
    <2>4. Refused(a)'
      BY <2>1 DEF Refused, Once, QueueKept
    <2>5. Untouched(a)'
      BY <2>1, <2>2 DEF Untouched, QueueKept, Once
    <2>6. Over(a)'
      <3>1. CASE queue'[a].status # "completed"
        BY <3>1 DEF Over
      <3>2. CASE queue'[a].status = "completed" /\ queue[a].status = "completed"
        BY <2>1, <2>2, <3>2 DEF Over, QueueKept, Once
      <3>3. CASE begun[a] = 1 /\ \A j \in jobs' : j.act # a
        BY <3>3 DEF Over, NoJob
      <3> QED
        BY <3>1, <3>2, <3>3 DEF QueueKept
    <2>7. OneJob(a)'
      BY <1>2, <2>1 DEF OneJob, Once
    <2>8. BeginsFresh(a)'
      BY <1>2, <2>1 DEF BeginsFresh, Once
    <2>9. Running(a)'
      <3>1. a # 0
        BY ActionIdsAssumption
      <3> QED
        BY <2>1, <3>1 DEF Running, Once, NoneBegins
    <2> QED
      BY <2>3, <2>4, <2>5, <2>6, <2>7, <2>8, <2>9 DEF Once
  <1>4. \A l \in jobs' : l.cmd = "run" => l.act = 0
    BY <1>2 DEF OnceInv
  <1> QED
    BY <1>3, <1>4 DEF OnceInv

LEMMA OnceBegins ==
  ASSUME TypeInv, OnceInv, NEW j \in jobs, NEW l, j.pc = "begin", l.pc # "begin", l.act = j.act,
         l.cmd = j.cmd, j.act \in ActionIds, jobs' = (jobs \ {j}) \cup {l},
         begun' = [begun EXCEPT ![j.act] = @ + 1], queue' = queue
  PROVE  OnceInv'
  <1>1. ASSUME NEW a \in ActionIds
        PROVE  Once(a)'
    <2>1. Once(a)
      BY DEF OnceInv
    <2>2. begun'[a] = IF a = j.act THEN begun[a] + 1 ELSE begun[a]
      BY DEF TypeInv, FleetTypes
    <2>3. a = j.act => begun[a] = 0
      BY <2>1 DEF BeginsFresh, Once
    <2>4. NoJob(a) => NoJob(a)' /\ a # j.act
      BY DEF NoJob
    <2>5. a = j.act => begun'[a] = 1
      BY <2>2, <2>3
    <2>6. a # j.act => begun'[a] = begun[a]
      BY <2>2
    <2>7. BegunOnce(a)'
      BY <2>1, <2>5, <2>6 DEF BegunOnce, Once
    <2>8. Untouched(a)' /\ Over(a)' /\ Refused(a)'
      BY <2>1, <2>4, <2>6 DEF Untouched, Over, Refused, Once
    <2>9. OneJob(a)'
      BY <2>1 DEF OneJob, Once
    <2>10. BeginsFresh(a)'
      BY <2>1, <2>6 DEF BeginsFresh, OneJob, Once
    <2>11. Running(a)'
      BY <2>1, <2>5, <2>6 DEF Running, Once
    <2> QED
      BY <2>7, <2>8, <2>9, <2>10, <2>11 DEF Once
  <1> QED
    BY <1>1 DEF OnceInv

\* What polls and the boot dispatch carries no action.
LEMMA OnceDispatched ==
  ASSUME OnceInv, \A l \in jobs' : l \in jobs \/ l.act = 0, UNCHANGED << begun, queue >>
  PROVE  OnceInv'
  <1>1. \A a \in ActionIds : a # 0
    BY ActionIdsAssumption
  <1> QED
    BY <1>1 DEF OnceInv, Once, BegunOnce, Untouched, Over, Refused, OneJob, BeginsFresh, Running, NoJob

\* A step of a job other than the beginning of an action's body begins none.
LEMMA WorkBegins ==
  ASSUME TypeInv, OnceInv, NEW j \in jobs, Work(j), ~ BeginAction(j), ~ BeginEnv(j)
  PROVE  NoneBegins
  <1>1. j \in Jobs /\ (j.cmd = "run" => j.act = 0)
    BY DEF TypeInv, FleetTypes, OnceInv
  <1>2. ASSUME NEW pc, Move(j, pc), j.act = 0 \/ Underway(j) \/ pc = "threw"
        PROVE  NoneBegins
    <2>1. [j EXCEPT !.pc = pc].act = j.act /\ [j EXCEPT !.pc = pc].pc = pc
      BY <1>1 DEF Jobs
    <2> QED
      BY <1>2, <2>1 DEF Move, NoneBegins, Underway
  <1>3. CASE jobs' \subseteq jobs
    BY <1>3, FewerNoneBegins
  <1>4. CASE BeginFresh(j) \/ BeginContinue(j)
    BY <1>1, <1>2, <1>3, <1>4 DEF BeginFresh, BeginContinue
  <1>5. CASE Throw(j)
    BY <1>2, <1>3, <1>5 DEF Throw, Settle
  <1>6. CASE ClearBox(j)
    <2> DEFINE g(k) == IF k = j THEN [k EXCEPT !.pc = "spawn"]
                       ELSE IF k.item = j.item /\ k.pc = "wait" THEN [k EXCEPT !.pc = "exit1"]
                       ELSE k
    <2>1. ASSUME NEW k \in jobs PROVE g(k).act = k.act /\ (Underway(g(k)) => Underway(k))
      <3>1. k \in Jobs
        BY DEF TypeInv, FleetTypes
      <3> QED
        BY <1>6, <3>1 DEF ClearBox, Jobs, Underway
    <2>2. jobs' = { g(k) : k \in jobs }
      BY <1>6 DEF ClearBox
    <2> QED
      BY <2>1, <2>2 DEF NoneBegins
  <1>7. CASE EndEnv(j) \/ Spawn(j) \/ Outcome(j) \/ Escalate(j)
    <2>1. Underway(j)
      BY <1>7 DEF EndEnv, Spawn, Outcome, FailedExit, Escalate, Underway
    <2>2. jobs' \subseteq jobs \/ \E pc \in Pcs : Move(j, pc)
      BY <1>7 DEF EndEnv, Spawn, Outcome, Escalate, Settle, Pcs
    <2> QED
      BY <1>2, <1>3, <2>1, <2>2
  <1> QED
    BY <1>4, <1>5, <1>6, <1>7 DEF Work

LEMMA OnceJob == ASSUME TypeInv, OnceInv, NEW j \in jobs, JobStep(j) \/ Throw(j) PROVE OnceInv'
  <1>1. Advance
    BY JobAdvances DEF TypeInv
  <1>2. CASE Record(j)
    <2>1. QueueKept
      <3> DEFINE st == IF queue[j.act].status = "running"
                       THEN IF j.pc = "returned" THEN "completed" ELSE "failed"
                       ELSE queue[j.act].status
      <3>1. queue' = [queue EXCEPT ![j.act].status = st]
        BY <1>2 DEF Record, SetStatus
      <3>2. j.act \in ActionIds => st \in Statuses
        BY DEF TypeInv, FleetTypes, Actions, Statuses
      <3>3. /\ st # queue[j.act].status => queue[j.act].status = "running" /\ st \in {"completed", "failed"}
            /\ st = "completed" /\ queue[j.act].status # "completed" => j.pc = "returned"
        OBVIOUS
      <3> HIDE DEF st
      <3>4. /\ queue' \in [ActionIds -> Actions]
            /\ \A b \in ActionIds :
                 /\ queue'[b].item = queue[b].item /\ queue'[b].type = queue[b].type
                 /\ queue'[b].status = IF b = j.act THEN st ELSE queue[b].status
                 /\ queue'[b].duplicate = queue[b].duplicate
        BY <3>1, <3>2, StatusType, Zenon DEF TypeInv
      <3>5. j.pc = "returned" => Underway(j)
        BY DEF Underway
      <3>6. ASSUME NEW a \in ActionIds
            PROVE  /\ queue'[a].type = queue[a].type
                   /\ queue'[a].status \in {"unused", "pending"} => queue[a].status \in {"unused", "pending"}
                   /\ queue'[a].duplicate => queue[a].duplicate /\ queue'[a].status = queue[a].status
                   /\ \/ queue'[a].status # "completed" \/ queue[a].status = "completed"
                      \/ begun[a] = 1 /\ \A k \in jobs' : k.act # a
        <4>1. CASE a # j.act
          BY <3>4, <4>1
        <4>2. CASE a = j.act
          <5>1. Once(a)
            BY DEF OnceInv
          <5>2. j.pc = "returned" => begun[a] = 1
            BY <3>5, <4>2, <5>1 DEF Once, Running
          <5>3. \A k \in jobs' : k.act # a
            BY <1>2, <4>2, <5>1 DEF Record, Once, OneJob
          <5>4. queue'[a].status = st /\ queue'[a].duplicate = queue[a].duplicate
                  /\ queue'[a].type = queue[a].type
            BY <3>4, <4>2
          <5>5. queue'[a].duplicate => queue[a].status = "failed"
            BY <5>1, <5>4 DEF Once, Refused
          <5> QED
            BY <3>3, <4>2, <5>2, <5>3, <5>4, <5>5
        <4> QED
          BY <4>1, <4>2
      <3> QED
        BY <3>6 DEF QueueKept
    <2>2. begun' = begun /\ NoneBegins
      BY <1>2, FewerNoneBegins DEF Record, ghosts
    <2> QED
      BY <1>1, <2>1, <2>2, OnceAdvances
  <1>3. CASE Work(j) /\ ~ BeginAction(j) /\ ~ BeginEnv(j)
    <2>1. begun' = begun
      BY <1>3 DEF Work, BeginFresh, BeginContinue, EndEnv, ClearBox, Spawn, Outcome, Escalate, Throw
    <2>2. queue' = queue
      BY <1>3, WorkType DEF LoopState
    <2> QED
      BY <1>1, <1>3, <2>1, <2>2, WorkBegins, SameQueueKept, OnceAdvances
  <1>4. CASE BeginAction(j) \/ BeginEnv(j)
    <2>1. j \in Jobs /\ j.pc = "begin" /\ begun' = [begun EXCEPT ![j.act] = @ + 1] /\ queue' = queue
      BY <1>4 DEF TypeInv, FleetTypes, BeginAction, BeginEnv, InJob
    <2>2. PICK l \in Jobs : /\ l.pc # "begin" /\ l.act = j.act /\ l.cmd = j.cmd
                            /\ jobs' = (jobs \ {j}) \cup {l}
      <3>1. row[j.item] \in Rows
        BY <2>1 DEF Jobs, TypeInv, FleetTypes
      <3>2. \A k \in Jobs, pc \in Pcs :
              /\ [k EXCEPT !.pc = pc] \in Jobs
              /\ [k EXCEPT !.pc = pc].pc = pc /\ [k EXCEPT !.pc = pc].act = k.act
              /\ [k EXCEPT !.pc = pc].cmd = k.cmd
        BY DEF Jobs
      <3>3. /\ [j EXCEPT !.pc = "call", !.copy = row[j.item]] \in Jobs
            /\ [j EXCEPT !.pc = "call", !.copy = row[j.item]].pc = "call"
            /\ [j EXCEPT !.pc = "call", !.copy = row[j.item]].act = j.act
            /\ [j EXCEPT !.pc = "call", !.copy = row[j.item]].cmd = j.cmd
        BY <2>1, <3>1 DEF Jobs, Pcs
      <3>4. CASE \E pc \in Pcs \ {"begin"} : Move(j, pc)
        BY <2>1, <3>2, <3>4 DEF Move
      <3>5. CASE jobs' = (jobs \ {j}) \cup {[j EXCEPT !.pc = "call", !.copy = row[j.item]]}
        BY <3>3, <3>5
      <3> QED
        BY <1>4, <3>4, <3>5 DEF BeginAction, BeginEnv, Pcs
    <2>3. CASE j.act \in ActionIds
      BY <2>1, <2>2, <2>3, OnceBegins
    <2>4. CASE j.act \notin ActionIds
      <3>1. begun' = begun /\ j.act = 0
        BY <2>1, <2>4 DEF TypeInv, FleetTypes, Jobs
      <3>2. \A l2 \in jobs' : l2 \in jobs \/ l2.act = 0
        BY <2>2, <3>1
      <3> QED
        BY <2>1, <3>1, <3>2, OnceDispatched
    <2> QED
      BY <2>3, <2>4
  <1> QED
    BY <1>2, <1>3, <1>4 DEF JobStep, Work

LEMMA OnceClaims == ASSUME TypeInv, OnceInv, NEW i \in Items, Claim(i) PROVE OnceInv'
  <1>1. begun' = begun
    BY DEF Claim, InLoop
  <1>2. PICK a \in ActionIds :
          /\ queue[a].status = "pending"
          /\ queue'[a].status \in {"completed", "failed", "running"}
          /\ queue'[a].duplicate => queue'[a].status = "failed"
          /\ queue'[a].status = "completed" => queue[a].type = "force-poll"
          /\ queue'[a].type = queue[a].type
          /\ \A b \in ActionIds : b # a => /\ queue'[b].status = queue[b].status
                                          /\ queue'[b].duplicate = queue[b].duplicate
                                          /\ queue'[b].type = queue[b].type
          /\ \/ jobs' = jobs
             \/ \E cmd \in {"env", "continue"} : /\ jobs' = jobs \cup {Job(i, cmd, a)}
                                                  /\ queue'[a].status = "running"
    BY ClaimFacts
  <1>3. \A cmd \in {"env", "continue"} : /\ Job(i, cmd, a).act = a /\ Job(i, cmd, a).cmd = cmd
                                          /\ ~ Underway(Job(i, cmd, a))
    BY DEF Job, Underway
  <1>4. begun[a] = 0 /\ \A j \in jobs : j.act # a
    BY <1>2 DEF OnceInv, Once, Untouched, NoJob
  <1>5. ASSUME NEW b \in ActionIds
        PROVE  Once(b)'
    <2>1. Once(b)
      BY DEF OnceInv
    <2>2. CASE b = a
      <3>1. BegunOnce(b)' /\ Refused(b)'
        BY <1>1, <1>2, <1>4, <2>2 DEF BegunOnce, Refused
      <3>2. CASE jobs' = jobs
        BY <1>1, <1>2, <1>4, <2>2, <3>1, <3>2
          DEF Once, Untouched, Over, OneJob, BeginsFresh, Running, NoJob
      <3>3. CASE \E cmd \in {"env", "continue"} : /\ jobs' = jobs \cup {Job(i, cmd, a)}
                                                   /\ queue'[a].status = "running"
        <4>1. Untouched(b)' /\ Over(b)'
          BY <1>2, <2>2, <3>3 DEF Untouched, Over
        <4>2. OneJob(b)' /\ BeginsFresh(b)' /\ Running(b)'
          BY <1>1, <1>3, <1>4, <2>2, <3>3 DEF OneJob, BeginsFresh, Running
        <4> QED
          BY <3>1, <4>1, <4>2 DEF Once
      <3> QED
        BY <1>2, <3>2, <3>3
    <2>3. CASE b # a
      <3>1. \A l \in jobs' : l \in jobs \/ l.act # b
        BY <1>2, <1>3, <2>3
      <3> QED
        BY <1>1, <1>2, <2>1, <2>3, <3>1
          DEF Once, BegunOnce, Untouched, Over, Refused, OneJob, BeginsFresh, Running, NoJob
    <2> QED
      BY <2>2, <2>3
  <1>6. \A l \in jobs' : l.cmd = "run" => l.act = 0
    BY <1>2, <1>3 DEF OnceInv
  <1> QED
    BY <1>5, <1>6 DEF OnceInv

LEMMA OnceNext == ASSUME TypeInv, OnceInv, [Next]_vars PROVE OnceInv'
  <1>1. CASE UNCHANGED vars
    BY <1>1, OnceDispatched DEF vars, process, ghosts
  <1>2. CASE \E i \in Items : Container(i)
    <2>1. PICK i \in Items : Container(i)
      BY <1>2
    <2>2. UNCHANGED << queue, begun >> /\ Advance
      BY <2>1, ContainerType, ContainerAdvances DEF TypeInv, LoopState
    <2>3. NoneBegins
      <3>1. CASE jobs' = jobs
        BY <3>1, FewerNoneBegins
      <3>2. CASE \E code \in {"exit0", "exit1"} : Exit(i, code)
        <4>1. PICK code \in {"exit0", "exit1"} : Exit(i, code)
          BY <3>2
        <4>2. \A k \in jobs : k \in Jobs
          BY DEF TypeInv, FleetTypes
        <4>3. ASSUME NEW l \in jobs' PROVE \E k \in jobs : l.act = k.act /\ (Underway(l) => Underway(k))
          <5>1. PICK k \in jobs : l = IF k.item = i /\ k.pc = "wait" THEN [k EXCEPT !.pc = code] ELSE k
            BY <4>1 DEF Exit
          <5> QED
            BY <4>2, <5>1 DEF Jobs, Underway
        <4> QED
          BY <4>3 DEF NoneBegins
      <3> QED
        BY <2>1, <3>1, <3>2
          DEF Container, BoxStart, BoxPass, BoxPause, BoxDone, BoxFail, BoxDie, EndBox
    <2> QED
      BY <2>2, <2>3, SameQueueKept, OnceAdvances
  <1>3. CASE \E a \in ActionIds : Janitor(a)
    <2>1. PICK a \in ActionIds : Janitor(a)
      BY <1>3
    <2>2. QueueKept
      <3>1. /\ queue' \in [ActionIds -> Actions]
            /\ \A b \in ActionIds :
                 /\ queue'[b].item = queue[b].item /\ queue'[b].type = queue[b].type
                 /\ queue'[b].status = IF b = a THEN "failed" ELSE queue[b].status
                 /\ queue'[b].duplicate = queue[b].duplicate
        <4>1. FleetTypes /\ "failed" \in Statuses /\ queue' = [queue EXCEPT ![a].status = "failed"]
          BY <2>1 DEF TypeInv, Statuses, Janitor
        <4> QED
          BY <4>1, StatusType, Zenon
      <3>2. \A b \in ActionIds : queue[b].duplicate => queue[b].status = "failed"
        BY DEF OnceInv, Once, Refused
      <3> QED
        BY <3>1, <3>2 DEF QueueKept
    <2>3. begun' = begun /\ Advance /\ NoneBegins
      BY <2>1, FewerAdvances, FewerNoneBegins DEF Janitor, process, ghosts, TypeInv
    <2> QED
      BY <2>2, <2>3, OnceAdvances
  <1>4. CASE Boot \/ Launch
    <2>1. \E some : jobs' = jobs \cup { Job(d.item, d.cmd, 0) : d \in some }
      BY <1>4 DEF Boot, Launch, Dispatch
    <2>2. \A l \in jobs' : l \in jobs \/ l.act = 0
      BY <2>1 DEF Job
    <2>3. UNCHANGED << begun, queue >>
      BY <1>4 DEF Boot, Launch, InLoop
    <2> QED
      BY <2>2, <2>3, OnceDispatched
  <1>5. CASE Reap \/ ActionsDone \/ Poll \/ CleanSave \/ Sleep
             \/ (\E i \in Items : CleanLoad(i)) \/ \E d \in found : Apply(d)
    <2>1. UNCHANGED << jobs, begun, queue >>
      BY <1>5, Zenon DEF Reap, ActionsDone, Poll, CleanSave, Sleep, CleanLoad, Apply, InLoop
    <2> QED
      BY <2>1, OnceDispatched
  <1>6. CASE Crash
    <2>1. jobs' = {} /\ begun' = begun /\ queue' = queue
      BY <1>6 DEF Crash, ghosts
    <2> QED
      BY <2>1, OnceDispatched
  <1>7. CASE Humans
    <2>1. UNCHANGED << jobs, begun >>
      BY <1>7 DEF Humans, AddTag, RemoveNeedInput, Comment, Merge, Post, Human, process
    <2>2. QueueKept
      <3>1. queue' = queue \/ \E i \in Items : \E type \in ActionTypes : Post(i, type)
        BY <1>7 DEF Humans, AddTag, RemoveNeedInput, Comment, Merge
      <3>2. CASE \E i \in Items : \E type \in ActionTypes : Post(i, type)
        BY <3>2, PostFacts DEF QueueKept
      <3> QED
        BY <3>1, <3>2, SameQueueKept
    <2> QED
      BY <2>1, <2>2, FewerAdvances, FewerNoneBegins, OnceAdvances DEF TypeInv
  <1> QED
    BY <1>1, <1>2, <1>3, <1>4, <1>5, <1>6, <1>7, OnceJob, OnceClaims, Zenon DEF Next, Loop

LEMMA OnceInit == Init => OnceInv
  BY DEF Init, OnceInv, Once, BegunOnce, Untouched, Over, Refused, OneJob, BeginsFresh, Running, NoJob

\* A set whose members are all the same has at most one.
LEMMA AtMostOne ==
  ASSUME NEW S, \A x, y \in S : x = y
  PROVE  Cardinality(S) <= 1
  <1>1. CASE S = {}
    BY <1>1, FS_EmptySet
  <1>2. CASE S # {}
    <2>1. PICK x \in S : S = {x}
      BY <1>2
    <2> QED
      BY <2>1, FS_Singleton
  <1> QED
    BY <1>1, <1>2

\* Crashes, the janitor, duplicates and the queue never make an action's body run twice; none
\* ran for an action that waits or was refused as a duplicate, and the one run of a completed
\* action has ended.
THEOREM BodyRunsOnce == Spec => []ActionRunsOnce
  <1>1. OnceInv => ActionRunsOnce
    <2> SUFFICES ASSUME OnceInv, NEW a \in ActionIds
                 PROVE  /\ begun[a] <= 1
                        /\ queue[a].status \in {"unused", "pending"} \/ queue[a].duplicate
                             => begun[a] = 0 /\ ~ \E j \in jobs : j.act = a
                        /\ queue[a].status = "completed"
                             => /\ ~ \E j \in jobs : j.act = a
                                /\ begun[a] = 1 \/ queue[a].type = "force-poll"
                        /\ queue[a].duplicate => queue[a].status = "failed"
                        /\ Cardinality({ j \in jobs : j.act = a }) <= 1
      BY DEF ActionRunsOnce
    <2>1. Once(a)
      BY DEF OnceInv
    <2>2. Cardinality({ j \in jobs : j.act = a }) <= 1
      BY <2>1, AtMostOne DEF Once, OneJob
    <2> QED
      BY <2>1, <2>2 DEF Once, BegunOnce, Untouched, Over, Refused, NoJob
  <1> QED
    BY <1>1, OnceInit, OnceNext, TypesHold, PTL DEF Spec

\* What the dashboard shows as the outcome of an action never changes: the janitor's verdict
\* stands when the job ends later.
THEOREM VerdictStands == Spec => OutcomeFinal
  <1> DEFINE Final == \A a \in ActionIds : queue[a].status \in {"completed", "failed"} =>
                        queue'[a].status = queue[a].status
  <1>1. ASSUME TypeInv, [Next]_vars PROVE Final
    <2>1. CASE queue' = queue
      BY <2>1
    <2>2. CASE \E j \in jobs : Record(j)
      <3>1. PICK j \in jobs : Record(j)
        BY <2>2
      <3>2. queue' = [queue EXCEPT ![j.act].status =
                        IF @ = "running" THEN IF j.pc = "returned" THEN "completed" ELSE "failed"
                        ELSE @]
        BY <3>1 DEF Record, SetStatus
      <3> QED
        BY <1>1, <3>2 DEF TypeInv, FleetTypes, Actions
    <2>3. CASE \E a \in ActionIds : Janitor(a)
      BY <1>1, <2>3 DEF TypeInv, FleetTypes, Actions, Janitor
    <2>4. CASE \E i \in Items : Claim(i)
      BY <1>1, <2>4, ClaimFacts
    <2>5. CASE \E i \in Items : \E type \in ActionTypes : Post(i, type)
      BY <1>1, <2>5, PostFacts
    <2>6. \/ queue' = queue \/ (\E j \in jobs : Record(j)) \/ (\E a \in ActionIds : Janitor(a))
          \/ (\E i \in Items : Claim(i))
          \/ \E i \in Items : \E type \in ActionTypes : Post(i, type)
      <3>1. CASE UNCHANGED vars
        BY <3>1 DEF vars
      <3>2. CASE (\E i \in Items : Container(i)) \/ \E j \in jobs : JobStep(j) \/ Throw(j)
        BY <1>1, <3>2, ContainerType, WorkType DEF JobStep, Work, LoopState
      <3>3. CASE Boot \/ Loop \/ Crash
        BY <3>3, Zenon DEF Boot, Loop, Crash, Reap, ActionsDone, Poll, Launch, CleanSave, Sleep, CleanLoad,
          Apply, InLoop
      <3>4. CASE Humans
        BY <3>4 DEF Humans, AddTag, RemoveNeedInput, Comment, Merge
      <3> QED
        BY <1>1, <3>1, <3>2, <3>3, <3>4 DEF Next
    <2> QED
      BY <2>1, <2>2, <2>3, <2>4, <2>5, <2>6
  <1> QED
    BY <1>1, TypesHold, PTL DEF Spec, OutcomeFinal
-----------------------------------------------------------------------------
(* Containers, promises and slots *)

\* A watcher that is down holds nothing; its containers run on as somebody else's.
DownHoldsNothing ==
  loop = "down" => jobs = {} /\ \A i \in Items : running[i] = Free /\ ~ box[i].mine

\* What a poll has detected waits for Launch, and its items hold no slot meanwhile.
DetectedIdle ==
  /\ loop # "apply" => found = {} /\ ready = {}
  /\ \A d \in found \cup ready : running[d.item] = Free

OneEach    == \A d, e \in found \cup ready : d.item = e.item => d = e
SlotHeld   == \A j \in jobs : j.cmd # "env" => running[j.item] = Promise(j)
OnePerItem == \A j, k \in jobs : j.item = k.item /\ j.cmd # "env" /\ k.cmd # "env" => j = k
BoxAwaited == \A i \in Items : box[i].on # "no" /\ box[i].mine =>
                \E j \in jobs : j.item = i /\ j.pc = "wait"

\* While no poll found two actions for one item, a promise holds the slot of its item, is the
\* only one of it, and one waits for each container.
Orderly  == OneEach /\ SlotHeld /\ OnePerItem /\ BoxAwaited
WatchInv == DownHoldsNothing /\ DetectedIdle /\ (dual \/ Orderly)

LEMMA PromiseHeld ==
  ASSUME FleetTypes, NEW j \in jobs
  PROVE  Promise(j) # Free /\ (j.pc \notin EnvPcs => j.cmd # "env")
  BY DEF FleetTypes, Jobs, Promise, Free

\* Slots stay with their promises when jobs advance.
LEMMA SlotsAdvance ==
  ASSUME FleetTypes, SlotHeld, OnePerItem, Advance, running' = running
  PROVE  SlotHeld' /\ OnePerItem'
  <1>1. PICK S \in SUBSET jobs, g \in [jobs -> Jobs] :
          jobs' = Heirs(g, S) /\ \A k \in jobs : Carries(k, g[k])
    BY DEF Advance
  <1>2. ASSUME NEW l \in jobs'
        PROVE  \E k \in jobs : l = g[k] /\ l.item = k.item /\ l.cmd = k.cmd /\ l.act = k.act
    BY <1>1 DEF Heirs, Carries
  <1>3. SlotHeld'
    BY <1>2 DEF SlotHeld, Promise
  <1>4. OnePerItem'
    BY <1>2 DEF OnePerItem
  <1> QED
    BY <1>3, <1>4

\* A job that waits for its container goes on waiting until the container exits or is killed.
LEMMA WorkWaits ==
  ASSUME TypeInv, NEW j \in jobs, Work(j) \/ Record(j),
         NEW w \in jobs, w.pc = "wait", ClearBox(j) => w.item # j.item
  PROVE  w \in jobs'
  <1>1. j.pc # "wait"
    BY DEF Work, Record, BeginFresh, BeginContinue, BeginAction, BeginEnv, EndEnv, ClearBox, Spawn,
      Outcome, Escalate, Throw
  <1>2. CASE ClearBox(j)
    BY <1>1, <1>2 DEF ClearBox
  <1>3. CASE ~ ClearBox(j)
    <2>1. jobs \ {j} \subseteq jobs'
      BY <1>3 DEF Work, Record, BeginFresh, BeginContinue, BeginAction, BeginEnv, EndEnv, Spawn,
        Outcome, Escalate, Throw, Move, Settle
    <2> QED
      BY <1>1, <2>1
  <1> QED
    BY <1>2, <1>3

LEMMA AwaitedWork ==
  ASSUME TypeInv, BoxAwaited, NEW j \in jobs, Work(j)
  PROVE  BoxAwaited'
  <1>1. j \in Jobs /\ j.item \in Items
    BY DEF TypeInv, FleetTypes, Jobs
  <1>2. CASE box' = box
    <2>1. ASSUME NEW w \in jobs, w.pc = "wait", ~ ClearBox(j) PROVE w \in jobs'
      BY <2>1, WorkWaits
    <2>2. ASSUME ClearBox(j) PROVE box[j.item] = NoBox
      BY <1>1, <1>2, <2>2 DEF ClearBox, TypeInv, FleetTypes
    <2>3. ASSUME NEW w \in jobs, w.pc = "wait", ClearBox(j), w.item # j.item PROVE w \in jobs'
      BY <2>3, WorkWaits
    <2> QED
      BY <1>2, <2>1, <2>2, <2>3 DEF BoxAwaited, NoBox
  <1>3. CASE ClearBox(j)
    <2>1. \A i \in Items : box'[i] = IF i = j.item THEN NoBox ELSE box[i]
      BY <1>3 DEF ClearBox, TypeInv, FleetTypes
    <2>2. \A w \in jobs : w.pc = "wait" /\ w.item # j.item => w \in jobs'
      BY WorkWaits
    <2> QED
      BY <2>1, <2>2 DEF BoxAwaited, NoBox
  <1>4. CASE Spawn(j) /\ box' # box
    <2>1. \A i \in Items : i # j.item => box'[i] = box[i]
      BY <1>4 DEF Spawn, TypeInv, FleetTypes
    <2>2. [j EXCEPT !.pc = "wait"] \in jobs'
      BY <1>4 DEF Spawn, Move
    <2>3. [j EXCEPT !.pc = "wait"].item = j.item /\ [j EXCEPT !.pc = "wait"].pc = "wait"
      BY <1>1 DEF Jobs
    <2>4. \A w \in jobs : w.pc = "wait" => w \in jobs'
      BY <1>4, WorkWaits DEF Spawn, ClearBox
    <2> QED
      BY <2>1, <2>2, <2>3, <2>4 DEF BoxAwaited
  <1>5. box' = box \/ ClearBox(j) \/ Spawn(j)
    BY DEF Work, BeginFresh, BeginContinue, BeginAction, BeginEnv, EndEnv, Outcome, Escalate, Throw
  <1> QED
    BY <1>2, <1>3, <1>4, <1>5

LEMMA AwaitedContainer ==
  ASSUME TypeInv, BoxAwaited, NEW i \in Items, Container(i)
  PROVE  BoxAwaited'
  <1>1. ASSUME NEW s, NEW code, EndBox(i, s, code) PROVE BoxAwaited'
    <2>1. \A k \in Items : box'[k] = IF k = i THEN NoBox ELSE box[k]
      BY <1>1 DEF EndBox, TypeInv, FleetTypes
    <2>2. \A w \in jobs : w.item # i => w \in jobs'
      BY <1>1 DEF EndBox, Exit
    <2> QED
      BY <2>1, <2>2 DEF BoxAwaited, NoBox
  <1>2. ASSUME NEW s \in Rows, SaveRow(i, s), jobs' = jobs, box[i].on # "no" PROVE BoxAwaited'
    <2>1. box[i] \in Boxes
      BY DEF TypeInv, FleetTypes
    <2>5. box' = [box EXCEPT ![i] = [[box[i] EXCEPT !.mem = s] EXCEPT !.on = "yes"]]
      BY <1>2, SaveRowType DEF TypeInv
    <2>2. \A k \in Items : k # i => box'[k] = box[k]
      BY <2>5 DEF TypeInv, FleetTypes
    <2>3. box'[i] = [[box[i] EXCEPT !.mem = s] EXCEPT !.on = "yes"]
      BY <2>5 DEF TypeInv, FleetTypes
    <2>4. box'[i].mine = box[i].mine
      BY <2>1, <2>3 DEF Boxes
    <2> QED
      BY <1>2, <2>2, <2>4 DEF BoxAwaited
  <1>3. row[i] \in Rows /\ box[i].mem \in Rows
    BY DEF TypeInv, FleetTypes, Boxes
  <1>4. CASE BoxStart(i) \/ BoxPass(i)
    BY <1>1, <1>2, <1>3, <1>4, RowTypes DEF BoxStart, BoxPass, InBox
  <1>5. CASE BoxPause(i) \/ BoxDone(i) \/ BoxFail(i) \/ BoxDie(i)
    BY <1>1, <1>5 DEF BoxPause, BoxDone, BoxFail, BoxDie
  <1> QED
    BY <1>4, <1>5 DEF Container

\* A dispatch of items that hold no slot, each once.
LEMMA DispatchHolds ==
  ASSUME TypeInv, SlotHeld, OnePerItem, NEW some, Dispatch(some),
         \A d \in some : d.item \in Items /\ d.cmd \in {"run", "continue"} /\ running[d.item] = Free,
         \A d, e \in some : d.item = e.item => d = e
  PROVE  SlotHeld' /\ OnePerItem'
  <1>1. ASSUME NEW d \in some PROVE running'[d.item] = << d.cmd, 0 >>
    <2>1. { x.cmd : x \in { e \in some : e.item = d.item } } = {d.cmd}
      OBVIOUS
    <2>2. running'[d.item] = IF "continue" \in {d.cmd} THEN << "continue", 0 >>
                             ELSE IF "run" \in {d.cmd} THEN << "run", 0 >> ELSE running[d.item]
      BY <2>1 DEF Dispatch
    <2> QED
      BY <2>2
  <1>2. ASSUME NEW i \in Items, \A d \in some : d.item # i PROVE running'[i] = running[i]
    <2>1. { x.cmd : x \in { e \in some : e.item = i } } = {}
      BY <1>2
    <2>2. running'[i] = IF "continue" \in {} THEN << "continue", 0 >>
                        ELSE IF "run" \in {} THEN << "run", 0 >> ELSE running[i]
      BY <2>1 DEF Dispatch
    <2> QED
      BY <2>2
  <1>3. \A j \in jobs : j.item \in Items
    BY DEF TypeInv, FleetTypes, Jobs
  <1>4. \A j \in jobs : j.cmd # "env" => \A d \in some : d.item # j.item
    BY PromiseHeld DEF SlotHeld, TypeInv
  <1>5. \A d \in some : /\ Job(d.item, d.cmd, 0).item = d.item /\ Job(d.item, d.cmd, 0).cmd = d.cmd
                        /\ Promise(Job(d.item, d.cmd, 0)) = << d.cmd, 0 >>
    BY DEF Job, Promise
  <1>6. \A l \in jobs' : l \in jobs \/ \E d \in some : l = Job(d.item, d.cmd, 0)
    BY DEF Dispatch
  <1>7. SlotHeld'
    <2>1. ASSUME NEW l \in jobs', l.cmd # "env" PROVE running'[l.item] = Promise(l)
      <3>1. CASE l \in jobs
        BY <1>2, <1>3, <1>4, <2>1, <3>1 DEF SlotHeld
      <3>2. CASE \E d \in some : l = Job(d.item, d.cmd, 0)
        BY <1>1, <1>5, <3>2
      <3> QED
        BY <1>6, <3>1, <3>2
    <2> QED
      BY <2>1 DEF SlotHeld, Promise
  <1>8. OnePerItem'
    BY <1>4, <1>5, <1>6 DEF OnePerItem
  <1> QED
    BY <1>7, <1>8
-----------------------------------------------------------------------------
(* Every step keeps the pool and the containers in order *)

LEMMA WatchWork == ASSUME TypeInv, WatchInv, NEW j \in jobs, Work(j) PROVE WatchInv'
  <1>1. UNCHANGED LoopState /\ Advance
    BY WorkType, JobAdvances DEF TypeInv, Work, JobStep
  <1>2. DownHoldsNothing'
    BY <1>1 DEF WatchInv, DownHoldsNothing, LoopState
  <1>3. DetectedIdle'
    BY <1>1 DEF WatchInv, DetectedIdle, LoopState
  <1>4. ASSUME Orderly PROVE Orderly'
    <2>1. OneEach'
      BY <1>1, <1>4 DEF Orderly, OneEach, LoopState
    <2>2. SlotHeld' /\ OnePerItem'
      BY <1>1, <1>4, SlotsAdvance DEF Orderly, LoopState, TypeInv
    <2>3. BoxAwaited'
      BY <1>4, AwaitedWork DEF Orderly
    <2> QED
      BY <2>1, <2>2, <2>3 DEF Orderly
  <1>5. dual' = dual
    BY <1>1 DEF LoopState
  <1> QED
    BY <1>2, <1>3, <1>4, <1>5 DEF WatchInv

LEMMA WatchContainer == ASSUME TypeInv, WatchInv, NEW i \in Items, Container(i) PROVE WatchInv'
  <1>1. UNCHANGED LoopState /\ Advance
    BY ContainerType, ContainerAdvances DEF TypeInv
  <1>2. DownHoldsNothing'
    <2>1. ASSUME loop = "down", NEW k \in Items PROVE ~ box'[k].mine
      <3>1. box[i] \in Boxes /\ ~ box[i].mine /\ ~ box[k].mine
        BY <2>1 DEF WatchInv, DownHoldsNothing, TypeInv, FleetTypes
      <3>2. \A s : EndBox(i, s, "exit0") \/ EndBox(i, s, "exit1") => ~ box'[k].mine
        BY <3>1 DEF EndBox, TypeInv, FleetTypes, NoBox
      <3>3. ASSUME NEW s \in Rows, SaveRow(i, s) PROVE ~ box'[k].mine
        <4>1. box' = [box EXCEPT ![i] = [[box[i] EXCEPT !.mem = s] EXCEPT !.on = "yes"]]
          BY <3>3, SaveRowType DEF TypeInv
        <4>2. [[box[i] EXCEPT !.mem = s] EXCEPT !.on = "yes"].mine = box[i].mine
          BY <3>1 DEF Boxes
        <4> QED
          BY <3>1, <4>1, <4>2 DEF TypeInv, FleetTypes
      <3>4. row[i] \in Rows /\ box[i].mem \in Rows
        BY DEF TypeInv, FleetTypes, Boxes
      <3>5. CASE BoxStart(i) \/ BoxPass(i)
        BY <3>2, <3>3, <3>4, <3>5, RowTypes DEF BoxStart, BoxPass
      <3>6. CASE BoxPause(i) \/ BoxDone(i) \/ BoxFail(i) \/ BoxDie(i)
        BY <3>2, <3>6 DEF BoxPause, BoxDone, BoxFail, BoxDie
      <3> QED
        BY <3>5, <3>6 DEF Container
    <2>2. ASSUME loop = "down" PROVE jobs' = {}
      BY <1>1, <2>2 DEF WatchInv, DownHoldsNothing, Advance, Heirs
    <2> QED
      BY <1>1, <2>1, <2>2 DEF WatchInv, DownHoldsNothing, LoopState
  <1>3. DetectedIdle'
    BY <1>1 DEF WatchInv, DetectedIdle, LoopState
  <1>4. ASSUME Orderly PROVE Orderly'
    <2>1. OneEach'
      BY <1>1, <1>4 DEF Orderly, OneEach, LoopState
    <2>2. SlotHeld' /\ OnePerItem'
      BY <1>1, <1>4, SlotsAdvance DEF Orderly, LoopState, TypeInv
    <2>3. BoxAwaited'
      BY <1>4, AwaitedContainer DEF Orderly
    <2> QED
      BY <2>1, <2>2, <2>3 DEF Orderly
  <1>5. dual' = dual
    BY <1>1 DEF LoopState
  <1> QED
    BY <1>2, <1>3, <1>4, <1>5 DEF WatchInv

LEMMA WatchRecord == ASSUME TypeInv, WatchInv, NEW j \in jobs, Record(j) PROVE WatchInv'
  <1>1. /\ jobs' = jobs \ {j} /\ running' = [running EXCEPT ![j.item] = SlotAfter(j)]
        /\ UNCHANGED << box, loop, found, ready, dual >>
    BY DEF Record, ghosts
  <1>2. j.item \in Items /\ \A k \in jobs : k.item \in Items
    BY DEF TypeInv, FleetTypes, Jobs
  <1>3. \A i \in Items : running'[i] = IF i = j.item /\ j.cmd # "env" THEN Free ELSE running[i]
    BY <1>1, <1>2 DEF TypeInv, FleetTypes, SlotAfter
  <1>4. DownHoldsNothing'
    BY <1>1, <1>3 DEF WatchInv, DownHoldsNothing
  <1>5. DetectedIdle'
    <2>1. \A d \in found \cup ready : d.item \in Items
      BY DEF TypeInv, FleetTypes, Detections
    <2> QED
      BY <1>1, <1>3, <2>1 DEF WatchInv, DetectedIdle
  <1>6. ASSUME Orderly PROVE Orderly'
    <2>1. OneEach' /\ OnePerItem'
      BY <1>1, <1>6 DEF Orderly, OneEach, OnePerItem
    <2>2. SlotHeld'
      <3>1. ASSUME NEW k \in jobs', k.cmd # "env" PROVE running'[k.item] = Promise(k)
        <4>1. k \in jobs /\ k # j
          BY <1>1
        <4>2. ~ (k.item = j.item /\ j.cmd # "env")
          BY <1>6, <3>1, <4>1 DEF Orderly, OnePerItem
        <4> QED
          BY <1>2, <1>3, <1>6, <3>1, <4>1, <4>2 DEF Orderly, SlotHeld
      <3> QED
        BY <3>1 DEF SlotHeld, Promise
    <2>3. BoxAwaited'
      <3>1. \A w \in jobs : w.pc = "wait" => w \in jobs'
        BY <1>1 DEF Record
      <3> QED
        BY <1>1, <1>6, <3>1 DEF Orderly, BoxAwaited
    <2> QED
      BY <2>1, <2>2, <2>3 DEF Orderly
  <1> QED
    BY <1>1, <1>4, <1>5, <1>6 DEF WatchInv

LEMMA WatchBoot == ASSUME TypeInv, WatchInv, Boot PROVE WatchInv'
  <1>1. PICK recent \in SUBSET Items : Dispatch({ [item |-> i, cmd |-> "continue"] : i \in recent })
    BY DEF Boot, Orphans
  <1> DEFINE some == { [item |-> i, cmd |-> "continue"] : i \in recent }
  <1>2. /\ jobs = {} /\ found = {} /\ ready = {}
        /\ \A i \in Items : running[i] = Free /\ ~ box[i].mine
    BY DEF Boot, WatchInv, DownHoldsNothing, DetectedIdle
  <1>3. SlotHeld /\ OnePerItem
    BY <1>2 DEF SlotHeld, OnePerItem
  <1>4. /\ \A d \in some : d.item \in Items /\ d.cmd \in {"run", "continue"} /\ running[d.item] = Free
        /\ \A d, e \in some : d.item = e.item => d = e
    BY <1>1, <1>2
  <1> HIDE DEF some
  <1>5. SlotHeld' /\ OnePerItem'
    BY <1>1, <1>3, <1>4, DispatchHolds DEF some
  <1>6. loop' = "reap" /\ UNCHANGED << box, found, ready, dual >>
    BY DEF Boot, InLoop
  <1>7. DownHoldsNothing' /\ DetectedIdle' /\ OneEach' /\ BoxAwaited'
    BY <1>2, <1>6 DEF DownHoldsNothing, DetectedIdle, OneEach, BoxAwaited
  <1> QED
    BY <1>5, <1>7 DEF WatchInv, Orderly

LEMMA WatchReap == ASSUME TypeInv, WatchInv, Reap PROVE WatchInv'
  <1>1. /\ loop' = "actions" /\ loop = "reap" /\ UNCHANGED << box, jobs, found, ready, dual >>
        /\ running' = [i \in Items |-> IF \E j \in jobs : j.item = i /\ Promise(j) = running[i]
                                       THEN running[i] ELSE Free]
    BY DEF Reap
  <1>2. found = {} /\ ready = {}
    BY <1>1 DEF WatchInv, DetectedIdle
  <1>3. DownHoldsNothing' /\ DetectedIdle' /\ OneEach'
    BY <1>1, <1>2 DEF DownHoldsNothing, DetectedIdle, OneEach
  <1>4. ASSUME Orderly PROVE SlotHeld' /\ OnePerItem' /\ BoxAwaited'
    <2>1. \A j \in jobs : j.item \in Items
      BY DEF TypeInv, FleetTypes, Jobs
    <2>2. SlotHeld'
      BY <1>1, <1>4, <2>1 DEF Orderly, SlotHeld, Promise
    <2> QED
      BY <1>1, <1>4, <2>2 DEF Orderly, OnePerItem, BoxAwaited
  <1> QED
    BY <1>1, <1>3, <1>4 DEF WatchInv, Orderly

LEMMA WatchClaim == ASSUME TypeInv, WatchInv, NEW i \in Items, Claim(i) PROVE WatchInv'
  <1>1. loop = "actions" /\ UNCHANGED << box, loop, found, ready, dual >>
    BY DEF Claim, InLoop
  <1>2. found = {} /\ ready = {}
    BY <1>1 DEF WatchInv, DetectedIdle
  <1>3. DownHoldsNothing' /\ DetectedIdle' /\ OneEach'
    BY <1>1, <1>2 DEF DownHoldsNothing, DetectedIdle, OneEach
  <1>4. PICK a \in ActionIds :
          \/ UNCHANGED << jobs, running >>
          \/ \E cmd \in {"env", "continue"} :
               /\ jobs' = jobs \cup {Job(i, cmd, a)}
               /\ running' = [running EXCEPT ![i] = IF cmd = "env" THEN @ ELSE << cmd, a >>]
               /\ cmd = "continue" => running[i] = Free
    BY ClaimFacts
  <1>5. ASSUME Orderly PROVE SlotHeld' /\ OnePerItem' /\ BoxAwaited'
    <2>1. CASE UNCHANGED << jobs, running >>
      BY <1>1, <1>5, <2>1 DEF Orderly, SlotHeld, Promise, OnePerItem, BoxAwaited
    <2>2. BoxAwaited'
      <3>1. jobs \subseteq jobs'
        BY <1>4
      <3> QED
        BY <1>1, <1>5, <3>1 DEF Orderly, BoxAwaited
    <2>3. \A cmd : /\ Job(i, cmd, a).item = i /\ Job(i, cmd, a).cmd = cmd
                   /\ Promise(Job(i, cmd, a)) = << cmd, a >>
      BY DEF Job, Promise
    <2>4. CASE jobs' = jobs \cup {Job(i, "env", a)} /\ running' = running
      BY <1>5, <2>2, <2>3, <2>4 DEF Orderly, SlotHeld, Promise, OnePerItem
    <2>5. CASE /\ jobs' = jobs \cup {Job(i, "continue", a)} /\ running[i] = Free
               /\ running' = [running EXCEPT ![i] = << "continue", a >>]
      <3>1. \A j \in jobs : j.item \in Items
        BY DEF TypeInv, FleetTypes, Jobs
      <3>2. \A j \in jobs : j.cmd # "env" => j.item # i
        BY <1>5, <2>5, PromiseHeld DEF Orderly, SlotHeld, TypeInv
      <3>3. \A k \in Items : running'[k] = IF k = i THEN << "continue", a >> ELSE running[k]
        BY <2>5 DEF TypeInv, FleetTypes
      <3>4. SlotHeld'
        <4>1. ASSUME NEW l \in jobs', l.cmd # "env" PROVE running'[l.item] = Promise(l)
          BY <1>5, <2>3, <2>5, <3>1, <3>2, <3>3, <4>1 DEF Orderly, SlotHeld
        <4> QED
          BY <4>1 DEF SlotHeld, Promise
      <3>5. OnePerItem'
        BY <1>5, <2>3, <2>5, <3>2 DEF Orderly, OnePerItem
      <3> QED
        BY <2>2, <3>4, <3>5
    <2>6. [running EXCEPT ![i] = running[i]] = running
      BY DEF TypeInv, FleetTypes
    <2> QED
      BY <1>4, <2>1, <2>4, <2>5, <2>6
  <1> QED
    BY <1>1, <1>3, <1>5 DEF WatchInv, Orderly

LEMMA WatchPoll == ASSUME TypeInv, WatchInv, Poll PROVE WatchInv'
  <1>1. loop = "poll" /\ UNCHANGED << box, jobs, running, ready >>
    BY DEF Poll
  <1>2. found = {} /\ ready = {}
    BY <1>1 DEF WatchInv, DetectedIdle
  <1>3. ASSUME NEW seen, NEW d \in Detected(seen) PROVE running[d.item] = Free
    BY DEF Detected, Idle, Busy
  <1>4. CASE \E seen : Gather(seen)
    <2>1. PICK seen : Gather(seen)
      BY <1>4
    <2>2. /\ found' = Detected(seen) /\ loop' = "apply"
          /\ dual' = (dual \/ \E d, e \in Detected(seen) : d # e /\ d.item = e.item)
      BY <2>1 DEF Gather
    <2>3. DownHoldsNothing' /\ DetectedIdle'
      BY <1>1, <1>2, <1>3, <2>2 DEF DownHoldsNothing, DetectedIdle
    <2>4. dual' \/ OneEach'
      BY <1>1, <1>2, <2>2 DEF OneEach
    <2>5. dual' \/ (SlotHeld' /\ OnePerItem' /\ BoxAwaited')
      BY <1>1, <2>2 DEF WatchInv, Orderly, SlotHeld, OnePerItem, BoxAwaited, Promise
    <2> QED
      BY <2>3, <2>4, <2>5 DEF WatchInv, Orderly
  <1>5. CASE loop' = "cleanup" /\ UNCHANGED << found, dual >>
    BY <1>1, <1>2, <1>5 DEF WatchInv, DownHoldsNothing, DetectedIdle, Orderly, OneEach, SlotHeld, OnePerItem,
      BoxAwaited, Promise
  <1> QED
    BY <1>4, <1>5, Zenon DEF Poll

LEMMA WatchApply == ASSUME TypeInv, WatchInv, NEW d \in found, Apply(d) PROVE WatchInv'
  <1>1. /\ UNCHANGED << box, loop, jobs, running, dual >> /\ loop = "apply"
        /\ found' \cup ready' = found \cup ready
    BY DEF Apply, InLoop
  <1> QED
    BY <1>1 DEF WatchInv, DownHoldsNothing, DetectedIdle, Orderly, OneEach, SlotHeld, OnePerItem, BoxAwaited,
      Promise

LEMMA WatchLaunch == ASSUME TypeInv, WatchInv, Launch PROVE WatchInv'
  <1>1. /\ loop' = "cleanup" /\ found' = {} /\ ready' = {} /\ UNCHANGED << box, dual >>
    BY DEF Launch, InLoop
  <1>2. PICK some \in SUBSET ready : Dispatch(some)
    BY DEF Launch
  <1>3. \A d \in some : d.item \in Items /\ d.cmd \in {"run", "continue"} /\ running[d.item] = Free
    BY <1>2 DEF TypeInv, FleetTypes, Detections, WatchInv, DetectedIdle
  <1>4. DownHoldsNothing' /\ DetectedIdle' /\ OneEach'
    BY <1>1 DEF DownHoldsNothing, DetectedIdle, OneEach
  <1>5. ASSUME Orderly PROVE Orderly'
    <2>1. \A d, e \in some : d.item = e.item => d = e
      BY <1>2, <1>5 DEF Orderly, OneEach
    <2>2. SlotHeld' /\ OnePerItem'
      BY <1>2, <1>3, <1>5, <2>1, DispatchHolds DEF Orderly
    <2>3. jobs \subseteq jobs'
      BY <1>2 DEF Dispatch
    <2>4. BoxAwaited'
      BY <1>1, <1>5, <2>3 DEF Orderly, BoxAwaited
    <2> QED
      BY <1>4, <2>2, <2>4 DEF Orderly
  <1> QED
    BY <1>1, <1>4, <1>5 DEF WatchInv

LEMMA WatchCrash == ASSUME TypeInv, WatchInv, Crash PROVE WatchInv'
  <1>1. \A i \in Items : ~ box'[i].mine
    BY DEF Crash, TypeInv, FleetTypes, Boxes
  <1> QED
    BY <1>1 DEF Crash, WatchInv, DownHoldsNothing, DetectedIdle, Orderly, OneEach, SlotHeld, OnePerItem,
      BoxAwaited

LEMMA WatchNext == ASSUME TypeInv, WatchInv, [Next]_vars PROVE WatchInv'
  <1>1. CASE UNCHANGED << box, loop, found, ready, jobs, running, dual >>
    BY <1>1 DEF WatchInv, DownHoldsNothing, DetectedIdle, Orderly, OneEach, SlotHeld, OnePerItem, BoxAwaited,
      Promise
  <1>2. CASE Humans \/ (\E a \in ActionIds : Janitor(a)) \/ UNCHANGED vars
    <2>1. UNCHANGED << box, loop, found, ready, jobs, running, dual >>
      BY <1>2 DEF vars, Humans, AddTag, RemoveNeedInput, Comment, Merge, Post, Human, Janitor, process, ghosts
    <2> QED
      BY <1>1, <2>1
  <1>3. CASE ActionsDone \/ CleanSave \/ Sleep \/ \E i \in Items : CleanLoad(i)
    <2>1. /\ UNCHANGED << box, found, ready, jobs, running, dual >>
          /\ loop \in {"actions", "cleanup"} /\ loop' \in {"poll", "cleanup", "reap"}
      BY <1>3, Zenon DEF ActionsDone, CleanSave, Sleep, CleanLoad, InLoop
    <2>2. DownHoldsNothing' /\ DetectedIdle'
      BY <2>1 DEF WatchInv, DownHoldsNothing, DetectedIdle
    <2>3. dual' \/ Orderly'
      BY <2>1 DEF WatchInv, Orderly, OneEach, SlotHeld, OnePerItem, BoxAwaited, Promise
    <2> QED
      BY <2>2, <2>3 DEF WatchInv
  <1>4. CASE \E j \in jobs : JobStep(j) \/ Throw(j)
    BY <1>4, WatchWork, WatchRecord, Zenon DEF JobStep, Work
  <1>5. CASE \E i \in Items : Container(i)
    BY <1>5, WatchContainer
  <1> QED
    BY <1>2, <1>3, <1>4, <1>5, WatchBoot, WatchReap, WatchClaim, WatchPoll, WatchApply, WatchLaunch,
      WatchCrash, Zenon DEF Next, Loop

LEMMA WatchInit == Init => WatchInv
  BY DEF Init, WatchInv, DownHoldsNothing, DetectedIdle, Orderly, OneEach, SlotHeld, OnePerItem, BoxAwaited,
    NoBox

LEMMA WatchHolds == Spec => [](TypeInv /\ WatchInv)
  BY TypesInit, TypesNext, WatchInit, WatchNext, PTL DEF Spec

LEMMA SupervisedThen == TypeInv /\ WatchInv => Supervised
  <1> SUFFICES ASSUME TypeInv, Orderly, NEW i \in Items
               PROVE  /\ box[i].on # "no" /\ box[i].mine =>
                           running[i] # Free /\ \E j \in jobs : j.item = i /\ j.pc = "wait"
                      /\ Cardinality({ j \in jobs : j.item = i /\ j.cmd # "env" }) <= 1
    BY DEF Supervised, WatchInv
  <1>1. Cardinality({ j \in jobs : j.item = i /\ j.cmd # "env" }) <= 1
    BY AtMostOne DEF Orderly, OnePerItem
  <1>2. ASSUME box[i].on # "no", box[i].mine
        PROVE  running[i] # Free /\ \E j \in jobs : j.item = i /\ j.pc = "wait"
    <2>1. PICK j \in jobs : j.item = i /\ j.pc = "wait"
      BY <1>2 DEF Orderly, BoxAwaited
    <2>2. Promise(j) # Free /\ j.cmd # "env"
      BY <2>1, PromiseHeld DEF TypeInv, EnvPcs
    <2> QED
      BY <2>1, <2>2 DEF Orderly, SlotHeld
  <1> QED
    BY <1>1, <1>2

\* Every container this watcher started is awaited by a job whose item holds a slot, and no
\* item has two runs: for every fleet, limit and sequence of crashes.
THEOREM ContainersSupervised == Spec => []Supervised
  BY WatchHolds, SupervisedThen, PTL

-----------------------------------------------------------------------------
(* The pool *)

\* While the fleet is in order the load is the pool.
LEMMA LoadIsPool ==
  ASSUME Supervised, ~ dual
  PROVE  Load = Cardinality(Busy)
  <1>1. Busy \cup { i \in Items : box[i].on # "no" /\ box[i].mine } = Busy
    BY DEF Supervised, Busy
  <1> QED
    BY <1>1 DEF Load

LEMMA BusyFinite == IsFiniteSet(Busy) /\ Cardinality(Busy) \in Nat
  BY ItemsAssumption, FS_Subset, FS_CardinalityType DEF Busy

\* One more member is one more at most.
LEMMA OneMore ==
  ASSUME NEW S, IsFiniteSet(S), NEW x, NEW n \in Nat, Cardinality(S) < n
  PROVE  IsFiniteSet(S \cup {x}) /\ Cardinality(S \cup {x}) <= n
  <1>1. IsFiniteSet(S \cup {x}) /\ Cardinality(S) \in Nat
    BY FS_AddElement, FS_CardinalityType
  <1>2. Cardinality(S \cup {x}) \in {Cardinality(S), Cardinality(S) + 1}
    BY FS_AddElement
  <1> QED
    BY <1>1, <1>2

LEMMA NoMore ==
  ASSUME NEW S, NEW T, IsFiniteSet(T), S \subseteq T
  PROVE  Cardinality(S) <= Cardinality(T)
  BY FS_Subset

\* The slots a dispatch takes are those of the items it names.
LEMMA DispatchBusy ==
  ASSUME NEW some, Dispatch(some)
  PROVE  Busy' \subseteq Busy \cup { d.item : d \in some }
  <1>1. ASSUME NEW i \in Items, \A d \in some : d.item # i PROVE running'[i] = running[i]
    <2>1. { x.cmd : x \in { e \in some : e.item = i } } = {}
      BY <1>1
    <2>2. running'[i] = IF "continue" \in {} THEN << "continue", 0 >>
                        ELSE IF "run" \in {} THEN << "run", 0 >> ELSE running[i]
      BY <2>1 DEF Dispatch
    <2> QED
      BY <2>2
  <1> QED
    BY <1>1 DEF Busy, Free

\* How a step changes the pool: it grows where a slot was free, and never beyond the limit.
LEMMA PoolGrows ==
  ASSUME TypeInv, WatchInv, ~ dual, [Next]_vars
  PROVE  Busy' \subseteq Busy \/ Cardinality(Busy') <= limit
  <1>0. limit \in Nat \ {0}
    BY LimitsAssumption DEF TypeInv, FleetTypes
  <1>1. CASE \E i \in Items : Claim(i)
    <2>1. PICK i \in Items : Claim(i)
      BY <1>1
    <2>2. Busy' \subseteq Busy \cup {i}
      BY <2>1, ClaimFacts DEF Busy, Free, TypeInv, FleetTypes
    <2>3. Cardinality(Busy) < limit
      BY <2>1 DEF Claim, HasSlot
    <2>4. IsFiniteSet(Busy \cup {i}) /\ Cardinality(Busy \cup {i}) <= limit
      BY <1>0, <2>3, BusyFinite, OneMore
    <2>5. Cardinality(Busy') <= Cardinality(Busy \cup {i})
      BY <2>2, <2>4, NoMore
    <2>6. Cardinality(Busy') \in Nat /\ Cardinality(Busy \cup {i}) \in Nat
      BY <2>2, <2>4, FS_Subset, FS_CardinalityType
    <2> QED
      BY <1>0, <2>4, <2>5, <2>6
  <1>2. CASE Boot
    <2>1. PICK recent \in SUBSET Items :
            /\ Cardinality(recent) <= limit
            /\ Dispatch({ [item |-> i, cmd |-> "continue"] : i \in recent })
      BY <1>2 DEF Boot, Orphans
    <2>2. Busy = {}
      BY <1>2 DEF Boot, WatchInv, DownHoldsNothing, Busy
    <2>3. Busy' \subseteq recent
      BY <2>1, <2>2, DispatchBusy
    <2>4. IsFiniteSet(recent) /\ Cardinality(recent) \in Nat
      BY ItemsAssumption, FS_Subset, FS_CardinalityType
    <2>5. Cardinality(Busy') <= Cardinality(recent) /\ Cardinality(Busy') \in Nat
      BY <2>3, <2>4, FS_Subset, FS_CardinalityType
    <2> QED
      BY <1>0, <2>1, <2>4, <2>5
  <1>3. CASE Launch
    <2> DEFINE Used(S) == Cardinality(Busy \cup { d.item : d \in S })
    <2>1. PICK some \in SUBSET ready :
            /\ some = {} \/ \E last \in some : Used(some \ {last}) < limit
            /\ Dispatch(some)
      BY <1>3 DEF Launch
    <2>2. Busy' \subseteq Busy \cup { d.item : d \in some }
      BY <2>1, DispatchBusy
    <2>3. CASE some = {}
      BY <2>2, <2>3
    <2>4. CASE some # {}
      <3>1. PICK last \in some : Used(some \ {last}) < limit
        BY <2>1, <2>4
      <3> DEFINE S == Busy \cup { d.item : d \in some \ {last} }
      <3>2. Busy' \subseteq S \cup {last.item}
        BY <2>2
      <3>3. S \subseteq Items /\ last.item \in Items
        BY <2>1 DEF Busy, TypeInv, FleetTypes, Detections
      <3>4. IsFiniteSet(S) /\ Cardinality(S) < limit
        BY <3>1, <3>3, ItemsAssumption, FS_Subset
      <3> HIDE DEF S
      <3>5. IsFiniteSet(S \cup {last.item}) /\ Cardinality(S \cup {last.item}) <= limit
        BY <1>0, <3>4, OneMore
      <3>6. /\ Cardinality(Busy') <= Cardinality(S \cup {last.item})
            /\ Cardinality(Busy') \in Nat /\ Cardinality(S \cup {last.item}) \in Nat
        BY <3>2, <3>5, FS_Subset, FS_CardinalityType
      <3> QED
        BY <1>0, <3>5, <3>6
    <2> QED
      BY <2>3, <2>4
  <1>4. CASE Reap \/ Crash
    BY <1>4 DEF Reap, Crash, Busy
  <1>5. CASE \E j \in jobs : Record(j)
    BY <1>5 DEF Record, SlotAfter, Busy, TypeInv, FleetTypes
  <1>6. CASE running' = running
    BY <1>6 DEF Busy
  <1>7. running' = running \/ (\E i \in Items : Claim(i)) \/ Boot \/ Launch \/ Reap \/ Crash
          \/ \E j \in jobs : Record(j)
    <2>1. CASE UNCHANGED vars
      BY <2>1 DEF vars, process
    <2>2. CASE (\E i \in Items : Container(i)) \/ \E j \in jobs : JobStep(j) \/ Throw(j)
      BY <2>2, ContainerType, WorkType DEF JobStep, Work, LoopState
    <2>3. CASE Loop
      BY <2>3, Zenon DEF Loop, ActionsDone, Poll, CleanSave, Sleep, CleanLoad, Apply, InLoop
    <2>4. CASE Humans \/ \E a \in ActionIds : Janitor(a)
      BY <2>4 DEF Humans, AddTag, RemoveNeedInput, Comment, Merge, Post, Human, process, Janitor
    <2> QED
      BY <2>1, <2>2, <2>3, <2>4 DEF Next
  <1> QED
    BY <1>1, <1>2, <1>3, <1>4, <1>5, <1>6, <1>7

\* A poll that finds two actions for one item changes neither pool nor containers.
LEMMA DualLate ==
  ASSUME [Next]_vars, ~ dual, dual'
  PROVE  UNCHANGED << running, box >>
  <1>1. Poll
    <2>1. CASE Loop
      BY <2>1, Zenon DEF Loop, Reap, ActionsDone, Poll, Launch, CleanSave, Sleep, CleanLoad, Claim, Apply
    <2>2. CASE ~ Loop
      BY <2>2, Zenon DEF Next, vars, ghosts, Boot, Crash, Humans, AddTag, RemoveNeedInput, Comment, Merge, Post,
        Human, Container, BoxStart, BoxPass, BoxPause, BoxDone, BoxFail, BoxDie, InBox, JobStep,
        Throw, BeginFresh, BeginContinue, BeginAction, BeginEnv, EndEnv, ClearBox, Spawn, Outcome,
        Escalate, Record, InJob, Janitor
    <2> QED
      BY <2>1, <2>2
  <1> QED
    BY <1>1 DEF Poll

\* The pool and the containers of this watcher grow only while they are within the limit that
\* holds then, whatever the operator sets it to later.
THEOREM PoolWithinLimit == Spec => PoolRespected
  <1>1. ASSUME TypeInv, WatchInv, (TypeInv /\ WatchInv)', [Next]_vars
        PROVE  dual \/ Load' <= Load \/ Load' <= limit
    <2>1. CASE dual'
      <3>1. dual \/ Load' = Load
        BY <1>1, <2>1, DualLate DEF Load, Busy
      <3>2. Load \in Nat
        BY ItemsAssumption, FS_Subset, FS_CardinalityType DEF Load, Busy
      <3> QED
        BY <3>1, <3>2
    <2>2. CASE ~ dual' /\ ~ dual
      <3>1. Load = Cardinality(Busy)
        BY <1>1, <2>2, SupervisedThen, LoadIsPool
      <3>2. Supervised'
        BY <1>1, SupervisedThen, PTL
      <3>3. Load' = Cardinality(Busy')
        <4>1. (Busy \cup { i \in Items : box[i].on # "no" /\ box[i].mine })' = Busy'
          BY <2>2, <3>2 DEF Supervised, Busy
        <4> QED
          BY <4>1 DEF Load
      <3>4. Busy' \subseteq Busy \/ Cardinality(Busy') <= limit
        BY <1>1, <2>2, PoolGrows
      <3> QED
        BY <3>1, <3>3, <3>4, BusyFinite, NoMore
    <2> QED
      BY <2>1, <2>2
  <1> QED
    BY <1>1, WatchHolds, PTL DEF Spec, PoolRespected
=============================================================================
