---------------------------- MODULE ReviewProofs ----------------------------
(***************************************************************************)
(* What reviews of a pull request promise, for every number of comments,   *)
(* findings and troubles.                                                  *)
(***************************************************************************)
EXTENDS ReviewProps, TLAPS

-----------------------------------------------------------------------------
(* Types.  The prover is given the container's fields in two halves.         *)

Entries == [by : Triggers, st : Statuses, full : BOOLEAN, dropped : BOOLEAN]

Promises == [act : Nat, pc : {"none", "begin", "clear", "spawn", "wait", "exit0", "exit1"}]

\* Whose review the container does, and where it is.
Where == {"off", "start", "route", "checkout", "diff", "ladder", "sanity", "full", "error",
          "threads", "write", "save"}

\* A commit that was read, or none.
Commits == { << >> } \cup { << n >> : n \in Nat }

Writes == {"create", "update", "stale"} \X Keys

BoxTypes == [pc : Where, act : Nat, db : BOOLEAN, meta : BOOLEAN, head : Nat,
             path : {"sanity", "full"}, tree : Trees, claim : Trees, list : Reports,
             todo : SUBSET Writes, checked : Commits, ended : Nat]

Discussions == [there : BOOLEAN, notices : Nat, fix : Commits]

TypeOK ==
  /\ pr \in [open : BOOLEAN, draft : BOOLEAN, takes : SUBSET {"created", "published"}, head : Nat]
  /\ hook \in [Deliveries -> {"none", "sent", "locked", "done"}]
  /\ asked \in [Comments -> [thread : Threads, full : BOOLEAN]]
  /\ queue \in Seq(Entries)
  /\ job \in Promises /\ job.act \in 0..Len(queue)
  /\ box \in BoxTypes
  /\ threads \in [Keys -> Discussions]
  /\ rows \in SUBSET Nat /\ told \in SUBSET Nat /\ posted \in SUBSET Nat /\ broken \in SUBSET Nat

LEMMA NoBoxType == NoBox \in BoxTypes
  BY DEF NoBox, BoxTypes, Where, Trees, Reports, Nothing, Commits

LEMMA InitType == Init => TypeOK
  BY NoBoxType DEF Init, TypeOK, NoJob, Promises, Threads, Discussions, Commits

LEMMA WorldType == ASSUME TypeOK, World PROVE TypeOK'
  <1> USE DEF TypeOK
  <1>1. UNCHANGED << queue, job, box, rows, told, posted, broken >>
    BY DEF World, Open, Publish, BackToDraft, Push, Ask, Reply, Redeliver, People, answers
  <1>2. hook' \in [Deliveries -> {"none", "sent", "locked", "done"}]
    BY DEF World, Open, Publish, BackToDraft, Push, Ask, Reply, Redeliver, Send
  <1>3. pr' \in [open : BOOLEAN, draft : BOOLEAN, takes : SUBSET {"created", "published"}, head : Nat]
    <2>1. CASE Open
      <3>1. PICK draft, auto, drafts \in BOOLEAN :
              pr' = [pr EXCEPT !.open = TRUE, !.draft = draft, !.takes = Taken(auto, draft, drafts)]
        BY <2>1 DEF Open
      <3>2. Taken(auto, draft, drafts) \in SUBSET {"created", "published"}
        BY DEF Taken
      <3> QED
        BY <3>1, <3>2
    <2>2. CASE Push
      BY <2>2 DEF Push
    <2>3. CASE Publish \/ BackToDraft
      BY <2>3 DEF Publish, BackToDraft
    <2>4. CASE pr' = pr
      BY <2>4
    <2> QED
      BY <2>1, <2>2, <2>3, <2>4 DEF World, Ask, Reply, Redeliver
  <1>4. asked' \in [Comments -> [thread : Threads, full : BOOLEAN]]
    <2>1. ASSUME NEW c \in Comments, Ask(c)
          PROVE  asked' \in [Comments -> [thread : Threads, full : BOOLEAN]]
      <3>1. PICK thread \in {"alone", "discussion"}, full \in BOOLEAN :
              asked' = [asked EXCEPT ![c] = [thread |-> thread, full |-> full]]
        BY <2>1 DEF Ask
      <3>2. [thread |-> thread, full |-> full] \in [thread : Threads, full : BOOLEAN]
        BY DEF Threads
      <3> QED
        BY <3>1, <3>2
    <2>2. CASE asked' = asked
      BY <2>2
    <2> QED
      BY <2>1, <2>2 DEF World, Open, Publish, BackToDraft, Push, Reply, Redeliver
  <1>5. threads' \in [Keys -> Discussions]
    <2>1. ASSUME NEW k \in Keys, Reply(k) PROVE threads' \in [Keys -> Discussions]
      <3>1. [threads[k] EXCEPT !.notices = 0] \in Discussions
        BY DEF Discussions
      <3> QED
        BY <2>1, <3>1 DEF Reply
    <2>2. CASE threads' = threads
      BY <2>2
    <2> QED
      BY <2>1, <2>2 DEF World, Open, Publish, BackToDraft, Push, Ask, Redeliver
  <1> QED
    BY <1>1, <1>2, <1>3, <1>4, <1>5

LEMMA RequestsType == ASSUME TypeOK, Requests PROVE TypeOK'
  <1> USE DEF TypeOK
  <1>1. UNCHANGED << pr, asked, job, box, threads, rows, told, posted, broken >>
    BY DEF Requests, Refuse, Look, Insert, Server, answers
  <1>2. hook' \in [Deliveries -> {"none", "sent", "locked", "done"}]
    BY DEF Requests, Refuse, Look, Insert
  <1>3. queue' \in Seq(Entries)
    <2>1. CASE queue' = queue
      BY <2>1
    <2>2. ASSUME NEW d \in Deliveries, Insert(d) PROVE queue' \in Seq(Entries)
      <3> DEFINE e == [by |-> d[1], st |-> "pending", full |-> d[1] \in Comments /\ asked[d[1]].full,
                       dropped |-> FALSE]
      <3>1. e \in Entries
        <4>1. d[1] \in Triggers
          BY DEF Deliveries
        <4>2. (d[1] \in Comments /\ asked[d[1]].full) \in BOOLEAN
          OBVIOUS
        <4> QED
          BY <4>1, <4>2 DEF Entries, Statuses
      <3>2. queue' = Append(queue, e)
        BY <2>2 DEF Insert
      <3> HIDE DEF e
      <3> QED
        BY <3>1, <3>2
    <2> QED
      BY <2>1, <2>2 DEF Requests, Refuse, Look
  <1>4. job'.act \in 0..Len(queue')
    BY <1>1 DEF Requests, Refuse, Look, Insert
  <1> QED
    BY <1>1, <1>2, <1>3, <1>4

\* An action changes its status and nothing else.
LEMMA StatusOnly ==
  ASSUME NEW q \in Seq(Entries), NEW a, NEW s \in Statuses
  PROVE  /\ [q EXCEPT ![a].st = s] \in Seq(Entries)
         /\ DOMAIN [q EXCEPT ![a].st = s] = DOMAIN q
         /\ \A b \in DOMAIN q :
              /\ [q EXCEPT ![a].st = s][b].by = q[b].by
              /\ [q EXCEPT ![a].st = s][b].st = IF b = a THEN s ELSE q[b].st
              /\ [q EXCEPT ![a].st = s][b].dropped = q[b].dropped
  <1>1. \A b \in DOMAIN q : q[b] \in Entries
    OBVIOUS
  <1>2. CASE a \in DOMAIN q
    <2>1. [q[a] EXCEPT !.st = s] \in Entries
      BY <1>1, <1>2 DEF Entries
    <2>2. [q EXCEPT ![a].st = s] \in Seq(Entries)
      BY <2>1, <1>2
    <2> QED
      BY <2>2, <1>1, <1>2 DEF Entries
  <1>3. CASE a \notin DOMAIN q
    <2>1. [q EXCEPT ![a].st = s] = q
      BY <1>3
    <2> QED
      BY <2>1, <1>3
  <1> QED
    BY <1>2, <1>3

\* A dropped action is marked and nothing else.
LEMMA DroppedOnly ==
  ASSUME NEW q \in Seq(Entries), NEW a
  PROVE  /\ [q EXCEPT ![a].dropped = TRUE] \in Seq(Entries)
         /\ DOMAIN [q EXCEPT ![a].dropped = TRUE] = DOMAIN q
         /\ \A b \in DOMAIN q :
              /\ [q EXCEPT ![a].dropped = TRUE][b].by = q[b].by
              /\ [q EXCEPT ![a].dropped = TRUE][b].st = q[b].st
              /\ q[b].dropped \/ b = a => [q EXCEPT ![a].dropped = TRUE][b].dropped
  <1>1. \A b \in DOMAIN q : q[b] \in Entries
    OBVIOUS
  <1>2. CASE a \in DOMAIN q
    <2>1. [q[a] EXCEPT !.dropped = TRUE] \in Entries
      BY <1>1, <1>2 DEF Entries
    <2>2. [q EXCEPT ![a].dropped = TRUE] \in Seq(Entries)
      BY <2>1, <1>2
    <2> QED
      BY <2>2, <1>1, <1>2 DEF Entries
  <1>3. CASE a \notin DOMAIN q
    <2>1. [q EXCEPT ![a].dropped = TRUE] = q
      BY <1>3
    <2> QED
      BY <2>1, <1>3
  <1> QED
    BY <1>2, <1>3

LEMMA DispatchType == ASSUME TypeOK, Dispatch PROVE TypeOK'
  <1> USE DEF TypeOK
  <1>1. UNCHANGED << pr, hook, threads, rows, posted, broken >>
    BY DEF Dispatch, Claim, Drop, Acknowledge, Clear, Spawn, Exited, Crash, Janitor, Watcher, answers
  <1>2. queue' \in Seq(Entries)
    <2>1. CASE Exited
      <3> DEFINE s == IF queue[job.act].st = "running" THEN "completed" ELSE queue[job.act].st
      <3>1. queue' = [queue EXCEPT ![job.act].st = s]
        BY <2>1 DEF Exited
      <3>2. CASE job.act \in DOMAIN queue
        <4>1. queue[job.act] \in Entries
          BY <3>2
        <4>2. queue[job.act].st \in Statuses /\ "completed" \in Statuses
          BY <4>1 DEF Entries, Statuses
        <4>3. s \in Statuses
          BY <4>2
        <4> HIDE DEF s
        <4> QED
          BY <3>1, <4>3, StatusOnly
      <3>3. CASE job.act \notin DOMAIN queue
        <4> HIDE DEF s
        <4>1. queue' = queue
          BY <3>1, <3>3
        <4> QED
          BY <4>1
      <3> QED
        BY <3>2, <3>3
    <2>2. CASE Claim \/ \E a \in DOMAIN queue : Janitor(a)
      <3>1. PICK a \in DOMAIN queue : \/ queue' = [queue EXCEPT ![a].st = "failed"]
                                     \/ queue' = [queue EXCEPT ![a].st = "running"]
        BY <2>2, Zenon DEF Claim, Janitor
      <3>2. "failed" \in Statuses /\ "running" \in Statuses
        BY DEF Statuses
      <3>3. /\ [queue EXCEPT ![a].st = "failed"] \in Seq(Entries)
            /\ [queue EXCEPT ![a].st = "running"] \in Seq(Entries)
        BY <3>2, StatusOnly
      <3> QED
        BY <3>1, <3>3
    <2>3. CASE queue' = queue
      BY <2>3
    <2>4. CASE Drop
      BY <2>4, DroppedOnly DEF Drop
    <2> QED
      BY <2>1, <2>2, <2>3, <2>4 DEF Dispatch, Acknowledge, Clear, Spawn, Crash
  <1>3. job' \in Promises
    <2>1. ASSUME Claim PROVE job' \in Promises
      <3>1. PICK a \in DOMAIN queue : job' = job \/ job' = [act |-> a, pc |-> "begin"]
        BY <2>1 DEF Claim
      <3> QED
        BY <3>1 DEF Promises
    <2>2. NoJob \in Promises
      BY DEF NoJob, Promises
    <2> QED
      BY <2>1, <2>2 DEF Dispatch, Drop, Acknowledge, Clear, Spawn, Exited, Crash, Janitor, Promises
  <1>4. box' \in BoxTypes
    <2>1. job.act \in Nat
      BY DEF Promises
    <2>2. [NoBox EXCEPT !.pc = "start", !.act = job.act] \in BoxTypes
      BY <2>1, NoBoxType DEF BoxTypes, Where
    <2> QED
      BY <2>2, NoBoxType DEF Dispatch, Claim, Drop, Acknowledge, Clear, Spawn, Exited, Crash, Janitor
  <1>5. asked' \in [Comments -> [thread : Threads, full : BOOLEAN]]
    <2>1. CASE Acknowledge
      <3>1. CASE asked' = asked
        BY <3>1
      <3>2. CASE asked' # asked
        <4>1. PICK c \in Comments : asked' = [asked EXCEPT ![c].thread = "closed"]
          BY <2>1, <3>2 DEF Acknowledge
        <4>2. [asked[c] EXCEPT !.thread = "closed"] \in [thread : Threads, full : BOOLEAN]
          BY DEF Threads
        <4> QED
          BY <4>1, <4>2
      <3> QED
        BY <3>1, <3>2
    <2>2. CASE asked' = asked
      BY <2>2
    <2> QED
      BY <2>1, <2>2 DEF Dispatch, Claim, Drop, Clear, Spawn, Exited, Crash, Janitor
  <1>6. told' \in SUBSET Nat
    BY DEF Dispatch, Claim, Drop, Acknowledge, Clear, Spawn, Exited, Crash, Janitor, Promises, answers
  <1>7. job'.act \in 0..Len(queue')
    <2>1. Len(queue') = Len(queue)
      <3>1. PICK a, s : \/ queue' = queue \/ queue' = [queue EXCEPT ![a].st = s]
                        \/ queue' = [queue EXCEPT ![a].dropped = TRUE]
        BY Zenon DEF Dispatch, Claim, Drop, Acknowledge, Clear, Spawn, Exited, Crash, Janitor
      <3> QED
        BY <3>1
    <2>2. job'.act \in {0, job.act} \cup DOMAIN queue
      BY DEF Dispatch, Claim, Drop, Acknowledge, Clear, Spawn, Exited, Crash, Janitor, NoJob, Promises
    <2> QED
      BY <2>1, <2>2
  <1> QED
    BY <1>1, <1>2, <1>3, <1>4, <1>5, <1>6, <1>7

LEMMA LeaveType ==
  ASSUME TypeOK, NEW code \in {"exit0", "exit1"}, Leave(code)
  PROVE  box' \in BoxTypes /\ job' \in Promises /\ job'.act = job.act
  BY NoBoxType DEF TypeOK, Leave, Promises

LEMMA ReviewedType == ASSUME TypeOK, Reviewed PROVE box' \in BoxTypes /\ posted' \in SUBSET Nat
  <1>1. PICK list \in Reports, more \in BOOLEAN :
          box' = [box EXCEPT !.list = list, !.ended = pr.head,
                             !.pc = IF list = Nothing /\ ~ more THEN "save" ELSE "threads"]
    BY Zenon DEF Reviewed
  <1>2. pr.head \in Nat /\ box.act \in Nat
    BY DEF TypeOK, BoxTypes
  <1>3. box' \in BoxTypes
    BY <1>1, <1>2 DEF TypeOK, BoxTypes, Where
  <1> QED
    BY <1>2, <1>3 DEF Reviewed, TypeOK

LEMMA CurrentType == TypeOK => CurrentCommit \in Commits \ {<< >>}
  BY DEF TypeOK, CurrentCommit, Commits, BoxTypes

LEMMA TodoType == TypeOK => Reconciled \subseteq SUBSET Writes
  BY DEF TypeOK, Reconciled, Inline, Existing, Detected, Writes

\* The places of the container and what it does there, one field at a time.
LEMMA ContainerType == ASSUME TypeOK, Container PROVE TypeOK'
  <1> USE DEF TypeOK
  <1>1. UNCHANGED << pr, hook, asked, queue >>
    BY Zenon DEF Container, Connect, Route, Checkout, PortDiff, Ladder, Sanity, Full, ReadThreads,
      Write, Written, Save, SaveError, Die, Inside
  <1>2. /\ rows' \subseteq rows \cup {box.act} /\ told' \subseteq told \cup {box.act}
        /\ posted' \subseteq posted \cup {box.act} /\ broken' \subseteq broken \cup {box.act}
    BY DEF Container, Connect, Route, Checkout, PortDiff, Ladder, Sanity, Full, ReadThreads,
      Write, Written, Save, SaveError, Die, Reviewed, answers
  <1>3. box.act \in Nat /\ pr.head \in Nat /\ box.meta \in BOOLEAN
    BY DEF BoxTypes
  <1>4. job' \in Promises /\ job'.act = job.act
    BY LeaveType, Zenon DEF Container, Connect, Route, Checkout, PortDiff, Ladder, Sanity, Full,
      ReadThreads, Write, Written, Save, SaveError, Die
  <1>5. box \in BoxTypes /\ Reconciled \subseteq SUBSET Writes
    BY TodoType
  <1> HIDE DEF TypeOK
  <1>6. ToFull(box) \in BoxTypes
    BY <1>5 DEF ToFull, BoxTypes, Where
  <1>7. box' \in BoxTypes
    <2>1. CASE Connect
      <3>1. PICK db, meta \in BOOLEAN :
              box' = [box EXCEPT !.db = db, !.meta = meta, !.head = pr.head, !.pc = "route"]
        BY <2>1 DEF Connect
      <3> QED
        BY <3>1, <1>3, <1>5 DEF BoxTypes, Where
    <2>2. CASE Route
      <3>1. PICK p \in {"sanity", "full"}, w \in {"checkout", "ladder"} :
              box' = [box EXCEPT !.path = p, !.pc = w]
        BY <2>2 DEF Route, ChooseReviewPath
      <3> QED
        BY <3>1, <1>5 DEF BoxTypes, Where
    <2>3. CASE Checkout
      <3>1. PICK t \in Trees : \/ box' = [box EXCEPT !.tree = t, !.claim = t, !.pc = "diff"]
                              \/ box' = ToFull(box)
        BY <2>3 DEF Checkout, Trees
      <3> QED
        BY <3>1, <1>6, <1>5 DEF BoxTypes, Where
    <2>4. CASE PortDiff
      BY <2>4, <1>6, <1>5 DEF PortDiff, BoxTypes, Where
    <2>5. CASE Ladder
      <3>1. PICK won \in Trees :
              box' = [box EXCEPT !.tree = IF won = "default-branch" THEN @ ELSE won,
                                 !.claim = won, !.pc = "full"]
        BY <2>5 DEF Ladder, Rungs, Trees
      <3> QED
        BY <3>1, <1>5 DEF BoxTypes, Where
    <2>6. CASE Sanity
      BY <2>6, <1>6, ReviewedType DEF Sanity
    <2>7. CASE Full
      <3>1. [box EXCEPT !.pc = "error"] \in BoxTypes
        BY <1>5 DEF BoxTypes, Where
      <3> QED
        BY <2>7, <3>1, ReviewedType DEF Full
    <2>8. CASE ReadThreads
      <3>1. PICK todo \in SUBSET Writes : \/ box' = [box EXCEPT !.todo = todo, !.pc = "write"]
                                         \/ box' = [box EXCEPT !.pc = "save"]
        BY <2>8, <1>5 DEF ReadThreads
      <3> QED
        BY <3>1, <1>5 DEF BoxTypes, Where
    <2>9. CASE Write
      <3>1. PICK x : \/ box' = [box EXCEPT !.todo = @ \ {x}]
                     \/ box' = [box EXCEPT !.todo = @ \ {x}, !.checked = CurrentCommit]
        BY <2>9, Zenon DEF Write, Create
      <3> DEFINE todo == box.todo \ {x}
      <3>2. CurrentCommit \in Commits /\ todo \in SUBSET Writes
        BY CurrentType, <1>5 DEF BoxTypes
      <3>3. \/ box' = [box EXCEPT !.todo = todo]
            \/ box' = [box EXCEPT !.todo = todo, !.checked = CurrentCommit]
        BY <3>1
      <3> HIDE DEF todo
      <3> QED
        BY <3>2, <3>3, <1>5 DEF BoxTypes
    <2>10. CASE Written
      BY <2>10, <1>5 DEF Written, BoxTypes, Where
    <2>11. CASE Save \/ SaveError \/ Die
      BY <2>11, LeaveType DEF Save, SaveError, Die
    <2> QED
      BY <2>1, <2>2, <2>3, <2>4, <2>5, <2>6, <2>7, <2>8, <2>9, <2>10, <2>11 DEF Container
  <1>8. threads' \in [Keys -> Discussions]
    <2>1. CASE threads' = threads
      BY <2>1 DEF TypeOK
    <2>2. CASE Write
      <3>1. \A k \in Keys : threads[k] \in Discussions /\ threads \in [Keys -> Discussions]
        BY DEF TypeOK
      <3>2. \A x \in box.todo : x[2] \in Keys
        BY <1>5 DEF BoxTypes, Writes
      <3>3. \A k \in Keys : /\ [there |-> TRUE, notices |-> 0, fix |-> << >>] \in Discussions
                          /\ [there |-> TRUE, notices |-> 0, fix |-> CurrentCommit] \in Discussions
                          /\ [threads[k] EXCEPT !.notices = @ + 1] \in Discussions
        BY <3>1, CurrentType DEF Discussions, Commits
      <3>4. PICK x \in box.todo :
              \/ threads' = threads
              \/ threads' = [threads EXCEPT ![x[2]] = [there |-> TRUE, notices |-> 0, fix |-> << >>]]
              \/ threads' = [threads EXCEPT ![x[2]] = [there |-> TRUE, notices |-> 0, fix |-> CurrentCommit]]
              \/ threads' = [threads EXCEPT ![x[2]].notices = @ + 1]
        BY <2>2, Zenon DEF Write, Create
      <3> QED
        BY <3>1, <3>2, <3>3, <3>4
    <2> QED
      BY <2>1, <2>2 DEF Container, Connect, Route, Checkout, PortDiff, Ladder, Sanity, Full,
        ReadThreads, Written, Save, SaveError, Die
  <1> QED
    BY <1>1, <1>2, <1>3, <1>4, <1>7, <1>8 DEF TypeOK

LEMMA TypeStep == ASSUME TypeOK, [Next]_vars PROVE TypeOK'
  <1>1. CASE UNCHANGED vars
    BY <1>1 DEF vars, answers, TypeOK
  <1> QED
    BY <1>1, WorldType, RequestsType, DispatchType, ContainerType DEF Next

\* Every variable of a review keeps to its values.
THEOREM ReviewTypes == Spec => []TypeOK
  <1>1. TypeOK /\ [Next]_vars => TypeOK'
    BY TypeStep
  <1> QED
    BY InitType, <1>1, PTL DEF Spec

-----------------------------------------------------------------------------
(* One review for one trigger.  A handler between its look and its insert    *)
(* holds the lock of its scope, and nobody else can queue what it looked for.*)

Conflict(t, u) == u = t \/ (t \notin Comments /\ u \notin Comments)

LockApart ==
  \A d, e \in Deliveries :
    d # e /\ hook[d] = "locked" /\ hook[e] = "locked" => LockName(d[1]) # LockName(e[1])

LookHolds ==
  \A d \in Deliveries : hook[d] = "locked" =>
    \A a \in DOMAIN queue : ~ Conflict(d[1], queue[a].by)

QueuedApart ==
  \A a, b \in DOMAIN queue : a # b => ~ Conflict(queue[a].by, queue[b].by)

QueueInv == LockApart /\ LookHolds /\ QueuedApart

\* A step that takes no lock and queues nothing.
LEMMA NothingQueued ==
  ASSUME QueueInv, DOMAIN queue' = DOMAIN queue,
         \A a \in DOMAIN queue : queue'[a].by = queue[a].by,
         \A d \in Deliveries : hook'[d] = "locked" => hook[d] = "locked"
  PROVE  QueueInv'
  BY DEF QueueInv, LockApart, LookHolds, QueuedApart, LockName, Conflict

LEMMA SentNotLocked ==
  ASSUME TypeOK, NEW t, Send(t)
  PROVE  \A d \in Deliveries : hook'[d] = "locked" => hook[d] = "locked"
  BY DEF TypeOK, Send

LEMMA WorldQueue == ASSUME TypeOK, QueueInv, World PROVE QueueInv'
  <1>1. queue' = queue
    BY DEF World, Open, Publish, BackToDraft, Push, Ask, Reply, Redeliver, People
  <1>2. \A d \in Deliveries : hook'[d] = "locked" => hook[d] = "locked"
    <2>1. CASE \E t : Send(t)
      BY <2>1, SentNotLocked
    <2>2. CASE \E t \in Triggers : Redeliver(t)
      BY <2>2 DEF Redeliver, TypeOK
    <2>3. CASE hook' = hook
      BY <2>3
    <2> QED
      BY <2>1, <2>2, <2>3 DEF World, Open, Publish, BackToDraft, Push, Ask, Reply
  <1> QED
    BY <1>1, <1>2, NothingQueued

LEMMA LookQueue == ASSUME TypeOK, QueueInv, NEW d \in Deliveries, Look(d) PROVE QueueInv'
  <1>1. queue' = queue /\ \A e \in Deliveries \ {d} : hook'[e] = hook[e]
    BY DEF Look, TypeOK
  <1>2. CASE \E a \in DOMAIN queue : SameScope(d[1], queue[a].by)
    BY <1>1, <1>2, NothingQueued DEF Look, TypeOK
  <1>3. CASE \A a \in DOMAIN queue : ~ SameScope(d[1], queue[a].by)
    <2>1. \A e \in Deliveries \ {d} : hook[e] = "locked" => LockName(e[1]) # LockName(d[1])
      BY DEF Look, LockFree
    <2>2. LockApart'
      BY <1>1, <2>1 DEF QueueInv, LockApart
    <2>3. \A a \in DOMAIN queue : ~ Conflict(d[1], queue[a].by)
      <3> SUFFICES ASSUME NEW a \in DOMAIN queue, Conflict(d[1], queue[a].by) PROVE FALSE
        OBVIOUS
      <3>1. queue[a] \in Entries
        BY DEF TypeOK
      <3>2. queue[a].by \in Triggers
        BY <3>1 DEF Entries
      <3>3. ~ SameScope(d[1], queue[a].by)
        BY <1>3
      <3> QED
        BY <3>2, <3>3 DEF SameScope, Conflict
    <2>4. LookHolds'
      BY <1>1, <2>3 DEF QueueInv, LookHolds, Conflict
    <2>5. QueuedApart'
      BY <1>1 DEF QueueInv, QueuedApart, Conflict
    <2> QED
      BY <2>2, <2>4, <2>5 DEF QueueInv
  <1> QED
    BY <1>2, <1>3

LEMMA InsertQueue == ASSUME TypeOK, QueueInv, NEW d \in Deliveries, Insert(d) PROVE QueueInv'
  <1> DEFINE x == [by |-> d[1], st |-> "pending", full |-> d[1] \in Comments /\ asked[d[1]].full,
                   dropped |-> FALSE]
  <1>1. queue' = Append(queue, x) /\ x.by = d[1] /\ hook[d] = "locked"
    BY DEF Insert
  <1> HIDE DEF x
  <1>2. /\ DOMAIN queue' = DOMAIN queue \cup {Len(queue) + 1} /\ Len(queue) + 1 \notin DOMAIN queue
        /\ \A a \in DOMAIN queue : queue'[a] = queue[a]
        /\ queue'[Len(queue) + 1] = x
    BY <1>1 DEF TypeOK
  <1>3. \A e \in Deliveries : hook'[e] = "locked" => hook[e] = "locked" /\ e # d
    BY DEF Insert, TypeOK
  <1>4. LockApart'
    BY <1>3 DEF QueueInv, LockApart
  <1>5. LookHolds'
    <2> SUFFICES ASSUME NEW e \in Deliveries, hook'[e] = "locked", NEW a \in DOMAIN queue'
                 PROVE  ~ Conflict(e[1], queue'[a].by)
      BY DEF LookHolds, Conflict
    <2>1. CASE a \in DOMAIN queue
      BY <1>2, <1>3, <2>1 DEF QueueInv, LookHolds
    <2>2. CASE a = Len(queue) + 1
      <3>1. LockName(e[1]) # LockName(d[1])
        BY <1>1, <1>3 DEF QueueInv, LockApart
      <3>2. queue'[a].by = d[1]
        BY <1>1, <1>2, <2>2
      <3> QED
        BY <3>1, <3>2 DEF LockName, Conflict
    <2> QED
      BY <1>2, <2>1, <2>2
  <1>6. QueuedApart'
    <2>1. \A a \in DOMAIN queue : ~ Conflict(d[1], queue[a].by) /\ ~ Conflict(queue[a].by, d[1])
      BY <1>1 DEF QueueInv, LookHolds, Conflict
    <2>2. \A a, b \in DOMAIN queue : a # b => ~ Conflict(queue[a].by, queue[b].by)
      BY DEF QueueInv, QueuedApart
    <2> SUFFICES ASSUME NEW a \in DOMAIN queue', NEW b \in DOMAIN queue', a # b
                 PROVE  ~ Conflict(queue'[a].by, queue'[b].by)
      BY DEF QueuedApart, Conflict
    <2> QED
      BY <1>1, <1>2, <2>1, <2>2
  <1> QED
    BY <1>4, <1>5, <1>6 DEF QueueInv

LEMMA DispatchQueue == ASSUME TypeOK, QueueInv, Dispatch PROVE QueueInv'
  <1>1. hook' = hook
    BY DEF Dispatch, Claim, Drop, Acknowledge, Clear, Spawn, Exited, Crash, Janitor, Watcher
  <1>2. PICK a, s : \/ queue' = queue \/ queue' = [queue EXCEPT ![a].st = s]
                    \/ queue' = [queue EXCEPT ![a].dropped = TRUE]
    BY Zenon DEF Dispatch, Claim, Drop, Acknowledge, Clear, Spawn, Exited, Crash, Janitor, Watcher
  <1>3. DOMAIN queue' = DOMAIN queue /\ \A b \in DOMAIN queue : queue'[b].by = queue[b].by
    <2>1. \A b \in DOMAIN queue : queue[b] \in Entries
      BY DEF TypeOK
    <2> QED
      BY <1>2, <2>1 DEF Entries
  <1> QED
    BY <1>1, <1>3, NothingQueued

LEMMA QueueStep == ASSUME TypeOK, QueueInv, [Next]_vars PROVE QueueInv'
  <1>1. CASE Container
    <2>1. UNCHANGED << hook, queue >>
      BY <1>1, Zenon DEF Container, Connect, Route, Checkout, PortDiff, Ladder, Sanity, Full,
        ReadThreads, Write, Written, Save, SaveError, Die, Inside
    <2> QED
      BY <2>1, NothingQueued
  <1>2. CASE Requests
    <2>1. ASSUME NEW d \in Deliveries, Refuse(d) PROVE QueueInv'
      BY <2>1, NothingQueued DEF Refuse, TypeOK
    <2> QED
      BY <1>2, <2>1, LookQueue, InsertQueue DEF Requests
  <1>3. CASE UNCHANGED vars
    BY <1>3, NothingQueued DEF vars
  <1> QED
    BY <1>1, <1>2, <1>3, WorldQueue, DispatchQueue DEF Next

\* One comment queues one review, and the creation and the publications of a pull request
\* queue one between them, however often and in whatever order the webhooks are delivered
\* and handled.
THEOREM OneReviewPerTrigger ==
  ASSUME Comments \cap {"created", "published"} = {}
  PROVE  Spec => []ReviewsQueuedOnce
  <1>1. Init => QueueInv
    BY DEF Init, QueueInv, LockApart, LookHolds, QueuedApart
  <1>2. TypeOK /\ QueueInv /\ [Next]_vars => QueueInv'
    BY QueueStep
  <1>3. QueueInv => ReviewsQueuedOnce
    BY DEF QueueInv, QueuedApart, ReviewsQueuedOnce, Automatic, Conflict
  <1> QED
    BY <1>1, <1>2, <1>3, ReviewTypes, PTL DEF Spec

-----------------------------------------------------------------------------
(* Nobody is left without an answer.  The summary is posted before the       *)
(* threads, the row and the exit; a full reviewer that failed leaves through *)
(* the catch; a container that leaves otherwise leaves with exit code 1,     *)
(* and the watcher then asks for the row.  A dropped action is marked.       *)

Dropped(a) == a \in DOMAIN queue /\ queue[a].dropped
Heard(a)   == a \in rows \cup told \cup posted \/ Dropped(a)

RowsExplained == rows \ posted \subseteq broken

BoxExplained ==
  /\ box.pc \in {"threads", "write", "save"} => box.act \in posted
  /\ box.pc = "error" => box.act \in broken

ExitExplained == job.pc = "exit0" /\ job.act # 0 => Heard(job.act)

CompletedHeard == \A a \in DOMAIN queue : queue[a].st = "completed" => Heard(a)

TellInv == RowsExplained /\ BoxExplained /\ ExitExplained /\ CompletedHeard

\* A step that takes back no answer or mark, writes no row, and leaves container, promise and
\* statuses as they are or explained.
LEMMA StillTold ==
  ASSUME TellInv, rows' = rows, posted \subseteq posted', told \subseteq told', broken \subseteq broken',
         box' = box \/ BoxExplained', job' = job \/ job'.pc # "exit0",
         DOMAIN queue' = DOMAIN queue,
         \A a \in DOMAIN queue : /\ queue'[a].st = "completed" => queue[a].st = "completed"
                                 /\ queue[a].dropped => queue'[a].dropped
  PROVE  TellInv'
  <1>1. \A a : Heard(a) => Heard(a)'
    BY DEF Heard, Dropped
  <1> QED
    BY <1>1 DEF TellInv, RowsExplained, BoxExplained, ExitExplained, CompletedHeard

LEMMA InsertTell == ASSUME TypeOK, TellInv, NEW d \in Deliveries, Insert(d) PROVE TellInv'
  <1> DEFINE x == [by |-> d[1], st |-> "pending", full |-> d[1] \in Comments /\ asked[d[1]].full,
                   dropped |-> FALSE]
  <1>1. queue' = Append(queue, x) /\ x.st = "pending"
    BY DEF Insert
  <1>2. UNCHANGED << job, box, rows, told, posted, broken >>
    BY DEF Insert, Server, answers
  <1> HIDE DEF x
  <1>3. \A a : Heard(a) => Heard(a)'
    BY <1>1, <1>2 DEF TypeOK, Heard, Dropped
  <1>4. CompletedHeard'
    BY <1>1, <1>2, <1>3 DEF TypeOK, TellInv, CompletedHeard
  <1> QED
    BY <1>2, <1>3, <1>4 DEF TellInv, RowsExplained, BoxExplained, ExitExplained

LEMMA ExitedTell == ASSUME TypeOK, TellInv, Exited PROVE TellInv'
  <1>1. UNCHANGED << box, rows, posted, broken >> /\ job' = NoJob /\ told \subseteq told'
    BY DEF Exited, Watcher
  <1>2. /\ DOMAIN queue' = DOMAIN queue
        /\ \A a \in DOMAIN queue :
             /\ queue'[a].st = "completed" => a = job.act \/ queue[a].st = "completed"
             /\ queue'[a].dropped = queue[a].dropped
    <2>1. \A a \in DOMAIN queue : queue[a] \in Entries
      BY DEF TypeOK
    <2> DEFINE s == IF queue[job.act].st = "running" THEN "completed" ELSE queue[job.act].st
    <2>2. queue' = [queue EXCEPT ![job.act].st = s]
      BY DEF Exited
    <2> HIDE DEF s
    <2> QED
      BY <2>1, <2>2 DEF Entries
  <1>3. \A a : Heard(a) => Heard(a)'
    BY <1>1, <1>2 DEF Heard, Dropped
  <1>4. ASSUME NEW a, a = job.act, a # 0 PROVE Heard(a)'
    <2>1. CASE job.pc = "exit0"
      BY <1>3, <1>4, <2>1 DEF TellInv, ExitExplained
    <2>2. CASE job.pc = "exit1"
      BY <1>4, <2>2 DEF Exited, HasRow, Watcher, Heard
    <2> QED
      BY <2>1, <2>2 DEF Exited
  <1>5. CompletedHeard'
    BY <1>1, <1>2, <1>3, <1>4 DEF TellInv, CompletedHeard, TypeOK
  <1> QED
    BY <1>1, <1>5 DEF TellInv, RowsExplained, BoxExplained, ExitExplained, NoJob

LEMMA DropTell == ASSUME TypeOK, TellInv, Drop PROVE TellInv'
  <1>1. UNCHANGED << box, rows, told, posted, broken >> /\ job' = [job EXCEPT !.pc = "exit0"]
    BY DEF Drop, Watcher
  <1>2. /\ DOMAIN queue' = DOMAIN queue
        /\ \A a \in DOMAIN queue : /\ queue'[a].st = queue[a].st
                                   /\ queue[a].dropped \/ a = job.act => queue'[a].dropped
    BY DroppedOnly DEF Drop, TypeOK
  <1>3. \A a : Heard(a) => Heard(a)'
    BY <1>1, <1>2 DEF Heard, Dropped
  <1>4. (job.act # 0 => Heard(job.act)') /\ job'.act = job.act
    BY <1>1, <1>2 DEF Heard, Dropped, TypeOK, Promises
  <1>5. CompletedHeard'
    BY <1>2, <1>3 DEF TellInv, CompletedHeard
  <1> QED
    BY <1>1, <1>4, <1>5 DEF TellInv, RowsExplained, BoxExplained, ExitExplained, Heard

LEMMA DispatchTell == ASSUME TypeOK, TellInv, Dispatch PROVE TellInv'
  <1>1. CASE Exited
    BY <1>1, ExitedTell
  <1>2. CASE Drop
    BY <1>2, DropTell, Zenon
  <1>3. CASE Dispatch /\ ~ Exited /\ ~ Drop
    <2>1. UNCHANGED << rows, posted, broken >> /\ told' = told
      BY <1>3 DEF Dispatch, Claim, Drop, Acknowledge, Clear, Spawn, Crash, Janitor, Watcher, answers
    <2>2. box' = box \/ BoxExplained'
      <3>1. NoBox.pc = "off" /\ [NoBox EXCEPT !.pc = "start", !.act = job.act].pc = "start"
        BY DEF NoBox
      <3>2. \/ box' = box \/ box' = NoBox
            \/ box' = [NoBox EXCEPT !.pc = "start", !.act = job.act]
        BY <1>3, Zenon DEF Dispatch, Claim, Drop, Acknowledge, Clear, Spawn, Crash, Janitor
      <3> QED
        BY <3>1, <3>2 DEF BoxExplained
    <2>3. job' = job \/ job'.pc # "exit0"
      BY <1>3 DEF Dispatch, Claim, Drop, Acknowledge, Clear, Spawn, Crash, Janitor, NoJob, TypeOK, Promises
    <2>4. /\ DOMAIN queue' = DOMAIN queue
          /\ \A a \in DOMAIN queue : /\ queue'[a].st = "completed" => queue[a].st = "completed"
                                     /\ queue[a].dropped => queue'[a].dropped
      <3>1. \A a \in DOMAIN queue : queue[a] \in Entries
        BY DEF TypeOK
      <3>2. PICK b : \/ queue' = queue \/ queue' = [queue EXCEPT ![b].st = "failed"]
                     \/ queue' = [queue EXCEPT ![b].st = "running"]
        BY <1>3, Zenon DEF Dispatch, Claim, Drop, Acknowledge, Clear, Spawn, Crash, Janitor
      <3> QED
        BY <3>1, <3>2 DEF Entries
    <2> QED
      BY <2>1, <2>2, <2>3, <2>4, StillTold
  <1> QED
    BY <1>1, <1>2, <1>3

\* The process ends with this exit code, having told what the code promises.
LEMMA LeaveTell ==
  ASSUME TypeOK, TellInv, NEW code \in {"exit0", "exit1"}, Leave(code), queue' = queue,
         code = "exit0" => box.act \in posted,
         posted' = posted, broken' = broken, told \subseteq told',
         \/ rows' = rows
         \/ rows' = rows \cup {box.act} /\ box.act \in posted \cup broken
  PROVE  TellInv'
  <1>1. rows \subseteq rows'
    OBVIOUS
  <1>2. BoxExplained'
    BY DEF Leave, NoBox, BoxExplained
  <1>3. ExitExplained'
    BY <1>1 DEF Leave, TellInv, ExitExplained, Heard, Dropped, TypeOK, Promises
  <1>4. CompletedHeard' /\ RowsExplained'
    BY <1>1 DEF TellInv, CompletedHeard, RowsExplained, Heard, Dropped
  <1> QED
    BY <1>2, <1>3, <1>4 DEF TellInv

\* The posted summary is in before the container goes on.
LEMMA ReviewedTell == ASSUME TypeOK, TellInv, Reviewed, job' = job, queue' = queue PROVE TellInv'
  <1>1. posted' = posted \cup {box.act} /\ rows' = rows /\ told' = told /\ broken' = broken
    BY DEF Reviewed
  <1>2. box'.act = box.act /\ box'.pc \in {"save", "threads"}
    BY DEF Reviewed, TypeOK, BoxTypes
  <1>3. BoxExplained'
    BY <1>1, <1>2 DEF BoxExplained
  <1> QED
    BY <1>1, <1>3, StillTold

LEMMA ContainerTell == ASSUME TypeOK, TellInv, Container PROVE TellInv'
  <1>1. queue' = queue
    BY Zenon DEF Container, Connect, Route, Checkout, PortDiff, Ladder, Sanity, Full, ReadThreads,
      Write, Written, Save, SaveError, Die, Inside
  <1>2. box \in BoxTypes
    BY DEF TypeOK
  <1>3. CASE Connect \/ Route \/ Checkout \/ PortDiff \/ Ladder
    <2>1. UNCHANGED << job, answers >>
      BY <1>3 DEF Connect, Route, Checkout, PortDiff, Ladder
    <2>2. box'.pc \in {"route", "checkout", "ladder", "diff", "sanity", "full"}
      BY <1>2, <1>3 DEF Connect, Route, Checkout, PortDiff, Ladder, ToFull, BoxTypes
    <2> QED
      BY <1>1, <2>1, <2>2, StillTold DEF BoxExplained, answers
  <1>4. CASE Sanity \/ Full
    <2>1. CASE Reviewed
      BY <1>1, <1>4, <2>1, ReviewedTell DEF Sanity, Full
    <2>2. CASE box' = ToFull(box) /\ UNCHANGED answers
      <3>1. box'.pc = "ladder"
        BY <1>2, <2>2 DEF ToFull, BoxTypes
      <3> QED
        BY <1>1, <1>4, <2>2, <3>1, StillTold DEF BoxExplained, answers, Sanity, Full
    <2>3. CASE box' = [box EXCEPT !.pc = "error"] /\ broken' = broken \cup {box.act}
               /\ UNCHANGED << rows, told, posted >>
      <3>1. box'.pc = "error" /\ box'.act = box.act
        BY <1>2, <2>3 DEF BoxTypes
      <3> QED
        BY <1>1, <1>4, <2>3, <3>1, StillTold DEF BoxExplained, Sanity, Full
    <2> QED
      BY <1>4, <2>1, <2>2, <2>3 DEF Sanity, Full
  <1>5. CASE ReadThreads \/ Write \/ Written
    <2>1. UNCHANGED << job, answers >>
      BY <1>5 DEF ReadThreads, Write, Written
    <2>2. box.act \in posted
      BY <1>5 DEF ReadThreads, Write, Written, TellInv, BoxExplained
    <2>3. box'.act = box.act /\ box'.pc # "error"
      BY <1>2, <1>5 DEF ReadThreads, Write, Written, Create, BoxTypes
    <2> QED
      BY <1>1, <2>1, <2>2, <2>3, StillTold DEF BoxExplained, answers
  <1>6. CASE Save
    <2>1. box.act \in posted
      BY <1>6 DEF Save, TellInv, BoxExplained
    <2> QED
      BY <1>1, <1>6, <2>1, LeaveTell DEF Save
  <1>7. CASE SaveError
    <2>1. box.act \in broken
      BY <1>7 DEF SaveError, TellInv, BoxExplained
    <2> QED
      BY <1>1, <1>7, <2>1, LeaveTell DEF SaveError
  <1>8. CASE Die
    <2>1. /\ Leave("exit1") /\ "exit1" \in {"exit0", "exit1"} /\ "exit1" # "exit0"
          /\ rows' = rows /\ posted' = posted /\ broken' = broken /\ told \subseteq told'
      BY <1>8 DEF Die, answers
    <2> QED
      BY <1>1, <2>1, LeaveTell
  <1> QED
    BY <1>3, <1>4, <1>5, <1>6, <1>7, <1>8 DEF Container

LEMMA TellStep == ASSUME TypeOK, TellInv, [Next]_vars PROVE TellInv'
  <1>1. CASE World
    BY <1>1, StillTold DEF World, Open, Publish, BackToDraft, Push, Ask, Reply, Redeliver, People, answers
  <1>2. CASE Requests
    <2>1. ASSUME NEW d \in Deliveries, Refuse(d) \/ Look(d) PROVE TellInv'
      BY <2>1, StillTold DEF Refuse, Look, Server, answers
    <2> QED
      BY <1>2, <2>1, InsertTell DEF Requests
  <1>3. CASE UNCHANGED vars
    BY <1>3, StillTold DEF vars, answers
  <1> QED
    BY <1>1, <1>2, <1>3, DispatchTell, ContainerTell DEF Next

\* No review that was started ends in silence: unless the action was dropped before anything
\* was started, because of its payload or an unknown repository, it is completed only when
\* there is a summary, a row or a notification of it, whatever crashes, is redelivered or
\* refuses; and only a full reviewer that failed leaves a row without a summary.
THEOREM NobodyLeftWaiting == Spec => []NeverSilent
  <1>1. Init => TellInv
    BY DEF Init, TellInv, RowsExplained, BoxExplained, ExitExplained, CompletedHeard, NoBox, NoJob
  <1>2. TypeOK /\ TellInv /\ [Next]_vars => TellInv'
    BY TellStep
  <1>3. TellInv => NeverSilent
    BY DEF TellInv, RowsExplained, CompletedHeard, Heard, Dropped, NeverSilent
  <1> QED
    BY <1>1, <1>2, <1>3, ReviewTypes, PTL DEF Spec

-----------------------------------------------------------------------------
(* The tree and the suggestions.  A claim is made in the step that checks    *)
(* out; the head only moves on, and the commit a suggestion is checked       *)
(* against is read after the agent has ended.                                *)

ClaimInv == box.claim \in {box.tree, "default-branch"}

FixInv ==
  /\ box.ended <= pr.head
  /\ box.pc \in {"write", "save"} \/ box.checked = << >>
  /\ box.checked # << >> => box.checked[1] >= box.ended

BoxInv == ClaimInv /\ FixInv

LEMMA ContainerBox == ASSUME TypeOK, BoxInv, Container PROVE BoxInv'
  <1>1. pr' = pr
    BY Zenon DEF Container, Connect, Route, Checkout, PortDiff, Ladder, Sanity, Full, ReadThreads,
      Write, Written, Save, SaveError, Die, Inside
  <1>2. box \in BoxTypes /\ pr.head \in Nat
    BY DEF TypeOK
  <1>3. CASE Connect \/ Route \/ PortDiff \/ ReadThreads
    <2>1. /\ UNCHANGED << box.tree, box.claim, box.ended, box.checked >>
          /\ box.checked = << >>
      BY <1>2, <1>3 DEF Connect, Route, PortDiff, ReadThreads, ToFull, BoxTypes, BoxInv, FixInv
    <2> QED
      BY <1>1, <2>1 DEF BoxInv, ClaimInv, FixInv
  <1>4. CASE Checkout \/ Ladder
    <2>1. UNCHANGED << box.ended, box.checked >> /\ box.checked = << >>
      BY <1>2, <1>4 DEF Checkout, Ladder, ToFull, BoxTypes, BoxInv, FixInv
    <2>2. ClaimInv'
      BY <1>2, <1>4 DEF Checkout, Ladder, Rungs, ToFull, BoxTypes, BoxInv, ClaimInv
    <2> QED
      BY <1>1, <2>1, <2>2 DEF BoxInv, FixInv
  <1>5. CASE Sanity \/ Full
    <2>1. UNCHANGED << box.tree, box.claim, box.checked >> /\ box'.ended \in {box.ended, pr.head}
          /\ box.checked = << >>
      BY <1>2, <1>5 DEF Sanity, Full, Reviewed, ToFull, BoxTypes, BoxInv, FixInv
    <2> QED
      BY <1>1, <1>2, <2>1 DEF BoxInv, ClaimInv, FixInv
  <1>6. CASE Write \/ Written
    <2>1. /\ UNCHANGED << box.tree, box.claim, box.ended >> /\ box'.checked \in {box.checked, CurrentCommit}
          /\ box'.pc \in {"write", "save"}
      BY <1>2, <1>6 DEF Write, Written, Create, BoxTypes
    <2> QED
      BY <1>1, <1>2, <2>1 DEF BoxInv, ClaimInv, FixInv, CurrentCommit
  <1>7. CASE Save \/ SaveError \/ Die
    BY <1>1, <1>2, <1>7 DEF Save, SaveError, Die, Leave, NoBox, BoxInv, ClaimInv, FixInv
  <1> QED
    BY <1>3, <1>4, <1>5, <1>6, <1>7 DEF Container

LEMMA BoxStep == ASSUME TypeOK, BoxInv, [Next]_vars PROVE BoxInv'
  <1>1. CASE World
    <2>1. box' = box
      BY <1>1 DEF World, Open, Publish, BackToDraft, Push, Ask, Reply, Redeliver, People
    <2>2. box.ended \in Nat /\ pr.head \in Nat
      BY DEF TypeOK, BoxTypes
    <2>3. pr'.head \in {pr.head, pr.head + 1}
      BY <1>1 DEF World, Open, Publish, BackToDraft, Push, Ask, Reply, Redeliver, TypeOK
    <2> QED
      BY <2>1, <2>2, <2>3 DEF BoxInv, ClaimInv, FixInv
  <1>2. CASE Dispatch
    <2>1. pr' = pr /\ pr.head \in Nat
      BY <1>2 DEF Dispatch, Claim, Drop, Acknowledge, Clear, Spawn, Exited, Crash, Janitor, Watcher, TypeOK
    <2>2. \/ box' = box \/ box' = NoBox
          \/ box' = [NoBox EXCEPT !.pc = "start", !.act = job.act]
      BY <1>2, Zenon DEF Dispatch, Claim, Drop, Acknowledge, Clear, Spawn, Exited, Crash, Janitor
    <2>3. NoBox.claim = "default-branch" /\ NoBox.ended = 0 /\ NoBox.checked = << >>
      BY DEF NoBox
    <2>4. CASE box' = box
      BY <2>1, <2>4 DEF BoxInv, ClaimInv, FixInv
    <2>5. CASE box' # box
      <3>1. box'.claim = "default-branch" /\ box'.ended = 0 /\ box'.checked = << >>
        BY <2>2, <2>3, <2>5, NoBoxType DEF BoxTypes
      <3> QED
        BY <2>1, <3>1 DEF BoxInv, ClaimInv, FixInv
    <2> QED
      BY <2>4, <2>5
  <1>3. CASE Requests \/ UNCHANGED vars
    BY <1>3 DEF Requests, Refuse, Look, Insert, Server, vars, BoxInv, ClaimInv, FixInv
  <1> QED
    BY <1>1, <1>2, <1>3, ContainerBox DEF Next

LEMMA BoxAlways == Spec => []BoxInv
  <1>1. Init => BoxInv
    BY DEF Init, BoxInv, ClaimInv, FixInv, NoBox
  <1>2. TypeOK /\ BoxInv /\ [Next]_vars => BoxInv'
    BY BoxStep
  <1> QED
    BY <1>1, <1>2, ReviewTypes, PTL DEF Spec

\* The prompt and the row name the tree the agents read, or the default branch when nothing
\* better landed.
THEOREM TreeNeverOverstated == Spec => []TreeClaimTrue
  <1>1. BoxInv => TreeClaimTrue
    BY DEF BoxInv, ClaimInv, TreeClaimTrue
  <1> QED
    BY <1>1, BoxAlways, PTL

LEMMA FixStep == ASSUME TypeOK, BoxInv, [Next]_vars PROVE FixCurrent
  <1>1. CASE threads' = threads
    BY <1>1 DEF FixCurrent
  <1>2. CASE \E k \in Keys : Reply(k)
    BY <1>2 DEF Reply, TypeOK, FixCurrent
  <1>3. CASE Write
    <2> SUFFICES ASSUME NEW k \in Keys, threads'[k].fix # threads[k].fix, threads'[k].fix # << >>
                 PROVE  threads'[k].fix[1] >= box.ended
      BY DEF FixCurrent
    <2>1. PICK x \in box.todo :
            \/ threads' = threads
            \/ threads' = [threads EXCEPT ![x[2]] = [there |-> TRUE, notices |-> 0, fix |-> << >>]]
            \/ threads' = [threads EXCEPT ![x[2]] = [there |-> TRUE, notices |-> 0, fix |-> CurrentCommit]]
            \/ threads' = [threads EXCEPT ![x[2]].notices = @ + 1]
      BY <1>3, Zenon DEF Write, Create
    <2>2. threads \in [Keys -> Discussions] /\ threads[k] \in Discussions
      BY DEF TypeOK
    <2>3. threads'[k].fix = CurrentCommit
      BY <2>1, <2>2 DEF Discussions
    <2> QED
      BY <2>3 DEF CurrentCommit, BoxInv, FixInv, TypeOK, BoxTypes
  <1> QED
    BY <1>1, <1>2, <1>3, Zenon DEF Next, World, Requests, Dispatch, Container, vars,
      Open, Publish, BackToDraft, Push, Ask, Redeliver, Refuse, Look, Insert, Server,
      Claim, Drop, Acknowledge, Clear, Spawn, Exited, Crash, Janitor, Watcher,
      Connect, Route, Checkout, PortDiff, Ladder, Sanity, Full, ReadThreads, Written,
      Save, SaveError, Die

\* Whatever is pushed while the agent reads or while threads are written, a suggestion is
\* put on the pull request only after it matched a commit as recent as the agent's end.
THEOREM SuggestionsMatchTheirCommit == Spec => SuggestionsCurrent
  <1>1. TypeOK /\ BoxInv /\ [Next]_vars => [FixCurrent]_vars
    BY FixStep
  <1> QED
    BY <1>1, BoxAlways, ReviewTypes, PTL DEF Spec, SuggestionsCurrent
=============================================================================
