----------------------------- MODULE FleetProps -----------------------------
(***************************************************************************)
(* What the watcher promises for all its items together.                   *)
(***************************************************************************)
EXTENDS Fleet

FleetTypeOK ==
  /\ row \in [Items -> Rows]
  /\ tags \in [Items -> SUBSET TagNames]
  /\ note \in [Items -> BOOLEAN] /\ merged \in [Items -> BOOLEAN]
  /\ box \in [Items -> Boxes]
  /\ \A a \in ActionIds :
       /\ queue[a].status \in Statuses /\ queue[a].type \in ActionTypes
       /\ queue[a].status # "unused" => queue[a].item \in Items
       /\ queue[a].duplicate \in BOOLEAN
  /\ loop \in {"down", "reap", "actions", "poll", "apply", "cleanup"}
  /\ todo \subseteq Items
  /\ jobs \subseteq Jobs
  /\ limit \in Limits
  /\ begun \in [ActionIds -> Nat]

\* A container of this watcher is awaited by one job, and the pool counts it
\* (watch.ts:702, action-processor.ts:149): no container runs beside the pool, and no two
\* for one item.  An item that carries both start tags is excepted (work-detector.ts:399).
Supervised ==
  dual \/ \A i \in Items :
    /\ box[i].on # "no" /\ box[i].mine =>
         running[i] # Free /\ \E j \in jobs : j.item = i /\ j.pc = "wait"
    /\ Cardinality({ j \in jobs : j.item = i /\ j.cmd # "env" }) <= 1

\* The pool and the containers never grow beyond the limit that holds when a job starts
\* (watch.ts:718, action-processor.ts:111), and env- actions and the containers of an
\* earlier watcher do not hide growth.
Load == Cardinality(Busy \cup { i \in Items : box[i].on # "no" /\ box[i].mine })
PoolRespected == [][dual \/ Load' <= Load \/ Load' <= limit]_vars

\* An action's body (executeAction, action-processor.ts:165) runs at most once.  None ran for an
\* action still queued or failed as a duplicate (:140-153), nor will one.  `completed` comes
\* after the one run has ended; a force-poll (:120) has no body.  Crashes, the janitor and the
\* queue change none of it.
ActionRunsOnce ==
  \A a \in ActionIds :
    LET idle == ~ \E j \in jobs : j.act = a
        st == queue[a].status
    IN  /\ begun[a] <= 1
        /\ st \in {"unused", "pending"} \/ queue[a].duplicate => begun[a] = 0 /\ idle
        /\ st = "completed" => idle /\ (begun[a] = 1 \/ queue[a].type = "force-poll")
        /\ queue[a].duplicate => st = "failed"
        /\ Cardinality({ j \in jobs : j.act = a }) <= 1

\* The outcome shown for an action is final (pg-action-store.ts:81-113): a job that ends
\* after the janitor gave it up does not turn its failure into a success.
OutcomeFinal ==
  [][\A a \in ActionIds : queue[a].status \in {"completed", "failed"} =>
       queue'[a].status = queue[a].status]_vars

-----------------------------------------------------------------------------
\* Every action a human queues is settled, whatever crashes and whoever holds the pool.
ActionsSettle ==
  \A a \in ActionIds :
    (queue[a].status = "pending") ~> (queue[a].status \in {"completed", "failed"})

\* The analyse tag (README: "tag a work item with analyse") is taken up: the run starts,
\* is refused because a pull request is open, or the tag goes with an escalated failure.
AnalyseHeeded ==
  \A i \in Items : ("analyse" \in tags[i]) ~> ("analyse" \notin tags[i])
=============================================================================
