------------------------------ MODULE Registry ------------------------------
(***************************************************************************)
(* The registry of repositories: a table that admins edit through the      *)
(* dashboard (src/dashboard/admin-api.ts), that every process seeds from   *)
(* the overlay manifest while it is empty (src/config/seed.ts), and that   *)
(* every process copies into memory (src/config/hydrate.ts and             *)
(* hydrate-startup.ts).  The companions and the settings have the same     *)
(* transactions; the companions have the same seed and the same copy, over *)
(* built-in Defaults that no copy removes.                                 *)
(*                                                                         *)
(* A configuration is a value: "manifest" for the one the manifest gives,  *)
(* or one of Values.  Requests run at READ COMMITTED: a row lock is held   *)
(* from SELECT FOR UPDATE, or from the INSERT of a new key, to the commit. *)
(***************************************************************************)
EXTENDS Naturals, FiniteSets

CONSTANTS
  Repos,      \* keys of the table
  Defaults,   \* keys built into the code
  Values,     \* configurations an admin enters
  Procs,      \* processes
  Kinds,      \* what the processes may be: a set of functions from Procs to "watcher",
              \* "server" (the dashboard, the webhook server) and "job" (run, continue, review-pr)
  Requests,   \* admin requests served at once
  MaxEdits,   \* bound: admin requests ever made
  MaxFaults   \* bound: database failures and process restarts

VARIABLES
  kind,       \* what each process is
  manifest,   \* what the manifest says of each key: "absent", "good" or "bad"
  rows,       \* the table
  req,        \* each admin request and its transaction
  proc,       \* each process: its step, its copy and the hydrations under way
  budget      \* edits and faults so far

vars == << kind, manifest, rows, req, proc, budget >>

-----------------------------------------------------------------------------
None == "none"
Configs == Values \cup {"manifest", None}

Listed == { k \in Repos : manifest[k] # "absent" }
Empty == [k \in Repos |-> None]

\* registerRepos: merged over what is there, never removed.
FromManifest == [k \in Repos |-> IF k \in Listed \cup Defaults THEN "manifest" ELSE None]

\* replaceRepos, replaceCompanions: exactly the table, over the defaults.
Replaced(table) ==
  [k \in Repos |-> IF table[k] = None /\ k \in Defaults THEN "manifest" ELSE table[k]]

NoRequest == [pc |-> "idle", at |-> CHOOSE p \in Procs : TRUE, key |-> CHOOSE k \in Repos : TRUE,
              value |-> None, before |-> None, lock |-> FALSE]

Down == [pc |-> "down", live |-> Empty, todo |-> {}, seed |-> "none", reads |-> {},
         stamp |-> "never"]

Init ==
  /\ kind \in Kinds
  /\ manifest \in [Repos -> {"absent", "good", "bad"}]
  /\ rows = Empty
  /\ req = [r \in Requests |-> NoRequest]
  /\ proc = [p \in Procs |-> Down]
  /\ budget = [edits |-> 0, faults |-> 0]

Fault == budget.faults < MaxFaults /\ budget' = [budget EXCEPT !.faults = @ + 1]

-----------------------------------------------------------------------------
(* Admin requests. *)

Free(k, r) == \A s \in Requests \ {r} : ~ (req[s].lock /\ req[s].key = k)

\* PUT with a configuration, DELETE with none.
Admit(r) ==
  /\ req[r].pc = "idle" /\ budget.edits < MaxEdits
  /\ \E p \in Procs, k \in Repos, v \in Values \cup {None} :
       /\ kind[p] = "server" /\ proc[p].pc = "up"
       /\ req' = [req EXCEPT ![r] = [NoRequest EXCEPT !.pc = "select", !.at = p, !.key = k,
                                                     !.value = v]]
  /\ budget' = [budget EXCEPT !.edits = @ + 1]
  /\ UNCHANGED << kind, manifest, rows, proc >>

\* SELECT without FOR UPDATE.
HoldsMutant(r) == FALSE

\* SELECT FOR UPDATE locks a row that exists; it cannot lock one that does not.
Holds(r) == rows[req[r].key] # None

\* A DELETE of what is not there answers 404.
Select(r) ==
  LET k == req[r].key
  IN  /\ req[r].pc = "select" /\ Free(k, r)
      /\ req' = IF req[r].value = None /\ rows[k] = None
                THEN [req EXCEPT ![r] = NoRequest]
                ELSE [req EXCEPT ![r].pc = "commit", ![r].before = rows[k], ![r].lock = Holds(r)]
      /\ UNCHANGED << kind, manifest, rows, proc, budget >>

\* INSERT ON CONFLICT or DELETE waits for whoever holds the key; the row and its audit entry
\* commit together.
Commit(r) ==
  /\ req[r].pc = "commit" /\ Free(req[r].key, r)
  /\ rows' = [rows EXCEPT ![req[r].key] = req[r].value]
  /\ req' = [req EXCEPT ![r].pc = "refresh", ![r].lock = FALSE]
  /\ UNCHANGED << kind, manifest, proc, budget >>

\* The audit entry fails or the connection is lost: nothing is written.
RollBack(r) ==
  /\ req[r].pc \in {"select", "commit"} /\ Fault
  /\ req' = [req EXCEPT ![r] = NoRequest]
  /\ UNCHANGED << kind, manifest, rows, proc >>

-----------------------------------------------------------------------------
(* Processes. *)

Step(p, next) == proc' = [proc EXCEPT ![p] = next]
Reading(stamped) == [table |-> rows, stamped |-> stamped]

\* loadManifest, applyOverlayRegistries.
Start(p) ==
  /\ proc[p].pc = "down"
  /\ Step(p, [Down EXCEPT !.pc = "seed", !.live = FromManifest])
  /\ UNCHANGED << kind, manifest, rows, req, budget >>

\* The database does not answer within two tries: on with the manifest alone.
Unreachable(p) ==
  /\ proc[p].pc = "seed" /\ Fault /\ Step(p, [proc[p] EXCEPT !.pc = "up"])
  /\ UNCHANGED << kind, manifest, rows, req >>

\* The table is counted; every entry is validated before one is inserted.
SeedBegin(p) ==
  /\ proc[p].pc = "seed"
  /\ Step(p, IF Listed = {} \/ rows # Empty THEN [proc[p] EXCEPT !.pc = "list"]
             ELSE IF \E k \in Listed : manifest[k] = "bad"
                  THEN [proc[p] EXCEPT !.pc = "list", !.seed = "invalid"]
                  ELSE [proc[p] EXCEPT !.pc = "insert", !.todo = Listed])
  /\ UNCHANGED << kind, manifest, rows, req, budget >>

SeedInsert(p) ==
  /\ proc[p].pc = "insert"
  /\ \E k \in proc[p].todo :
       /\ \A r \in Requests : ~ (req[r].lock /\ req[r].key = k)
       /\ rows' = [rows EXCEPT ![k] = "manifest"]
       /\ Step(p, [proc[p] EXCEPT !.todo = @ \ {k}, !.pc = IF proc[p].todo = {k} THEN "list" ELSE "insert"])
  /\ UNCHANGED << kind, manifest, req, budget >>

\* A count or an insert fails: reported as a seed that failed.
SeedFails(p) ==
  /\ proc[p].pc \in {"seed", "insert"} /\ Fault
  /\ Step(p, [proc[p] EXCEPT !.pc = "list", !.todo = {}, !.seed = "error"])
  /\ UNCHANGED << kind, manifest, rows, req >>

\* The copy is replaced by what the table holds, unless the seed failed.
List(p) ==
  /\ proc[p].pc = "list"
  /\ Step(p, [proc[p] EXCEPT !.pc = "up",
                             !.live = IF proc[p].seed = "none" THEN Replaced(rows) ELSE @])
  /\ UNCHANGED << kind, manifest, rows, req, budget >>

ListFails(p) ==
  /\ proc[p].pc = "list" /\ Fault /\ Step(p, [proc[p] EXCEPT !.pc = "up"])
  /\ UNCHANGED << kind, manifest, rows, req >>

\* Only a first hydration is ever due.
DueMutant(p) == proc[p].stamp = "never"

\* refreshRegistryIfStale.
Due(p) == proc[p].stamp # "fresh"

\* The watcher's tick, one after the other; a request of a server, several at once; once
\* more in a job, when its own connection is up.
Hydrate(p) ==
  /\ proc[p].pc = "up" /\ Cardinality(proc[p].reads) < 2
  /\ \/ kind[p] = "watcher" /\ proc[p].reads = {}
     \/ kind[p] = "server" /\ Due(p)
     \/ kind[p] = "job" /\ proc[p].reads = {} /\ proc[p].stamp = "never"
  /\ Step(p, [proc[p] EXCEPT !.reads = @ \cup {Reading(kind[p] # "watcher")}])
  /\ UNCHANGED << kind, manifest, rows, req, budget >>

\* refreshRegistryAfterMutation: whatever the time of the last refresh, and without touching it.
Refresh(r) ==
  /\ req[r].pc = "refresh"
  /\ Step(req[r].at, [proc[req[r].at] EXCEPT !.reads = @ \cup {Reading(FALSE)}])
  /\ req' = [req EXCEPT ![r] = NoRequest]
  /\ UNCHANGED << kind, manifest, rows, budget >>

\* Answers come back in any order, each replaces the whole copy.
Apply(p) ==
  /\ proc[p].pc = "up"
  /\ \E read \in proc[p].reads :
       Step(p, [proc[p] EXCEPT !.reads = @ \ {read}, !.live = Replaced(read.table),
                               !.stamp = IF read.stamped THEN "fresh" ELSE @])
  /\ UNCHANGED << kind, manifest, rows, req, budget >>

\* A query fails: the last copy stays.
ReadFails(p) ==
  /\ proc[p].reads # {} /\ Fault
  /\ \E read \in proc[p].reads : Step(p, [proc[p] EXCEPT !.reads = @ \ {read}])
  /\ UNCHANGED << kind, manifest, rows, req >>

\* REGISTRY_TTL_MS pass.
Expire(p) ==
  /\ kind[p] = "server" /\ proc[p].stamp = "fresh" /\ Step(p, [proc[p] EXCEPT !.stamp = "stale"])
  /\ UNCHANGED << kind, manifest, rows, req, budget >>

\* Its open transactions are rolled back.
Stop(p) ==
  /\ proc[p].pc # "down" /\ Fault /\ Step(p, Down)
  /\ req' = [r \in Requests |-> IF req[r].at = p THEN NoRequest ELSE req[r]]
  /\ UNCHANGED << kind, manifest, rows >>

-----------------------------------------------------------------------------
Steps(p) ==
  \/ Start(p) \/ SeedBegin(p) \/ SeedInsert(p) \/ List(p)
  \/ Hydrate(p) \/ Apply(p) \/ Expire(p)

Edits(r) == Admit(r) \/ Select(r) \/ Commit(r) \/ RollBack(r) \/ Refresh(r)

Next ==
  \/ \E r \in Requests : Edits(r)
  \/ \E p \in Procs : Steps(p) \/ Unreachable(p) \/ SeedFails(p) \/ ListFails(p) \/ ReadFails(p) \/ Stop(p)

Spec == Init /\ [][Next]_vars
=============================================================================
