------------------------------ MODULE Settings ------------------------------
(***************************************************************************)
(* Which policy a run obeys: the settings table, edited from the dashboard *)
(* (src/dashboard/admin-api.ts, server.ts), the environment and the        *)
(* overlay of the deployment, what the code declares, and the config saved *)
(* with a work item (src/cli/config.ts, src/overlay/agent-knobs.ts).  The  *)
(* Config tab (src/dashboard/config-report.ts) tells operators the outcome.*)
(*                                                                         *)
(* A value is the name of where it came from; "bad" is one that its schema *)
(* rejects, left in the table by hand or by an older version.  The setting *)
(* of the watcher's own concurrency is the `limit` of Fleet.               *)
(***************************************************************************)
EXTENDS Naturals

CONSTANTS
  MaxEdits,    \* bound: edits of settings
  MaxDeploys,  \* bound: new environments and overlays
  MaxStarts,   \* bound: containers started
  MaxErrors    \* bound: queries that fail

VARIABLES
  table,     \* the settings table
  env,       \* environment and overlay of the deployment
  place,     \* the repository's coordinates in the registry
  saved,     \* the config persisted with the item: a sequence of none or one
  run,       \* the container of the item and the one of a review
  edits, deploys, starts, errors

vars == << table, env, place, saved, run, edits, deploys, starts, errors >>

None == "none"
Keys == {"models.default", "models.perAgent", "maxTurns"}
Nothing == [k \in Keys |-> None]

\* The coder has a pin in the code, the port reviewer declares its model.
Agents == {"planner", "coder", "port reviewer"}
CodePin(a)       == IF a = "coder" THEN "pin" ELSE None
DeclaredModel(a) == IF a = "port reviewer" THEN "declared" ELSE None
DeclaredTurns(a) == IF a = "planner" THEN None ELSE "declared"

\* pipeline run and continue have a container of the item, review-pr one of its own.
Containers == {"item", "review"}
AgentsIn(c) == IF c = "item" THEN {"planner", "coder"} ELSE {"port reviewer"}

-----------------------------------------------------------------------------
(* Resolution. *)

\* readSetting: an invalid value is as good as none.
Read(s, k) == IF s[k] = "bad" THEN None ELSE s[k]

\* The ?? and || operators.
Else(v, w) == IF v # None THEN v ELSE w

\* buildModelsAndCosts; perAgent is one setting for all agents.
Models(e, s) == [default  |-> Else(Read(s, "models.default"), Else(e.model, "code")),
                 perAgent |-> [a \in Agents |-> IF Read(s, "models.perAgent") # None
                                THEN IF a = "coder" THEN Read(s, "models.perAgent") ELSE None
                                ELSE CodePin(a)]]

\* resolveDbAgentKnobs: what an operator really set for this agent.
DbKnobs(a, s) == [model |-> IF a = "coder" THEN Read(s, "models.perAgent") ELSE None,
                  turns |-> Read(s, "maxTurns")]

\* resolveAgentKnobs.
Knobs(a, e, models, db) ==
  LET put == IF e.overlay THEN "overlay" ELSE None IN
  [model |-> Else(db.model, Else(put, Else(DeclaredModel(a), Else(models.perAgent[a], models.default)))),
   turns |-> Else(db.turns, Else(put, Else(DeclaredTurns(a), "code")))]

\* loadConfig and buildConfigFromRepo.
Built(e, s) == [place |-> place, models |-> Models(e, s), settings |-> s]

\* The whole config is the persisted one, as it once was.
ResumedMutant(old, current) == IF old = << >> THEN current ELSE old[1]

\* loadConfigFromState: identity as captured, policy taken fresh.
Resumed(old, current) ==
  IF old = << >> THEN current
  ELSE [old[1] EXCEPT !.models = current.models, !.settings = current.settings]

\* buildAgentKnobsReport, on a report's own reading of the table.
Reported(a) == Knobs(a, env, Built(env, table).models, DbKnobs(a, table))

\* runAgent.
Used(c, a) == Knobs(a, run[c].env, run[c].config.models, DbKnobs(a, run[c].config.settings))

-----------------------------------------------------------------------------
NoEnv == [model |-> None, overlay |-> FALSE]

Idle == [pc |-> "idle", cmd |-> None, env |-> NoEnv, old |-> << >>,
         config |-> Built(NoEnv, Nothing), quiet |-> FALSE]

Init ==
  /\ table \in {Nothing} \cup { [Nothing EXCEPT ![k] = "bad"] : k \in Keys }
  /\ env \in { NoEnv, [model |-> "env", overlay |-> TRUE] }
  /\ place = 1 /\ saved = << >>
  /\ run = [c \in Containers |-> Idle]
  /\ edits = MaxEdits /\ deploys = MaxDeploys /\ starts = MaxStarts /\ errors = MaxErrors

-----------------------------------------------------------------------------
(* Operators. *)

Disturbed == run' = [c \in Containers |-> [run[c] EXCEPT !.quiet = FALSE]]

\* PUT and DELETE /api/admin/settings/:key, each one transaction.
Put(k) ==
  /\ edits > 0 /\ edits' = edits - 1
  /\ table' = [table EXCEPT ![k] = "set"]
  /\ Disturbed /\ UNCHANGED << env, place, saved, deploys, starts, errors >>

Delete(k) ==
  /\ table[k] # None /\ edits > 0 /\ edits' = edits - 1
  /\ table' = [table EXCEPT ![k] = None]
  /\ Disturbed /\ UNCHANGED << env, place, saved, deploys, starts, errors >>

\* A deployment with another environment or overlay, or a repository that moves.
Deploy ==
  /\ deploys > 0 /\ deploys' = deploys - 1
  /\ \/ /\ \E e \in [model : {None, "env"}, overlay : BOOLEAN] : e # env /\ env' = e
        /\ UNCHANGED place
     \/ place' = place + 1 /\ UNCHANGED env
  /\ Disturbed /\ UNCHANGED << table, saved, edits, starts, errors >>

-----------------------------------------------------------------------------
(* Runs. *)

Moves(c, r) ==
  /\ run' = [run EXCEPT ![c] = r]
  /\ UNCHANGED << table, env, place, edits, deploys >>

\* A container gets the watcher's environment; `continue` loads the item's config first.
Start(c, cmd) ==
  /\ run[c].pc = "idle" /\ starts > 0 /\ starts' = starts - 1
  /\ cmd \in (IF c = "item" THEN {"run", "continue"} ELSE {"review"})
  /\ Moves(c, [Idle EXCEPT !.pc = "read", !.cmd = cmd, !.env = env, !.quiet = TRUE,
                           !.old = IF cmd = "continue" THEN saved ELSE << >>])
  /\ UNCHANGED << saved, errors >>

\* readAllSettingsSafely, and the config that comes of it.
ReadSettings(c) ==
  /\ run[c].pc = "read"
  /\ \E ok \in BOOLEAN :
       /\ errors' = IF ok THEN errors ELSE errors - 1
       /\ ok \/ errors > 0
       /\ LET s == IF ok THEN table ELSE Nothing
              current == Built(run[c].env, s)
          IN Moves(c, [run[c] EXCEPT !.pc = IF run[c].cmd = "run" THEN "save" ELSE "work",
                                     !.config = Resumed(run[c].old, current), !.quiet = @ /\ ok])
  /\ UNCHANGED << saved, starts >>

\* Only a fresh start saves its config.
Save(c) ==
  /\ run[c].pc = "save" /\ saved' = << run[c].config >>
  /\ Moves(c, [run[c] EXCEPT !.pc = "work"]) /\ UNCHANGED << starts, errors >>

End(c) ==
  /\ run[c].pc # "idle"
  /\ Moves(c, Idle) /\ UNCHANGED << saved, starts, errors >>

Next ==
  \/ \E k \in Keys : Put(k) \/ Delete(k)
  \/ Deploy
  \/ \E c \in Containers :
       \/ \E cmd \in {"run", "continue", "review"} : Start(c, cmd)
       \/ ReadSettings(c) \/ Save(c) \/ End(c)

Spec == Init /\ [][Next]_vars

-----------------------------------------------------------------------------
\* "What a file declares and what actually runs" (config-report.ts:4): each agent of a run
\* that nothing has disturbed since its container started works with the model and turns
\* the Config tab shows, resumed or not, and a resumed run stays where it was started.
RunsAsShown ==
  \A c \in Containers : run[c].pc = "work" =>
    /\ run[c].quiet => \A a \in AgentsIn(c) : Used(c, a) = Reported(a)
    /\ run[c].old # << >> => run[c].config.place = run[c].old[1].place
=============================================================================
