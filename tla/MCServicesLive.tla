--------------------------- MODULE MCServicesLive ---------------------------
(***************************************************************************)
(* Instance for TLC of the components checked for liveness.  As in         *)
(* MCServices, `part` picks the one that moves.                            *)
(***************************************************************************)
EXTENDS FleetProps, TLC

CONSTANTS
  server, watcher,                                      \* processes
  Repos, Defaults, Values, Procs, Requests, MaxEdits,   \* Registry
  Polls, MaxSaves, MaxMoves                             \* LiveSessions

VARIABLES
  part,
  kind, manifest, rows, req, proc, budget,
  table, saves, open, slots, poll, known, mark, spent, missed

MCKinds == { [p \in {server, watcher} |-> IF p = server THEN "server" ELSE "watcher"] }

Rp == INSTANCE RegistryProps WITH Kinds <- MCKinds
Ls == INSTANCE LiveSessions

registryVars == << kind, manifest, rows, req, proc, budget >>
pollerVars   == << table, saves, open, slots, poll, known, mark, spent, missed >>
all == << part, vars, registryVars, pollerVars >>

AllInit ==
  /\ part \in {"fleet", "registry", "sessions"}
  /\ Init /\ Rp!Init /\ Ls!Init
  /\ part = "registry" \/ /\ kind = CHOOSE k \in MCKinds : TRUE
                          /\ manifest = [k \in Repos |-> "absent"]

AllNext ==
  /\ UNCHANGED part
  /\ IF part = "fleet"    THEN Next    ELSE UNCHANGED vars
  /\ IF part = "registry" THEN Rp!Next ELSE UNCHANGED registryVars
  /\ IF part = "sessions" THEN Ls!Next ELSE UNCHANGED pollerVars

-----------------------------------------------------------------------------
(* Fairness: what the code's timers, promises and restarts bring about. *)

\* The watcher is restarted after a crash (compose), its loop and its promises go on,
\* containers end, every waiting item is listed in turn, and the janitor's interval fires.
FleetFairness ==
  LET fleet == part = "fleet" IN
  /\ WF_vars(fleet /\ Boot) /\ WF_vars(fleet /\ Loop)
  /\ \A i \in Items : WF_vars(fleet /\ Container(i)) /\ SF_vars(fleet /\ Claim(i))
  /\ \A i \in Items, cmd \in {"run", "continue", "env"}, a \in ActionIds \cup {0} :
       WF_vars(fleet /\ \E j \in jobs : j.item = i /\ j.cmd = cmd /\ j.act = a /\ JobStep(j))
  /\ \A a \in ActionIds : WF_vars(fleet /\ Janitor(a))

\* Docker restarts a process, the watcher ticks, the dashboard's own poller asks for the
\* registry, queries return.
RegistryFairness ==
  LET registry == part = "registry" IN
  /\ \A p \in Procs :
       /\ WF_registryVars(registry /\ Rp!Start(p))
       /\ WF_registryVars(registry /\ (Rp!SeedBegin(p) \/ Rp!SeedInsert(p) \/ Rp!List(p)))
       /\ WF_registryVars(registry /\ Rp!Hydrate(p))
       /\ WF_registryVars(registry /\ Rp!Apply(p))
       /\ WF_registryVars(registry /\ Rp!Expire(p))
  /\ \A r \in Requests :
       WF_registryVars(registry /\ (Rp!Select(r) \/ Rp!Commit(r) \/ Rp!Refresh(r)))

\* The poller's interval fires and its queries return.
PollerFairness == \A n \in Polls : WF_pollerVars(part = "sessions" /\ Ls!PollStep(n))

AllSpec ==
  /\ AllInit /\ [][AllNext]_all
  /\ FleetFairness /\ RegistryFairness /\ PollerFairness

-----------------------------------------------------------------------------
\* Every long-running process comes to hold the table.
RegistryCatchesUp == part = "registry" => Rp!RegistryCatchesUp

\* Browsers come to show the rows.
SessionsCatchUp == Ls!SessionsCatchUp

\* "Running on the manifest's repos until the manifest is fixed" (hydrate-startup.ts:72).
ManifestKept == Rp!ManifestKept
=============================================================================
