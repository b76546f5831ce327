---------------------------- MODULE RegistryProps ----------------------------
(* What the registry promises. *)
EXTENDS Registry

\* The commit of a request: its entry tells what the row held.
EntryTellsBefore ==
  \A r \in Requests : req[r].pc = "commit" /\ req'[r].pc = "refresh" =>
    req[r].before \in {None, rows[req[r].key]}

\* An audit entry of an update or a deletion tells the configuration it replaced, whatever
\* other requests and seeds ran between the read and the commit (admin-api.ts:178-196).
AuditTellsBefore == [][EntryTellsBefore]_vars

\* Once edits and failures end, every long-running process comes to hold the table and
\* keeps it, however its reads overlapped (hydrate.ts:45-82, watch.ts:669-675).
RegistryCatchesUp ==
  \A p \in Procs : <>[](kind[p] # "job" => proc[p].pc = "up" /\ proc[p].live = Replaced(rows))

\* "running on the manifest's repos until the manifest is fixed" (hydrate-startup.ts:72): a
\* process whose seed found an invalid entry in an empty table keeps the manifest's repos.
ManifestKept ==
  \A p \in Procs :
    proc[p].pc = "up" /\ proc[p].seed = "invalid" /\ rows = Empty => proc[p].live # Empty
=============================================================================
