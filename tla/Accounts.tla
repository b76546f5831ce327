------------------------------ MODULE Accounts ------------------------------
(***************************************************************************)
(* The users of the dashboard: the admin API's transactions on the users   *)
(* table (src/dashboard/admin-api.ts), and the accounts that the command   *)
(* line (src/cli/admin.ts) and an edge sign-in (src/auth/http.ts) create.  *)
(*                                                                         *)
(* Users are the ids 1..Ids.  A transaction selects its rows from a        *)
(* snapshot, then locks them one by one as READ COMMITTED does: a row that *)
(* changed meanwhile is tested again and left out when it no longer        *)
(* matches.  Passwords, sessions and names are left out.                   *)
(***************************************************************************)
EXTENDS Naturals

CONSTANTS
  Ids,        \* bound: accounts ever created
  Requests,   \* requests the dashboard serves at once
  MaxEdits    \* bound: requests ever admitted

VARIABLES
  user,    \* the users table
  req,     \* each request and its transaction
  edits    \* requests admitted so far

vars == << user, req, edits >>

-----------------------------------------------------------------------------
Users == [role : {"none", "operator", "admin"}, off : BOOLEAN]   \* "none": no such row

\* What a request changes: the role, the switch, or the password alone.
Changes == {"admin", "operator", "disable", "enable", "password"}

NoRequest == [pc |-> "idle", actor |-> 0, target |-> 0, change |-> "password",
              rows |-> {}, held |-> {}, admins |-> {}]

Exists(u)   == user[u].role # "none"
IsActive(u) == user[u].role = "admin" /\ ~ user[u].off

Init ==
  /\ user = [u \in 1..Ids |-> [role |-> IF u <= 2 THEN "admin" ELSE "none", off |-> FALSE]]
  /\ req = [r \in Requests |-> NoRequest]
  /\ edits = 0

-----------------------------------------------------------------------------
\* create-user, POST /api/admin/users and the first sign-in through the edge; the unique
\* index lets one of two win.
CreateUser(u, role) ==
  /\ ~ Exists(u) /\ user' = [user EXCEPT ![u].role = role]
  /\ UNCHANGED << req, edits >>

\* The gate of server.ts: the session's user is an active admin now, not later.
Admit(r) ==
  /\ req[r].pc = "idle" /\ edits < MaxEdits /\ edits' = edits + 1
  /\ \E actor, target \in 1..Ids, change \in Changes :
       /\ IsActive(actor)
       /\ req' = [req EXCEPT ![r] = [NoRequest EXCEPT !.pc = "select", !.actor = actor,
                                       !.target = target, !.change = change]]
  /\ UNCHANGED user

\* The WHERE of lockTargetAndActiveAdmins; a password change locks the target alone.
RowsOf(r) ==
  { u \in 1..Ids : Exists(u) /\ (u = req[r].target \/ (req[r].change # "password" /\ IsActive(u))) }

Select(r) ==
  /\ req[r].pc = "select"
  /\ req' = [req EXCEPT ![r].pc = "lock", ![r].rows = RowsOf(r)]
  /\ UNCHANGED << user, edits >>

\* ORDER BY id.
NextRow(r) == CHOOSE u \in req[r].rows : \A v \in req[r].rows : u <= v

Holders(u) == { r \in Requests : u \in req[r].held }

\* A plain SELECT: locks nobody out.
WaitsMutant(r) == FALSE

\* FOR UPDATE waits for whoever holds the row.
Waits(r) == Holders(NextRow(r)) # {}

\* The row is tested again once it is locked, and the active admins are counted.
Lock(r) ==
  /\ req[r].pc = "lock" /\ req[r].rows # {} /\ ~ Waits(r)
  /\ LET u == NextRow(r)
         got == {u} \cap RowsOf(r)
     IN  req' = [req EXCEPT ![r].rows = @ \ {u},
                            ![r].held = @ \cup got,
                            ![r].admins = @ \cup { v \in got : IsActive(v) }]
  /\ UNCHANGED << user, edits >>

\* Self-demotion, self-disabling and the last active admin.
Guarded(r) ==
  LET t == req[r].target
      loses == \/ req[r].change = "operator" /\ user[t].role = "admin"
               \/ req[r].change = "disable" /\ IsActive(t)
  IN  loses /\ (t = req[r].actor \/ (~ user[t].off /\ req[r].admins \subseteq {t}))

Changed(row, change) ==
  CASE change \in {"admin", "operator"} -> [row EXCEPT !.role = change]
    [] change = "disable" -> [row EXCEPT !.off = TRUE]
    [] change = "enable" -> [row EXCEPT !.off = FALSE]
    [] OTHER -> row

Done(r) == req' = [req EXCEPT ![r] = NoRequest]

\* The update and its audit row commit together; 404, 409 or a failed audit roll back.
Commit(r) ==
  /\ req[r].pc = "lock" /\ req[r].rows = {} /\ Done(r)
  /\ \/ /\ req[r].target \in req[r].held /\ ~ Guarded(r)
        /\ user' = [user EXCEPT ![req[r].target] = Changed(@, req[r].change)]
     \/ user' = user
  /\ UNCHANGED edits

\* The connection is lost.
Abort(r) ==
  /\ req[r].pc # "idle" /\ Done(r) /\ UNCHANGED << user, edits >>

-----------------------------------------------------------------------------
Next ==
  \/ \E u \in 1..Ids, role \in {"operator", "admin"} : CreateUser(u, role)
  \/ \E r \in Requests : Admit(r) \/ Select(r) \/ Lock(r) \/ Commit(r) \/ Abort(r)

Spec == Init /\ [][Next]_vars

-----------------------------------------------------------------------------
\* Admins who demote or disable each other at the same time never leave the dashboard
\* without an active admin (admin-api.ts:455-460).
LastAdminStays == \E u \in 1..Ids : IsActive(u)

Blocked(r, s) == req[r].pc = "lock" /\ req[r].rows # {} /\ NextRow(r) \in req[s].held

\* "That ordering is what keeps two concurrent requests aimed at two different admins from
\* deadlocking" (admin-api.ts:449): no set of requests waits for one another.
NeverDeadlocked ==
  \A some \in SUBSET Requests : some # {} =>
    \E r \in some : \A s \in some : ~ Blocked(r, s)
=============================================================================
