----------------------------- MODULE UserForms -----------------------------
(***************************************************************************)
(* The users screen of the dashboard in one admin's browser: the list it   *)
(* loaded, the controls it blocks beforehand, the one panel that is open,  *)
(* and requests that are answered after the next click.  The server's      *)
(* transactions are single steps here; module Accounts takes them apart.   *)
(***************************************************************************)
EXTENDS Naturals, FiniteSets

CONSTANTS
  Members,      \* accounts
  me,           \* the account this browser is signed in with
  MaxOthers,    \* bound: changes by other admins
  MaxPosts      \* bound: requests of this browser

VARIABLES
  users,        \* the users table; role "none" is no row
  list,         \* what the screen shows: [status, users]
  loads,        \* list requests on their way: [n, status, users]
  panel,        \* the open panel: [kind, user]
  password,     \* whom the password in the reset panel was typed for, or "empty"
  busy,         \* the row whose action is shown as running, one for all rows
  posts,        \* changes on their way: [n, kind, user, value, note, state]
  others, sent  \* counted against the bounds

vars == << users, list, loads, panel, password, busy, posts, others, sent >>

Rows == [role : {"none", "operator", "admin"}, off : BOOLEAN]
NoRow == [role |-> "none", off |-> FALSE]
Closed == [kind |-> "closed", user |-> "nobody"]

IsActive(t, u) == t[u].role = "admin" /\ ~ t[u].off

Init ==
  /\ users \in [Members -> {NoRow, [role |-> "operator", off |-> FALSE],
                            [role |-> "admin", off |-> FALSE], [role |-> "admin", off |-> TRUE]}]
  /\ IsActive(users, me)
  /\ list = [status |-> "loading", users |-> users]
  /\ loads = { [n |-> 0, status |-> "asked", users |-> users] }
  /\ panel = Closed /\ password = "empty" /\ busy = "nobody"
  /\ posts = {} /\ others = 0 /\ sent = 0

-----------------------------------------------------------------------------
(* The controls the screen blocks before a click, and the server's guardrails. *)

\* Counted on the list.
CountActiveAdmins(t) == Cardinality({ u \in Members : IsActive(t, u) })

GetRoleGuardReason(t, u) ==
  /\ t[u].role = "admin"
  /\ u = me \/ (~ t[u].off /\ CountActiveAdmins(t) <= 1)

GetDisableGuardReason(t, u) ==
  /\ ~ t[u].off
  /\ u = me \/ (t[u].role = "admin" /\ CountActiveAdmins(t) <= 1)

\* putUserRole and putUserDisabled, on the table as it is.
ActiveAdmins == { u \in Members : IsActive(users, u) }

PutUserRoleRefused(u, role) ==
  /\ users[u].role = "admin" /\ role # "admin"
  /\ u = me \/ (~ users[u].off /\ Cardinality(ActiveAdmins) <= 1)

PutUserDisabledRefused(u, off) ==
  /\ off /\ IsActive(users, u)
  /\ u = me \/ Cardinality(ActiveAdmins) <= 1

-----------------------------------------------------------------------------
(* The screen *)

Listed(u) == list.status = "ready" /\ list.users[u].role # "none"

\* The list is hidden while the create form is open.
ListShown == panel.kind # "create"

LoadUsers(from) ==
  /\ list' = [list EXCEPT !.status = "loading"]
  /\ loads' = loads \cup { [n |-> from, status |-> "asked", users |-> users] }

Post(kind, u, value, note) ==
  /\ sent < MaxPosts /\ sent' = sent + 1
  /\ posts' = posts \cup { [n |-> sent + 1, kind |-> kind, user |-> u, value |-> value,
                            note |-> note, state |-> "sent"] }

\* The wish is the opposite of what the list shows.
ToggleRole(u) ==
  /\ ListShown /\ Listed(u) /\ busy # u /\ ~ GetRoleGuardReason(list.users, u)
  /\ Post("role", u, IF list.users[u].role = "admin" THEN "operator" ELSE "admin", "empty")
  /\ busy' = u
  /\ UNCHANGED << users, list, loads, panel, password, others >>

ToggleDisabled(u) ==
  /\ ListShown /\ Listed(u) /\ busy # u /\ ~ GetDisableGuardReason(list.users, u)
  /\ Post("disabled", u, IF list.users[u].off THEN "on" ELSE "off", "empty")
  /\ busy' = u
  /\ UNCHANGED << users, list, loads, panel, password, others >>

\* Opening a panel replaces the one that is open and empties the password.
OpenPasswordReset(u) ==
  /\ ListShown /\ Listed(u) /\ busy # u
  /\ panel' = [kind |-> "passwordReset", user |-> u]
  /\ password' = "empty"
  /\ UNCHANGED << users, list, loads, busy, posts, others, sent >>

\* The create form has a field of its own, so the password stays.
OpenCreateForm ==
  /\ ListShown
  /\ panel' = [kind |-> "create", user |-> "nobody"]
  /\ UNCHANGED << users, list, loads, password, busy, posts, others, sent >>

ResetShown == panel.kind = "passwordReset" /\ Listed(panel.user)

TypePassword ==
  /\ ResetShown /\ password = "empty"
  /\ password' = panel.user
  /\ UNCHANGED << users, list, loads, panel, busy, posts, others, sent >>

\* Cancelling and submitting are disabled while a reset, of whichever row, is on its way.
Resetting == \E p \in posts : p.kind = "password"
Creating  == \E p \in posts : p.kind = "create"

CancelPasswordReset ==
  /\ ResetShown /\ ~ Resetting
  /\ panel' = Closed /\ password' = "empty"
  /\ UNCHANGED << users, list, loads, busy, posts, others, sent >>

SubmitPasswordReset ==
  /\ ResetShown /\ ~ Resetting /\ password # "empty"
  /\ Post("password", panel.user, "set", password)
  /\ UNCHANGED << users, list, loads, panel, password, busy, others >>

CloseCreateForm ==
  /\ panel.kind = "create" /\ ~ Creating
  /\ panel' = Closed
  /\ UNCHANGED << users, list, loads, password, busy, posts, others, sent >>

SubmitCreate(u, role) ==
  /\ panel.kind = "create" /\ ~ Creating
  /\ Post("create", u, role, "empty")
  /\ UNCHANGED << users, list, loads, panel, password, busy, others >>

-----------------------------------------------------------------------------
(* The server *)

\* Another admin, or the command line: an active admin remains (module Accounts).
Other(u) ==
  /\ others < MaxOthers /\ others' = others + 1
  /\ \E r \in Rows \ {users[u], NoRow} :
       /\ users' = [users EXCEPT ![u] = r]
       /\ \E v \in Members : IsActive(users', v)
  /\ UNCHANGED << list, loads, panel, password, busy, posts, sent >>

Refused(p) ==
  \/ ~ IsActive(users, me)                                       \* 401 and 403
  \/ p.kind = "create" /\ users[p.user].role # "none"            \* 409
  \/ p.kind # "create" /\ users[p.user].role = "none"            \* 404
  \/ p.kind = "role" /\ PutUserRoleRefused(p.user, p.value)      \* 409
  \/ p.kind = "disabled" /\ PutUserDisabledRefused(p.user, p.value = "off")

Changed(p) ==
  CASE p.kind = "create"   -> [role |-> p.value, off |-> FALSE]
    [] p.kind = "role"     -> [users[p.user] EXCEPT !.role = p.value]
    [] p.kind = "disabled" -> [users[p.user] EXCEPT !.off = (p.value = "off")]
    [] OTHER -> users[p.user]

Serve(p) ==
  /\ p.state = "sent"
  /\ users' = IF Refused(p) THEN users ELSE [users EXCEPT ![p.user] = Changed(p)]
  /\ posts' = (posts \ {p}) \cup
       {[p EXCEPT !.state = IF Refused(p) THEN "refused" ELSE "done"]}
  /\ UNCHANGED << list, loads, panel, password, busy, others, sent >>

ServeList(l) ==
  /\ l.status = "asked"
  /\ loads' = (loads \ {l}) \cup
       {IF IsActive(users, me) THEN [l EXCEPT !.status = "ready", !.users = users]
                               ELSE [l EXCEPT !.status = "error"]}
  /\ UNCHANGED << users, list, panel, password, busy, posts, others, sent >>

\* An answer to a list request is shown, whichever request it answers; the change it was
\* asked for is over with it, and no row is shown as busy.
ReturnList(l) ==
  /\ l.status # "asked"
  /\ loads' = loads \ {l}
  /\ list' = [status |-> l.status, users |-> l.users]
  /\ LET over == { p \in posts : p.state = "reloading" /\ p.n = l.n }
     IN /\ posts' = posts \ over
        /\ busy' = IF \E p \in over : p.kind # "create" THEN "nobody" ELSE busy
  /\ UNCHANGED << users, panel, password, others, sent >>

\* A refused change is over; a change that was made loads the list first.
Reload(p) ==
  /\ p.state = "done"
  /\ posts' = (posts \ {p}) \cup {[p EXCEPT !.state = "reloading"]}
  /\ LoadUsers(p.n)

ReturnRow(p) ==
  /\ p.kind \in {"role", "disabled"}
  /\ \/ Reload(p) /\ UNCHANGED busy
     \/ p.state = "refused" /\ posts' = posts \ {p} /\ busy' = "nobody" /\ UNCHANGED << list, loads >>
  /\ UNCHANGED << users, panel, password, others, sent >>

\* A success closes whatever panel is open by now.
ReturnCreate(p) ==
  /\ p.kind = "create"
  /\ \/ Reload(p) /\ panel' = Closed
     \/ p.state = "refused" /\ posts' = posts \ {p} /\ UNCHANGED << panel, list, loads >>
  /\ UNCHANGED << users, password, busy, others, sent >>

\* So does this one, which changes nothing in the list.
ReturnPassword(p) ==
  /\ p.state # "sent" /\ p.kind = "password"
  /\ posts' = posts \ {p}
  /\ IF p.state = "done" THEN panel' = Closed /\ password' = "empty"
                         ELSE UNCHANGED << panel, password >>
  /\ UNCHANGED << users, list, loads, busy, others, sent >>

Next ==
  \/ \E u \in Members : ToggleRole(u) \/ ToggleDisabled(u) \/ OpenPasswordReset(u) \/ Other(u)
  \/ OpenCreateForm \/ CloseCreateForm
  \/ \E u \in Members, role \in {"operator", "admin"} : SubmitCreate(u, role)
  \/ TypePassword \/ CancelPasswordReset \/ SubmitPasswordReset
  \/ \E p \in posts : Serve(p) \/ ReturnRow(p) \/ ReturnPassword(p) \/ ReturnCreate(p)
  \/ \E l \in loads : ServeList(l) \/ ReturnList(l)

Spec == Init /\ [][Next]_vars

-----------------------------------------------------------------------------
\* A password is set for the person it was typed for, though all rows share one field
\* (admin-users.tsx:142, 310).
PasswordMeant == \A p \in posts : p.kind = "password" => p.note = p.user

\* On a list that is up to date the screen blocks exactly what the server would refuse:
\* getRoleGuardReason and getDisableGuardReason mirror putUserRole and putUserDisabled
\* (admin-users.tsx:173 and 187).
GuardsAgree ==
  IsActive(users, me) /\ list.status = "ready" /\ list.users = users =>
    \A u \in Members :
      users[u].role # "none" =>
        /\ GetRoleGuardReason(list.users, u) <=>
             PutUserRoleRefused(u, IF users[u].role = "admin" THEN "operator" ELSE "admin")
        /\ GetDisableGuardReason(list.users, u) <=> PutUserDisabledRefused(u, ~ users[u].off)
=============================================================================
