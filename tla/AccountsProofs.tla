--------------------------- MODULE AccountsProofs ---------------------------
(***************************************************************************)
(* LastAdminStays for every number of accounts and every set of requests.  *)
(* An admin counted by a transaction is locked by it, no two transactions  *)
(* lock one row, and a transaction changes only a row it has locked: so    *)
(* the admin a transaction relies on when it removes another stays one     *)
(* until it commits.  And NeverDeadlocked: rows are locked in ascending    *)
(* order, so nobody waits for a row below one it holds.                    *)
(***************************************************************************)
EXTENDS Accounts, WellFoundedInduction, TLAPS

Transactions ==
  [pc : {"idle", "select", "lock"}, actor : 0..Ids, target : 0..Ids, change : Changes,
   rows : SUBSET (1..Ids), held : SUBSET (1..Ids), admins : SUBSET (1..Ids)]

TypeOK ==
  /\ user \in [1..Ids -> Users]
  /\ req \in [Requests -> Transactions]

\* What a transaction counted is locked by it, and still so.
CountedHeld == \A r \in Requests : \A u \in req[r].admins : u \in req[r].held /\ IsActive(u)

\* A row has one holder.
HeldApart == \A r, s \in Requests : r # s => req[r].held \cap req[s].held = {}

AccountsInv == TypeOK /\ CountedHeld /\ HeldApart /\ LastAdminStays

-----------------------------------------------------------------------------
LEMMA NoRequestType == Ids \in Nat => NoRequest \in Transactions
  BY DEF NoRequest, Transactions, Changes

\* There is an administrator to begin with.
LEMMA InitAccounts == Ids \in Nat \ {0} /\ Init => AccountsInv
<1> SUFFICES ASSUME Ids \in Nat \ {0}, Init PROVE AccountsInv
  OBVIOUS
<1>1. TypeOK
  BY NoRequestType DEF TypeOK, Init, Users
<1>2. CountedHeld /\ HeldApart
  BY DEF Init, CountedHeld, HeldApart, NoRequest
<1>3. IsActive(1)
  BY DEF Init, IsActive
<1> QED
  BY <1>1, <1>2, <1>3 DEF AccountsInv, LastAdminStays

-----------------------------------------------------------------------------
\* A transaction that begins, ends or selects its rows holds nothing more.
LEMMA NothingMoreHeld ==
  ASSUME AccountsInv, Ids \in Nat, NEW r \in Requests, NEW q \in Transactions,
         \/ q.held = {} /\ q.admins = {}
         \/ q.held = req[r].held /\ q.admins = req[r].admins,
         user' = user, req' = [req EXCEPT ![r] = q]
  PROVE  AccountsInv'
<1>1. TypeOK'
  BY DEF AccountsInv, TypeOK
<1>2. \A s \in Requests : req'[s] = IF s = r THEN q ELSE req[s]
  BY DEF AccountsInv, TypeOK
<1>3. CountedHeld'
  BY <1>2 DEF AccountsInv, CountedHeld, IsActive
<1>4. HeldApart'
  BY <1>2 DEF AccountsInv, HeldApart
<1>5. LastAdminStays'
  BY DEF AccountsInv, LastAdminStays, IsActive
<1> QED
  BY <1>1, <1>3, <1>4, <1>5 DEF AccountsInv

LEMMA CreateAccounts ==
  ASSUME AccountsInv, NEW u \in 1..Ids, NEW role \in {"operator", "admin"}, CreateUser(u, role)
  PROVE  AccountsInv'
<1> USE DEF AccountsInv
<1>1. user' = [user EXCEPT ![u].role = role] /\ req' = req /\ user[u].role = "none"
  BY DEF CreateUser, Exists
<1>2. TypeOK'
  BY <1>1 DEF TypeOK, Users
<1>3. \A v \in 1..Ids : IsActive(v) => IsActive(v)'
  <2> SUFFICES ASSUME NEW v \in 1..Ids, IsActive(v) PROVE IsActive(v)'
    OBVIOUS
  <2>1. v # u
    BY <1>1 DEF IsActive
  <2> QED
    BY <1>1, <2>1 DEF IsActive, TypeOK
<1>4. \A r \in Requests : req[r].admins \subseteq 1..Ids
  BY DEF TypeOK, Transactions
<1>5. CountedHeld' /\ HeldApart'
  BY <1>1, <1>3, <1>4 DEF CountedHeld, HeldApart
<1>6. LastAdminStays'
  BY <1>3 DEF LastAdminStays
<1> QED
  BY <1>2, <1>5, <1>6

LEMMA AdmitAccounts ==
  ASSUME AccountsInv, Ids \in Nat, NEW r \in Requests, Admit(r)
  PROVE  AccountsInv'
<1>1. PICK actor, target \in 1..Ids, change \in Changes :
        req' = [req EXCEPT ![r] = [NoRequest EXCEPT !.pc = "select", !.actor = actor,
                                     !.target = target, !.change = change]]
  BY DEF Admit
<1> DEFINE q == [NoRequest EXCEPT !.pc = "select", !.actor = actor, !.target = target,
                                  !.change = change]
<1>2. q \in Transactions
  <2>1. /\ NoRequest \in [pc : {"idle", "select", "lock"}, actor : 0..Ids, target : 0..Ids,
                          change : Changes, rows : SUBSET (1..Ids), held : SUBSET (1..Ids),
                          admins : SUBSET (1..Ids)]
        /\ actor \in 0..Ids /\ target \in 0..Ids
    BY NoRequestType DEF Transactions
  <2> QED
    BY <2>1 DEF Transactions
<1>3. q.held = {} /\ q.admins = {}
  BY DEF NoRequest
<1>4. req' = [req EXCEPT ![r] = q] /\ user' = user
  BY <1>1 DEF Admit
<1> HIDE DEF q
<1> QED
  BY <1>2, <1>3, <1>4, NothingMoreHeld

LEMMA SelectAccounts ==
  ASSUME AccountsInv, Ids \in Nat, NEW r \in Requests, Select(r)
  PROVE  AccountsInv'
<1> DEFINE q == [req[r] EXCEPT !.pc = "lock", !.rows = RowsOf(r)]
<1>1. req[r] \in Transactions
  BY DEF AccountsInv, TypeOK
<1>2. RowsOf(r) \in SUBSET (1..Ids)
  BY DEF RowsOf
<1>3. q \in Transactions /\ q.held = req[r].held /\ q.admins = req[r].admins
  BY <1>1, <1>2 DEF Transactions
<1>4. req' = [req EXCEPT ![r] = q] /\ user' = user
  BY DEF Select, AccountsInv, TypeOK
<1> QED
  BY <1>3, <1>4, NothingMoreHeld

LEMMA LockAccounts ==
  ASSUME AccountsInv, NEW r \in Requests, Lock(r)
  PROVE  AccountsInv'
<1> DEFINE u == NextRow(r)
           got == {u} \cap RowsOf(r)
           q == [req[r] EXCEPT !.rows = @ \ {u}, !.held = @ \cup got,
                               !.admins = @ \cup { v \in got : IsActive(v) }]
<1>1. /\ req[r] \in Transactions /\ got \in SUBSET (1..Ids)
      /\ user' = user /\ req' = [req EXCEPT ![r] = q]
  BY DEF AccountsInv, TypeOK, Lock, RowsOf
<1>2. \A s \in Requests : got \cap req[s].held = {}
  BY DEF Lock, Waits, Holders
<1> HIDE DEF u, got
<1>3. /\ q \in Transactions /\ q.held = req[r].held \cup got
      /\ q.admins = req[r].admins \cup { v \in got : IsActive(v) }
  BY <1>1 DEF Transactions
<1> HIDE DEF q
<1>4. \A s \in Requests : req'[s] = IF s = r THEN q ELSE req[s]
  BY <1>1 DEF AccountsInv, TypeOK
<1>5. TypeOK'
  BY <1>1, <1>3 DEF AccountsInv, TypeOK
<1>6. CountedHeld'
  BY <1>1, <1>3, <1>4 DEF AccountsInv, CountedHeld, IsActive
<1>7. HeldApart'
  BY <1>2, <1>3, <1>4 DEF AccountsInv, HeldApart
<1>8. LastAdminStays'
  BY <1>1 DEF AccountsInv, LastAdminStays, IsActive
<1> QED
  BY <1>5, <1>6, <1>7, <1>8 DEF AccountsInv

-----------------------------------------------------------------------------
\* What the guard gives: when the target stops being an active admin, another one has been
\* counted.
LEMMA GuardKeeps ==
  ASSUME AccountsInv, NEW r \in Requests, ~ Guarded(r),
         req[r].target \in 1..Ids, IsActive(req[r].target),
         NEW row, row = Changed(user[req[r].target], req[r].change),
         ~ (row.role = "admin" /\ ~ row.off)
  PROVE  \E v \in req[r].admins : v # req[r].target
<1> DEFINE t == req[r].target
           c == req[r].change
<1>1. user[t] \in Users /\ c \in Changes
  BY DEF AccountsInv, TypeOK, Transactions
<1>2. c \in {"operator", "disable"}
  <2>1. CASE c = "admin"
    BY <1>1, <2>1 DEF Changed, Users, IsActive
  <2>2. CASE c = "enable"
    BY <1>1, <2>2 DEF Changed, Users, IsActive
  <2>3. CASE c = "password"
    BY <1>1, <2>3 DEF Changed, Users, IsActive
  <2> QED
    BY <1>1, <2>1, <2>2, <2>3 DEF Changes
<1>3. ~ (req[r].admins \subseteq {t})
  BY <1>2 DEF Guarded, IsActive
<1> QED
  BY <1>3

\* The only step that takes a role away.
LEMMA CommitAccounts ==
  ASSUME AccountsInv, Ids \in Nat, NEW r \in Requests, Commit(r)
  PROVE  AccountsInv'
<1>1. NoRequest \in Transactions /\ NoRequest.held = {} /\ NoRequest.admins = {}
  BY NoRequestType DEF NoRequest
<1>2. req' = [req EXCEPT ![r] = NoRequest]
  BY DEF Commit, Done
<1>3. CASE user' = user
  BY <1>1, <1>2, <1>3, NothingMoreHeld
<1>4. CASE /\ req[r].target \in req[r].held /\ ~ Guarded(r)
           /\ user' = [user EXCEPT ![req[r].target] = Changed(@, req[r].change)]
  <2> DEFINE t == req[r].target
             row == Changed(user[t], req[r].change)
  <2>1. req[r] \in Transactions /\ t \in 1..Ids
    BY <1>4 DEF AccountsInv, TypeOK, Transactions
  <2>2. row \in Users
    <3>1. user[t] \in [role : {"none", "operator", "admin"}, off : BOOLEAN]
      BY <2>1 DEF AccountsInv, TypeOK, Users
    <3>2. CASE req[r].change \in {"admin", "operator"}
      BY <3>1, <3>2 DEF Changed, Users
    <3>3. CASE req[r].change = "disable"
      BY <3>1, <3>3 DEF Changed, Users
    <3>4. CASE req[r].change = "enable"
      BY <3>1, <3>4 DEF Changed, Users
    <3>5. CASE req[r].change = "password"
      BY <3>1, <3>5 DEF Changed, Users
    <3> QED
      BY <2>1, <3>2, <3>3, <3>4, <3>5 DEF Transactions, Changes
  <2>3. \A v \in 1..Ids : user'[v] = IF v = t THEN row ELSE user[v]
    BY <1>4, <2>1 DEF AccountsInv, TypeOK
  <2>4. TypeOK'
    BY <1>1, <1>2, <1>4, <2>1, <2>2 DEF AccountsInv, TypeOK
  <2> HIDE DEF row
  <2>5. \A s \in Requests : req'[s] = IF s = r THEN NoRequest ELSE req[s]
    BY <1>2 DEF AccountsInv, TypeOK
  <2>6. \A v \in 1..Ids : v # t /\ IsActive(v) => IsActive(v)'
    BY <2>3 DEF IsActive
  <2>7. CountedHeld'
    <3> SUFFICES ASSUME NEW s \in Requests, s # r, NEW v \in req[s].admins
                 PROVE  v \in req[s].held /\ IsActive(v)'
      BY <1>1, <2>5 DEF CountedHeld
    <3>1. v \in req[s].held /\ IsActive(v) /\ v \in 1..Ids
      BY DEF AccountsInv, CountedHeld, TypeOK, Transactions
    <3>2. v # t
      BY <1>4, <3>1 DEF AccountsInv, HeldApart
    <3> QED
      BY <2>6, <3>1, <3>2
  <2>8. HeldApart'
    BY <1>1, <2>5 DEF AccountsInv, HeldApart
  <2>9. LastAdminStays'
    <3>1. PICK a \in 1..Ids : IsActive(a)
      BY DEF AccountsInv, LastAdminStays
    <3>2. CASE a # t
      BY <2>6, <3>1, <3>2 DEF LastAdminStays
    <3>3. CASE a = t /\ row.role = "admin" /\ ~ row.off
      BY <2>1, <2>3, <3>3 DEF LastAdminStays, IsActive
    <3>4. CASE a = t /\ ~ (row.role = "admin" /\ ~ row.off)
      <4>1. PICK v \in req[r].admins : v # t
        BY <1>4, <2>1, <3>1, <3>4, GuardKeeps DEF row
      <4>2. v \in 1..Ids /\ IsActive(v)
        BY <2>1 DEF AccountsInv, CountedHeld, Transactions
      <4> QED
        BY <2>6, <4>1, <4>2 DEF LastAdminStays
    <3> QED
      BY <3>2, <3>3, <3>4
  <2> QED
    BY <2>4, <2>7, <2>8, <2>9 DEF AccountsInv
<1> QED
  BY <1>3, <1>4 DEF Commit

LEMMA AbortAccounts ==
  ASSUME AccountsInv, Ids \in Nat, NEW r \in Requests, Abort(r)
  PROVE  AccountsInv'
<1>1. NoRequest \in Transactions /\ NoRequest.held = {} /\ NoRequest.admins = {}
  BY NoRequestType DEF NoRequest
<1> QED
  BY <1>1, NothingMoreHeld DEF Abort, Done

-----------------------------------------------------------------------------
LEMMA StepAccounts == Ids \in Nat /\ AccountsInv /\ [Next]_vars => AccountsInv'
<1> SUFFICES ASSUME Ids \in Nat, AccountsInv, [Next]_vars PROVE AccountsInv'
  OBVIOUS
<1>1. CASE UNCHANGED vars
  BY <1>1 DEF vars, AccountsInv, TypeOK, CountedHeld, HeldApart, LastAdminStays, IsActive
<1>2. ASSUME NEW u \in 1..Ids, NEW role \in {"operator", "admin"}, CreateUser(u, role)
      PROVE  AccountsInv'
  BY <1>2, CreateAccounts
<1>3. ASSUME NEW r \in Requests, Admit(r) PROVE AccountsInv'
  BY <1>3, AdmitAccounts
<1>4. ASSUME NEW r \in Requests, Select(r) PROVE AccountsInv'
  BY <1>4, SelectAccounts
<1>5. ASSUME NEW r \in Requests, Lock(r) PROVE AccountsInv'
  BY <1>5, LockAccounts
<1>6. ASSUME NEW r \in Requests, Commit(r) PROVE AccountsInv'
  BY <1>6, CommitAccounts
<1>7. ASSUME NEW r \in Requests, Abort(r) PROVE AccountsInv'
  BY <1>7, AbortAccounts
<1> QED
  BY <1>1, <1>2, <1>3, <1>4, <1>5, <1>6, <1>7 DEF Next

\* However many admins demote and disable each other at the same time, and in whatever
\* order the database grants the row locks, an active admin is left.
THEOREM LastAdminAlways ==
  ASSUME Ids \in Nat \ {0}
  PROVE  Spec => []LastAdminStays
<1>1. Init => AccountsInv
  BY InitAccounts
<1>2. AccountsInv /\ [Next]_vars => AccountsInv'
  BY StepAccounts
<1>3. AccountsInv => LastAdminStays
  BY DEF AccountsInv
<1> QED
  BY <1>1, <1>2, <1>3, PTL DEF Spec

-----------------------------------------------------------------------------
(* Rows are locked in order *)

Less == { p \in Nat \X Nat : p[1] < p[2] }

\* Numbers have a least one.
LEMMA Least ==
  ASSUME NEW S \in SUBSET Nat, S # {}
  PROVE  \E u \in S : \A v \in S : u <= v
<1>1. IsWellFoundedOn(Less, Nat)
  BY NatLessThanWellFounded DEF OpToRel, Less
<1>2. PICK u \in S : \A v \in S : << v, u >> \notin Less
  BY <1>1, WFMin
<1>3. ASSUME NEW v \in S PROVE u <= v
  <2>1. << v, u >> \in Nat \X Nat /\ ~ (v < u)
    BY <1>2 DEF Less
  <2> QED
    BY <2>1
<1> QED
  BY <1>3

\* The next row is the least of those still to lock.
LEMMA NextLeast ==
  ASSUME Ids \in Nat, TypeOK, NEW r \in Requests, req[r].rows # {}
  PROVE  NextRow(r) \in req[r].rows /\ \A v \in req[r].rows : NextRow(r) <= v
<1>1. req[r].rows \subseteq Nat
  BY DEF TypeOK, Transactions
<1>2. \E u \in req[r].rows : \A v \in req[r].rows : u <= v
  BY <1>1, Least
<1> QED
  BY <1>2 DEF NextRow

\* A transaction holds rows below those it still asks for, and none before it asks.
InOrder ==
  \A r \in Requests :
    /\ \A h \in req[r].held, v \in req[r].rows : h < v
    /\ req[r].pc # "lock" => req[r].held = {}

OrderInv == AccountsInv /\ InOrder

LEMMA InOrderStep ==
  ASSUME Ids \in Nat, AccountsInv, InOrder, [Next]_vars
  PROVE  InOrder'
<1>1. CASE UNCHANGED req
  BY <1>1 DEF InOrder
<1>2. ASSUME NEW r \in Requests, Admit(r) \/ Commit(r) \/ Abort(r) PROVE InOrder'
  <2>1. /\ req'[r].held = {} /\ req'[r].rows = {}
        /\ \A s \in Requests \ {r} : req'[s] = req[s]
    <3>1. CASE Admit(r)
      BY <3>1 DEF Admit, NoRequest, AccountsInv, TypeOK
    <3>2. CASE Done(r)
      BY <3>2 DEF Done, NoRequest, AccountsInv, TypeOK
    <3> QED
      BY <1>2, <3>1, <3>2 DEF Commit, Abort
  <2> QED
    BY <2>1 DEF InOrder
<1>3. ASSUME NEW r \in Requests, Select(r) PROVE InOrder'
  <2>1. req' = [req EXCEPT ![r].pc = "lock", ![r].rows = RowsOf(r)] /\ req[r].held = {}
    BY <1>3 DEF Select, InOrder
  <2>2. req'[r].held = {} /\ req'[r].pc = "lock" /\ \A s \in Requests \ {r} : req'[s] = req[s]
    BY <2>1 DEF AccountsInv, TypeOK, Transactions
  <2> QED
    BY <2>2 DEF InOrder
<1>4. ASSUME NEW r \in Requests, Lock(r) PROVE InOrder'
  <2> DEFINE u == NextRow(r)
  <2>1. u \in req[r].rows /\ \A v \in req[r].rows : u <= v
    BY <1>4, NextLeast DEF Lock, AccountsInv
  <2>2. req[r] \in Transactions
    BY DEF AccountsInv, TypeOK
  <2>3. /\ req'[r].pc = "lock" /\ req'[r].rows = req[r].rows \ {u}
        /\ req'[r].held \subseteq req[r].held \cup {u}
        /\ \A s \in Requests \ {r} : req'[s] = req[s]
    BY <1>4, <2>2 DEF Lock, AccountsInv, TypeOK, Transactions
  <2>4. ASSUME NEW h \in req'[r].held, NEW v \in req'[r].rows PROVE h < v
    <3>1. v \in Nat /\ u \in Nat /\ v \in req[r].rows /\ v # u
      BY <2>1, <2>2, <2>3, <2>4 DEF Transactions
    <3>2. CASE h = u
      BY <2>1, <3>1, <3>2
    <3>3. CASE h \in req[r].held
      BY <3>1, <3>3 DEF InOrder
    <3> QED
      BY <2>3, <2>4, <3>2, <3>3
  <2> QED
    BY <2>3, <2>4 DEF InOrder
<1> QED
  BY <1>1, <1>2, <1>3, <1>4 DEF Next, vars, CreateUser

\* "That ordering is what keeps two concurrent requests aimed at two different admins from
\* deadlocking" (admin-api.ts:449), for every number of accounts and requests: of requests
\* that wait for one another, the one that asks for the highest row would wait for nobody.
THEOREM RequestsNeverBlock ==
  ASSUME Ids \in Nat \ {0}
  PROVE  Spec => []NeverDeadlocked
<1>1. Init => OrderInv
  BY InitAccounts DEF Init, OrderInv, InOrder, NoRequest
<1>2. OrderInv /\ [Next]_vars => OrderInv'
  BY StepAccounts, InOrderStep DEF OrderInv
<1>3. ASSUME OrderInv PROVE NeverDeadlocked
  <2> SUFFICES ASSUME NEW some \in SUBSET Requests, some # {},
                      \A r \in some : \E s \in some : Blocked(r, s)
               PROVE  FALSE
    BY DEF NeverDeadlocked
  <2> DEFINE Below(r) == Ids - NextRow(r)
             S == { Below(r) : r \in some }
  <2>1. ASSUME NEW r \in some
        PROVE  NextRow(r) \in 1..Ids /\ NextRow(r) \in req[r].rows
    <3>1. req[r].rows # {}
      BY DEF Blocked
    <3>2. req[r].rows \subseteq 1..Ids
      BY <1>3 DEF OrderInv, AccountsInv, TypeOK, Transactions
    <3> QED
      BY <1>3, <3>1, <3>2, NextLeast DEF OrderInv, AccountsInv
  <2>2. S \in SUBSET Nat /\ S # {}
    BY <2>1
  <2>3. PICK n \in S : \A m \in S : n <= m
    BY <2>2, Least
  <2>4. PICK r \in some : n = Below(r)
    OBVIOUS
  <2>5. PICK s \in some : Blocked(r, s)
    OBVIOUS
  <2>6. NextRow(r) < NextRow(s)
    BY <1>3, <2>1, <2>5 DEF Blocked, OrderInv, InOrder
  <2>7. Below(r) <= Below(s)
    BY <2>3, <2>4
  <2> QED
    BY <2>1, <2>6, <2>7
<1> QED
  BY <1>1, <1>2, <1>3, PTL DEF Spec
=============================================================================
