---------------------------- MODULE LiveSessions ----------------------------
(***************************************************************************)
(* How the dashboard learns of rows that containers write: the session     *)
(* poller (src/dashboard/session-poller.ts) compares a watermark, the row  *)
(* count and the largest updated_at, scans the rows when it moved and      *)
(* broadcasts the sessions that changed.  An interval starts a poll        *)
(* whether or not the last one has ended.                                  *)
(*                                                                         *)
(* A row is a version number and the time of its last save, which is the   *)
(* time the save began; saves of two containers can commit in either order.*)
(***************************************************************************)
EXTENDS Naturals, FiniteSets

CONSTANTS
  Items,      \* work items
  Polls,      \* polls that overlap
  MaxSaves,   \* bound: saves
  MaxMoves,   \* bound: changes of the slot list
  MaxFaults   \* bound: queries that fail

VARIABLES
  table,   \* pipeline_state: version and updated_at of each row, version 0 when absent
  saves,   \* saves that have begun: the clock
  open,    \* saves that have not committed
  slots,   \* runner_status: the items the watcher holds a slot for
  poll,    \* each poll
  known,   \* knownSessions: what was last broadcast of each item
  mark,    \* lastWatermark
  spent,   \* moves and faults so far
  missed   \* ghost: something changed that the watermark cannot tell

vars == << table, saves, open, slots, poll, known, mark, spent, missed >>

-----------------------------------------------------------------------------
NoMark == [count |-> 0, max |-> 0]
NoPoll == [pc |-> "idle", mark |-> NoMark, slots |-> {}, left |-> {}, seen |-> {}]

Rows == { i \in Items : table[i].ver # 0 }

\* getWatermark.
Watermark ==
  [count |-> Cardinality(Rows),
   max   |-> CHOOSE n \in 0..MaxSaves :
               /\ \A i \in Rows : table[i].at <= n
               /\ n = 0 \/ \E i \in Rows : table[i].at = n]

Init ==
  /\ table = [i \in Items |-> [ver |-> 0, at |-> 0]]
  /\ saves = 0 /\ open = {} /\ slots = {}
  /\ poll = [n \in Polls |-> NoPoll]
  /\ known = [i \in Items |-> [ver |-> 0, running |-> FALSE]]
  /\ mark = NoMark
  /\ spent = [moves |-> 0, faults |-> 0]
  /\ missed = FALSE

Fault == spent.faults < MaxFaults /\ spent' = [spent EXCEPT !.faults = @ + 1]

-----------------------------------------------------------------------------
(* Containers and the watcher. *)

\* The statement begins: now() is fixed.
SaveBegin(i) ==
  /\ saves < MaxSaves /\ saves' = saves + 1
  /\ open' = open \cup {[item |-> i, at |-> saves + 1]}
  /\ UNCHANGED << table, slots, poll, known, mark, spent, missed >>

\* It commits, after a later one or not.
SaveCommit(s) ==
  /\ s \in open /\ open' = open \ {s}
  /\ table' = [table EXCEPT ![s.item] = [ver |-> s.at, at |-> s.at]]
  /\ missed' = (missed \/ \E i \in Rows : table[i].at > s.at)
  /\ UNCHANGED << saves, slots, poll, known, mark, spent >>

\* writeStatus: the slot list is another table, which the watermark does not cover.
MoveSlot(i) ==
  /\ spent.moves < MaxMoves /\ spent' = [spent EXCEPT !.moves = @ + 1]
  /\ slots' = IF i \in slots THEN slots \ {i} ELSE slots \cup {i}
  /\ UNCHANGED << table, saves, open, poll, known, mark, missed >>

-----------------------------------------------------------------------------
(* SessionPoller.poll. *)

Set(n, next) == poll' = [poll EXCEPT ![n] = next]

\* The watermark is kept as soon as it is read.
MarkAfterReadMutant(new) == new

\* It is kept only after the scan.
MarkAfterRead(new) == mark

\* lastWatermark starts as null: an empty table is scanned to no effect.
ReadMark(n) ==
  /\ poll[n].pc = "idle" /\ Watermark # mark
  /\ Set(n, [NoPoll EXCEPT !.pc = "list", !.mark = Watermark, !.slots = slots])
  /\ mark' = MarkAfterRead(Watermark)
  /\ UNCHANGED << table, saves, open, slots, known, spent, missed >>

List(n) ==
  /\ poll[n].pc = "list" /\ Set(n, [poll[n] EXCEPT !.pc = "scan", !.left = Rows])
  /\ UNCHANGED << table, saves, open, slots, known, mark, spent, missed >>

\* readAllSessions answers [] when the list cannot be read: the scan "completes".
ListFails(n) ==
  /\ poll[n].pc = "list" /\ Fault /\ missed' = TRUE
  /\ Set(n, [poll[n] EXCEPT !.pc = "scan"])
  /\ UNCHANGED << table, saves, open, slots, known, mark >>

\* readSession, one row after the other.
Read(n, i) ==
  /\ poll[n].pc = "scan" /\ i \in poll[n].left
  /\ Set(n, [poll[n] EXCEPT !.left = @ \ {i},
               !.seen = @ \cup {[item |-> i, ver |-> table[i].ver,
                                 running |-> i \in poll[n].slots]}])
  /\ UNCHANGED << table, saves, open, slots, known, mark, spent, missed >>

\* A load throws: the poll ends with nothing kept.
ReadFails(n) ==
  /\ poll[n].pc = "scan" /\ poll[n].left # {} /\ Fault /\ Set(n, NoPoll)
  /\ UNCHANGED << table, saves, open, slots, known, mark, missed >>

\* Broadcast what changed and keep the watermark, in one turn of the event loop.
Publish(n) ==
  /\ poll[n].pc = "scan" /\ poll[n].left = {} /\ Set(n, NoPoll)
  /\ known' = [i \in Items |->
                 IF \E s \in poll[n].seen : s.item = i
                 THEN LET s == CHOOSE x \in poll[n].seen : x.item = i
                      IN  [ver |-> s.ver, running |-> s.running]
                 ELSE known[i]]
  /\ mark' = poll[n].mark
  /\ UNCHANGED << table, saves, open, slots, spent, missed >>

-----------------------------------------------------------------------------
PollStep(n) == ReadMark(n) \/ List(n) \/ Publish(n) \/ \E i \in Items : Read(n, i)

Next ==
  \/ \E i \in Items : SaveBegin(i) \/ MoveSlot(i)
  \/ \E s \in open : SaveCommit(s)
  \/ \E n \in Polls : PollStep(n) \/ ListFails(n) \/ ReadFails(n)

Spec == Init /\ [][Next]_vars

-----------------------------------------------------------------------------
\* "Only latch the watermark once the scan + broadcast have completed"
\* (session-poller.ts:74): when saves end, the last broadcast of every item is its row,
\* however polls overlapped and failed.  Excepted: a save that committed behind a later one,
\* and a list that could not be read.
SessionsCatchUp == <>[](missed \/ \A i \in Items : known[i].ver = table[i].ver)
=============================================================================
