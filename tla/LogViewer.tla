------------------------------ MODULE LogViewer ------------------------------
(***************************************************************************)
(* The log of a session or a review on the dashboard: the entries that     *)
(* containers insert (src/db/pg-log-sink.ts), the poller that streams new  *)
(* ones (src/dashboard/log-poller.ts) and the viewer in the browser, whose *)
(* requests are answered in any order (src/dashboard/client/store.ts and   *)
(* sse.ts).                                                                *)
(*                                                                         *)
(* Entry n of `log` has the id n.  Ids are given when an insert begins and *)
(* inserts use several connections, so they commit in any order, or never. *)
(***************************************************************************)
EXTENDS Naturals, Sequences, SequencesExt, FiniteSetsExt

CONSTANTS
  Sources,      \* sessions and reviews that have a log
  Sessions,     \* the sources a poller streams
  Stages,       \* names of stages
  Stored,       \* the entries the table holds at first: a sequence of sources and stages
  Page,         \* LOG_PAGE_SIZE
  Keep,         \* MAX_RENDERED_LOG_ENTRIES
  MaxEntries,   \* bound: entries ever written
  MaxClicks,    \* bound: what the user does
  MaxPolls,     \* bound: polls of the server that read entries
  MaxFaults     \* bound: reads and requests that fail

VARIABLES
  log,       \* stage_logs
  poller,    \* the server's poller of each session
  polls,     \* polls that have read entries and not yet sent them
  stream,    \* entries sent to the browser and not yet received
  viewer,    \* the signals of the store: what the browser shows
  fetches,   \* requests under way, and their answers
  clicks, ticks, faults   \* how much of each bound is left

vars == << log, poller, polls, stream, viewer, fetches, clicks, ticks, faults >>

None == "none"

Closed == [of |-> None, stage |-> None, stages |-> <<>>, entries |-> <<>>,
           more |-> FALSE, loading |-> FALSE]
NoPoller == [on |-> FALSE, ready |-> FALSE, last |-> 0]

Init ==
  /\ log = [n \in DOMAIN Stored |-> [of |-> Stored[n][1], stage |-> Stored[n][2], in |-> TRUE]]
  /\ stream = <<>>
  /\ poller = [s \in Sessions |-> NoPoller]
  /\ polls = {} /\ fetches = {}
  /\ viewer = Closed
  /\ clicks = MaxClicks /\ ticks = MaxPolls /\ faults = MaxFaults

Fault == faults > 0 /\ faults' = faults - 1

-----------------------------------------------------------------------------
(* Entries and pages *)

Ids(of, S) == { n \in DOMAIN log : log[n].of = of /\ log[n].stage \in S /\ log[n].in }
Ordered(S) == CHOOSE s \in [1..Cardinality(S) -> S] : \A i, j \in DOMAIN s : i < j => s[i] < s[j]

\* The newest Page ids of S, and whether older ones exist.
PageOf(S) == LET asc == Ordered(S)
                 kept == IF Len(asc) > Page THEN Page ELSE Len(asc)
             IN [ok |-> TRUE, rows |-> SubSeq(asc, Len(asc) - kept + 1, Len(asc)),
                 more |-> Len(asc) > Page]

\* GROUP BY stage_name ORDER BY MIN(id)
StagesOf(of) ==
  LET first(st) == Min(Ids(of, {st}))
  IN [ok |-> TRUE, more |-> FALSE,
      rows |-> SetToSortSeq({ st \in Stages : Ids(of, {st}) # {} },
                            LAMBDA a, b : first(a) < first(b))]

NoAnswer == [ok |-> FALSE, rows |-> <<>>, more |-> FALSE]

Write ==
  \E of \in Sources, st \in Stages :
    /\ Len(log) < MaxEntries
    /\ log' = Append(log, [of |-> of, stage |-> st, in |-> FALSE])
    /\ UNCHANGED << poller, polls, stream, viewer, fetches, clicks, ticks, faults >>

Commit ==
  \E n \in DOMAIN log :
    /\ ~log[n].in
    /\ log' = [log EXCEPT ![n].in = TRUE]
    /\ UNCHANGED << poller, polls, stream, viewer, fetches, clicks, ticks, faults >>

-----------------------------------------------------------------------------
(* The server *)

\* lastId is seeded with the latest id (or stays 0 when that read fails).
Seed ==
  \E s \in Sessions :
    /\ poller[s].on /\ ~poller[s].ready
    /\ \/ /\ poller' = [poller EXCEPT ![s].ready = TRUE,
                                      ![s].last = Max(Ids(s, Stages) \cup {0})]
          /\ UNCHANGED faults
       \/ Fault /\ poller' = [poller EXCEPT ![s].ready = TRUE]
    /\ UNCHANGED << log, polls, stream, viewer, fetches, clicks, ticks >>

\* A poll may begin before the one before it has sent what it read.
PollRead ==
  \E s \in Sessions :
    /\ poller[s].ready /\ ticks > 0
    /\ ticks' = ticks - 1
    /\ polls' = polls \cup
         {[of |-> s, tick |-> ticks, mine |-> TRUE,
           rows |-> Ordered({ n \in Ids(s, Stages) : n > poller[s].last })]}
    /\ UNCHANGED << log, poller, stream, viewer, fetches, clicks, faults >>

PollSend ==
  \E p \in polls :
    /\ polls' = polls \ {p}
    /\ stream' = stream \o p.rows
    /\ poller' = IF p.mine
                   THEN [poller EXCEPT ![p.of].last = Max({@} \cup ToSet(p.rows))]
                   ELSE poller
    /\ UNCHANGED << log, viewer, fetches, clicks, ticks, faults >>

\* The session no longer runs, or nobody asked for two minutes.
Stop ==
  \E s \in Sessions :
    /\ poller[s].ready
    /\ poller' = [poller EXCEPT ![s] = NoPoller]
    /\ polls' = { [p EXCEPT !.mine = @ /\ p.of # s] : p \in polls }
    /\ UNCHANGED << log, stream, viewer, fetches, clicks, ticks, faults >>

StartOrRefresh(of) ==
  poller' = IF of \in Sessions /\ ~poller[of].on
              THEN [poller EXCEPT ![of].on = TRUE] ELSE poller

Answers(f) ==
  CASE f.kind = "stages" -> StagesOf(f.of)
    [] f.kind = "page"   -> PageOf(Ids(f.of, {f.stage}))
    [] f.kind = "older"  -> PageOf({ n \in Ids(f.of, {f.stage}) : n < f.before })

Answer ==
  \E f \in fetches :
    /\ ~f.answered
    /\ \E a \in {Answers(f), NoAnswer} :
         /\ fetches' = (fetches \ {f}) \cup {[f EXCEPT !.answered = TRUE, !.answer = a]}
         /\ IF a = NoAnswer THEN Fault ELSE UNCHANGED faults
    /\ StartOrRefresh(f.of)
    /\ UNCHANGED << log, polls, stream, viewer, clicks, ticks >>

-----------------------------------------------------------------------------
(* The browser *)

\* `fresh`: the request's token is still logRequestToken.
Request(kind, of, stage, before) ==
  [kind |-> kind, of |-> of, stage |-> stage, before |-> before, click |-> clicks,
   fresh |-> TRUE, answered |-> FALSE, answer |-> NoAnswer]
Stale(S) == { [f EXCEPT !.fresh = FALSE] : f \in S }
Click == clicks > 0 /\ clicks' = clicks - 1

OpenViewer ==
  \E of \in Sources :
    /\ Click
    /\ viewer' = [Closed EXCEPT !.of = of]
    /\ fetches' = Stale(fetches) \cup {Request("stages", of, None, 0)}
    /\ UNCHANGED << log, poller, polls, stream, ticks, faults >>

OnStage(v, st) == [v EXCEPT !.stage = st, !.entries = <<>>, !.more = FALSE]
PageRequested(S, st) == Stale(S) \cup {Request("page", viewer.of, st, 0)}

SelectLogStage ==
  \E st \in ToSet(viewer.stages) :
    /\ Click
    /\ viewer' = OnStage(viewer, st)
    /\ fetches' = PageRequested(fetches, st)
    /\ UNCHANGED << log, poller, polls, stream, ticks, faults >>

LoadOlder ==
  /\ Click
  /\ viewer.stage # None /\ ~viewer.loading /\ viewer.more /\ viewer.entries # <<>>
  /\ viewer' = [viewer EXCEPT !.loading = TRUE]
  /\ fetches' = fetches \cup {Request("older", viewer.of, viewer.stage, viewer.entries[1])}
  /\ UNCHANGED << log, poller, polls, stream, ticks, faults >>

CloseLogViewer ==
  /\ Click /\ viewer # Closed
  /\ viewer' = Closed
  /\ fetches' = Stale(fetches)
  /\ UNCHANGED << log, poller, polls, stream, ticks, faults >>

\* The second token check of loadOlder is left out.
FreshMutant(f) == f.fresh \/ f.kind = "older"
\* "race guard": the answer to a request of an earlier view is dropped.
Fresh(f) == f.fresh

Merged(rows) == LET all == rows \o viewer.entries
                IN SubSeq(all, 1, IF Len(all) > Keep THEN Keep ELSE Len(all))

\* The three requests' continuations.  A loadOlder clears the flag even when it is dropped.
Arrive ==
  \E f \in fetches :
    LET rest == fetches \ {f}
        a == f.answer
    IN
    /\ f.answered
    /\ \/ /\ f.kind = "stages" /\ Fresh(f) /\ a.rows # <<>>
          /\ viewer' = [OnStage(viewer, Last(a.rows)) EXCEPT !.stages = a.rows]
          /\ fetches' = PageRequested(rest, Last(a.rows))
       \/ /\ f.kind = "stages" /\ (~Fresh(f) \/ a.rows = <<>>)
          /\ fetches' = rest /\ UNCHANGED viewer
       \/ /\ f.kind = "page" /\ fetches' = rest
          /\ viewer' = IF Fresh(f)
                         THEN [viewer EXCEPT !.entries = a.rows, !.more = a.more] ELSE viewer
       \/ /\ f.kind = "older" /\ fetches' = rest
          /\ viewer' = IF Fresh(f) /\ a.ok
                         THEN [viewer EXCEPT !.entries = Merged(a.rows), !.more = a.more,
                                             !.loading = FALSE]
                         ELSE [viewer EXCEPT !.loading = FALSE]
    /\ UNCHANGED << log, poller, polls, stream, clicks, ticks, faults >>

\* An event of the stream is shown when it is of the session, and of the stage, on screen.
Shown(n) ==
  /\ viewer.of \in Sessions /\ viewer.of = log[n].of
  /\ viewer.stage \in {None, log[n].stage}

\* appendLogEntry: an entry above the last one on screen is not looked for.
Receive ==
  /\ stream # <<>>
  /\ LET n == Head(stream)
         e == viewer.entries
         all == Append(e, n)
         had == e # <<>> /\ n <= Last(e) /\ n \in ToSet(e)
     IN viewer' = IF Shown(n) /\ ~ had
                    THEN [viewer EXCEPT !.entries =
                            SubSeq(all, 1 + (IF Len(all) > Keep THEN Len(all) - Keep ELSE 0),
                                   Len(all))]
                    ELSE viewer
  /\ stream' = Tail(stream)
  /\ UNCHANGED << log, poller, polls, fetches, clicks, ticks, faults >>

Server  == Write \/ Commit \/ Seed \/ PollRead \/ PollSend \/ Stop \/ Answer
Browser == OpenViewer \/ SelectLogStage \/ LoadOlder \/ CloseLogViewer \/ Arrive \/ Receive
Next == Server \/ Browser
Spec == Init /\ [][Next]_vars

-----------------------------------------------------------------------------
\* What is on screen belongs to the log that is open: whatever order answers, polls and
\* clicks come in, no entry of another session or stage stays in or joins the view
\* (store.ts "race guard", sse.ts), and a closed viewer is empty.
LogViewPure ==
  \A n \in ToSet(viewer.entries) :
    /\ log[n].of = viewer.of
    /\ viewer.stage \in {None, log[n].stage}
=============================================================================
