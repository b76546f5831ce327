------------------------------- MODULE Review -------------------------------
(***************************************************************************)
(* Reviews of one pull request: webhooks (src/webhook-server/), the        *)
(* review-pr actions they queue, the watcher's dispatch of a container     *)
(* (src/cli/watch/action-processor.ts) and the review itself               *)
(* (src/cli/review-pr.ts with src/sdk/ado/ and the git helpers).           *)
(*                                                                         *)
(* Findings are the keys of finding-key.ts; a finding is absent, listed in *)
(* the summary only, or eligible for a thread of its own.  Agents, Azure   *)
(* DevOps and git answer anything they can answer.  Texts, costs and the   *)
(* verdict are left out.                                                   *)
(***************************************************************************)
EXTENDS Naturals, Sequences

CONSTANTS
  Comments,     \* /review comments
  Keys,         \* the keys of some of the findings
  Troubles      \* bound: pushes, replies, repeated deliveries, crashes, failed calls, unknown
                \* repositories; no trouble: the full reviewer that ends in an error

VARIABLES
  pr,        \* the pull request and its repository's review settings
  hook,      \* each webhook delivery: where its handler is
  asked,     \* the /review comments: command and thread
  queue,     \* the review-pr actions; `dropped` is a ghost
  job,       \* the watcher's promise for this pull request
  box,       \* the container pr-review-<id>
  threads,   \* the finding threads on the pull request
  rows,      \* actions with a row in pr_reviews
  told,      \* actions a notification was sent for
  posted,    \* actions whose agent posted a summary
  calm,      \* how many troubles have not happened yet
  broken     \* ghost: actions whose full reviewer failed

answers == << rows, told, posted, broken >>
vars    == << pr, hook, asked, queue, job, box, threads, answers, calm >>

-----------------------------------------------------------------------------
\* A trigger: the creation, a publication of the draft, or a comment.  Each is delivered
\* up to twice; a second "published" may also be a second publication.
Triggers   == {"created", "published"} \cup Comments
Deliveries == Triggers \X {1, 2}

\* takes: the automatic triggers the repository's settings let through.
PullRequests == [open : BOOLEAN, draft : BOOLEAN, takes : SUBSET {"created", "published"},
                 head : 0..Troubles]

Threads == {"none", "alone", "discussion", "closed"}

Statuses == {"pending", "running", "completed", "failed"}

Trees == {"default-branch", "source-branch", "merge-commit", "merge-preview",
          "source-head", "target-tip"}

\* What an agent reports of a finding: nothing, a line of the summary, a thread.
Reports  == [Keys -> {"none", "listed", "inline"}]
Nothing  == [k \in Keys |-> "none"]

NoJob == [act |-> 0, pc |-> "none"]
NoBox == [pc |-> "off", act |-> 0, db |-> TRUE, meta |-> FALSE, head |-> 0, path |-> "full",
          tree |-> "default-branch", claim |-> "default-branch", list |-> Nothing,
          todo |-> {}, checked |-> << >>, ended |-> 0]

Init ==
  /\ pr = [open |-> FALSE, draft |-> FALSE, takes |-> {}, head |-> 0]
  /\ hook = [d \in Deliveries |-> "none"]
  /\ asked = [c \in Comments |-> [thread |-> "none", full |-> FALSE]]
  /\ queue = << >> /\ job = NoJob /\ box = NoBox
  /\ threads = [k \in Keys |-> [there |-> FALSE, notices |-> 0, fix |-> << >>]]
  /\ rows = {} /\ told = {} /\ posted = {} /\ broken = {}
  /\ calm = Troubles

-----------------------------------------------------------------------------
(* The pull request and its people *)

Send(t) == \E d \in Deliveries :
  /\ d[1] = t /\ hook[d] = "none" /\ (d[2] = 2 => hook[<< t, 1 >>] # "none")
  /\ hook' = [hook EXCEPT ![d] = "sent"]

Trouble == calm > 0 /\ calm' = calm - 1
Smooth  == calm' = calm

People == UNCHANGED << queue, job, box, answers >>

\* The gates of the request handler: autoReview, no skipped branch prefix and no pipeline
\* item that owns it; the creation of a draft waits for its publication.
Taken(auto, draft, drafts) ==
  { t \in {"created", "published"} : auto /\ (t = "created" /\ draft => drafts) }

Open ==
  /\ ~ pr.open
  /\ \E draft, auto, drafts \in BOOLEAN :
       pr' = [pr EXCEPT !.open = TRUE, !.draft = draft, !.takes = Taken(auto, draft, drafts)]
  /\ Send("created")
  /\ UNCHANGED << asked, threads >> /\ Smooth /\ People

\* isDraftPublished: of all updates only this one is parsed to an event.
Publish ==
  /\ pr.open /\ pr.draft /\ pr' = [pr EXCEPT !.draft = FALSE]
  /\ Send("published")
  /\ UNCHANGED << asked, threads >> /\ Smooth /\ People

BackToDraft ==
  /\ pr.open /\ ~ pr.draft /\ hook[<< "published", 2 >>] = "none"
  /\ pr' = [pr EXCEPT !.draft = TRUE]
  /\ UNCHANGED << hook, asked, threads >> /\ Trouble /\ People

Push ==
  /\ pr.open /\ Trouble /\ pr' = [pr EXCEPT !.head = @ + 1]
  /\ UNCHANGED << hook, asked, threads >> /\ People

\* /review or /review-full, in a thread of its own or as a reply in a discussion.
Ask(c) ==
  /\ pr.open /\ asked[c].thread = "none"
  /\ \E thread \in {"alone", "discussion"}, full \in BOOLEAN :
       asked' = [asked EXCEPT ![c] = [thread |-> thread, full |-> full]]
  /\ Send(c)
  /\ UNCHANGED << pr, threads >> /\ Smooth /\ People

\* A reply under a finding: the last comment is no longer a notice.
Reply(k) ==
  /\ threads[k].notices > 0 /\ threads' = [threads EXCEPT ![k].notices = 0]
  /\ UNCHANGED << pr, hook, asked >> /\ Trouble /\ People

\* Azure DevOps delivers again what was not acknowledged.
Redeliver(t) ==
  /\ hook[<< t, 1 >>] # "none" /\ hook[<< t, 2 >>] = "none"
  /\ hook' = [hook EXCEPT ![<< t, 2 >>] = "sent"]
  /\ UNCHANGED << pr, asked, threads >> /\ Trouble /\ People

-----------------------------------------------------------------------------
(* The webhook server *)

Server == UNCHANGED << pr, asked, job, box, threads, answers, calm >>

\* A comment passes every gate.
Admitted(t) == t \in Comments \cup pr.takes

\* Refused: by the gates, or too old when it is delivered again.
Refuse(d) ==
  /\ hook[d] = "sent" /\ hook' = [hook EXCEPT ![d] = "done"]
  /\ Admitted(d[1]) => d[2] = 2
  /\ UNCHANGED queue /\ Server

\* dedupScopeFor: a comment is looked up by its key, anything else by the pull request.
\* pendingOnly asks for consumed_at IS NULL, a column nothing sets: it narrows nothing.
SameScope(t, u) == IF t \in Comments THEN u = t ELSE u \in Triggers

\* The name of the advisory lock is the scope, not the row.
LockName(t) == IF t \in Comments THEN t ELSE "prId"

\* The lock excludes nobody.
LockFreeMutant(d) == TRUE

LockFree(d) == \A e \in Deliveries \ {d} :
                 hook[e] = "locked" => LockName(e[1]) # LockName(d[1])

\* The gates, then queueUnlessMatching: the lock and the look.
Look(d) ==
  /\ hook[d] = "sent" /\ Admitted(d[1]) /\ LockFree(d)
  /\ LET dupe == \E a \in DOMAIN queue : SameScope(d[1], queue[a].by)
     IN  hook' = [hook EXCEPT ![d] = IF dupe THEN "done" ELSE "locked"]
  /\ UNCHANGED queue /\ Server

\* queueUnlessMatching: the insert; the commit releases the lock.
Insert(d) ==
  /\ hook[d] = "locked" /\ hook' = [hook EXCEPT ![d] = "done"]
  /\ queue' = Append(queue, [by |-> d[1], st |-> "pending",
                             full |-> d[1] \in Comments /\ asked[d[1]].full,
                             dropped |-> FALSE])
  /\ Server

-----------------------------------------------------------------------------
(* The watcher *)

Watcher == UNCHANGED << pr, hook, threads, rows, posted, broken >>

\* processActionFiles: the oldest pending action; while a review of this pull request
\* runs it is refused.
Claim ==
  \E a \in DOMAIN queue :
    /\ queue[a].st = "pending" /\ \A b \in DOMAIN queue : queue[b].st = "pending" => a <= b
    /\ \/ /\ job.act # 0
          /\ queue' = [queue EXCEPT ![a].st = "failed"] /\ job' = job
       \/ /\ job.act = 0
          /\ queue' = [queue EXCEPT ![a].st = "running"] /\ job' = [act |-> a, pc |-> "begin"]
    /\ UNCHANGED << asked, box, told >> /\ Smooth /\ Watcher

\* A payload without pull request or repository, or a repository the watcher's copy of the
\* registry does not list (any more): the body returns at once, as after a review that went
\* well, and Exited completes the action.
Drop ==
  /\ job.pc = "begin" /\ job' = [job EXCEPT !.pc = "exit0"]
  /\ queue' = [queue EXCEPT ![job.act].dropped = TRUE]
  /\ UNCHANGED << asked, box, told >> /\ Trouble /\ Watcher

\* The Like, and the thread is closed when the command is all there is in it.
Acknowledge ==
  /\ job.pc = "begin" /\ job' = [job EXCEPT !.pc = "clear"]
  /\ LET c == queue[job.act].by
     IN  \/ /\ c \in Comments /\ asked[c].thread = "alone"
            /\ asked' = [asked EXCEPT ![c].thread = "closed"] /\ Smooth
         \/ /\ c \in Comments /\ asked[c].thread = "alone"
            /\ Trouble /\ asked' = asked
         \/ /\ c \in Comments => asked[c].thread = "discussion"
            /\ UNCHANGED asked /\ Smooth
  /\ UNCHANGED << queue, box, told >> /\ Watcher

\* removeContainer: a review of an earlier watcher is killed.
Clear ==
  /\ job.pc = "clear" /\ job' = [job EXCEPT !.pc = "spawn"] /\ box' = NoBox
  /\ UNCHANGED << asked, queue, told >> /\ Smooth /\ Watcher

Spawn ==
  /\ job.pc = "spawn"
  /\ \/ /\ box' = [NoBox EXCEPT !.pc = "start", !.act = job.act]
        /\ job' = [job EXCEPT !.pc = "wait"] /\ Smooth
     \/ /\ Trouble   \* docker refuses
        /\ job' = [job EXCEPT !.pc = "exit1"] /\ box' = box
  /\ UNCHANGED << asked, queue, told >> /\ Watcher

\* Any row of the pull request will do.
HasRowMutant(a) == rows # {}

\* findByActionId.
HasRow(a) == a \in rows

\* The exit code: a container that died without a row is reported here.  trackedExecute
\* then completes the action.
Exited ==
  /\ job.pc \in {"exit0", "exit1"} /\ job' = NoJob
  /\ told' = IF job.pc = "exit1" /\ ~ HasRow(job.act) THEN told \cup {job.act} ELSE told
  /\ queue' = [queue EXCEPT ![job.act].st = IF @ = "running" THEN "completed" ELSE @]
  /\ UNCHANGED << asked, box >> /\ Smooth /\ Watcher

\* recoverStale.
Janitor(a) ==
  /\ queue[a].st = "running" /\ queue' = [queue EXCEPT ![a].st = "failed"]
  /\ UNCHANGED << asked, job, box, told >> /\ Trouble /\ Watcher

\* The watcher dies and is restarted; the container runs on.
Crash ==
  /\ Trouble /\ job.act # 0 /\ job' = NoJob
  /\ UNCHANGED << pr, hook, asked, queue, box, threads, answers >>

-----------------------------------------------------------------------------
(* The review container *)

Inside == UNCHANGED << pr, hook, asked, queue >>

\* The process ends; a promise that waits for it learns the exit code.
Leave(code) ==
  /\ box' = NoBox
  /\ job' = IF job.pc = "wait" /\ job.act = box.act THEN [job EXCEPT !.pc = code] ELSE job

\* chooseReviewPath.  port: what the title says and the classifier was accepted with.
ChooseReviewPath(forceFull, port, sourceExists, sourceDiff, branch) ==
  IF ~ forceFull /\ port = "one source" /\ sourceExists /\ sourceDiff /\ branch
  THEN "sanity" ELSE "full"

\* Database and metadata are optional, each in its own try.
Connect ==
  /\ box.pc = "start"
  /\ \E db, meta \in BOOLEAN :
       /\ box' = [box EXCEPT !.db = db, !.meta = meta, !.head = pr.head, !.pc = "route"]
       /\ IF db /\ meta THEN Smooth ELSE Trouble
  /\ UNCHANGED << job, threads, answers >> /\ Inside

\* The route, before anything is spent; argv has the branch when the metadata has not.
Route ==
  /\ box.pc = "route" /\ Smooth
  /\ \E port \in {"no", "no source", "several", "one source"}, exists, diff \in BOOLEAN :
       LET path == ChooseReviewPath(queue[box.act].full, port, exists, diff, TRUE)
       IN  box' = [box EXCEPT !.path = path,
                              !.pc = IF path = "sanity" THEN "checkout" ELSE "ladder"]
  /\ UNCHANGED << job, threads, answers >> /\ Inside

ToFull(b) == [b EXCEPT !.path = "full", !.pc = "ladder"]

\* checkoutBranch; the merge commit stands in for a branch that is gone.
Checkout ==
  /\ box.pc = "checkout" /\ Smooth
  /\ \/ box' = [box EXCEPT !.tree = "source-branch", !.claim = "source-branch", !.pc = "diff"]
     \/ /\ box.meta
        /\ box' = [box EXCEPT !.tree = "merge-commit", !.claim = "merge-commit", !.pc = "diff"]
     \/ box' = ToFull(box)
  /\ UNCHANGED << job, threads, answers >> /\ Inside

\* fetchPRDiff of the port: empty or unavailable means the full review.
PortDiff ==
  /\ box.pc = "diff" /\ Smooth
  /\ box' \in {[box EXCEPT !.pc = "sanity"], ToFull(box)}
  /\ UNCHANGED << job, threads, answers >> /\ Inside

\* reviewTreeCandidates: best first, and none without metadata.
Rungs == IF box.meta THEN {"merge-preview", "source-head", "target-tip"} ELSE {}

\* The best rung is named whether it landed or not.
LadderMutant ==
  /\ box.pc = "ladder" /\ Smooth
  /\ \E won \in Rungs \cup {"default-branch"} :
       box' = [box EXCEPT !.tree = IF won = "default-branch" THEN @ ELSE won,
                          !.claim = IF box.meta THEN "merge-preview" ELSE won, !.pc = "full"]
  /\ UNCHANGED << job, threads, answers >> /\ Inside

\* checkoutReviewTree: the rungs are tried until one lands; when none does the tree stays
\* where it was.
Ladder ==
  /\ box.pc = "ladder" /\ Smooth
  /\ \E won \in Rungs \cup {"default-branch"} :
       box' = [box EXCEPT !.tree = IF won = "default-branch" THEN @ ELSE won,
                          !.claim = won, !.pc = "full"]
  /\ UNCHANGED << job, threads, answers >> /\ Inside

\* The agent reads for minutes, posts its summary and reports; more: findings not in Keys.
Reviewed ==
  /\ \E list \in Reports, more \in BOOLEAN :
       box' = [box EXCEPT !.list = list, !.ended = pr.head,
                          !.pc = IF list = Nothing /\ ~ more THEN "save" ELSE "threads"]
  /\ posted' = posted \cup {box.act} /\ Smooth
  /\ UNCHANGED << rows, told, broken >>

\* runBackportReview; a failed one is followed by the full review.
Sanity ==
  /\ box.pc = "sanity"
  /\ \/ Reviewed
     \/ box' = ToFull(box) /\ Trouble /\ UNCHANGED answers
  /\ UNCHANGED << job, threads >> /\ Inside

\* runPRReview.
Full ==
  /\ box.pc = "full"
  /\ \/ Reviewed
     \/ /\ box' = [box EXCEPT !.pc = "error"] /\ Smooth
        /\ broken' = broken \cup {box.act} /\ UNCHANGED << rows, told, posted >>
  /\ UNCHANGED << job, threads >> /\ Inside

-----------------------------------------------------------------------------
(* Inline findings *)

Existing == { k \in Keys : threads[k].there }
Inline   == { k \in Keys : box.list[k] = "inline" }

\* Every finding with a file counts, at any severity.
Detected == { k \in Keys : box.list[k] # "none" }

\* reconcileFindings: the cap may leave out any new finding, counting those that are not in
\* Keys; it bounds creations only.  A sanity review marks nothing.
Reconciled ==
  LET new   == Inline \ Existing
      stale == { k \in Existing \ Detected : threads[k].notices = 0 }
  IN  { { << "create", k >> : k \in some } \cup { << "update", k >> : k \in Inline \cap Existing }
        \cup { << "stale", k >> : k \in IF box.path = "sanity" THEN {} ELSE stale }
        : some \in SUBSET new }

\* applyInlineFindings reads the threads when it writes.
ReadThreads ==
  /\ box.pc = "threads"
  /\ \/ \E todo \in Reconciled : box' = [box EXCEPT !.todo = todo, !.pc = "write"] /\ Smooth
     \/ box' = [box EXCEPT !.pc = "save"] /\ Trouble
  /\ UNCHANGED << job, threads, answers >> /\ Inside

\* The metadata of the start of the run.
CurrentCommitMutant == << box.head >>

\* currentSourceCommit: read once, when the first suggestion asks for it.
CurrentCommit == IF box.checked = << >> THEN << pr.head >> ELSE box.checked

\* A thread is created, plain or with a suggestion that matches the file at the current
\* commit; a refused suggestion is posted again without it.
Create(k) ==
  \/ /\ threads' = [threads EXCEPT ![k] = [there |-> TRUE, notices |-> 0, fix |-> << >>]]
     /\ box' = [box EXCEPT !.todo = @ \ {<< "create", k >>}]
  \/ /\ threads' = [threads EXCEPT ![k] = [there |-> TRUE, notices |-> 0, fix |-> CurrentCommit]]
     /\ box' = [box EXCEPT !.todo = @ \ {<< "create", k >>}, !.checked = CurrentCommit]

Write ==
  /\ box.pc = "write"
  /\ \E x \in box.todo :
       \/ x[1] = "create" /\ Create(x[2]) /\ Smooth
       \/ /\ x[1] = "update" /\ Smooth
          /\ UNCHANGED threads /\ box' = [box EXCEPT !.todo = @ \ {x}]
       \/ /\ x[1] = "stale" /\ Smooth
          /\ threads' = [threads EXCEPT ![x[2]].notices = @ + 1]
          /\ box' = [box EXCEPT !.todo = @ \ {x}]
       \/ /\ Trouble   \* the call fails, and is counted
          /\ UNCHANGED threads /\ box' = [box EXCEPT !.todo = @ \ {x}]
  /\ UNCHANGED << job, answers >> /\ Inside

Written ==
  /\ box.pc = "write" /\ box.todo = {} /\ box' = [box EXCEPT !.pc = "save"] /\ Smooth
  /\ UNCHANGED << job, threads, answers >> /\ Inside

-----------------------------------------------------------------------------
(* The row *)

\* The summary thread gets its coverage line; a failed save is logged.
Save ==
  /\ box.pc = "save" /\ Leave("exit0")
  /\ \/ rows' = (IF box.db THEN rows \cup {box.act} ELSE rows) /\ Smooth
     \/ box.db /\ rows' = rows /\ Trouble
  /\ UNCHANGED << threads, told, posted, broken >> /\ Inside

\* The catch: a row without results, then the notification; when the save fails neither.
SaveError ==
  /\ box.pc = "error" /\ Leave("exit1")
  /\ \/ /\ rows' = (IF box.db THEN rows \cup {box.act} ELSE rows)
        /\ told' = told \cup {box.act} /\ Smooth
     \/ box.db /\ UNCHANGED << rows, told >> /\ Trouble
  /\ UNCHANGED << threads, posted, broken >> /\ Inside

\* Out of memory, docker, the host.
Die ==
  /\ box.pc # "off" /\ Leave("exit1") /\ Trouble
  /\ UNCHANGED << threads, answers >> /\ Inside

-----------------------------------------------------------------------------
World ==
  \/ Open \/ Publish \/ BackToDraft \/ Push
  \/ \E c \in Comments : Ask(c)
  \/ \E k \in Keys : Reply(k)
  \/ \E t \in Triggers : Redeliver(t)

Requests == \E d \in Deliveries : Refuse(d) \/ Look(d) \/ Insert(d)

Dispatch ==
  \/ Claim \/ Drop \/ Acknowledge \/ Clear \/ Spawn \/ Exited \/ Crash
  \/ \E a \in DOMAIN queue : Janitor(a)

Container ==
  \/ Connect \/ Route \/ Checkout \/ PortDiff \/ Ladder \/ Sanity \/ Full
  \/ ReadThreads \/ Write \/ Written \/ Save \/ SaveError \/ Die

Next == World \/ Requests \/ Dispatch \/ Container

Spec == Init /\ [][Next]_vars
=============================================================================
