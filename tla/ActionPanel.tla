---------------------------- MODULE ActionPanel ----------------------------
(***************************************************************************)
(* The buttons of the sessions page: which the server offers for a row,    *)
(* what a click sends, what the server makes of it, and how the page       *)
(* follows the action it sent.  One browser, several work items; a request *)
(* may be answered after the next click, and the row moves on by itself.   *)
(* Of the environment panel, only what it sends.                           *)
(***************************************************************************)
EXTENDS Naturals, Sequences, SequencesExt

CONSTANTS
  Items,        \* work items on the page
  Phases,       \* rows an item can be in, a set of RowType
  Opened,       \* bound on those the page is opened with
  MaxMoves,     \* bound on changes of rows
  MaxPosts,     \* bound on requests under way and accepted
  MaxClicks     \* bound on clicks of the person at the page

\* Those of the environment panel, start, stop, delete and share: offered and accepted alike.
EnvironmentActions == {"env"}

Types == {"approve-plan", "rerun-plan", "fix", "continue", "reprovision-env"}
           \cup EnvironmentActions

\* What the two conditions below look at in a row.  `quiet` says that its telemetry is
\* older than half an hour.
RowType == [at    : {"none", "plan-approved", "pr-published", "pr-completed"},
            error : {"none", "planning", "coding", "test-cases", "other"},
            ended : BOOLEAN, quiet : BOOLEAN, pr : BOOLEAN, env : BOOLEAN]

VARIABLES
  row,          \* the stored row of each item
  queue,        \* the actions the server accepted, in order: [item, type, note, status]
  page,         \* the row behind the session the page last received of each item
  seen,         \* the status of each action, as the page last received them
  posts,        \* requests on their way: [n, item, type, note, via, state, id]
  tracked,      \* the bar's one tracked action: [item, type, id], id 0 until it is answered
  form,         \* the feedback form that is open: [item, type]
  text,         \* what was typed into it: [item, type] it was typed for
  moves, clicks   \* counted against the bounds

vars == << row, queue, page, seen, posts, tracked, form, text, moves, clicks >>

NoForm   == [item |-> "none", type |-> "none"]
NoAction == [item |-> "none", type |-> "none", id |-> 0]

-----------------------------------------------------------------------------
(* The two lists of conditions, one for what is offered and one for what is accepted. *)

PlanningError(r) == r.error = "planning"
CodingError(r) == r.error = "coding"
TestCasesError(r) == r.error = "test-cases"

IsStalled(r) == ~r.ended /\ r.error = "none" /\ r.at = "none" /\ r.quiet

GetAvailableActions(r) ==
  (IF r.at = "plan-approved" THEN {"approve-plan"} ELSE {})
  \cup (IF r.at \in {"plan-approved", "pr-published"} \/ PlanningError(r) \/ CodingError(r)
        THEN {"rerun-plan"} ELSE {})
  \cup (IF r.at = "pr-published" \/ CodingError(r) \/ TestCasesError(r) THEN {"fix"} ELSE {})
  \cup (IF r.error # "none" \/ IsStalled(r) THEN {"continue"} ELSE {})
  \cup (IF r.env THEN EnvironmentActions ELSE {})
  \cup (IF r.pr /\ ~r.ended THEN {"reprovision-env"} ELSE {})

\* Bug: the test-cases loop is offered as answerable, and not accepted.
ValidateActionMutant(type, r) ==
  \/ type = "approve-plan" /\ r.at = "plan-approved"
  \/ type = "rerun-plan" /\ (r.at \in {"plan-approved", "pr-published"}
                               \/ PlanningError(r) \/ CodingError(r))
  \/ type = "fix" /\ (r.at = "pr-published" \/ CodingError(r))
  \/ type = "continue" /\ r.error # "none"
  \/ type = "reprovision-env" /\ r.pr /\ ~r.ended
  \/ type \in EnvironmentActions /\ r.env

ValidateAction(type, r) ==
  \/ type = "approve-plan" /\ r.at = "plan-approved"
  \/ type = "rerun-plan" /\ (r.at \in {"plan-approved", "pr-published"}
                               \/ PlanningError(r) \/ CodingError(r))
  \/ type = "fix" /\ (r.at = "pr-published" \/ CodingError(r) \/ TestCasesError(r))
  \/ type = "continue" /\ r.error # "none"
  \/ type = "reprovision-env" /\ r.pr /\ ~r.ended
  \/ type \in EnvironmentActions /\ r.env

FeedbackActions == {"rerun-plan", "fix"}

-----------------------------------------------------------------------------
Init ==
  /\ row \in [Items -> Opened]
  /\ page = row
  /\ queue = << >> /\ seen = << >> /\ posts = {}
  /\ tracked = NoAction /\ form = NoForm /\ text = NoForm
  /\ moves = 0 /\ clicks = 0

barVars == << tracked, form, text >>

\* The pipeline and the clock: any number of their steps between two looks of the page.
MoveRow(i) ==
  /\ moves < MaxMoves
  /\ moves' = moves + 1
  /\ \E r \in Phases \ {row[i]} : row' = [row EXCEPT ![i] = r]
  /\ UNCHANGED << queue, page, seen, posts, barVars, clicks >>

\* The watcher claims a queued action and settles it (module Fleet); the page treats a claimed
\* one as it treats a pending one.
Execute(a) ==
  /\ queue[a].status = "pending"
  /\ \E st \in {"completed", "failed"} : queue' = [queue EXCEPT ![a].status = st]
  /\ UNCHANGED << row, page, seen, posts, barVars, moves, clicks >>

\* A session is sent to the page.
SessionUpdate(i) ==
  /\ page[i] # row[i]
  /\ page' = [page EXCEPT ![i] = row[i]]
  /\ UNCHANGED << row, queue, seen, posts, barVars, moves, clicks >>

\* The list of actions is sent to the page and replaces the one it holds.
ActionUpdate ==
  /\ seen # [a \in DOMAIN queue |-> queue[a].status]
  /\ seen' = [a \in DOMAIN queue |-> queue[a].status]
  /\ UNCHANGED << row, queue, page, posts, barVars, moves, clicks >>

-----------------------------------------------------------------------------
(* The page *)

StatusOf(id) ==
  IF id = 0 \/ id \notin DOMAIN seen THEN "submitting" ELSE seen[id]

Busy == {"submitting", "pending", "completed"}

\* A button is disabled while the action it sent is the tracked one and has not failed.
ButtonEnabled(i, type) ==
  ~ (tracked # NoAction /\ tracked.item = i /\ tracked.type = type /\ StatusOf(tracked.id) \in Busy)

Click == clicks < MaxClicks /\ clicks' = clicks + 1

Post(i, type, note, via) ==
  /\ Cardinality(posts) + Len(queue) < MaxPosts
  /\ LET n == CHOOSE k \in 1..MaxPosts : \A p \in posts : p.n # k
     IN posts' = posts \cup {[n |-> n, item |-> i, type |-> type, note |-> note, via |-> via,
                              state |-> "sent", id |-> 0]}

\* What the bar has buttons for.
PipelineActions(r) == GetAvailableActions(r) \ EnvironmentActions

\* The bar of item i shows its buttons: something is offered, and its form is not open.
ShowsButtons(i) == form.item # i

\* A button that sends at once.
Press(i, type) ==
  /\ Click /\ ShowsButtons(i)
  /\ type \in PipelineActions(page[i]) \ FeedbackActions
  /\ ButtonEnabled(i, type)
  /\ Post(i, type, NoForm, "bar")
  /\ tracked' = [item |-> i, type |-> type, id |-> 0]
  /\ UNCHANGED << row, queue, page, seen, form, text, moves >>

\* A button that opens the form, which is the only one on the page, with empty text.
OpenFeedback(i, type) ==
  /\ Click /\ ShowsButtons(i)
  /\ type \in PipelineActions(page[i]) \cap FeedbackActions
  /\ ButtonEnabled(i, type)
  /\ form' = [item |-> i, type |-> type]
  /\ text' = NoForm
  /\ UNCHANGED << row, queue, page, seen, posts, tracked, moves >>

\* The environment panel sends for the item it is shown for.  What it tracks, and what of it is
\* armed, is not modelled: a button may be pressed whenever it is there.
HandleEnvAction(i, type) ==
  /\ Click /\ type \in GetAvailableActions(page[i]) \cap EnvironmentActions
  /\ Post(i, type, NoForm, "environment")
  /\ UNCHANGED << row, queue, page, seen, tracked, form, text, moves >>

\* The form is shown while its item offers anything at all.
FormShown == form # NoForm /\ PipelineActions(page[form.item]) # {}

TypeFeedback ==
  /\ Click /\ FormShown /\ text = NoForm
  /\ text' = form
  /\ UNCHANGED << row, queue, page, seen, posts, tracked, form, moves >>

\* Cancel or Escape.
CloseFeedback ==
  /\ Click /\ FormShown
  /\ form' = NoForm /\ text' = NoForm
  /\ UNCHANGED << row, queue, page, seen, posts, tracked, moves >>

\* Ctrl+Enter sends whether or not the button is enabled.
SubmitFeedback ==
  /\ Click /\ FormShown /\ text # NoForm
  /\ Post(form.item, form.type, text, "form")
  /\ tracked' = [item |-> form.item, type |-> form.type, id |-> 0]
  /\ UNCHANGED << row, queue, page, seen, form, text, moves >>

-----------------------------------------------------------------------------
(* The server and its answers *)

\* POST /api/actions: the row as it is now is loaded and decides; an accepted action is queued.
Serve(p) ==
  /\ p.state = "sent"
  /\ IF ValidateAction(p.type, row[p.item])
     THEN /\ queue' = Append(queue, [item |-> p.item, type |-> p.type, note |-> p.note,
                                     status |-> "pending"])
          /\ posts' = (posts \ {p}) \cup {[p EXCEPT !.state = "queued", !.id = Len(queue) + 1]}
     ELSE /\ posts' = (posts \ {p}) \cup {[p EXCEPT !.state = "refused"]}
          /\ UNCHANGED queue
  /\ UNCHANGED << row, page, seen, barVars, moves, clicks >>

\* The answer names the action: the tracker is set to the caller's own item and type.
Answered(p) == [item |-> p.item, type |-> p.type, id |-> p.id]

\* An answer for the bar.  A refusal clears the tracker, whatever it tracks by now; an answer
\* to a form closes the form that is open by now.
BarReturn(p) ==
  /\ p.state # "sent" /\ p.via # "environment"
  /\ posts' = posts \ {p}
  /\ tracked' = IF p.state = "queued" THEN Answered(p) ELSE NoAction
  /\ IF p.via = "form" THEN form' = NoForm /\ text' = NoForm ELSE UNCHANGED << form, text >>
  /\ UNCHANGED << row, queue, page, seen, moves, clicks >>

\* An answer for the environment panel.
EnvironmentReturn(p) ==
  /\ p.state # "sent" /\ p.via = "environment"
  /\ posts' = posts \ {p}
  /\ UNCHANGED << row, queue, page, seen, tracked, form, text, moves, clicks >>

\* A settled action is forgotten a moment after it was shown, unless another is tracked.
BarClear ==
  /\ tracked # NoAction /\ StatusOf(tracked.id) \in {"completed", "failed"}
  /\ tracked' = NoAction
  /\ UNCHANGED << row, queue, page, seen, posts, form, text, moves, clicks >>

Next ==
  \/ \E i \in Items : MoveRow(i) \/ SessionUpdate(i)
  \/ \E i \in Items, type \in Types : Press(i, type) \/ OpenFeedback(i, type)
                                        \/ HandleEnvAction(i, type)
  \/ \E a \in DOMAIN queue : Execute(a)
  \/ ActionUpdate
  \/ TypeFeedback \/ CloseFeedback \/ SubmitFeedback
  \/ \E p \in posts : Serve(p) \/ BarReturn(p) \/ EnvironmentReturn(p)
  \/ BarClear

Spec == Init /\ [][Next]_vars

-----------------------------------------------------------------------------
(* Properties *)

\* Feedback reaches the item and the command it was typed for, whatever forms were opened
\* and closed and whatever answers came in between (action-bar.tsx: one text for all forms).
FeedbackMeant ==
  \A a \in DOMAIN queue :
    queue[a].note # NoForm => queue[a].note = [item |-> queue[a].item, type |-> queue[a].type]

\* What is offered for the row of the item as it is now, but for `continue` of a stalled one,
\* which isStalled offers and no arm of validateAction accepts.
Offered(p) ==
  /\ p.type \in GetAvailableActions(row[p.item])
  /\ ~ (p.type = "continue" /\ IsStalled(row[p.item]))

\* A request is accepted just when its action is offered for the row as it is when the server
\* answers (actions.ts keeps the conditions twice), and refused otherwise; `continue` of a
\* stalled row is offered and refused.
OfferHonoured ==
  \A p \in posts, q \in posts' :
    p.state = "sent" /\ q.n = p.n /\ q.state # "sent" => (q.state = "queued" <=> Offered(p))
=============================================================================
