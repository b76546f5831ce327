----------------------------- MODULE RepoForms -----------------------------
(***************************************************************************)
(* The repositories screen of the dashboard in one admin's browser: the    *)
(* list, the one open panel, the form a stored configuration is turned     *)
(* into, and the configuration the form is turned back into.  Other admins *)
(* write the same rows; module Registry models what the processes make of  *)
(* them.                                                                   *)
(***************************************************************************)
EXTENDS Naturals, FiniteSets

CONSTANTS
  RepoKeys,     \* registration keys
  Configs,      \* stored configurations, a set of Config
  MaxFields,    \* bound: fields changed in one form
  MaxOthers,    \* bound: changes by other admins
  MaxPosts      \* bound: requests of this browser

\* A flag of a configuration may be absent, which means no, except for autoReview.
Flag == {"absent", "yes", "no"}

\* testCases stands for the flags that must be set, url for the required texts, env for the
\* optional parts given as JSON.
Config == [autoReview : Flag, testCases : Flag, url : {"a", "b"}, env : {"absent", "given"}]

VARIABLES
  rows,         \* the table; "gone" is no row
  list,         \* what the screen shows: [status, rows]
  loads,        \* list requests on their way: [n, status, rows]
  panel,        \* the open panel: [kind, key]
  form,         \* the fields of the form
  shown,        \* the configuration the form was opened on
  edited,       \* the fields the admin changed in it
  posts,        \* changes on their way: [n, kind, key, config, shown, edited, state]
  others, sent  \* counted against the bounds

vars == << rows, list, loads, panel, form, shown, edited, posts, others, sent >>

Gone == [url |-> "gone"]
Closed == [kind |-> "closed", key |-> "none"]

\* What the rest of the system makes of a configuration.
Effect(c) == [autoReview |-> c.autoReview # "no",
              testCases |-> c.testCases = "yes", url |-> c.url, env |-> c.env]

-----------------------------------------------------------------------------
(* Form and configuration *)

\* Check boxes are ticked or not, texts may be blank, JSON may be broken.
EmptyFormState ==
  [autoReview |-> TRUE, testCases |-> FALSE, url |-> "", env |-> ""]

RepoConfigToFormState(c) ==
  [autoReview |-> c.autoReview # "no",
   testCases |-> c.testCases = "yes", url |-> c.url, env |-> IF c.env = "given" THEN "given" ELSE ""]

Buildable(f) == f.env # "broken"

YesNo(b) == IF b THEN "yes" ELSE "no"

BuildRepoConfigFromForm(f) ==
  [autoReview |-> YesNo(f.autoReview),
   testCases |-> YesNo(f.testCases), url |-> f.url,
   env |-> IF f.env = "" THEN "absent" ELSE f.env]

-----------------------------------------------------------------------------
Init ==
  /\ rows \in [RepoKeys -> Configs \cup {Gone}]
  /\ list = [status |-> "loading", rows |-> rows]
  /\ loads = { [n |-> 0, status |-> "asked", rows |-> rows] }
  /\ panel = Closed /\ form = EmptyFormState /\ shown = Gone /\ edited = {}
  /\ posts = {} /\ others = 0 /\ sent = 0

Listed(k) == list.status = "ready" /\ list.rows[k] # Gone
EditorOpen == panel.kind \in {"create", "edit"}
Saving   == \E p \in posts : p.kind = "put"
Deleting == \E p \in posts : p.kind = "delete"

LoadRepos(from) ==
  /\ list' = [list EXCEPT !.status = "loading"]
  /\ loads' = loads \cup { [n |-> from, status |-> "asked", rows |-> rows] }

\* Leaving the tab and coming back.
Remount ==
  /\ sent < MaxPosts /\ sent' = sent + 1
  /\ LoadRepos(sent + 1)
  /\ UNCHANGED << rows, panel, form, shown, edited, posts, others >>

\* Every opener replaces the panel; the list, with its buttons, is hidden behind an editor.
OpenCreate ==
  /\ ~ EditorOpen
  /\ panel' = [kind |-> "create", key |-> "none"]
  /\ form' = EmptyFormState /\ shown' = Gone /\ edited' = {}
  /\ UNCHANGED << rows, list, loads, posts, others, sent >>

OpenEdit(k) ==
  /\ ~ EditorOpen /\ Listed(k)
  /\ panel' = [kind |-> "edit", key |-> k]
  /\ form' = RepoConfigToFormState(list.rows[k]) /\ shown' = list.rows[k] /\ edited' = {}
  /\ UNCHANGED << rows, list, loads, posts, others, sent >>

RequestDelete(k) ==
  /\ ~ EditorOpen /\ Listed(k)
  /\ panel' = [kind |-> "confirmDelete", key |-> k]
  /\ UNCHANGED << rows, list, loads, form, shown, edited, posts, others, sent >>

\* The fields of a form that is not open are never read: every opener sets them.
ClosePanel ==
  /\ panel' = Closed
  /\ form' = EmptyFormState /\ shown' = Gone /\ edited' = {}

\* Closing an editor while it saves, or a confirmation while it deletes, is disabled.
Close ==
  /\ panel.kind # "closed"
  /\ IF EditorOpen THEN ~ Saving ELSE ~ Deleting
  /\ ClosePanel
  /\ UNCHANGED << rows, list, loads, posts, others, sent >>

Inputs == [autoReview |-> BOOLEAN, testCases |-> BOOLEAN, url |-> {"", "b"},
           env |-> {"", "given", "broken"}]

EditField(x) ==
  /\ EditorOpen
  /\ \E v \in Inputs[x] \ {form[x]} : form' = [form EXCEPT ![x] = v]
  /\ edited' = edited \cup {x}
  /\ Cardinality(edited') <= MaxFields
  /\ UNCHANGED << rows, list, loads, panel, shown, posts, others, sent >>

Post(kind, k, config) ==
  /\ sent < MaxPosts /\ sent' = sent + 1
  /\ posts' = posts \cup { [n |-> sent + 1, kind |-> kind, key |-> k, config |-> config,
                            shown |-> shown, edited |-> edited, state |-> "sent"] }

\* A broken text is reported without a request.  The key of an edit is that of its panel.
SubmitForm ==
  /\ EditorOpen /\ ~ Saving /\ Buildable(form)
  /\ \E k \in IF panel.kind = "edit" THEN {panel.key} ELSE RepoKeys :
       Post("put", k, BuildRepoConfigFromForm(form))
  /\ UNCHANGED << rows, list, loads, panel, form, shown, edited, others >>

ConfirmDelete ==
  /\ panel.kind = "confirmDelete" /\ Listed(panel.key) /\ ~ Deleting
  /\ Post("delete", panel.key, Gone)
  /\ UNCHANGED << rows, list, loads, panel, form, shown, edited, others >>

-----------------------------------------------------------------------------
(* The server *)

Other(k) ==
  /\ others < MaxOthers /\ others' = others + 1
  /\ \E c \in (Configs \cup {Gone}) \ {rows[k]} : rows' = [rows EXCEPT ![k] = c]
  /\ UNCHANGED << list, loads, panel, form, shown, edited, posts, sent >>

\* PUT validates and writes the whole configuration, whatever the row holds by now; DELETE
\* of no row is refused.
Accepted(p) == IF p.kind = "put" THEN p.config.url # "" ELSE rows[p.key] # Gone

Serve(p) ==
  /\ p.state = "sent"
  /\ rows' = IF Accepted(p) THEN [rows EXCEPT ![p.key] = p.config] ELSE rows
  /\ posts' = (posts \ {p}) \cup {[p EXCEPT !.state = IF Accepted(p) THEN "done" ELSE "refused"]}
  /\ UNCHANGED << list, loads, panel, form, shown, edited, others, sent >>

ServeList(l) ==
  /\ l.status = "asked"
  /\ loads' = (loads \ {l}) \cup
       {[l EXCEPT !.rows = rows, !.status =
           IF \A k \in RepoKeys : rows[k] = Gone THEN "empty" ELSE "ready"]}
  /\ UNCHANGED << rows, list, panel, form, shown, edited, posts, others, sent >>

\* Answers are shown in the order they come.
ReturnList(l) ==
  /\ l.status # "asked"
  /\ loads' = loads \ {l}
  /\ list' = [status |-> l.status, rows |-> l.rows]
  /\ posts' = { p \in posts : p.state # "reloading" \/ p.n # l.n }
  /\ UNCHANGED << rows, panel, form, shown, edited, others, sent >>

\* A success closes whatever panel is open by now and loads the list; the request is over
\* when the list has come.
Return(p) ==
  /\ IF p.state = "done"
     THEN /\ posts' = (posts \ {p}) \cup {[p EXCEPT !.state = "reloading"]}
          /\ ClosePanel /\ LoadRepos(p.n)
     ELSE /\ p.state = "refused" /\ posts' = posts \ {p}
          /\ UNCHANGED << panel, form, shown, edited, list, loads >>
  /\ UNCHANGED << rows, others, sent >>

Next ==
  \/ Remount \/ OpenCreate \/ Close \/ SubmitForm \/ ConfirmDelete
  \/ \E k \in RepoKeys : OpenEdit(k) \/ RequestDelete(k) \/ Other(k)
  \/ \E x \in DOMAIN EmptyFormState : EditField(x)
  \/ \E p \in posts : Serve(p) \/ Return(p)
  \/ \E l \in loads : ServeList(l) \/ ReturnList(l)

Spec == Init /\ [][Next]_vars

-----------------------------------------------------------------------------
\* Saving an edit changes only what the admin changed: the fields left alone mean to the
\* watcher and the webhook what they meant before, though the form has no "absent"
\* (admin-repos.tsx:164).
SavesWhatWasShown ==
  \A p \in posts :
    p.kind = "put" /\ p.shown # Gone =>
      \A x \in DOMAIN Effect(p.shown) \ p.edited : Effect(p.config)[x] = Effect(p.shown)[x]
=============================================================================
