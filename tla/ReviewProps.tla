---------------------------- MODULE ReviewProps ----------------------------
(***************************************************************************)
(* What reviews of a pull request promise.                                 *)
(***************************************************************************)
EXTENDS Review

Automatic(a) == queue[a].by \in {"created", "published"}

\* Webhooks are delivered twice and together: one comment queues one review, and creation
\* and publications of one pull request queue one between them
\* (pg-webhook-event-store.ts:24).
ReviewsQueuedOnce ==
  \A a, b \in DOMAIN queue : a # b =>
    queue[a].by # queue[b].by /\ ~ (Automatic(a) /\ Automatic(b))

\* An action whose review was started is completed only when somebody heard of it: a summary,
\* a row or a notification (action-processor.ts:302); and only the full reviewer can leave the
\* pull request without a review (review-pr.ts:1570), every other failure falls back.  The code
\* has one way to complete an action in silence, before anything is started: an invalid
\* payload or an unknown repository (action-processor.ts:178-190), which `dropped` marks.
NeverSilent ==
  \A a \in DOMAIN queue :
    /\ queue[a].st = "completed" => a \in rows \cup told \cup posted \/ queue[a].dropped
    /\ a \in rows \ posted => a \in broken

\* A step that puts a suggestion under a finding.
FixCurrent ==
  \A k \in Keys : threads'[k].fix # threads[k].fix /\ threads'[k].fix # << >> =>
    threads'[k].fix[1] >= box.ended

\* An Apply button was checked against a commit that was current when the agent had ended,
\* not against the one the run started from (review-pr.ts:1013).
SuggestionsCurrent == [][FixCurrent]_vars

\* The prompt and the row never claim a better tree than the one the agents read
\* (review-tree.ts:104).
TreeClaimTrue ==
  box.pc \in {"sanity", "full", "threads", "write", "save", "error"} =>
    box.claim \in {box.tree, "default-branch"}
=============================================================================
