----------------------------- MODULE Experiment -----------------------------
(***************************************************************************)
(* The matrix that measures what a PR review costs under four levers       *)
(* (src/scripts/pr-review-tooling-ab.ts): for each pull request and arm a  *)
(* container rewrites its own copy of the reviewer's prompts as its        *)
(* environment says (src/src/cli/review-pr.ts), reviews, and saves a row;  *)
(* the script finds the row, decides whether the arm's configuration took  *)
(* effect (src/scripts/pr-review-eval/compliance.ts) and writes a line.    *)
(* Production reviews the same pull requests and writes to the same table. *)
(*                                                                         *)
(* Of the seven sub-agents three stand for all: one that is exempt from    *)
(* scoping, the one an arm leaves out, and the one whose prompt is cut.    *)
(***************************************************************************)
EXTENDS Naturals, Sequences, FiniteSets

CONSTANTS
  Subjects,    \* bound: pull requests in --prs
  Selections,  \* bound: the sets of names given with --arms
  Rosters,     \* bound: the sets of agents that are dispatched and recorded
  MaxAccidents \* bound: reviews that production starts, and times the script is killed

VARIABLES
  image,    \* which of the texts the levers look for the image's prompts still have
  default,  \* where the reviewer's own model comes from
  matrix,   \* the script
  box,      \* the container of the current cell: a sequence of none or one
  orphans,  \* containers whose script was killed
  live,     \* reviews that production runs, by pull request
  rows,     \* pr_reviews since the current cell was started, the newest first
  lines,    \* the results file
  accidents

vars == << image, default, matrix, box, orphans, live, rows, lines, accidents >>

Agents == {"validator", "quality", "security"}

-----------------------------------------------------------------------------
(* Arms. *)

\* An agent set is a sequence of none (the full roster) or one.
Arm(name, set, routing, scoped, bc) ==
  [name |-> name, set |-> set, routing |-> routing, scoped |-> scoped, bc |-> bc, model |-> ""]

NoCqa == << Agents \ {"quality"} >>

Arms == << Arm("baseline",      << >>, FALSE, FALSE, FALSE),
           Arm("no-cqa",        NoCqa, FALSE, FALSE, FALSE),
           Arm("routed",        << >>, TRUE,  FALSE, FALSE),
           Arm("scoped",        << >>, FALSE, TRUE,  FALSE),
           Arm("bc-security",   << >>, FALSE, FALSE, TRUE),
           Arm("routed+no-cqa", NoCqa, TRUE,  FALSE, FALSE),
           Arm("routed+scoped", << >>, TRUE,  TRUE,  FALSE),
           Arm("lean",          NoCqa, TRUE,  TRUE,  TRUE) >>

\* Of the three probes the one that differs from the baseline in what is modelled.
ProbeArms == << [Arm("inverted", << >>, FALSE, FALSE, FALSE) EXCEPT !.model = "opus"] >>

AllArms == { Arms[i] : i \in DOMAIN Arms } \cup { ProbeArms[i] : i \in DOMAIN ProbeArms }

\* selectArms: probes only by name.
SelectArms(names) ==
  IF names = {} THEN Arms ELSE SelectSeq(Arms \o ProbeArms, LAMBDA a : a.name \in names)

\* The script refuses a selection without an arm.
ParametersOK ==
  /\ Subjects \in Nat
  /\ \A names \in Selections : SelectArms(names) \in Seq(AllArms) \ {<< >>}

-----------------------------------------------------------------------------
(* Levers.  e is the arm whose environment the container has, p the prompts. *)

\* The prompts as the image has them: no block added, nothing cut, the pinned model.
Baked == [set |-> << >>, routes |-> << >>, payload |-> << >>, domains |-> "all", focus |-> "all",
          model |-> "sonnet"]

Active(e) == IF e.set = << >> THEN Agents ELSE e.set[1]

OverrideSubAgentModel(p, e) == IF e.model = "" THEN p ELSE [p EXCEPT !.model = e.model]

RestrictAgentSet(p, e) ==
  IF e.set = << >> \/ p.set # << >> THEN p ELSE [p EXCEPT !.set = e.set]

\* The tables name agents of the active set only.
InjectRouting(p, e) ==
  IF ~ e.routing \/ p.routes # << >> THEN p ELSE [p EXCEPT !.routes = << Active(e) >>]

InjectScopedPayload(p, e) ==
  IF ~ e.scoped \/ p.payload # << >> THEN p
  ELSE [p EXCEPT !.payload = << Active(e) \ {"validator"} >>]

\* trimSecurityDomains: left alone when the heading has drifted.
TrimSecurityDomains(p) == [p EXCEPT !.domains = IF image.heading THEN "bc" ELSE @]

\* trimSecurityDispatchLine, once the agent's own prompt is narrowed.
TrimSecurityDispatchLine(p) ==
  [p EXCEPT !.focus = IF p.domains = "bc" /\ image.line THEN "bc" ELSE @]

TrimSecurity(p, e) ==
  IF ~ e.bc \/ "security" \notin Active(e) THEN p
  ELSE TrimSecurityDispatchLine(TrimSecurityDomains(p))

\* How many of two files differ.
Changed(p, q) == IF p = q THEN 0
                 ELSE IF p.domains # q.domains /\ p.focus # q.focus THEN 2 ELSE 1

\* A lever is recorded, with the files it changed, if the environment enables it.
Recorded(on, n) == IF on THEN << n >> ELSE << >>

Pull(e) ==
  LET p1 == OverrideSubAgentModel(Baked, e)
      p2 == RestrictAgentSet(p1, e)
      p3 == InjectRouting(p2, e)
      p4 == InjectScopedPayload(p3, e)
      p5 == TrimSecurity(p4, e)
  IN [prompts |-> p5,
      levers  |-> [agentSet |-> Recorded(e.set # << >>, Changed(p1, p2)),
                   routing  |-> Recorded(e.routing, Changed(p2, p3)),
                   scoped   |-> Recorded(e.scoped, Changed(p3, p4)),
                   bc       |-> Recorded(e.bc, Changed(p4, p5))]]

-----------------------------------------------------------------------------
(* Compliance. *)

ExpectedModel(a) == IF a.model = "" THEN "sonnet" ELSE a.model

\* The reviewer's model is taken from the environment alone.
AllowedModels(a) == {ExpectedModel(a), "env", "haiku"}

ExpectedDispatch(a) == Cardinality(Active(a))

RequiredCounts == [agentSet |-> 1, routing |-> 1, scoped |-> 1, bc |-> 2]

LeverApplied(levers, l) == levers # << >> /\ levers[1][l] = << RequiredCounts[l] >>

\* checkArmCompliance, as buildComplianceVerdict calls it.
Compliant(a, row) ==
  /\ row.subs # << >> /\ row.subs[1] # {}
  /\ row.subs[1] \subseteq Active(a)
  /\ row.ran = ExpectedModel(a)
  /\ a.set # << >> => LeverApplied(row.levers, "agentSet")
  /\ a.routing => LeverApplied(row.levers, "routing")
  /\ a.scoped => LeverApplied(row.levers, "scoped")
  /\ a.bc => LeverApplied(row.levers, "bc")
  /\ row.dispatched = << >> \/ row.dispatched[1] = ExpectedDispatch(a)
  /\ row.billed \subseteq AllowedModels(a)

-----------------------------------------------------------------------------
(* Rows of pr_reviews; `run` says whose they are. *)

Failed(pr, levers, run) ==
  [pr |-> pr, comment |-> "null", subs |-> << >>, ran |-> "", dispatched |-> << >>, billed |-> {},
   levers |-> levers, run |-> run]

\* What an agent is not asked for, is done on its pin or on the reviewer's model; the roster
\* may miss an agent, and no dispatch leaves no entry for the tool.
Done(pr, comment, levers, run, names, roster, ran) ==
  [pr |-> pr, comment |-> comment, subs |-> << roster >>, ran |-> ran,
   dispatched |-> IF names = {} THEN << >> ELSE << Cardinality(names) >>,
   billed |-> {default, "haiku"} \cup (IF names = {} THEN {} ELSE {ran}),
   levers |-> levers, run |-> run]

\* matchesArmRow.
MatchesArmRow(row, pr) == row.pr = pr /\ row.comment # "posted"

-----------------------------------------------------------------------------
\* `first`: no earlier script can have left a container behind.
Ready(arms, first) ==
  [pc |-> "next", first |-> first, arms |-> arms, pr |-> 1, arm |-> 1, row |-> << >>]

Init ==
  /\ image \in [heading : BOOLEAN, line : BOOLEAN]
  /\ default \in {"env", "settings"}
  /\ \E names \in Selections : matrix = Ready(SelectArms(names), TRUE)
  /\ box = << >> /\ orphans = {} /\ live = [pr \in 1..Subjects |-> 0]
  /\ rows = << >> /\ lines = << >>
  /\ accidents = MaxAccidents

Cell(pr, a) == [pr |-> pr, arm |-> a]
ThisArm == matrix.arms[matrix.arm]
Fixed == UNCHANGED << image, default >>
Quiet == UNCHANGED accidents
Accident == accidents > 0 /\ accidents' = accidents - 1

-----------------------------------------------------------------------------
(* The script. *)

\* A container of the same name is removed first.
StartCell ==
  /\ matrix.pc = "next" /\ matrix.pr <= Subjects
  /\ matrix' = [matrix EXCEPT !.pc = "run"]
  /\ box' = << Cell(matrix.pr, ThisArm) >>
  /\ orphans' = orphans \ {Cell(matrix.pr, ThisArm)}
  /\ rows' = << >>
  /\ UNCHANGED << live, lines >> /\ Quiet /\ Fixed

\* waitForRow: the newest row that matches.
Found(i) ==
  /\ i \in DOMAIN rows /\ MatchesArmRow(rows[i], matrix.pr)
  /\ \A j \in 1..(i - 1) : ~ MatchesArmRow(rows[j], matrix.pr)

FindRow ==
  /\ matrix.pc = "run" /\ box = << >>
  /\ \E i \in DOMAIN rows : Found(i) /\ matrix' = [matrix EXCEPT !.pc = "report", !.row = << rows[i] >>]
  /\ UNCHANGED << box, orphans, live, rows, lines >> /\ Quiet /\ Fixed

\* Never spend a second run without proof that the first was recorded.
GiveUp ==
  /\ matrix.pc = "run" /\ box = << >> /\ \A i \in DOMAIN rows : ~ Found(i)
  /\ matrix' = [matrix EXCEPT !.pc = "aborted"]
  /\ UNCHANGED << box, orphans, live, rows, lines >> /\ Quiet /\ Fixed

\* The arms of a pull request, then the next pull request.
NextCell ==
  IF matrix.arm < Len(matrix.arms)
  THEN [matrix EXCEPT !.pc = "next", !.row = << >>, !.arm = @ + 1]
  ELSE [matrix EXCEPT !.pc = "next", !.row = << >>, !.arm = 1, !.pr = @ + 1]

Report ==
  /\ matrix.pc = "report"
  /\ lines' = Append(lines, [pr |-> matrix.pr, arm |-> ThisArm.name,
                             compliant |-> Compliant(ThisArm, matrix.row[1])])
  /\ matrix' = NextCell
  /\ UNCHANGED << box, orphans, live, rows >> /\ Quiet /\ Fixed

\* The script dies; docker goes on with the container.
Kill ==
  /\ matrix.pc \in {"next", "run", "report"} /\ matrix.pr <= Subjects
  /\ Accident
  /\ matrix' = [matrix EXCEPT !.pc = "killed", !.row = << >>]
  /\ orphans' = orphans \cup { box[i] : i \in DOMAIN box } /\ box' = << >>
  /\ UNCHANGED << live, rows, lines >> /\ Fixed

\* Another invocation, with a results file of its own.
Restart ==
  /\ matrix.pc = "killed"
  /\ \E names \in Selections : matrix' = Ready(SelectArms(names), FALSE)
  /\ rows' = << >> /\ lines' = << >>
  /\ UNCHANGED << box, orphans, live >> /\ Quiet /\ Fixed

-----------------------------------------------------------------------------
(* Containers. *)

\* collectAppliedLevers: nothing is recorded if no lever is enabled.
AppliedLevers(e) ==
  IF e.set = << >> /\ ~ e.routing /\ ~ e.scoped /\ ~ e.bc THEN << >> ELSE << Pull(e).levers >>

\* The review of cell c ends: with a row, or without one if it cannot be saved.
Ends(c) ==
  LET levers == AppliedLevers(c.arm) IN
  \/ rows' = rows
  \/ rows' = << Failed(c.pr, levers, << c >>) >> \o rows
  \/ \E names, roster \in Rosters, ran \in {Pull(c.arm).prompts.model, default} :
       /\ roster \subseteq names
       /\ rows' = << Done(c.pr, "zero", levers, << c >>, names, roster, ran) >> \o rows

EndCell ==
  /\ \E i \in DOMAIN box : Ends(box[i])
  /\ box' = << >>
  /\ UNCHANGED << matrix, orphans, live, lines >> /\ Quiet /\ Fixed

EndOrphan ==
  /\ \E c \in orphans : Ends(c) /\ orphans' = orphans \ {c}
  /\ UNCHANGED << matrix, box, live, lines >> /\ Quiet /\ Fixed

\* Production reviews a pull request, posts, and saves its row.
StartReview(pr) ==
  /\ Accident
  /\ live' = [live EXCEPT ![pr] = @ + 1]
  /\ UNCHANGED << matrix, box, orphans, rows, lines >> /\ Fixed

EndReview(pr) ==
  /\ live[pr] > 0 /\ live' = [live EXCEPT ![pr] = @ - 1]
  /\ \E row \in {Failed(pr, << >>, << >>), Done(pr, "posted", << >>, << >>, Agents, Agents, "sonnet")} :
       rows' = << row >> \o rows
  /\ UNCHANGED << matrix, box, orphans, lines >> /\ Quiet /\ Fixed

Next ==
  \/ StartCell \/ FindRow \/ GiveUp \/ Report \/ Kill \/ Restart
  \/ EndCell \/ EndOrphan
  \/ \E pr \in 1..Subjects : StartReview(pr) \/ EndReview(pr)

Spec == Init /\ [][Next]_vars

-----------------------------------------------------------------------------
\* The prompts of arm e read as e is meant.
InEffect(e, p) ==
  /\ p.model = ExpectedModel(e)
  /\ e.set # << >> => p.set = e.set
  /\ e.routing => p.routes = << Active(e) >>
  /\ e.scoped => p.payload = << Active(e) \ {"validator"} >>
  /\ e.bc => p.domains = "bc" /\ p.focus = "bc"

\* An arm whose configuration never took effect is reported void and not scored
\* (compliance.ts:89): a line that says otherwise is not about a review of production
\* (pr-review-tooling-ab.ts:334), and unless an earlier script was killed and left its
\* containers running, it is about the cell's own review, and every lever was in effect.
CompliantInEffect ==
  matrix.pc = "report" /\ Compliant(ThisArm, matrix.row[1]) =>
    /\ matrix.row[1].run # << >>
    /\ matrix.first => /\ matrix.row[1].run[1] = Cell(matrix.pr, ThisArm)
                       /\ InEffect(ThisArm, Pull(ThisArm).prompts)

\* The blocks of one prompt do not contradict each other (review-pr.ts:336, 449, 694): no
\* table names an agent outside the active set, and the dispatch line is narrowed only if
\* the agent's own prompt is.
PromptsAgree ==
  \A i \in DOMAIN box :
    LET p == Pull(box[i].arm).prompts IN
    /\ p.set # << >> => \A t \in {p.routes, p.payload} : t # << >> => t[1] \subseteq p.set[1]
    /\ p.focus = "bc" => p.domains = "bc"

\* A script that stops anywhere leaves complete pools for the pull requests it is through
\* with (pr-review-tooling-ab.ts:665), and has spent at most one review that no line tells of.
PoolsComplete ==
  /\ matrix.pc = "next" => Len(lines) = (matrix.pr - 1) * Len(matrix.arms) + matrix.arm - 1
  /\ \A i \in DOMAIN lines : \A pr \in 1..(lines[i].pr - 1), a \in DOMAIN matrix.arms :
       \E j \in DOMAIN lines : lines[j].pr = pr /\ lines[j].arm = matrix.arms[a].name

=============================================================================
