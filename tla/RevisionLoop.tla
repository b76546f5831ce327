---------------------------- MODULE RevisionLoop ----------------------------
(***************************************************************************)
(* The producer/reviewer loop of src/pipeline/revision-loop.ts as pure     *)
(* operators on the row: what entering the loop does to it, what each      *)
(* attempt records, and which of the three exits a review takes.           *)
(***************************************************************************)
EXTENDS PipelineState

\* Every entry into the loop starts counting from zero.
GrantsFreshBudgetMutant(s) == TRUE

\* A human-granted retry refills the attempt budget; an automatic resume does not.
GrantsFreshBudget(s) == s.rerun \/ s.skip

\* The row after the resets at the top of execute().
Entered(l, s) ==
  LET fresh  == IF s.rerun \/ s.skip THEN s ELSE ResetState(l, s)
      unskip == [fresh EXCEPT !.skip = FALSE]
  IN  IF unskip.esc = l
      THEN [unskip EXCEPT !.esc = "none", !.stall = [@ EXCEPT ![l] = 0]]
      ELSE unskip

\* maxAttempts off by one.
BudgetLeftMutant(n) == n <= MaxAttempts

\* The loop condition: another attempt after n of them.
BudgetLeft(n) == n < MaxAttempts

PriorAttempts(l, s) == IF GrantsFreshBudget(s) THEN 0 ELSE Entered(l, s).attempts[l]

\* The attempt is counted only once the round is over.
RecordAttemptLate(l, n, s) == [s EXCEPT !.attempts = [@ EXCEPT ![l] = n - 1]]

\* The attempt is never counted.
RecordAttemptNever(l, n, s) == s

\* The feedback is taken as answered when the producer starts, not when it returns.
RecordAttemptAnswers(l, n, s) ==
  [s EXCEPT !.attempts = [@ EXCEPT ![l] = n], !.feedback = FALSE]

\* The attempt is recorded before the producer runs.
RecordAttempt(l, n, s) == [s EXCEPT !.attempts = [@ EXCEPT ![l] = n]]

\* applyOutput of each producer: the planner writes plan version p, the coder
\* implements the plan unless the fix prompt sends it to the existing branch.
Produced(l, p, built, tests, s) ==
  CASE l = "planning" -> [s EXCEPT !.plan = p, !.feedback = FALSE]
    [] l = "coding"   ->
         [s EXCEPT !.code     = IF s.rerun /\ s.code # NoPlan THEN s.code ELSE s.plan,
                   !.built    = built,
                   !.feedback = FALSE,
                   !.rerun    = FALSE]
    [] OTHER          -> [s EXCEPT !.tests = tests]

\* applyOutput of each reviewer.
Reviewed(l, v, s) == IF l = "coding" THEN [s EXCEPT !.review = v] ELSE s

\* The coding gate forgets CI and the environment.
IsApprovedMutant(l, v, s) == v = "approve"

\* isApproved; for coding this is codingIsApproved.
IsApproved(l, v, s) == v = "approve" /\ (l = "coding" => s.built)

\* The budget is handed back on approval.
Approved(l, s) == [s EXCEPT !.attempts = [@ EXCEPT ![l] = 0]]

\* Which loops carry a convergence trigger: only the default list gives one to coding.
Converges(l, cmd) == l = "planning" \/ (l = "coding" /\ cmd = "continue")

\* One more issue count: a fall restarts the trailing run hasPlateaued looks at.
Counted(l, fell, s) ==
  LET run == IF fell \/ s.stall[l] = 0 THEN 1
             ELSE IF s.stall[l] < Window THEN s.stall[l] + 1 ELSE Window
  IN  [s EXCEPT !.stall = [@ EXCEPT ![l] = run]]

Plateaued(l, s) == s.stall[l] = Window

\* The pause that asks a human instead of spending the rest of the budget.
Escalated(l, s) == [s EXCEPT !.cp = ConvergenceName(l), !.esc = l]
=============================================================================
