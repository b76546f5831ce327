---------------------------- MODULE CodingRounds ----------------------------
(***************************************************************************)
(* The rounds of the coding loop around its CI builds: what the coder is   *)
(* told at the start of a round (src/src/agents/coder/config.ts), which    *)
(* commands it and the ci-waiter may run (coder/bash-guard.ts), the script *)
(* that starts and watches builds (src/scripts/await-pipeline.ts), and the *)
(* check and the gate that its report has to pass                          *)
(* (src/src/pipeline/pipeline-definition.ts).                              *)
(*                                                                         *)
(* Agents are free: they run any command the guard lets through and report *)
(* anything the schema allows.                                             *)
(***************************************************************************)
EXTENDS Naturals, Sequences

CONSTANTS
  Timeout, Interval, \* seconds that an invocation watches, and between two reads
  Reports,       \* bound: what a coder may report of CI and of the environment
  Reviews,       \* bound: verdicts with the issues' keys (file and category)
  Results,       \* bound: what an ended build has come to
  MaxBuilds,     \* bound
  MaxRounds,     \* attempts of the loop
  MaxReturns     \* bound: times that the loop is entered again

VARIABLES
  pc,        \* where the loop is
  budget,    \* the round, and how often the loop can still be entered
  mode,      \* the rerun mode a human's command has set, or "none"
  env,       \* the test environment
  changeset, \* what the coder reported: a sequence of none or one
  reviews, told, \* codeReviews and gateFailure
  builds,
  script,    \* the invocation that is watching a build: none or one
  heard,     \* exits of watching invocations
  seen,      \* the check found the build that the changeset names completed
  refused    \* what refused the latest round: the review, or the unmet conditions

loop == << pc, budget, mode, env, changeset, reviews, told, seen, refused >>
ci == << builds, script, heard >>
vars == << loop, ci >>

ParametersOK ==
  /\ Timeout \in Nat /\ Interval \in Nat \ {0} /\ MaxRounds \in Nat \ {0}
  /\ Reports \subseteq [ci : {"passed", "failed", "not-run"}, published : BOOLEAN,
                        tests : BOOLEAN, skip : BOOLEAN, wizard : BOOLEAN]
  /\ \A r \in Reviews : r.verdict \in {"approve", "revise"}
  /\ Results \subseteq {"succeeded", "partiallySucceeded", "failed", "canceled"}

-----------------------------------------------------------------------------
(* Commands.  A command of await-pipeline is the set of its flags. *)

Flags == {"attach", "branch", "trigger-only", "waiter"}

\* Only the ci-waiter polls (it has the sentinel), and who triggers does not wait.
CiWaiterGuard(flags) ==
  \/ "attach" \in flags /\ "waiter" \notin flags
  \/ "branch" \in flags /\ "trigger-only" \notin flags

\* The other guard leaves these commands alone.
Denied(flags) == CiWaiterGuard(flags)

\* parseRunSource and validateTriggerOnly: exit 3 if neither holds.
Attaches(flags) == "attach" \in flags /\ "trigger-only" \notin flags
Triggers(flags) == "attach" \notin flags /\ "branch" \in flags

ResumeHint(i) == {"attach"} \cup (IF i.waiter THEN {"waiter"} ELSE {})

-----------------------------------------------------------------------------
(* Builds and the script *)

\* `errors`: a task of the timeline has an error, whatever the result of the build.
Queued == [done |-> FALSE, result |-> "none", errors |-> FALSE]

BuildErrs(b) ==
  /\ ~ builds[b].done /\ builds' = [builds EXCEPT ![b].errors = TRUE]
  /\ UNCHANGED << script, heard, loop >>

BuildEnds(b) ==
  /\ ~ builds[b].done
  /\ \E result \in Results : builds' = [builds EXCEPT ![b].done = TRUE, ![b].result = result]
  /\ UNCHANGED << script, heard, loop >>

\* What a read of run b finds: completed with a result, or not.
Status(b) == IF builds[b].done THEN builds[b].result ELSE "none"

Watching(b, latest, flags) ==
  << [run |-> b, spent |-> 0, latest |-> latest, waiter |-> "waiter" \in flags,
      started |-> "attach" \notin flags] >>

\* Agents wait for the command they run, and the coder for its ci-waiter.
Free == pc = "coder" /\ script = << >>

\* A new build, which the caller watches unless it asked for the trigger only.
Trigger(flags) ==
  /\ Free /\ ~ Denied(flags) /\ Triggers(flags) /\ Len(builds) < MaxBuilds
  /\ builds' = Append(builds, Queued)
  /\ script' = IF "trigger-only" \in flags THEN << >> ELSE Watching(Len(builds) + 1, "none", flags)
  /\ UNCHANGED << heard, loop >>

\* The run must exist: else exit 3.
Attach(flags, b) ==
  /\ Free /\ ~ Denied(flags) /\ Attaches(flags)
  /\ script' = Watching(b, Status(b), flags)
  /\ UNCHANGED << builds, heard, loop >>

\* Checked before sleeping; a read that fails leaves the status as it was.
PollAgain ==
  /\ script # << >> /\ script[1].latest = "none" /\ script[1].spent < Timeout
  /\ \E latest \in {"none", Status(script[1].run)} :
       script' = << [script[1] EXCEPT !.spent = @ + Interval, !.latest = latest] >>
  /\ UNCHANGED << builds, heard, loop >>

ExitCode(i) ==
  IF i.latest = "none" THEN 2 ELSE IF i.latest = "succeeded" THEN 0 ELSE 1

Exit ==
  /\ script # << >> /\ (script[1].latest # "none" \/ script[1].spent >= Timeout)
  /\ heard' = heard \cup {[run |-> script[1].run, code |-> ExitCode(script[1])]}
  /\ script' = << >>
  /\ UNCHANGED << builds, loop >>

-----------------------------------------------------------------------------
(* Prompts *)

\* buildCodeRevisionSection: nothing unless the latest review asks for a revision.
Shown(rs) == rs # << >> /\ rs[Len(rs)].verdict = "revise"

RevisionSection(rs) ==
  IF ~ Shown(rs) THEN << >>
  ELSE LET latest == rs[Len(rs)].issues
           earlier == UNION { rs[i].issues : i \in 1..(Len(rs) - 1) }
       IN << [latest |-> latest, resolved |-> earlier, recurring |-> latest \cap earlier] >>

\* buildPrompt: a rerun works on the existing branch, if there is one; only the fresh prompt
\* says why the gate refused.
Prompt ==
  LET kind == IF changeset = << >> THEN "none" ELSE mode IN
  [kind |-> kind, section |-> RevisionSection(reviews),
   why |-> IF kind = "none" THEN told ELSE {}]

-----------------------------------------------------------------------------
(* The gate *)

EnvValidated(c) == ~ env.exists \/ c.skip \/ (c.published /\ c.tests)

\* codingIsApproved.
Approved ==
  /\ reviews # << >> /\ reviews[Len(reviews)].verdict = "approve"
  /\ changeset # << >> /\ changeset[1].ci = "passed" /\ EnvValidated(changeset[1])

Unmet(c) ==
  (IF c.ci # "passed" THEN {"ci"} ELSE {}) \cup
  (IF env.exists /\ ~ c.skip
   THEN (IF c.published THEN {} ELSE {"published"}) \cup (IF c.tests THEN {} ELSE {"tests"})
   ELSE {})

\* explainCodingGate: only an approving review needs the explanation.
ExplainCodingGate ==
  IF reviews[Len(reviews)].verdict # "approve" \/ Approved THEN {} ELSE Unmet(changeset[1])

-----------------------------------------------------------------------------
(* The loop *)

Init ==
  /\ pc = "coder" /\ budget = [round |-> 1, entries |-> MaxReturns] /\ mode = "none"
  /\ env \in [exists : BOOLEAN, activated : {FALSE}]
  /\ changeset = << >> /\ reviews = << >> /\ told = {} /\ builds = << >> /\ script = << >>
  /\ heard = {} /\ seen = FALSE /\ refused = {}

\* applyCoderOutput.  `run` 0: the report names no run.
Report(r, run) ==
  /\ Free
  /\ changeset' = << [run |-> run, ci |-> r.ci, published |-> r.published, tests |-> r.tests,
                      skip |-> r.skip] >>
  /\ env' = [env EXCEPT !.activated = @ \/ (env.exists /\ r.wizard)]
  /\ mode' = "none" /\ pc' = "verify"
  /\ UNCHANGED << budget, reviews, told, seen, refused, ci >>

\* buildCIVerificationHook: errors of the named run make a failure of it.
Checked(c) == IF builds[c.run].errors THEN [c EXCEPT !.ci = "failed"] ELSE c

Verify ==
  /\ pc = "verify" /\ pc' = "review"
  /\ IF changeset[1].run = 0 THEN changeset' = changeset /\ seen' = FALSE
     ELSE /\ changeset' = << Checked(changeset[1]) >>
          /\ seen' = builds[changeset[1].run].done
  /\ UNCHANGED << budget, mode, env, reviews, told, refused, ci >>

Review(r) ==
  /\ pc = "review" /\ pc' = "gate"
  /\ reviews' = Append(reviews, r)
  /\ UNCHANGED << budget, mode, env, changeset, told, seen, refused, ci >>

Accept ==
  /\ pc = "gate" /\ Approved
  /\ pc' = "done" /\ budget' = [budget EXCEPT !.round = 0] /\ told' = {} /\ refused' = {}
  /\ UNCHANGED << mode, env, changeset, reviews, seen, ci >>

\* The next round, or the end of the budget.
Refuse ==
  /\ pc = "gate" /\ ~ Approved
  /\ told' = ExplainCodingGate
  /\ refused' = IF reviews[Len(reviews)].verdict = "approve" THEN Unmet(changeset[1])
                ELSE {"review"}
  /\ IF budget.round < MaxRounds THEN pc' = "coder" /\ budget' = [budget EXCEPT !.round = @ + 1]
     ELSE pc' = "exhausted" /\ budget' = budget
  /\ UNCHANGED << mode, env, changeset, reviews, seen, ci >>

\* An agent or the check throws; whatever was being watched is lost.
Throw ==
  /\ pc \in {"coder", "verify", "review"} /\ pc' = "thrown" /\ script' = << >>
  /\ UNCHANGED << budget, mode, env, changeset, reviews, told, seen, refused, builds, heard >>

\* The loop is entered again.  A human's command or a resumption of the exhausted loop keeps
\* the reviews and fills the budget; a resumption after a crash does neither.
Enter(m, keep) ==
  /\ budget.entries > 0 /\ mode' = m
  /\ LET left == [budget EXCEPT !.entries = @ - 1] IN
     IF m # "none" \/ keep
     THEN reviews' = reviews /\ budget' = [left EXCEPT !.round = 1] /\ pc' = "coder"
     ELSE /\ reviews' = << >>
          /\ IF budget.round < MaxRounds
             THEN budget' = [left EXCEPT !.round = @ + 1] /\ pc' = "coder"
             ELSE budget' = left /\ pc' = "exhausted"
  /\ refused' = IF m = "none" /\ ~ keep THEN refused \ {"review"} ELSE refused
  /\ UNCHANGED << env, changeset, told, seen, ci >>

Rerun(m) == pc \in {"done", "exhausted"} /\ changeset # << >> /\ Enter(m, FALSE)
ResumeExhausted == pc = "exhausted" /\ Enter("none", TRUE)
ResumeThrown == pc = "thrown" /\ Enter(mode, FALSE)

Next ==
  \/ \E b \in DOMAIN builds : BuildErrs(b) \/ BuildEnds(b)
  \/ \E flags \in SUBSET Flags : Trigger(flags) \/ \E b \in DOMAIN builds : Attach(flags, b)
  \/ PollAgain \/ Exit
  \/ \E r \in Reports, run \in {0} \cup DOMAIN builds : Report(r, run)
  \/ Verify
  \/ \E r \in Reviews : Review(r)
  \/ Accept \/ Refuse \/ Throw
  \/ \E m \in {"fix", "fix-test"} : Rerun(m)
  \/ ResumeExhausted \/ ResumeThrown

Spec == Init /\ [][Next]_vars

-----------------------------------------------------------------------------
\* An exit code tells of a run what is true of it from then on (await-pipeline.ts:36):
\* 0 that it succeeded, 1 that it ended otherwise.
ExitsTrue ==
  \A h \in heard : /\ h.code = 0 => Status(h.run) = "succeeded"
                   /\ h.code = 1 => Status(h.run) \notin {"none", "succeeded"}

\* Whoever watches a run has the sentinel and has not started it, gives up within one read of
\* its time, and is then told a command which the guard lets through and which watches on
\* (bash-guard.ts:10, await-pipeline.ts:157).
WatchGoesOn ==
  script # << >> =>
    LET i == script[1]  hint == ResumeHint(i) IN
    /\ i.waiter /\ ~ i.started /\ i.spent < Timeout + Interval
    /\ ~ Denied(hint) /\ Attaches(hint) /\ hint \subseteq Flags

\* Accepted code had an approving review and a passed build: no task of a run that the report
\* named, and that had ended when it was checked, has an error; and it was validated in the
\* environment, or says why not (pipeline-definition.ts:26, 139).
AcceptedClean ==
  pc = "done" =>
    LET c == changeset[1] IN
    /\ reviews[Len(reviews)].verdict = "approve"
    /\ c.ci = "passed" /\ EnvValidated(c)
    /\ c.run # 0 /\ seen => ~ builds[c.run].errors

\* A coder that starts afresh on a refused round is told what refused it, and nothing that
\* refused an earlier one: the review, or, if the reviewer approved, the conditions that were
\* not met (coder/config.ts:424, revision-loop.ts:209).
RefusalTold ==
  pc = "coder" =>
    /\ "review" \in refused => Shown(reviews)
    /\ Prompt.kind = "none" => Prompt.why = refused \ {"review"}

=============================================================================
