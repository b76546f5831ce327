---------------------------- MODULE CourseProofs ----------------------------
(***************************************************************************)
(* The course of a work item: what each stage may take for granted when it *)
(* is reached, for every set of plans, budget, features, faults and inputs; *)
(* EscalationEarned: a loop that asks a human for help has run Window       *)
(* rounds on its budget, unless it works on counts from before the grant;   *)
(* and that the pipeline implements StageOrder and the plan gate holds: a   *)
(* stage is reached in order, only a human's command sends the item back,   *)
(* and the coder starts from an approved plan.                              *)
(***************************************************************************)
EXTENDS PipelineProofs

---------------------------------------------------------------------------
(* The order of the stages *)

LEMMA DefaultTuple ==
  /\ Len(DefaultStages) = 11
  /\ DefaultStages[1] = "analyzer" /\ DefaultStages[2] = "planning"
  /\ DefaultStages[3] = "checkpoint:plan-approved" /\ DefaultStages[4] = "coding"
  /\ DefaultStages[5] = "test-cases" /\ DefaultStages[6] = "draft-pr"
  /\ DefaultStages[7] = "checkpoint:pr-published" /\ DefaultStages[8] = "test-case-activation"
  /\ DefaultStages[9] = "checkpoint:pr-completed" /\ DefaultStages[10] = "documenter"
  /\ DefaultStages[11] = "docs-writer"
  BY DEF DefaultStages

LEMMA DefaultDistinct ==
  ASSUME NEW a \in 1..11, NEW b \in 1..11, DefaultStages[a] = DefaultStages[b]
  PROVE  a = b
  BY DefaultTuple

LEMMA PositionAt ==
  ASSUME NEW k \in 1..11
  PROVE  DefaultStages[k] \in Stages /\ Pos(DefaultStages[k]) = k
  <1> DEFINE name == DefaultStages[k]
  <1>1. name \in Stages
    BY DefaultTuple DEF Stages, Loops, Gates, PlainStages
  <1>2. Pos(name) = StageIndex(DefaultStages, name)
    BY <1>1 DEF Pos, Position
  <1>3. /\ StageIndex(DefaultStages, name) \in 1..11
        /\ DefaultStages[StageIndex(DefaultStages, name)] = name
    <2>1. k \in 1..Len(DefaultStages) /\ Len(DefaultStages) = 11
      BY DefaultTuple
    <2> QED
      BY <2>1, StageIndexFinds
  <1> QED
    BY <1>1, <1>2, <1>3, DefaultDistinct

LEMMA Positions ==
  /\ Pos("analyzer") = 1 /\ Pos("planning") = 2
  /\ Pos("checkpoint:plan-approved") = 3 /\ Pos("coding") = 4
  /\ Pos("test-cases") = 5 /\ Pos("draft-pr") = 6
  /\ Pos("checkpoint:pr-published") = 7 /\ Pos("test-case-activation") = 8
  /\ Pos("checkpoint:pr-completed") = 9 /\ Pos("documenter") = 10
  /\ Pos("docs-writer") = 11
  BY PositionAt, DefaultTuple

\* Every stage is one of the eleven, and its position says which.
LEMMA StageAt == ASSUME NEW m \in Stages PROVE Pos(m) \in 1..11 /\ m = DefaultStages[Pos(m)]
  BY Positions, DefaultTuple DEF Stages, Loops, Gates, PlainStages

\* What a list may leave out: a test cases stage only where the repository has none.
LeftOut(m) == m \in {"test-case-activation", "docs-writer"} \/ (m = "test-cases" /\ ~ TestCases)

\* q is the next stage after p.
Follows(p, q) ==
  /\ Pos(p) < Pos(q)
  /\ \A m \in Stages : Pos(p) < Pos(m) /\ Pos(m) < Pos(q) => LeftOut(m)

\* A list of stages from `first` to `last`, in order.
Ordered(x, first, last) ==
  /\ x \in Seq(Stages) /\ Len(x) >= 1
  /\ x[1] = first /\ x[Len(x)] = last
  /\ \A k \in 1..Len(x) - 1 : Follows(x[k], x[k + 1])

LEMMA OrderedConcat ==
  ASSUME NEW x, NEW y, NEW a \in Stages, NEW b \in Stages, NEW c \in Stages, NEW d \in Stages,
         Ordered(x, a, b), Ordered(y, c, d), Follows(b, c)
  PROVE  Ordered(x \o y, a, d)
  <1> DEFINE z == x \o y
  <1>1. /\ x \in Seq(Stages) /\ y \in Seq(Stages) /\ Len(x) \in Nat /\ Len(y) \in Nat
        /\ Len(x) >= 1 /\ Len(y) >= 1
    BY DEF Ordered
  <1>2. /\ z \in Seq(Stages) /\ Len(z) = Len(x) + Len(y)
        /\ \A k \in 1..Len(x) : z[k] = x[k]
        /\ \A k \in 1..Len(y) : z[Len(x) + k] = y[k]
    BY <1>1
  <1> HIDE DEF z
  <1>3. z[1] = a /\ z[Len(z)] = d
    BY <1>1, <1>2 DEF Ordered
  <1>4. ASSUME NEW k \in 1..Len(z) - 1 PROVE Follows(z[k], z[k + 1])
    <2>1. CASE k < Len(x)
      <3>1. k \in 1..Len(x) /\ k + 1 \in 1..Len(x) /\ k \in 1..Len(x) - 1
        BY <1>1, <1>2, <2>1
      <3>2. z[k] = x[k] /\ z[k + 1] = x[k + 1]
        BY <1>2, <3>1
      <3> QED
        BY <3>1, <3>2 DEF Ordered
    <2>2. CASE k = Len(x)
      <3>1. z[k] = b /\ z[k + 1] = c
        <4>1. k + 1 = Len(x) + 1 /\ 1 \in 1..Len(y) /\ k \in 1..Len(x)
          BY <1>1, <2>2
        <4> QED
          BY <1>2, <2>2, <4>1 DEF Ordered
      <3> QED
        BY <3>1
    <2>3. CASE k > Len(x)
      <3> DEFINE j == k - Len(x)
      <3>1. j \in 1..Len(y) - 1 /\ k = Len(x) + j /\ k + 1 = Len(x) + (j + 1)
        BY <1>1, <1>2, <2>3
      <3> HIDE DEF j
      <3>2. z[k] = y[j] /\ z[k + 1] = y[j + 1]
        BY <1>1, <1>2, <3>1
      <3> QED
        BY <3>1, <3>2 DEF Ordered
    <2> QED
      BY <1>1, <2>1, <2>2, <2>3
  <1> QED
    BY <1>1, <1>2, <1>3, <1>4 DEF Ordered, z

LEMMA OrderedNothing ==
  ASSUME NEW x, NEW a, NEW b, Ordered(x, a, b)
  PROVE  Ordered(x \o << >>, a, b)
  <1>1. x \o << >> = x
    BY DEF Ordered
  <1> QED
    BY <1>1

LEMMA OneStage == ASSUME NEW m \in Stages PROVE Ordered(<< m >>, m, m)
  BY DEF Ordered

LEMMA Neighbours ==
  /\ \A k \in 1..10 : Follows(DefaultStages[k], DefaultStages[k + 1])
  /\ ~ TestCases => Follows("coding", "draft-pr")
  /\ Follows("checkpoint:pr-published", "checkpoint:pr-completed")
  <1>1. ASSUME NEW k \in 1..10 PROVE Follows(DefaultStages[k], DefaultStages[k + 1])
    BY PositionAt, StageAt DEF Follows
  <1>2. ASSUME NEW m \in Stages, Pos(m) = 5 PROVE m = "test-cases"
    BY <1>2, StageAt, DefaultTuple
  <1>3. ASSUME NEW m \in Stages, Pos(m) = 8 PROVE m = "test-case-activation"
    BY <1>3, StageAt, DefaultTuple
  <1>4. ~ TestCases => Follows("coding", "draft-pr")
    BY <1>2, Positions, StageAt DEF Follows, LeftOut
  <1>5. Follows("checkpoint:pr-published", "checkpoint:pr-completed")
    BY <1>3, Positions, StageAt DEF Follows, LeftOut
  <1> QED
    BY <1>1, <1>4, <1>5

LEMMA DefaultOrdered == Ordered(DefaultStages, "analyzer", "docs-writer")
  BY DefaultStagesType, DefaultTuple, Neighbours DEF Ordered

LEMMA RepoOrdered ==
  \E last \in Stages : Ordered(RepoStages, "analyzer", last) /\ Pos(last) >= 10
  <1> DEFINE head == << "analyzer", "planning", "checkpoint:plan-approved", "coding" >>
             t1 == IF TestCases THEN << "test-cases" >> ELSE << >>
             t2 == << "draft-pr", "checkpoint:pr-published" >>
             t3 == IF TestCases THEN << "test-case-activation" >> ELSE << >>
             t4 == << "checkpoint:pr-completed", "documenter" >>
             t5 == IF DocsWriter THEN << "docs-writer" >> ELSE << >>
             e1 == IF TestCases THEN "test-cases" ELSE "coding"
             e3 == IF TestCases THEN "test-case-activation" ELSE "checkpoint:pr-published"
             e5 == IF DocsWriter THEN "docs-writer" ELSE "documenter"
  <1>1. RepoStages = ((((head \o t1) \o t2) \o t3) \o t4) \o t5
    BY DEF RepoStages
  <1>2. /\ Follows("analyzer", "planning") /\ Follows("planning", "checkpoint:plan-approved")
        /\ Follows("checkpoint:plan-approved", "coding") /\ Follows("coding", "test-cases")
        /\ Follows("test-cases", "draft-pr") /\ Follows("draft-pr", "checkpoint:pr-published")
        /\ Follows("checkpoint:pr-published", "test-case-activation")
        /\ Follows("test-case-activation", "checkpoint:pr-completed")
        /\ Follows("checkpoint:pr-completed", "documenter") /\ Follows("documenter", "docs-writer")
    BY Neighbours, DefaultTuple
  <1>3. /\ "analyzer" \in Stages /\ "coding" \in Stages /\ "test-cases" \in Stages
        /\ "draft-pr" \in Stages /\ "checkpoint:pr-published" \in Stages
        /\ "test-case-activation" \in Stages /\ "checkpoint:pr-completed" \in Stages
        /\ "documenter" \in Stages /\ "docs-writer" \in Stages
    BY DEF Stages, Loops, Gates, PlainStages
  <1>4. Ordered(head, "analyzer", "coding")
    BY <1>2 DEF Ordered, Stages, Loops, Gates, PlainStages
  <1>5. Ordered(t2, "draft-pr", "checkpoint:pr-published")
    BY <1>2, <1>3 DEF Ordered
  <1>6. Ordered(t4, "checkpoint:pr-completed", "documenter")
    BY <1>2, <1>3 DEF Ordered
  <1>7. e1 \in Stages /\ e3 \in Stages /\ e5 \in Stages
    BY <1>3
  <1> HIDE DEF head, t2, t4
  <1>8. Ordered(head \o t1, "analyzer", e1)
    <2>1. CASE TestCases
      BY <1>2, <1>3, <1>4, <2>1, OneStage, OrderedConcat
    <2>2. CASE ~ TestCases
      BY <1>4, <2>2, OrderedNothing
    <2> QED
      BY <2>1, <2>2
  <1>9. Follows(e1, "draft-pr")
    BY <1>2, Neighbours
  <1> DEFINE x2 == (head \o t1) \o t2
  <1>10. Ordered(x2, "analyzer", "checkpoint:pr-published")
    BY <1>3, <1>5, <1>7, <1>8, <1>9, OrderedConcat
  <1> HIDE DEF t1, e1, x2
  <1>11. Ordered(x2 \o t3, "analyzer", e3)
    <2>1. CASE TestCases
      BY <1>2, <1>3, <1>10, <2>1, OneStage, OrderedConcat
    <2>2. CASE ~ TestCases
      BY <1>10, <2>2, OrderedNothing
    <2> QED
      BY <2>1, <2>2
  <1>12. Follows(e3, "checkpoint:pr-completed")
    BY <1>2, Neighbours
  <1> DEFINE x4 == (x2 \o t3) \o t4
  <1>13. Ordered(x4, "analyzer", "documenter")
    BY <1>3, <1>6, <1>7, <1>11, <1>12, OrderedConcat
  <1> HIDE DEF t3, e3, x4
  <1>14. Ordered(x4 \o t5, "analyzer", e5)
    <2>1. CASE DocsWriter
      BY <1>2, <1>3, <1>13, <2>1, OneStage, OrderedConcat
    <2>2. CASE ~ DocsWriter
      BY <1>13, <2>2, OrderedNothing
    <2> QED
      BY <2>1, <2>2
  <1>15. Pos(e5) >= 10
    BY Positions
  <1>16. RepoStages = x4 \o t5
    BY <1>1 DEF x4, x2
  <1> QED
    BY <1>7, <1>14, <1>15, <1>16

\* Both lists go through the stages in order, and leave out only what the repository does
\* without; the last stage of each comes after the documentation gate.
LEMMA StageListOrder ==
  ASSUME NEW c, NEW k \in 1..Len(StageList(c))
  PROVE  /\ k < Len(StageList(c)) => Follows(StageList(c)[k], StageList(c)[k + 1])
         /\ k = Len(StageList(c)) => Pos(StageList(c)[k]) >= 10
  <1>1. PICK last \in Stages : Ordered(StageList(c), "analyzer", last) /\ Pos(last) >= 10
    <2>1. CASE c = "run"
      BY <2>1, RepoOrdered DEF StageList
    <2>2. CASE c # "run"
      <3>1. "docs-writer" \in Stages
        BY DEF Stages, PlainStages
      <3> QED
        BY <2>2, <3>1, DefaultOrdered, Positions DEF StageList
    <2> QED
      BY <2>1, <2>2
  <1> QED
    BY <1>1, StageListType DEF Ordered

---------------------------------------------------------------------------
(* What the operators on the row do to the fields a stage may rely on *)

\* q and r agree on what the stages have delivered,
SameWork(q, r) ==
  /\ q.plan = r.plan /\ q.code = r.code /\ q.built = r.built /\ q.review = r.review
  /\ q.tests = r.tests /\ q.pr = r.pr /\ q.docs = r.docs /\ q.prior = r.prior

\* on where the item is,
SamePlace(q, r) == q.stage = r.stage /\ q.target = r.target

\* on why it stopped,
SameHalt(q, r) == q.cp = r.cp /\ q.err = r.err /\ q.errAt = r.errAt

\* and on what a human asked for.
SameWish(q, r) == q.rerun = r.rerun /\ q.feedback = r.feedback

LEMMA PlainSet ==
  ASSUME NEW r \in State, NEW stage
  PROVE  LET q == PlainOutputs(stage, r)
         IN  /\ SamePlace(q, r) /\ SameHalt(q, r) /\ SameWish(q, r)
             /\ q.plan = r.plan /\ q.code = r.code /\ q.built = r.built /\ q.review = r.review
             /\ q.tests = r.tests /\ q.prior = r.prior
             /\ q.pr = (r.pr \/ stage = "draft-pr") /\ q.docs = (r.docs \/ stage = "documenter")
  BY DEF State, PlainOutputs, SamePlace, SameHalt, SameWish

LEMMA AttemptSet ==
  ASSUME NEW r \in State, NEW l, NEW n
  PROVE  LET q == [r EXCEPT !.attempts = [@ EXCEPT ![l] = n]]
         IN  SameWork(q, r) /\ SamePlace(q, r) /\ SameHalt(q, r) /\ SameWish(q, r)
  BY DEF State, SameWork, SamePlace, SameHalt, SameWish

LEMMA StallSet ==
  ASSUME NEW r \in State, NEW l, NEW n
  PROVE  LET q == [r EXCEPT !.stall = [@ EXCEPT ![l] = n]]
         IN  SameWork(q, r) /\ SamePlace(q, r) /\ SameHalt(q, r) /\ SameWish(q, r)
  BY DEF State, SameWork, SamePlace, SameHalt, SameWish

LEMMA SkipSet ==
  ASSUME NEW r \in State
  PROVE  LET q == [r EXCEPT !.skip = FALSE]
         IN  SameWork(q, r) /\ SamePlace(q, r) /\ SameHalt(q, r) /\ SameWish(q, r)
  BY DEF State, SameWork, SamePlace, SameHalt, SameWish

LEMMA EscSet ==
  ASSUME NEW r \in State, NEW t
  PROVE  LET q == [r EXCEPT !.esc = "none", !.stall = t]
         IN  SameWork(q, r) /\ SamePlace(q, r) /\ SameHalt(q, r) /\ SameWish(q, r)
  BY DEF State, SameWork, SamePlace, SameHalt, SameWish

LEMMA ReviewSet ==
  ASSUME NEW r \in State, NEW v
  PROVE  LET q == [r EXCEPT !.review = v]
         IN  /\ SamePlace(q, r) /\ SameHalt(q, r) /\ SameWish(q, r)
             /\ q.plan = r.plan /\ q.code = r.code /\ q.built = r.built /\ q.review = v
             /\ q.tests = r.tests /\ q.pr = r.pr /\ q.docs = r.docs /\ q.prior = r.prior
  BY DEF State, SamePlace, SameHalt, SameWish

LEMMA ResetSet ==
  ASSUME NEW r \in State
  PROVE  LET q == PlanningReset(r)
         IN  /\ SamePlace(q, r) /\ SameHalt(q, r) /\ SameWish(q, r)
             /\ q.plan = r.plan /\ q.code = NoPlan /\ q.prior = (r.prior \/ r.code # NoPlan)
  BY DEF State, PlanningReset, SamePlace, SameHalt, SameWish

\* Entering a loop undoes no stage before it.
LEMMA EnteredSet ==
  ASSUME NEW r \in State, NEW l \in Loops
  PROVE  LET q == Entered(l, r)
         IN  /\ SamePlace(q, r) /\ SameHalt(q, r) /\ SameWish(q, r) /\ q.plan = r.plan
             /\ \/ q.code = r.code /\ q.prior = r.prior
                \/ q.code = NoPlan /\ q.prior = (r.prior \/ r.code # NoPlan)
             /\ l # "planning" => /\ q.code = r.code /\ q.built = r.built /\ q.tests = r.tests
                                  /\ q.pr = r.pr /\ q.docs = r.docs
             /\ l = "test-cases" => q.review = r.review
  <1> DEFINE fresh == IF r.rerun \/ r.skip THEN r ELSE ResetState(l, r)
             unskip == [fresh EXCEPT !.skip = FALSE]
             left == [unskip EXCEPT !.esc = "none", !.stall = [@ EXCEPT ![l] = 0]]
             Kept(q) ==
               /\ SamePlace(q, r) /\ SameHalt(q, r) /\ SameWish(q, r) /\ q.plan = r.plan
               /\ \/ q.code = r.code /\ q.prior = r.prior
                  \/ q.code = NoPlan /\ q.prior = (r.prior \/ r.code # NoPlan)
               /\ l # "planning" => /\ q.code = r.code /\ q.built = r.built /\ q.tests = r.tests
                                    /\ q.pr = r.pr /\ q.docs = r.docs
               /\ l = "test-cases" => q.review = r.review
  <1>1. Entered(l, r) = IF unskip.esc = l THEN left ELSE unskip
    BY DEF Entered
  <1>2. fresh \in State /\ Kept(fresh)
    <2>1. CASE r.rerun \/ r.skip \/ l = "test-cases"
      BY <2>1 DEF ResetState, SamePlace, SameHalt, SameWish
    <2>2. CASE ~ (r.rerun \/ r.skip) /\ l = "planning"
      <3>1. fresh = PlanningReset(r)
        BY <2>2 DEF ResetState
      <3> HIDE DEF fresh
      <3> QED
        BY <2>2, <3>1, PlanningResetType, ResetSet
    <2>3. CASE ~ (r.rerun \/ r.skip) /\ l = "coding"
      <3>1. fresh = [r EXCEPT !.review = "none"]
        BY <2>3 DEF ResetState
      <3> DEFINE q == [r EXCEPT !.review = "none"]
      <3>2. q \in State
        BY SetReview
      <3>3. Kept(q)
        BY <2>3, ReviewSet
      <3> HIDE DEF fresh, q, Kept
      <3> QED
        BY <3>1, <3>2, <3>3 DEF q
    <2> QED
      BY <2>1, <2>2, <2>3 DEF Loops
  <1> HIDE DEF fresh
  <1>3. unskip \in State /\ Kept(unskip)
    BY <1>2, SetSkip, SkipSet DEF SameWork, SamePlace, SameHalt, SameWish
  <1> HIDE DEF unskip
  <1>4. Kept(left)
    BY <1>3, EscSet DEF SameWork, SamePlace, SameHalt, SameWish
  <1> HIDE DEF left, Kept
  <1>5. Kept(Entered(l, r))
    BY <1>1, <1>3, <1>4
  <1> QED
    BY <1>5 DEF Kept

LEMMA ProducedSet ==
  ASSUME NEW r \in State, NEW l \in Loops, NEW p, NEW built \in BOOLEAN, NEW tests
  PROVE  LET q == Produced(l, p, built, tests, r)
         IN  /\ SamePlace(q, r) /\ SameHalt(q, r) /\ (q.rerun => r.rerun)
             /\ q.review = r.review /\ q.pr = r.pr /\ q.docs = r.docs /\ q.prior = r.prior
             /\ q.plan = (IF l = "planning" THEN p ELSE r.plan)
             /\ q.code = (IF l = "coding" /\ ~ (r.rerun /\ r.code # NoPlan) THEN r.plan ELSE r.code)
             /\ l # "coding" => q.built = r.built
             /\ q.tests = (IF l = "test-cases" THEN tests ELSE r.tests)
             /\ (l = "test-cases" => q.feedback = r.feedback)
  BY DEF State, Produced, SamePlace, SameHalt, Loops

LEMMA ReviewedSet ==
  ASSUME NEW r \in State, NEW l \in Loops, NEW v
  PROVE  LET q == Reviewed(l, v, r)
         IN  /\ SamePlace(q, r) /\ SameHalt(q, r) /\ SameWish(q, r)
             /\ q.plan = r.plan /\ q.code = r.code /\ q.built = r.built
             /\ q.review = (IF l = "coding" THEN v ELSE r.review)
             /\ q.tests = r.tests /\ q.pr = r.pr /\ q.docs = r.docs /\ q.prior = r.prior
  BY ReviewSet DEF Reviewed, SamePlace, SameHalt, SameWish

LEMMA EscalatedSet ==
  ASSUME NEW r \in State, NEW l \in Loops
  PROVE  LET q == Escalated(l, r)
         IN  /\ SameWork(q, r) /\ SamePlace(q, r) /\ SameWish(q, r)
             /\ q.cp = ConvergenceName(l) /\ q.cp \notin {"none", "plan-approved"}
             /\ q.err = r.err /\ q.errAt = r.errAt
  BY DEF State, Escalated, ConvergenceName, SameWork, SamePlace, SameWish

LEMMA ClearErrorSet ==
  ASSUME NEW r \in State
  PROVE  LET q == ClearError(r)
         IN  /\ SameWork(q, r) /\ SamePlace(q, r) /\ SameWish(q, r)
             /\ q.cp = r.cp /\ q.err = "none" /\ q.errAt = "none"
  BY DEF State, ClearError, SameWork, SamePlace, SameWish

LEMMA ApplyRerunSet ==
  ASSUME NEW r \in State, NEW c
  PROVE  LET q == ApplyRerun(c, r)
         IN  /\ SameWork(q, r) /\ q.stage = r.stage
             /\ q.target = RerunTarget(c, r)
             /\ q.cp = "none" /\ q.err = "none" /\ q.errAt = "none"
             /\ (q.rerun => r.rerun \/ c # "/rerun-plan") /\ q.feedback
  BY DEF State, ApplyRerun, SameWork

---------------------------------------------------------------------------
(* What a row may rely on *)

PlanGate == "checkpoint:plan-approved"

\* `/fix` and a continue by hand together send an item to the test cases over code that is
\* no longer reviewed: the hand-run continue keeps an old error of that loop while planning
\* and coding run again, and `/fix` is sent to the loop the error names.
ErrorsFresh == ~ ({"/fix", "cli"} \subseteq Inputs)

\* Test cases are written for every item that goes past them: the repository has them, or no
\* item is ever started again on the short list with an approval it already has.
TestsRun == TestCases \/ "analyse" \notin Inputs

\* What stage m has delivered once the item is past it.
Delivered(m, r, merged) ==
  /\ m = "planning" => r.plan # NoPlan
  /\ m = "coding" /\ ErrorsFresh => r.code # NoPlan /\ r.review = "approve" /\ r.built
  /\ m = "coding" /\ "/fix" \notin Inputs => r.code = r.plan
  /\ m = "test-cases" /\ TestsRun => r.tests # "none"
  /\ m = "draft-pr" => r.pr
  /\ m = "checkpoint:pr-completed" => r.pr /\ merged
  /\ m = "documenter" => r.docs

\* Every stage before `name` has delivered.
Reached(name, r, merged) == \A m \in Stages : Pos(m) < Pos(name) => Delivered(m, r, merged)

\* Code and an error in its loops come after a plan.
PlanKnown(r) == r.code # NoPlan \/ r.errAt \in {"coding", "test-cases"} => r.plan # NoPlan

RowOK(r, merged) ==
  /\ Reached(r.stage, r, merged)
  /\ r.target # "none" => Reached(r.target, r, merged)
  /\ PlanKnown(r)
  /\ "/fix" \notin Inputs => ~ r.rerun /\ r.target # "test-cases"
  /\ r.cp = "plan-approved" => r.stage = PlanGate /\ r.target = "none"
  /\ r.errAt = "test-cases" /\ "cli" \notin Inputs =>
       r.err # "none" /\ r.cp # "plan-approved" /\ Reached("test-cases", r, merged)

\* q is r after work at stage `name`: nothing delivered before that stage is undone.
Works(name, q, r) ==
  /\ SamePlace(q, r) /\ SameHalt(q, r) /\ (q.rerun => r.rerun)
  /\ \A m \in Stages : \A merged \in BOOLEAN :
       Pos(m) < Pos(name) /\ Delivered(m, r, merged) => Delivered(m, q, merged)
  /\ Reached(name, r, FALSE) \/ Reached(name, r, TRUE) => (PlanKnown(r) => PlanKnown(q))

LEMMA LoopStages == ASSUME NEW l \in Loops PROVE l \in Stages /\ Pos(l) \in {2, 4, 5}
  BY Positions DEF Loops, Stages

LEMMA SameWorks ==
  ASSUME NEW q, NEW r, NEW name, SameWork(q, r), SamePlace(q, r), SameHalt(q, r),
         q.rerun => r.rerun
  PROVE  Works(name, q, r)
  BY DEF Works, SameWork, SamePlace, SameHalt, Delivered, PlanKnown

LEMMA WorksCompose ==
  ASSUME NEW name, NEW q, NEW r, NEW t, Works(name, q, r), Works(name, t, q)
  PROVE  Works(name, t, r)
  <1>1. \A merged \in BOOLEAN : Reached(name, r, merged) => Reached(name, q, merged)
    BY DEF Works, Reached
  <1>2. \A m \in Stages : \A merged \in BOOLEAN :
          Pos(m) < Pos(name) /\ Delivered(m, r, merged) => Delivered(m, t, merged)
    BY DEF Works
  <1>3. Reached(name, r, FALSE) \/ Reached(name, r, TRUE) => (PlanKnown(r) => PlanKnown(t))
    BY <1>1 DEF Works
  <1> QED
    BY <1>2, <1>3 DEF Works, SamePlace, SameHalt

LEMMA PlainWorks ==
  ASSUME NEW r \in State, NEW stage \in Stages
  PROVE  Works(stage, PlainOutputs(stage, r), r)
  <1> DEFINE q == PlainOutputs(stage, r)
  <1>1. /\ SamePlace(q, r) /\ SameHalt(q, r) /\ SameWish(q, r)
        /\ q.plan = r.plan /\ q.code = r.code /\ q.built = r.built /\ q.review = r.review
        /\ q.tests = r.tests
        /\ q.pr = (r.pr \/ stage = "draft-pr") /\ q.docs = (r.docs \/ stage = "documenter")
    BY DEF State, PlainOutputs, SamePlace, SameHalt, SameWish
  <1> HIDE DEF q
  <1>2. \A m \in Stages : \A merged \in BOOLEAN : Delivered(m, r, merged) => Delivered(m, q, merged)
    BY <1>1 DEF Delivered
  <1>3. PlanKnown(r) => PlanKnown(q)
    BY <1>1 DEF PlanKnown, SameHalt
  <1> QED
    BY <1>1, <1>2, <1>3 DEF Works, SameHalt, SameWish, q

LEMMA EnteredWorks ==
  ASSUME NEW r \in State, NEW l \in Loops
  PROVE  Works(l, Entered(l, r), r)
  <1> DEFINE q == Entered(l, r)
  <1>1. /\ SamePlace(q, r) /\ SameHalt(q, r) /\ SameWish(q, r) /\ q.plan = r.plan
        /\ q.code = r.code \/ q.code = NoPlan
        /\ l # "planning" => /\ q.code = r.code /\ q.built = r.built /\ q.tests = r.tests
                             /\ q.pr = r.pr /\ q.docs = r.docs
        /\ l = "test-cases" => q.review = r.review
    BY EnteredSet
  <1> HIDE DEF q
  <1>2. ASSUME NEW m \in Stages, NEW merged \in BOOLEAN, Pos(m) < Pos(l), Delivered(m, r, merged)
        PROVE  Delivered(m, q, merged)
    <2>1. CASE l = "planning"
      BY <1>1, <1>2, <2>1, Positions DEF Delivered
    <2>2. CASE l = "coding"
      BY <1>1, <1>2, <2>2, Positions DEF Delivered
    <2>3. CASE l = "test-cases"
      BY <1>1, <1>2, <2>3, Positions DEF Delivered
    <2> QED
      BY <2>1, <2>2, <2>3 DEF Loops
  <1>3. PlanKnown(r) => PlanKnown(q)
    BY <1>1 DEF PlanKnown, SameHalt
  <1> QED
    BY <1>1, <1>2, <1>3 DEF Works, SameHalt, SameWish, q

LEMMA ProducedWorks ==
  ASSUME NEW r \in State, NEW l \in Loops, NEW p, NEW built \in BOOLEAN, NEW tests,
         l = "planning" => p # NoPlan
  PROVE  Works(l, Produced(l, p, built, tests, r), r)
  <1> DEFINE q == Produced(l, p, built, tests, r)
  <1>1. /\ SamePlace(q, r) /\ SameHalt(q, r) /\ (q.rerun => r.rerun)
        /\ q.review = r.review /\ q.pr = r.pr /\ q.docs = r.docs
        /\ q.plan = (IF l = "planning" THEN p ELSE r.plan)
        /\ q.code = (IF l = "coding" /\ ~ (r.rerun /\ r.code # NoPlan) THEN r.plan ELSE r.code)
        /\ l # "coding" => q.built = r.built
        /\ q.tests = (IF l = "test-cases" THEN tests ELSE r.tests)
    BY ProducedSet
  <1> HIDE DEF q
  <1>2. ASSUME NEW m \in Stages, NEW merged \in BOOLEAN, Pos(m) < Pos(l), Delivered(m, r, merged)
        PROVE  Delivered(m, q, merged)
    <2>1. CASE l = "planning"
      BY <1>1, <1>2, <2>1, Positions DEF Delivered
    <2>2. CASE l = "coding"
      BY <1>1, <1>2, <2>2, Positions DEF Delivered
    <2>3. CASE l = "test-cases"
      BY <1>1, <1>2, <2>3, Positions DEF Delivered
    <2> QED
      BY <2>1, <2>2, <2>3 DEF Loops
  <1>3. ASSUME Reached(l, r, FALSE) \/ Reached(l, r, TRUE), PlanKnown(r) PROVE PlanKnown(q)
    <2>1. CASE l = "planning"
      BY <1>1, <2>1 DEF PlanKnown
    <2>2. CASE l # "planning"
      <3>1. Pos("planning") < Pos(l) /\ "planning" \in Stages
        BY <2>2, Positions DEF Loops, Stages
      <3>2. r.plan # NoPlan
        BY <1>3, <3>1 DEF Reached, Delivered
      <3> QED
        BY <1>1, <2>2, <3>2 DEF PlanKnown
    <2> QED
      BY <2>1, <2>2
  <1> QED
    BY <1>1, <1>2, <1>3 DEF Works, SameHalt, q

LEMMA ReviewedWorks ==
  ASSUME NEW r \in State, NEW l \in Loops, NEW v
  PROVE  Works(l, Reviewed(l, v, r), r)
  <1> DEFINE q == Reviewed(l, v, r)
  <1>1. /\ SamePlace(q, r) /\ SameHalt(q, r) /\ SameWish(q, r)
        /\ q.plan = r.plan /\ q.code = r.code /\ q.built = r.built
        /\ q.review = (IF l = "coding" THEN v ELSE r.review)
        /\ q.tests = r.tests /\ q.pr = r.pr /\ q.docs = r.docs
    BY ReviewedSet
  <1> HIDE DEF q
  <1>2. ASSUME NEW m \in Stages, NEW merged \in BOOLEAN, Pos(m) < Pos(l), Delivered(m, r, merged)
        PROVE  Delivered(m, q, merged)
    BY <1>1, <1>2, Positions DEF Delivered
  <1>3. PlanKnown(r) => PlanKnown(q)
    BY <1>1 DEF PlanKnown, SameHalt
  <1> QED
    BY <1>1, <1>2, <1>3 DEF Works, SameHalt, SameWish, q

LEMMA RecordWorks ==
  ASSUME NEW r \in State, NEW l \in Loops, NEW n, NEW name
  PROVE  Works(name, RecordAttempt(l, n, r), r)
  <1> DEFINE q == RecordAttempt(l, n, r)
  <1>1. SameWork(q, r) /\ SamePlace(q, r) /\ SameHalt(q, r) /\ SameWish(q, r)
    BY AttemptSet DEF RecordAttempt
  <1> HIDE DEF q
  <1>2. Works(name, q, r)
    BY <1>1, SameWorks DEF SameHalt, SameWish
  <1> QED
    BY <1>2 DEF q

LEMMA ApprovedWorks ==
  ASSUME NEW r \in State, NEW l \in Loops, NEW name
  PROVE  Works(name, Approved(l, r), r) /\ SameWork(Approved(l, r), r)
  <1> DEFINE q == Approved(l, r)
  <1>1. SameWork(q, r) /\ SamePlace(q, r) /\ SameHalt(q, r) /\ SameWish(q, r)
    BY AttemptSet DEF Approved
  <1> HIDE DEF q
  <1>2. Works(name, q, r)
    BY <1>1, SameWorks DEF SameHalt, SameWish
  <1> QED
    BY <1>1, <1>2 DEF q

LEMMA CountedWorks ==
  ASSUME NEW r \in State, NEW l \in Loops, NEW fell \in BOOLEAN, NEW name
  PROVE  Works(name, Counted(l, fell, r), r)
  <1> DEFINE n == IF fell \/ r.stall[l] = 0 THEN 1
                  ELSE IF r.stall[l] < Window THEN r.stall[l] + 1 ELSE Window
             q == [r EXCEPT !.stall = [@ EXCEPT ![l] = n]]
  <1>1. Counted(l, fell, r) = q
    BY DEF Counted
  <1> HIDE DEF n
  <1>2. SameWork(q, r) /\ SamePlace(q, r) /\ SameHalt(q, r) /\ SameWish(q, r)
    BY StallSet
  <1> HIDE DEF q
  <1> QED
    BY <1>1, <1>2, SameWorks DEF SameHalt, SameWish

---------------------------------------------------------------------------
(* How a row that may be relied on changes *)

LEMMA ReachedWorks ==
  ASSUME NEW name, NEW q, NEW r, NEW merged \in BOOLEAN, Reached(name, r, merged), Works(name, q, r)
  PROVE  Reached(name, q, merged)
  BY DEF Reached, Works

\* Until the documentation gate is passed, it does not matter whether the pull request is merged.
LEMMA ReachedEarly ==
  ASSUME NEW name \in Stages, NEW r, NEW m1, NEW m2, Pos(name) <= 9, Reached(name, r, m1)
  PROVE  Reached(name, r, m2)
  <1>1. ASSUME NEW m \in Stages, Pos(m) < Pos(name) PROVE m # "checkpoint:pr-completed"
    BY <1>1, StageAt, Positions
  <1> QED
    BY <1>1 DEF Reached, Delivered

LEMMA ReachedMerged ==
  ASSUME NEW name, NEW r, NEW m1, NEW m2, m1 => m2, Reached(name, r, m1)
  PROVE  Reached(name, r, m2)
  BY DEF Reached, Delivered

LEMMA RowEarly ==
  ASSUME NEW r \in State, NEW m1, NEW m2, Pos(r.stage) <= 9, RowOK(r, m1)
  PROVE  RowOK(r, m2)
  <1>1. r.target # "none" => r.target \in Stages /\ Pos(r.target) <= 9
    BY LoopStages DEF State
  <1>2. "test-cases" \in Stages /\ Pos("test-cases") <= 9 /\ r.stage \in Stages
    BY Positions DEF State, Stages, Loops
  <1> QED
    BY <1>1, <1>2, ReachedEarly DEF RowOK

LEMMA RowMerged ==
  ASSUME NEW r, NEW m1, NEW m2, m1 => m2, RowOK(r, m1)
  PROVE  RowOK(r, m2)
  BY ReachedMerged DEF RowOK

\* Work at its stage.
LEMMA RowWorks ==
  ASSUME NEW q, NEW r, NEW merged \in BOOLEAN, RowOK(r, merged), Works(r.stage, q, r),
         r.target = "none", "cli" \notin Inputs => r.errAt # "test-cases"
  PROVE  RowOK(q, merged)
  <1>1. /\ q.stage = r.stage /\ q.target = "none" /\ (q.rerun => r.rerun)
        /\ q.errAt = r.errAt /\ q.cp = r.cp
    BY DEF Works, SamePlace, SameHalt
  <1>2. Reached(q.stage, q, merged)
    BY <1>1, ReachedWorks DEF RowOK
  <1>3. PlanKnown(q)
    BY DEF Works, RowOK
  <1>4. q.cp = "plan-approved" => q.stage = PlanGate
    BY <1>1 DEF RowOK
  <1> QED
    BY <1>1, <1>2, <1>3, <1>4 DEF RowOK

\* The same work at the same place, halted otherwise.
LEMMA RowHalts ==
  ASSUME NEW q, NEW r, NEW merged, RowOK(r, merged), SameWork(q, r), SamePlace(q, r), q.rerun => r.rerun,
         q.errAt \in {"coding", "test-cases"} => q.plan # NoPlan,
         q.cp = "plan-approved" => q.stage = PlanGate /\ q.target = "none",
         q.errAt = "test-cases" /\ "cli" \notin Inputs =>
           q.err # "none" /\ q.cp # "plan-approved" /\ Reached("test-cases", q, merged)
  PROVE  RowOK(q, merged)
  <1>1. \A m \in Stages : Delivered(m, r, merged) => Delivered(m, q, merged)
    BY DEF Delivered, SameWork
  <1>2. \A name : Reached(name, r, merged) => Reached(name, q, merged)
    BY <1>1 DEF Reached
  <1>3. PlanKnown(q)
    BY DEF RowOK, PlanKnown, SameWork
  <1> QED
    BY <1>2, <1>3 DEF RowOK, SamePlace

\* A stage that fails records where; a row that fails at its own stage may be relied on.
LEMMA RowFails ==
  ASSUME NEW r \in State, NEW merged, RowOK(r, merged), r.target = "none",
         NEW type, type # "none", NEW at, at = r.stage
  PROVE  RowOK([r EXCEPT !.err = type, !.errAt = at], merged)
  <1> DEFINE q == [r EXCEPT !.err = type, !.errAt = at]
  <1>1. /\ SameWork(q, r) /\ SamePlace(q, r) /\ SameWish(q, r)
        /\ q.cp = r.cp /\ q.err = type /\ q.errAt = at
    BY DEF State, SameWork, SamePlace, SameWish
  <1> HIDE DEF q
  <1>2. q.errAt \in {"coding", "test-cases"} => q.plan # NoPlan
    <2>1. r.stage \in {"coding", "test-cases"} =>
            Pos("planning") < Pos(r.stage) /\ "planning" \in Stages
      BY Positions DEF Stages, Loops
    <2> QED
      BY <1>1, <2>1 DEF RowOK, Reached, Delivered, SameWork
  <1>3. Reached(r.stage, q, merged)
    BY <1>1 DEF RowOK, Reached, Delivered, SameWork
  <1>4. RowOK(q, merged)
    BY <1>1, <1>2, <1>3, RowHalts DEF RowOK, SamePlace, SameWish, PlanGate
  <1> QED
    BY <1>4 DEF q

LEMMA ReachedBack ==
  ASSUME NEW name \in Stages, NEW other \in Stages, NEW r, NEW merged,
         Reached(name, r, merged), Pos(other) <= Pos(name)
  PROVE  Reached(other, r, merged)
  <1>1. ASSUME NEW m \in Stages, Pos(m) < Pos(other) PROVE Pos(m) < Pos(name)
    BY <1>1, StageAt
  <1> QED
    BY <1>1 DEF Reached

\* What comes before the loops.
LEMMA ReachedLoops ==
  ASSUME NEW r, NEW merged
  PROVE  /\ Reached("analyzer", r, merged) /\ Reached("planning", r, merged)
         /\ r.plan # NoPlan => Reached("coding", r, merged)
         /\ r.plan # NoPlan /\ (ErrorsFresh => r.code # NoPlan /\ r.review = "approve" /\ r.built)
              /\ ("/fix" \notin Inputs => r.code = r.plan) => Reached("test-cases", r, merged)
  <1>1. ASSUME NEW m \in Stages
        PROVE  /\ Pos(m) >= 1
               /\ Pos(m) < 2 => m = "analyzer"
               /\ Pos(m) < 4 => m \in {"analyzer", "planning", "checkpoint:plan-approved"}
               /\ Pos(m) < 5 => m \in {"analyzer", "planning", "checkpoint:plan-approved", "coding"}
    BY StageAt, DefaultTuple
  <1> QED
    BY <1>1, Positions DEF Reached, Delivered

LEMMA RowCleared ==
  ASSUME NEW r \in State, NEW merged, RowOK(r, merged)
  PROVE  RowOK(ClearError(r), merged)
  <1> DEFINE q == ClearError(r)
  <1>1. /\ SameWork(q, r) /\ SamePlace(q, r) /\ SameWish(q, r)
        /\ q.cp = r.cp /\ q.err = "none" /\ q.errAt = "none"
    BY ClearErrorSet
  <1> HIDE DEF q
  <1>2. RowOK(q, merged)
    BY <1>1, RowHalts DEF RowOK, SamePlace, SameWish
  <1> QED
    BY <1>2 DEF q

\* A rerun command goes to a loop whose stages before it have delivered.
LEMMA RowRerun ==
  ASSUME NEW r \in State, NEW merged, RowOK(r, merged), NEW c \in {"/rerun-plan", "/fix"}, c \in Inputs
  PROVE  RowOK(ApplyRerun(c, r), merged)
  <1> DEFINE q == ApplyRerun(c, r)
             t == RerunTarget(c, r)
  <1>1. /\ SameWork(q, r) /\ q.stage = r.stage /\ q.target = t
        /\ q.cp = "none" /\ q.err = "none" /\ q.errAt = "none"
        /\ (q.rerun => r.rerun \/ c # "/rerun-plan")
    BY ApplyRerunSet
  <1>2. Reached(t, r, merged)
    <2>1. CASE t = "planning"
      BY <2>1, ReachedLoops
    <2>2. CASE t = "coding"
      <3>1. r.plan # NoPlan
        BY <2>2 DEF RerunTarget, FixTarget, RowOK, PlanKnown
      <3> QED
        BY <2>2, <3>1, ReachedLoops
    <2>3. CASE t = "test-cases"
      <3>1. r.errAt = "test-cases" /\ c = "/fix"
        BY <2>3 DEF RerunTarget, FixTarget
      <3>2. CASE "cli" \notin Inputs
        BY <2>3, <3>1, <3>2 DEF RowOK
      <3>3. CASE "cli" \in Inputs
        <4>1. ~ ErrorsFresh
          BY <3>1, <3>3 DEF ErrorsFresh
        <4>2. r.plan # NoPlan
          BY <3>1 DEF RowOK, PlanKnown
        <4> QED
          BY <2>3, <3>1, <4>1, <4>2, ReachedLoops
      <3> QED
        BY <3>2, <3>3
    <2>4. t \in Loops
      BY FixTargetType DEF RerunTarget, Loops
    <2> QED
      BY <2>1, <2>2, <2>3, <2>4 DEF Loops
  <1>3. "/fix" \notin Inputs => c = "/rerun-plan" /\ t = "planning"
    BY DEF RerunTarget
  <1> HIDE DEF q, t
  <1>4. Reached(q.stage, q, merged) /\ Reached(t, q, merged)
    BY <1>1, <1>2 DEF RowOK, Reached, Delivered, SameWork
  <1>5. PlanKnown(q)
    BY <1>1 DEF RowOK, PlanKnown, SameWork
  <1>6. RowOK(q, merged)
    BY <1>1, <1>3, <1>4, <1>5 DEF RowOK
  <1> QED
    BY <1>6 DEF q

\* A rewind found at a gate goes back to a loop before it.
LEMMA RewindsBack ==
  ASSUME NEW gate \in Gates, Commented(gate), NEW hit, hit = FirstMatch(gate)
  PROVE  /\ hit[2] \in {"planning", "coding"} /\ Pos(hit[2]) < Pos(gate)
         /\ hit[1] = (IF hit[2] = "planning" THEN "/rerun-plan" ELSE "/fix")
         /\ hit[1] \in asks
  <1>1. PICK k \in 1..Len(GateCommands(gate)) :
          FirstMatch(gate) = GateCommands(gate)[k] /\ FirstMatch(gate)[1] \in asks
    BY FirstMatchType
  <1>2. /\ GateCommands(gate)[k][2] \in {"planning", "coding"}
        /\ GateCommands(gate)[k][1]
             = (IF GateCommands(gate)[k][2] = "planning" THEN "/rerun-plan" ELSE "/fix")
        /\ gate = "checkpoint:plan-approved" => GateCommands(gate)[k][2] = "planning"
    BY DEF GateCommands
  <1>3. /\ hit[2] \in {"planning", "coding"}
        /\ hit[1] = (IF hit[2] = "planning" THEN "/rerun-plan" ELSE "/fix")
        /\ gate = "checkpoint:plan-approved" => hit[2] = "planning"
        /\ hit[1] \in asks
    BY <1>1, <1>2
  <1>4. Pos(gate) \in {3, 7, 9} /\ (Pos(gate) = 3 => gate = "checkpoint:plan-approved")
    BY Positions DEF Gates
  <1>5. Pos(hit[2]) < Pos(gate)
    <2>1. CASE hit[2] = "planning"
      BY <1>4, <2>1, Positions
    <2>2. CASE hit[2] = "coding"
      BY <1>3, <1>4, <2>2, Positions
    <2> QED
      BY <1>3, <2>1, <2>2
  <1> QED
    BY <1>3, <1>5

LEMMA RowRewound ==
  ASSUME NEW r \in State, NEW merged, RowOK(r, merged), r.stage \in Gates, Commented(r.stage),
         asks \subseteq Inputs, "cli" \notin Inputs => r.errAt # "test-cases",
         NEW hit, hit = FirstMatch(r.stage)
  PROVE  RowOK([r EXCEPT !.cp = "none", !.rerun = hit[1] # "/rerun-plan", !.target = hit[2],
                         !.feedback = TRUE], merged)
  <1> DEFINE b == hit[1] # "/rerun-plan"
             l == hit[2]
             q == [r EXCEPT !.cp = "none", !.rerun = b, !.target = l, !.feedback = TRUE]
  <1>1. /\ l \in {"planning", "coding"} /\ Pos(l) < Pos(r.stage)
        /\ "/fix" \notin Inputs => ~ b
    <2>1. PICK gate \in Gates : gate = r.stage
      OBVIOUS
    <2>2. /\ hit[2] \in {"planning", "coding"} /\ Pos(hit[2]) < Pos(gate)
          /\ hit[1] = (IF hit[2] = "planning" THEN "/rerun-plan" ELSE "/fix")
          /\ hit[1] \in asks
      BY <2>1, RewindsBack
    <2> QED
      BY <2>1, <2>2
  <1> HIDE DEF b, l
  <1>2. /\ SameWork(q, r) /\ q.stage = r.stage /\ q.target = l /\ q.cp = "none"
        /\ q.err = r.err /\ q.errAt = r.errAt /\ q.rerun = b
    BY DEF State, SameWork
  <1> HIDE DEF q
  <1>3. Reached(l, r, merged)
    <2>1. PICK gate \in Stages : gate = r.stage
      BY DEF Stages
    <2>2. l \in Stages
      BY <1>1 DEF Stages, Loops
    <2>3. Pos(l) \in 1..11 /\ Pos(gate) \in 1..11 /\ Pos(l) < Pos(gate)
      BY <1>1, <2>1, <2>2, StageAt
    <2>4. Pos(l) <= Pos(gate)
      BY <2>3
    <2> QED
      BY <2>1, <2>2, <2>4, ReachedBack DEF RowOK
  <1>4. Reached(q.stage, q, merged) /\ Reached(l, q, merged)
    BY <1>2, <1>3 DEF RowOK, Reached, Delivered, SameWork
  <1>5. PlanKnown(q)
    BY <1>2 DEF RowOK, PlanKnown, SameWork
  <1>6. RowOK(q, merged)
    BY <1>1, <1>2, <1>4, <1>5 DEF RowOK
  <1> QED
    BY <1>6 DEF q, b, l

---------------------------------------------------------------------------
(* The inductive invariant *)

Merged == prStatus = "completed"

Rows == RowOK(db, Merged) /\ RowOK(s, Merged) /\ RowOK(pre, Merged)

\* Where the container is, every copy of the row says so.
InStep ==
  /\ asks \subseteq Inputs
  /\ pc \notin {"down", "enter"} => db.stage = Stage /\ s.stage = Stage /\ pre.stage = Stage
  /\ pc \in {"enter", "stage", "produce", "review"} => s.target = "none" /\ pre.target = "none"
  /\ pc # "down" /\ "cli" \notin Inputs => s.errAt # "test-cases"

Entering ==
  pc = "enter" => Reached(Stage, s, Merged) /\ (s.cp = "plan-approved" => Stage = PlanGate)

\* What a reviewer approves exists.
Drafting ==
  pc = "review" =>
    /\ Stage = "planning" => s.plan # NoPlan
    /\ Stage = "coding" => s.code # NoPlan /\ ("/fix" \notin Inputs => s.code = s.plan)
    /\ Stage = "test-cases" => s.tests # "none"

Leaving ==
  pc \in {"leave", "notify"} =>
    /\ pre = s
    /\ sig # "rewind" => s.target = "none"
    /\ sig # "pause" => s.cp # "plan-approved"
    /\ sig = "none" => Delivered(Stage, s, Merged)

\* The container of a first `pipeline run` pauses at the plan gate.
FirstRun ==
  "analyse" \notin Inputs /\ cmd = "run" /\ pc # "down" =>
    /\ ~ planTag /\ i <= 3
    /\ sig # "pause" => s.cp = "none"
    /\ pc \in {"leave", "notify"} => sig # "rewind" /\ (i = 3 => sig = "pause")
    /\ pc \notin {"leave", "notify"} => sig = "none"

CourseInv == Rows /\ InStep /\ Entering /\ Drafting /\ Leaving /\ FirstRun

CInv == TypeInv /\ CourseInv

LEMMA CTypes ==
  ASSUME CInv
  PROVE  /\ db \in State /\ s \in State /\ pre \in State /\ Stage \in Stages
         /\ i \in 1..Len(StageList(cmd)) /\ cmd \in {"run", "continue"}
         /\ asks \subseteq Inputs
  BY StageType DEF CInv, TypeInv, TypeOK, CourseInv, InStep

LEMMA CourseStays ==
  ASSUME CInv, UNCHANGED << db, s, pre, pc, i, cmd, sig >>, Merged => Merged', asks' \subseteq Inputs,
         planTag' => planTag \/ pc = "down"
  PROVE  CourseInv'
  <1>1. UNCHANGED Stage
    BY DEF Stage
  <1>2. Rows'
    BY RowMerged DEF CInv, CourseInv, Rows
  <1>3. Entering' /\ Leaving'
    <2>1. Delivered(Stage, s, Merged) => Delivered(Stage, s, Merged')
      BY DEF Delivered
    <2> QED
      BY <1>1, <2>1, ReachedMerged DEF CInv, CourseInv, Entering, Leaving
  <1>4. InStep' /\ Drafting' /\ FirstRun'
    BY <1>1 DEF CInv, CourseInv, InStep, Drafting, FirstRun
  <1> QED
    BY <1>2, <1>3, <1>4 DEF CourseInv

LEMMA CourseHalts ==
  ASSUME NEW row, db' = row, s' = row, pre' = row, pc' = "down", RowOK(row, Merged),
         prStatus' = prStatus, asks' \subseteq Inputs
  PROVE  CourseInv'
  <1>1. Merged' = Merged
    BY DEF Merged
  <1> QED
    BY <1>1 DEF CourseInv, Rows, InStep, Entering, Drafting, Leaving, FirstRun

LEMMA CourseFails ==
  ASSUME CInv, NEW at \in State, NEW type \in ErrorTypes, Fail(at, type), RowOK(at, Merged),
         at.stage = Stage, at.target = "none", prStatus' = prStatus
  PROVE  CourseInv'
  <1> DEFINE row == [at EXCEPT !.err = type, !.errAt = Stage]
  <1>1. RowOK(row, Merged)
    BY RowFails DEF ErrorTypes
  <1>2. db' = row /\ s' = row /\ pre' = row /\ pc' = "down" /\ asks' \subseteq Inputs
    BY CTypes DEF Fail
  <1> HIDE DEF row
  <1> QED
    BY <1>1, <1>2, CourseHalts

LEMMA CourseReturns ==
  ASSUME CInv, pc \in {"stage", "review"}, NEW result \in State, NEW signal, Return(result, signal),
         NEW merged, merged = Merged',
         RowOK(db, merged), RowOK(result, merged), result.stage = Stage,
         "cli" \notin Inputs => result.errAt # "test-cases",
         signal # "rewind" => result.target = "none",
         signal # "pause" => result.cp # "plan-approved",
         signal \in {"none", "pause", "rewind"}, signal = "none" => Delivered(Stage, result, merged),
         "analyse" \notin Inputs /\ cmd = "run" =>
           signal # "rewind" /\ (signal = "none" => i # 3 /\ result.cp = "none"),
         asks' = asks, planTag' => planTag
  PROVE  CourseInv'
  <1>1. /\ s' = result /\ pre' = result /\ sig' = signal /\ pc' = "leave"
        /\ UNCHANGED << db, i, cmd, exit, Stage >>
    BY DEF Return, Stage
  <1> QED
    BY <1>1 DEF CInv, CourseInv, Rows, InStep, Entering, Drafting, Leaving, FirstRun

\* A save inside a loop, which may be lost.
LEMMA CourseWorks ==
  ASSUME CInv, pc \in {"stage", "produce", "review"}, NEW q \in State, Works(Stage, q, s), s' = q,
         db' \in {q, db}, pc' \in {"produce", "review"}, UNCHANGED << pre, i, cmd, sig, prStatus, planTag, asks >>,
         pc' = "review" =>
           /\ Stage = "planning" => q.plan # NoPlan
           /\ Stage = "coding" => q.code # NoPlan /\ ("/fix" \notin Inputs => q.code = q.plan)
           /\ Stage = "test-cases" => q.tests # "none"
  PROVE  CourseInv'
  <1>1. Stage' = Stage /\ Merged' = Merged /\ Merged \in BOOLEAN
    BY DEF Stage, Merged
  <1>2. /\ s.stage = Stage /\ s.target = "none" /\ RowOK(s, Merged)
        /\ "cli" \notin Inputs => s.errAt # "test-cases"
    BY DEF CInv, CourseInv, Rows, InStep
  <1>3. /\ RowOK(q, Merged) /\ q.stage = Stage /\ q.target = "none"
        /\ q.errAt = s.errAt /\ q.cp = s.cp
    BY <1>1, <1>2, RowWorks DEF Works, SamePlace, SameHalt
  <1> QED
    BY <1>1, <1>2, <1>3 DEF CInv, CourseInv, Rows, InStep, Entering, Drafting, Leaving, FirstRun

LEMMA PlanGateAt == ASSUME NEW c PROVE StageList(c)[3] = PlanGate /\ 3 \in 1..Len(StageList(c))
  <1> DEFINE x == StageList(c)
  <1>1. x \in Seq(Stages) /\ Len(x) >= 4 /\ x[2] = "planning" /\ x[4] = "coding" /\ Len(x) \in Nat
    BY StageListType
  <1>2. 2 \in 1..Len(x) /\ 3 \in 1..Len(x)
    BY <1>1
  <1>3. Follows(x[2], x[3]) /\ Follows(x[3], x[4]) /\ x[3] \in Stages
    BY <1>1, <1>2, StageListOrder
  <1>4. Pos(x[3]) = 3
    BY <1>1, <1>3, Positions, StageAt DEF Follows
  <1> QED
    BY <1>2, <1>3, <1>4, StageAt, DefaultTuple DEF PlanGate

LEMMA CourseLoads ==
  ASSUME CInv, NEW row \in State, NEW command \in {"run", "continue"}, Load(row, command),
         NEW d, db' = d, RowOK(d, Merged), RowOK(row, Merged),
         "cli" \notin Inputs => row.errAt # "test-cases",
         command = "run" => "analyse" \in Inputs,
         prStatus' = prStatus, asks' \subseteq Inputs
  PROVE  CourseInv'
  <1> DEFINE q == [row EXCEPT !.target = "none"]
             list == StageList(command)
             wanted == IF row.target # "none" THEN row.target ELSE row.stage
  <1>1. /\ s' = q /\ pre' = q /\ cmd' = command /\ pc' = "enter" /\ Merged' = Merged
        /\ i' = IF StageIndex(list, wanted) > 0 THEN StageIndex(list, wanted)
                ELSE IF StageIndex(list, row.stage) > 0 THEN StageIndex(list, row.stage) ELSE 1
    BY DEF Load, Merged
  <1>2. /\ SameWork(q, row) /\ SameHalt(q, row) /\ SameWish(q, row)
        /\ q.stage = row.stage /\ q.target = "none"
    BY DEF State, SameWork, SameHalt, SameWish
  <1> HIDE DEF q
  <1>3. \A name : Reached(name, row, Merged) => Reached(name, q, Merged)
    BY <1>2 DEF Reached, Delivered, SameWork
  <1>4. PlanKnown(q)
    BY <1>2 DEF RowOK, PlanKnown, SameWork, SameHalt
  <1>5. RowOK(q, Merged)
    BY <1>2, <1>3, <1>4 DEF RowOK, SameHalt, SameWish
  <1>6. Stage' = list[i']
    BY <1>1 DEF Stage
  <1>7. Stage' \in {wanted, row.stage, "analyzer"}
    <2>1. \A name : StageIndex(list, name) > 0 => list[StageIndex(list, name)] = name
      BY StageListType DEF StageIndex
    <2>2. list[1] = "analyzer"
      BY StageListType
    <2> QED
      BY <1>1, <1>6, <2>1, <2>2
  <1>8. Reached(Stage', row, Merged)
    BY <1>7, ReachedLoops DEF RowOK
  <1>9. row.cp = "plan-approved" => Stage' = PlanGate
    <2> SUFFICES ASSUME row.cp = "plan-approved" PROVE Stage' = PlanGate
      OBVIOUS
    <2>1. wanted = PlanGate
      BY DEF RowOK
    <2>2. StageIndex(list, PlanGate) \in 1..Len(list) /\ list[StageIndex(list, PlanGate)] = PlanGate
      BY PlanGateAt, StageIndexFinds
    <2> HIDE DEF wanted, list
    <2>3. StageIndex(list, PlanGate) > 0
      BY <2>2, StageListType DEF list
    <2> QED
      BY <1>1, <1>6, <2>1, <2>2, <2>3
  <1> HIDE DEF wanted, list
  <1> QED
    BY <1>1, <1>2, <1>3, <1>5, <1>8, <1>9
    DEF CourseInv, Rows, InStep, Entering, Drafting, Leaving, FirstRun, SameHalt

---------------------------------------------------------------------------
(* The steps of the container *)

\* What holds while a stage runs.
LEMMA AtStage ==
  ASSUME CInv, pc \in {"stage", "produce", "review"}
  PROVE  /\ s \in State /\ pre \in State /\ db \in State /\ Stage \in Stages
         /\ RowOK(s, Merged) /\ RowOK(pre, Merged) /\ RowOK(db, Merged)
         /\ s.stage = Stage /\ s.target = "none"
         /\ pre.stage = Stage /\ pre.target = "none" /\ db.stage = Stage
         /\ "cli" \notin Inputs => s.errAt # "test-cases"
         /\ Merged \in BOOLEAN
  BY CTypes DEF CInv, CourseInv, Rows, InStep, Merged

LEMMA FirstRunStage ==
  ASSUME CInv, "analyse" \notin Inputs, cmd = "run", pc \notin {"down", "leave", "notify"}
  PROVE  s.cp = "none" /\ ~ planTag /\ (i = 3 => Stage = PlanGate)
  <1>1. StageList(cmd)[3] = PlanGate
    BY PlanGateAt
  <1> QED
    BY <1>1 DEF CInv, CourseInv, FirstRun, Stage

LEMMA EnterStageCourse == ASSUME CInv, EnterStage PROVE CourseInv'
  <1> DEFINE row == [s EXCEPT !.stage = Stage]
  <1>1. /\ SameWork(row, s) /\ SameHalt(row, s) /\ SameWish(row, s)
        /\ row.stage = Stage /\ row.target = s.target
    BY CTypes DEF State, SameWork, SameHalt, SameWish
  <1>2. /\ pc = "enter" /\ UNCHANGED << world, ghosts >>
        /\ \/ /\ db' = row /\ s' = row /\ pre' = row /\ pc' = "stage"
              /\ UNCHANGED << i, cmd, sig, exit >>
           \/ Stop(row, "failed")
    BY DEF EnterStage
  <1> HIDE DEF row
  <1>3. /\ RowOK(s, Merged) /\ s.target = "none" /\ Reached(Stage, s, Merged)
        /\ s.cp = "plan-approved" => Stage = PlanGate
        /\ "cli" \notin Inputs => s.errAt # "test-cases"
        /\ asks \subseteq Inputs
    BY <1>2 DEF CInv, CourseInv, Rows, InStep, Entering
  <1>4. Reached(row.stage, row, Merged)
    BY <1>1, <1>3 DEF Reached, Delivered, SameWork
  <1>5. RowOK(row, Merged)
    BY <1>1, <1>3, <1>4 DEF RowOK, PlanKnown, SameWork, SameHalt, SameWish
  <1>6. UNCHANGED << prStatus, planTag, asks >>
    BY <1>2 DEF world
  <1>7. CASE Stop(row, "failed")
    BY <1>3, <1>5, <1>6, <1>7, CourseHalts DEF Stop
  <1>8. CASE /\ db' = row /\ s' = row /\ pre' = row /\ pc' = "stage"
             /\ UNCHANGED << i, cmd, sig, exit >>
    <2>1. Stage' = Stage /\ Merged' = Merged
      BY <1>6, <1>8 DEF Stage, Merged
    <2> QED
      BY <1>1, <1>2, <1>3, <1>5, <1>6, <1>8, <2>1
      DEF CInv, CourseInv, Rows, InStep, Entering, Drafting, Leaving, FirstRun, SameHalt
  <1> QED
    BY <1>2, <1>7, <1>8

LEMMA RunPlainStageCourse == ASSUME CInv, RunPlainStage PROVE CourseInv'
  <1> DEFINE q == PlainOutputs(Stage, s)
  <1>1. /\ pc = "stage" /\ Stage \in PlainStages /\ Return(q, "none")
        /\ UNCHANGED << planTag, asks >>
        /\ prStatus' = prStatus \/ (Stage = "draft-pr" /\ prStatus' = "draft")
    BY DEF RunPlainStage
  <1>2. q \in State
    BY PlainOutputsType, AtStage, <1>1
  <1>3. /\ Works(Stage, q, s)
        /\ Stage = "draft-pr" => q.pr
        /\ Stage = "documenter" => q.docs
    BY <1>1, AtStage, PlainWorks, PlainSet
  <1> HIDE DEF q
  <1>4. RowOK(q, Merged) /\ q.stage = Stage /\ q.target = "none" /\ q.errAt = s.errAt /\ q.cp = s.cp
    BY <1>1, <1>3, AtStage, RowWorks DEF Works, SamePlace, SameHalt
  <1>5. PICK merged \in BOOLEAN : merged = Merged'
    BY DEF Merged
  <1>6. RowOK(db, merged) /\ RowOK(q, merged)
    <2>1. CASE prStatus' = prStatus
      BY <1>1, <1>4, <1>5, <2>1, AtStage DEF Merged
    <2>2. CASE Stage = "draft-pr"
      BY <1>1, <1>2, <1>4, <2>2, AtStage, RowEarly, Positions
    <2> QED
      BY <1>1, <2>1, <2>2
  <1>7. Delivered(Stage, q, merged)
    BY <1>1, <1>3 DEF Delivered, PlainStages
  <1>8. Stage # PlanGate
    BY <1>1 DEF PlainStages, PlanGate
  <1>9. q.cp # "plan-approved"
    BY <1>4, <1>8 DEF RowOK
  <1>10. "analyse" \notin Inputs /\ cmd = "run" => i # 3 /\ q.cp = "none"
    BY <1>1, <1>4, <1>8, FirstRunStage
  <1> QED
    BY <1>1, <1>2, <1>4, <1>5, <1>6, <1>7, <1>9, <1>10, AtStage, CourseReturns

LEMMA FailPlainStageCourse == ASSUME CInv, FailPlainStage PROVE CourseInv'
  BY AtStage, CourseFails DEF FailPlainStage, ErrorTypes

LEMMA StartsCourse ==
  ASSUME CInv, pc \in {"stage", "review"}, Stage \in Loops, NEW row \in State, NEW n \in 0..MaxAttempts,
         Works(Stage, row, s), StartAttempt(Stage, n, row), UNCHANGED << prStatus, planTag, asks >>
  PROVE  CourseInv'
  <1> DEFINE q == RecordAttempt(Stage, n, row)
  <1>1. q \in State
    BY RecordAttemptType
  <1>2. Works(Stage, q, s)
    BY RecordWorks, WorksCompose
  <1>3. s' = q /\ db' \in {q, db} /\ pc' = "produce" /\ UNCHANGED << pre, i, cmd, sig >>
    BY DEF StartAttempt
  <1> HIDE DEF q
  <1> QED
    BY <1>1, <1>2, <1>3, CourseWorks

LEMMA EnterLoopCourse == ASSUME CInv, NEW l \in Loops, EnterLoop(l) PROVE CourseInv'
  <1> DEFINE row == Entered(l, s)
             spent == PriorAttempts(l, s)
  <1>1. /\ pc = "stage" /\ Stage = l
        /\ \/ Fail(row, "revision-exhausted") /\ prStatus' = prStatus
           \/ Fail(s, "needs-input") /\ prStatus' = prStatus
           \/ /\ spent < MaxAttempts /\ StartAttempt(l, spent + 1, row)
              /\ UNCHANGED << prStatus, planTag, asks >>
    BY DEF EnterLoop, BudgetLeft, world, ghosts
  <1>2. row \in State /\ spent \in 0..MaxAttempts
    BY <1>1, AtStage, EnteredType, PriorAttemptsType
  <1>3. Works(l, row, s)
    BY <1>1, AtStage, EnteredWorks
  <1> HIDE DEF row, spent
  <1>4. CASE Fail(row, "revision-exhausted") /\ prStatus' = prStatus
    <2>1. RowOK(row, Merged) /\ row.stage = Stage /\ row.target = "none"
      BY <1>1, <1>3, AtStage, RowWorks DEF Works, SamePlace
    <2> QED
      BY <1>2, <1>4, <2>1, CourseFails DEF ErrorTypes
  <1>5. CASE Fail(s, "needs-input") /\ prStatus' = prStatus
    BY <1>1, <1>5, AtStage, CourseFails DEF ErrorTypes
  <1>6. CASE /\ spent < MaxAttempts /\ StartAttempt(l, spent + 1, row)
             /\ UNCHANGED << prStatus, planTag, asks >>
    <2>1. spent + 1 \in 0..MaxAttempts
      BY <1>2, <1>6, BudgetAssumption
    <2> QED
      BY <1>1, <1>2, <1>3, <1>6, <2>1, StartsCourse
  <1> QED
    BY <1>1, <1>4, <1>5, <1>6

LEMMA ProduceCourse == ASSUME CInv, NEW l \in Loops, Produce(l) PROVE CourseInv'
  <1>1. /\ pc = "produce" /\ Stage = l /\ pc' = "review" /\ db' \in {s', db}
        /\ UNCHANGED << pre, i, cmd, sig, prStatus, planTag, asks >>
    BY DEF Produce, world
  <1>2. PICK p \in IF l = "planning" THEN FreshPlans ELSE {NoPlan}, built \in BOOLEAN,
             tests \in IF l = "test-cases" THEN TestOutputs ELSE {"none"} :
          s' = Produced(l, p, built, tests, s)
    BY DEF Produce
  <1>3. /\ p \in Plans \cup {NoPlan} /\ tests \in {"none", "empty", "some"}
        /\ l = "planning" => p # NoPlan
        /\ l = "test-cases" => tests # "none"
    BY PlanAssumption DEF FreshPlans, TestOutputs
  <1> DEFINE q == Produced(l, p, built, tests, s)
  <1>4. q \in State /\ Works(l, q, s)
    BY <1>1, <1>3, AtStage, ProducedType, ProducedWorks
  <1>5. /\ q.plan = (IF l = "planning" THEN p ELSE s.plan)
        /\ q.code = (IF l = "coding" /\ ~ (s.rerun /\ s.code # NoPlan) THEN s.plan ELSE s.code)
        /\ q.tests = (IF l = "test-cases" THEN tests ELSE s.tests)
    BY <1>1, AtStage, ProducedSet
  <1> HIDE DEF q
  <1>6. l = "coding" => s.plan # NoPlan
    <2>1. "planning" \in Stages /\ Pos("planning") < Pos("coding")
      BY Positions DEF Stages, Loops
    <2> QED
      BY <1>1, <2>1, AtStage DEF RowOK, Reached, Delivered
  <1>7. "/fix" \notin Inputs => ~ s.rerun
    BY <1>1, AtStage DEF RowOK
  <1>8. /\ Stage = "planning" => q.plan # NoPlan
        /\ Stage = "coding" => q.code # NoPlan /\ ("/fix" \notin Inputs => q.code = q.plan)
        /\ Stage = "test-cases" => q.tests # "none"
    BY <1>1, <1>3, <1>5, <1>6, <1>7
  <1> QED
    BY <1>1, <1>2, <1>4, <1>8, CourseWorks DEF q

LEMMA ReviewCourse == ASSUME CInv, NEW l \in Loops, Review(l) PROVE CourseInv'
  <1>1. pc = "review" /\ Stage = l
    BY DEF Review
  <1>2. PICK v \in {"approve", "revise"}, fell \in BOOLEAN :
          LET row  == Reviewed(l, v, s)
              next == IF Converges(l, cmd) THEN Counted(l, fell, row) ELSE row
          IN  \/ /\ IsApproved(l, v, row) /\ Return(Approved(l, row), "none")
                 /\ UNCHANGED << prStatus, planTag, asks >>
              \/ /\ Return(Escalated(l, next), "pause")
                 /\ UNCHANGED << prStatus, planTag, asks >>
              \/ /\ BudgetLeft(next.attempts[l]) /\ StartAttempt(l, next.attempts[l] + 1, next)
                 /\ UNCHANGED << prStatus, planTag, asks >>
              \/ Fail(next, "revision-exhausted") /\ prStatus' = prStatus
    BY DEF Review, world
  <1> DEFINE row == Reviewed(l, v, s)
             next == IF Converges(l, cmd) THEN Counted(l, fell, row) ELSE row
  <1>3. row \in State /\ Works(l, row, s)
    BY <1>1, AtStage, ReviewedType, ReviewedWorks
  <1>4. /\ row.plan = s.plan /\ row.code = s.code /\ row.tests = s.tests
        /\ l = "coding" => row.review = v
    BY <1>1, AtStage, ReviewedSet
  <1> HIDE DEF row
  <1>5. next \in State /\ Works(l, next, s)
    <2>1. CASE Converges(l, cmd)
      <3>1. Counted(l, fell, row) \in State /\ Works(l, Counted(l, fell, row), row)
        BY <1>3, CountedType, CountedWorks
      <3> QED
        BY <1>3, <2>1, <3>1, WorksCompose
    <2>2. CASE ~ Converges(l, cmd)
      BY <1>3, <2>2
    <2> QED
      BY <2>1, <2>2
  <1>6. \/ /\ IsApproved(l, v, row) /\ Return(Approved(l, row), "none")
           /\ UNCHANGED << prStatus, planTag, asks >>
        \/ /\ Return(Escalated(l, next), "pause")
           /\ UNCHANGED << prStatus, planTag, asks >>
        \/ /\ BudgetLeft(next.attempts[l]) /\ StartAttempt(l, next.attempts[l] + 1, next)
           /\ UNCHANGED << prStatus, planTag, asks >>
        \/ Fail(next, "revision-exhausted") /\ prStatus' = prStatus
    BY <1>2 DEF row
  <1> HIDE DEF next
  <1>7. l # PlanGate
    BY DEF Loops, PlanGate
  <1>8. "analyse" \notin Inputs /\ cmd = "run" => i # 3 /\ s.cp = "none"
    BY <1>1, <1>7, FirstRunStage
  <1>9. CASE /\ IsApproved(l, v, row) /\ Return(Approved(l, row), "none")
             /\ UNCHANGED << prStatus, planTag, asks >>
    <2> DEFINE q == Approved(l, row)
    <2>1. q \in State /\ Works(l, q, s) /\ SameWork(q, row)
      BY <1>3, ApprovedType, ApprovedWorks, WorksCompose
    <2> HIDE DEF q
    <2>2. RowOK(q, Merged) /\ q.stage = Stage /\ q.target = "none" /\ q.errAt = s.errAt /\ q.cp = s.cp
      BY <1>1, <2>1, AtStage, RowWorks DEF Works, SamePlace, SameHalt
    <2>3. q.cp # "plan-approved"
      BY <1>1, <1>7, <2>2 DEF RowOK
    <2>4. /\ Stage = "planning" => s.plan # NoPlan
          /\ Stage = "coding" => s.code # NoPlan /\ ("/fix" \notin Inputs => s.code = s.plan)
          /\ Stage = "test-cases" => s.tests # "none"
      BY <1>1 DEF CInv, CourseInv, Drafting
    <2>5. l = "coding" => v = "approve" /\ row.built
      BY <1>9 DEF IsApproved
    <2>6. Delivered(Stage, q, Merged)
      BY <1>1, <1>4, <2>1, <2>4, <2>5 DEF Delivered, SameWork, Loops
    <2>7. Merged' = Merged
      BY <1>9 DEF Merged
    <2>8. Return(q, "none")
      BY <1>9 DEF q
    <2> QED
      BY <1>1, <1>8, <1>9, <2>1, <2>2, <2>3, <2>6, <2>7, <2>8, AtStage, CourseReturns
  <1>10. CASE Return(Escalated(l, next), "pause") /\ UNCHANGED << prStatus, planTag, asks >>
    <2> DEFINE q == Escalated(l, next)
    <2>1. q \in State
      BY <1>5, EscalatedType
    <2>2. /\ SameWork(q, next) /\ SamePlace(q, next) /\ SameWish(q, next)
          /\ q.cp # "plan-approved" /\ q.err = next.err /\ q.errAt = next.errAt
      BY <1>5, EscalatedSet
    <2> HIDE DEF q
    <2>3. RowOK(next, Merged) /\ next.stage = Stage /\ next.target = "none" /\ next.errAt = s.errAt
      BY <1>1, <1>5, AtStage, RowWorks DEF Works, SamePlace, SameHalt
    <2>4. RowOK(q, Merged)
      <3>1. "cli" \notin Inputs => q.errAt # "test-cases"
        BY <1>1, <2>2, <2>3, AtStage
      <3>2. q.errAt \in {"coding", "test-cases"} => q.plan # NoPlan
        BY <2>2, <2>3 DEF RowOK, PlanKnown, SameWork
      <3> QED
        BY <2>2, <2>3, <3>1, <3>2, RowHalts DEF SameWish
    <2>5. Merged' = Merged /\ Return(q, "pause")
      BY <1>10 DEF Merged, q
    <2> QED
      BY <1>1, <1>10, <2>1, <2>2, <2>3, <2>4, <2>5, AtStage, CourseReturns DEF SamePlace
  <1>11. CASE /\ BudgetLeft(next.attempts[l]) /\ StartAttempt(l, next.attempts[l] + 1, next)
              /\ UNCHANGED << prStatus, planTag, asks >>
    <2>1. next.attempts[l] + 1 \in 0..MaxAttempts
      BY <1>5, <1>11, AttemptsType, BudgetAssumption DEF BudgetLeft
    <2> QED
      BY <1>1, <1>5, <1>11, <2>1, StartsCourse
  <1>12. CASE Fail(next, "revision-exhausted") /\ prStatus' = prStatus
    <2>1. RowOK(next, Merged) /\ next.stage = Stage /\ next.target = "none"
      BY <1>1, <1>5, AtStage, RowWorks DEF Works, SamePlace
    <2> QED
      BY <1>5, <1>12, <2>1, CourseFails DEF ErrorTypes
  <1> QED
    BY <1>6, <1>9, <1>10, <1>11, <1>12

LEMMA FailLoopCourse == ASSUME CInv, NEW l \in Loops, FailLoop(l) PROVE CourseInv'
  BY AtStage, CourseFails DEF FailLoop, ErrorTypes

LEMMA GateRewindCourse == ASSUME CInv, GateRewind PROVE CourseInv'
  <1>1. /\ pc = "stage" /\ Stage \in Gates /\ Commented(Stage)
        /\ UNCHANGED << asks, prStatus >>
        /\ (\E b \in BOOLEAN : planTag' = (planTag /\ b)) \/ planTag' = planTag
    BY DEF GateRewind
  <1>11. planTag' => planTag
    BY <1>1, Zenon
  <1>2. PICK hit : hit = FirstMatch(Stage)
    OBVIOUS
  <1> DEFINE b == hit[1] # "/rerun-plan"
             l == hit[2]
             q == [s EXCEPT !.cp = "none", !.rerun = b, !.target = l, !.feedback = TRUE]
  <1>3. Return(q, "rewind")
    BY <1>2 DEF GateRewind
  <1>4. s \in State /\ s.stage = Stage /\ asks \subseteq Inputs
    BY <1>1, AtStage, CTypes
  <1>5. RowOK(q, Merged)
    <2>1. RowOK(s, Merged) /\ ("cli" \notin Inputs => s.errAt # "test-cases")
      BY <1>1, AtStage
    <2>2. s.stage \in Gates /\ Commented(s.stage) /\ hit = FirstMatch(s.stage)
      BY <1>1, <1>2, <1>4
    <2> QED
      BY <1>4, <2>1, <2>2, RowRewound
  <1>6. q \in State
    <2>1. PICK gate \in Gates : gate = Stage
      BY <1>1
    <2>2. l \in Loops
      BY <1>1, <1>2, <2>1, RewindsBack DEF Loops
    <2>3. b \in BOOLEAN
      OBVIOUS
    <2> HIDE DEF b, l
    <2> QED
      BY <1>4, <2>2, <2>3, SetRewind
  <1> HIDE DEF b, l
  <1>7. q.stage = s.stage /\ q.errAt = s.errAt /\ q.cp = "none"
    BY <1>4 DEF State
  <1> HIDE DEF q
  <1>8. "analyse" \notin Inputs => cmd # "run"
    BY <1>1, FirstRunStage DEF Commented
  <1>9. Merged' = Merged
    BY <1>1 DEF Merged
  <1> QED
    BY <1>1, <1>11, <1>3, <1>4, <1>5, <1>6, <1>7, <1>8, <1>9, AtStage, CourseReturns

\* A gate that is passed or paused at changes the checkpoint only.
LEMMA GateCourse ==
  ASSUME CInv, pc = "stage", Stage \in Gates, NEW c \in CheckpointNames \cup {"none"}, NEW signal \in {"none", "pause"},
         Return([s EXCEPT !.cp = c], signal), UNCHANGED << prStatus, planTag, asks >>,
         c = "plan-approved" => Stage = PlanGate /\ signal = "pause",
         signal = "none" => c = "none" /\ Satisfied(Stage)
  PROVE  CourseInv'
  <1> DEFINE q == [s EXCEPT !.cp = c]
  <1>1. /\ SameWork(q, s) /\ SamePlace(q, s) /\ SameWish(q, s)
        /\ q.cp = c /\ q.err = s.err /\ q.errAt = s.errAt /\ q \in State
    BY AtStage, SetCheckpoint DEF State, SameWork, SamePlace, SameWish
  <1> HIDE DEF q
  <1>2. RowOK(q, Merged)
    <2>1. q.errAt \in {"coding", "test-cases"} => q.plan # NoPlan
      BY <1>1, AtStage DEF RowOK, PlanKnown, SameWork
    <2>2. q.cp = "plan-approved" => q.stage = PlanGate /\ q.target = "none"
      BY <1>1, AtStage DEF SamePlace
    <2> QED
      BY <1>1, <2>1, <2>2, AtStage, RowHalts DEF SameWish
  <1>3. signal = "none" => Delivered(Stage, q, Merged)
    <2>1. signal = "none" /\ Stage = "checkpoint:pr-completed" => s.pr /\ Merged
      BY DEF Satisfied, Merged
    <2> QED
      BY <1>1, <2>1 DEF Delivered, Gates, SameWork
  <1>4. "analyse" \notin Inputs /\ cmd = "run" => signal # "rewind" /\ (signal = "none" => i # 3 /\ q.cp = "none")
    <2>1. Satisfied(PlanGate) = planTag
      BY DEF Satisfied, PlanGate
    <2> QED
      BY <1>1, <2>1, FirstRunStage
  <1>5. Merged' = Merged /\ Return(q, signal)
    BY DEF Merged, q
  <1> QED
    BY <1>1, <1>2, <1>3, <1>4, <1>5, AtStage, CourseReturns DEF SamePlace

LEMMA GatePassCourse == ASSUME CInv, GatePass PROVE CourseInv'
  <1>1. /\ pc = "stage" /\ Stage \in Gates /\ Satisfied(Stage)
        /\ Return([s EXCEPT !.cp = "none"], "none") /\ UNCHANGED << prStatus, planTag, asks >>
    BY DEF GatePass, world
  <1> QED
    BY <1>1, GateCourse

LEMMA GatePauseCourse == ASSUME CInv, GatePause PROVE CourseInv'
  <1>1. PICK c : c = CheckpointName(Stage)
    OBVIOUS
  <1>2. /\ pc = "stage" /\ Stage \in Gates
        /\ Return([s EXCEPT !.cp = c], "pause") /\ UNCHANGED << prStatus, planTag, asks >>
    BY <1>1 DEF GatePause, world
  <1>3. c \in CheckpointNames /\ (c = "plan-approved" => Stage = PlanGate)
    BY <1>1 DEF CheckpointName, CheckpointNames, PlanGate
  <1> QED
    BY <1>2, <1>3, GateCourse

LEMMA FailGateCourse == ASSUME CInv, FailGate PROVE CourseInv'
  BY AtStage, CourseFails DEF FailGate, ErrorTypes

LEMMA SaveResultCourse == ASSUME CInv, SaveResult PROVE CourseInv'
  <1>1. /\ pc = "leave" /\ db' = s /\ pc' = "notify" /\ asks' \subseteq asks
        /\ UNCHANGED << s, pre, i, cmd, sig, planTag, prStatus >>
    BY DEF SaveResult
  <1>2. Stage' = Stage /\ Merged' = Merged
    BY <1>1 DEF Stage, Merged
  <1> QED
    BY <1>1, <1>2 DEF CInv, CourseInv, Rows, InStep, Entering, Drafting, Leaving, FirstRun

\* The next stage of the list is reached when this one has delivered.
LEMMA NextReached ==
  ASSUME CInv, pc = "notify", sig = "none", i < Len(StageList(cmd))
  PROVE  Reached(StageList(cmd)[i + 1], s, Merged)
  <1>1. i \in 1..Len(StageList(cmd)) /\ Len(StageList(cmd)) \in Nat /\ Stage \in Stages
    BY CTypes, StageListType
  <1>2. PICK q \in Stages : q = StageList(cmd)[i + 1] /\ Follows(Stage, q)
    BY <1>1, StageListOrder, StageListType DEF Stage
  <1>3. RowOK(s, Merged) /\ s.stage = Stage /\ Delivered(Stage, s, Merged)
    BY DEF CInv, CourseInv, Rows, InStep, Leaving
  <1>4. ASSUME NEW m \in Stages, Pos(m) < Pos(q) PROVE Delivered(m, s, Merged)
    <2>1. Pos(m) \in 1..11 /\ Pos(Stage) \in 1..11 /\ Pos(q) \in 1..11
      BY <1>1, StageAt
    <2>2. CASE Pos(m) < Pos(Stage)
      BY <1>3, <2>2 DEF RowOK, Reached
    <2>3. CASE Pos(m) = Pos(Stage)
      <3>1. m = Stage
        BY <1>1, <2>3, StageAt
      <3> QED
        BY <1>3, <3>1
    <2>4. CASE Pos(m) > Pos(Stage)
      <3>1. LeftOut(m)
        BY <1>2, <1>4, <2>4 DEF Follows
      <3>2. CASE m \in {"test-case-activation", "docs-writer"}
        BY <3>2 DEF Delivered
      <3>3. CASE m = "test-cases" /\ ~ TestCases
        <4>1. TestsRun => "analyse" \notin Inputs
          BY <3>3 DEF TestsRun
        <4>2. CASE cmd = "run" /\ TestsRun
          <5>1. i <= 2
            BY <1>1, <4>1, <4>2 DEF CInv, CourseInv, FirstRun
          <5>2. StageList(cmd)[2] = "planning" /\ StageList(cmd)[3] = PlanGate
            BY PlanGateAt, StageListType
          <5>3. q \in {"planning", PlanGate}
            BY <1>1, <1>2, <5>1, <5>2
          <5> QED
            BY <1>4, <3>3, <5>3, Positions DEF PlanGate
        <4>3. CASE cmd # "run"
          <5>1. Stage = DefaultStages[i] /\ q = DefaultStages[i + 1] /\ i \in 1..10 /\ i + 1 \in 1..11
            <6>1. StageList(cmd) = DefaultStages
              BY <4>3 DEF StageList
            <6>2. Len(DefaultStages) = 11
              BY DefaultTuple
            <6>3. i \in 1..10 /\ i + 1 \in 1..11
              BY <1>1, <6>1, <6>2
            <6> QED
              BY <1>2, <6>1, <6>3 DEF Stage
          <5>2. Pos(Stage) = i /\ Pos(q) = i + 1
            BY <5>1, PositionAt
          <5> QED
            BY <1>4, <2>1, <2>4, <5>1, <5>2
        <4>4. CASE ~ TestsRun
          BY <3>3, <4>4 DEF Delivered
        <4> QED
          BY <4>2, <4>3, <4>4
      <3> QED
        BY <3>1, <3>2, <3>3 DEF LeftOut
    <2> QED
      BY <2>1, <2>2, <2>3, <2>4
  <1> QED
    BY <1>2, <1>4 DEF Reached

LEMMA NotifyCourse == ASSUME CInv, Notify PROVE CourseInv'
  <1>1. /\ pc = "notify" /\ UNCHANGED << planTag, asks, prStatus >>
        /\ \/ sig = "pause" /\ Stop(s, "ok")
           \/ /\ sig = "rewind"
              /\ s' = [s EXCEPT !.target = "none"] /\ pre' = s'
              /\ i' = StageIndex(StageList(cmd), s.target)
              /\ pc' = "enter" /\ sig' = "none" /\ UNCHANGED << db, cmd, exit >>
           \/ /\ sig = "none" /\ i < Len(StageList(cmd))
              /\ i' = i + 1 /\ pc' = "enter"
              /\ UNCHANGED << db, s, pre, cmd, sig, exit >>
           \/ /\ sig = "none" /\ i = Len(StageList(cmd))
              /\ Stop([s EXCEPT !.done = TRUE], "ok")
    BY DEF Notify
  <1>2. /\ RowOK(s, Merged) /\ RowOK(db, Merged) /\ Merged' = Merged
        /\ s \in State /\ asks \subseteq Inputs /\ pre = s
        /\ sig # "rewind" => s.target = "none"
        /\ sig # "pause" => s.cp # "plan-approved"
        /\ "cli" \notin Inputs => s.errAt # "test-cases"
    BY <1>1, CTypes DEF CInv, CourseInv, Rows, InStep, Leaving, Merged
  <1>3. CASE sig = "pause" /\ Stop(s, "ok")
    BY <1>1, <1>2, <1>3, CourseHalts DEF Stop
  <1>4. CASE /\ sig = "rewind"
             /\ s' = [s EXCEPT !.target = "none"] /\ pre' = s'
             /\ i' = StageIndex(StageList(cmd), s.target)
             /\ pc' = "enter" /\ sig' = "none" /\ UNCHANGED << db, cmd, exit >>
    <2> DEFINE q == [s EXCEPT !.target = "none"]
    <2>1. /\ SameWork(q, s) /\ SameHalt(q, s) /\ SameWish(q, s)
          /\ q.stage = s.stage /\ q.target = "none"
      BY <1>2 DEF State, SameWork, SameHalt, SameWish
    <2>2. s' = q /\ pre' = q
      BY <1>4
    <2> HIDE DEF q
    <2>3. s.target \in {"planning", "coding"}
      BY <1>1, <1>4 DEF CInv, TypeInv
    <2>4. Stage' = s.target
      <3>1. 2 \in 1..Len(StageList(cmd)) /\ 4 \in 1..Len(StageList(cmd))
        BY StageListType
      <3>2. /\ StageList(cmd)[2] = "planning" /\ StageList(cmd)[4] = "coding"
        BY StageListType
      <3>3. StageList(cmd)[StageIndex(StageList(cmd), s.target)] = s.target
        BY <2>3, <3>1, <3>2, StageIndexFinds
      <3> QED
        BY <1>4, <3>3 DEF Stage
    <2>5. Reached(s.target, s, Merged)
      BY <1>2, <2>3 DEF RowOK
    <2>6. /\ Reached(Stage', q, Merged) /\ Reached(q.stage, q, Merged)
      BY <1>2, <2>1, <2>4, <2>5 DEF RowOK, Reached, Delivered, SameWork
    <2>7. RowOK(q, Merged)
      BY <1>2, <2>1, <2>6 DEF RowOK, PlanKnown, SameWork, SameHalt, SameWish
    <2>8. q.cp # "plan-approved" /\ q.errAt = s.errAt
      BY <1>2, <1>4, <2>1 DEF SameHalt
    <2>9. "analyse" \notin Inputs => cmd # "run"
      BY <1>1, <1>4 DEF CInv, CourseInv, FirstRun
    <2> QED
      BY <1>1, <1>2, <1>4, <2>1, <2>2, <2>6, <2>7, <2>8, <2>9
      DEF CourseInv, Rows, InStep, Entering, Drafting, Leaving, FirstRun
  <1>5. CASE /\ sig = "none" /\ i < Len(StageList(cmd)) /\ i' = i + 1 /\ pc' = "enter"
             /\ UNCHANGED << db, s, pre, cmd, sig, exit >>
    <2>1. Reached(Stage', s, Merged)
      BY <1>1, <1>5, NextReached DEF Stage
    <2>2. "analyse" \notin Inputs /\ cmd = "run" => i <= 2 /\ s.cp = "none" /\ ~ planTag
      BY <1>1, <1>5, CTypes DEF CInv, CourseInv, FirstRun
    <2>3. i \in Nat
      BY CTypes
    <2> QED
      BY <1>1, <1>2, <1>5, <2>1, <2>2, <2>3
      DEF CInv, CourseInv, Rows, InStep, Entering, Drafting, Leaving, FirstRun
  <1>6. CASE sig = "none" /\ i = Len(StageList(cmd)) /\ Stop([s EXCEPT !.done = TRUE], "ok")
    <2> DEFINE q == [s EXCEPT !.done = TRUE]
    <2>1. SameWork(q, s) /\ SamePlace(q, s) /\ SameHalt(q, s) /\ SameWish(q, s)
      BY <1>2 DEF State, SameWork, SamePlace, SameHalt, SameWish
    <2>2. db' = q /\ s' = q /\ pre' = q /\ pc' = "down"
      BY <1>6 DEF Stop
    <2> HIDE DEF q
    <2>3. RowOK(q, Merged)
      BY <1>2, <2>1 DEF RowOK, Reached, Delivered, PlanKnown, SameWork, SamePlace, SameHalt, SameWish
    <2> QED
      BY <1>1, <1>2, <2>2, <2>3, CourseHalts
  <1> QED
    BY <1>1, <1>3, <1>4, <1>5, <1>6

LEMMA CrashCourse == ASSUME CInv, Crash PROVE CourseInv'
  BY CourseHalts DEF Crash, Stop, world, ghosts, CInv, CourseInv, Rows, InStep

LEMMA ContainerCourse == ASSUME CInv, Container PROVE CourseInv'
  <1>1. CASE PushBranch
    BY <1>1, CTypes, CourseStays DEF PushBranch, container, Merged
  <1> QED
    BY <1>1, EnterStageCourse, RunPlainStageCourse, FailPlainStageCourse, GateRewindCourse,
       GatePassCourse, GatePauseCourse, FailGateCourse, SaveResultCourse, NotifyCourse,
       EnterLoopCourse, ProduceCourse, ReviewCourse, FailLoopCourse DEF Container

---------------------------------------------------------------------------
(* The watcher, the humans and the first state *)

LEMMA DownStays ==
  ASSUME CInv, UNCHANGED << db, s, pre, pc, i, cmd, sig, prStatus, asks >>, pc = "down"
  PROVE  CourseInv'
  BY CTypes, CourseStays DEF Merged

LEMMA HandleOutcomeCourse == ASSUME CInv, HandleOutcome PROVE CourseInv'
  <1> DEFINE row == OutcomeRow
  <1>1. /\ db' = row /\ s' = row /\ pre' = row /\ pc' = pc /\ exit # "none"
        /\ UNCHANGED << asks, prStatus >>
    BY DEF HandleOutcome
  <1>2. pc = "down" /\ db \in State /\ RowOK(db, Merged) /\ asks \subseteq Inputs
    BY <1>1, CTypes DEF CInv, TypeInv, CourseInv, Rows
  <1>3. RowOK(row, Merged)
    <2> DEFINE q == [db EXCEPT !.err = "ContainerError", !.errAt = "container"]
    <2>1. /\ SameWork(q, db) /\ SamePlace(q, db) /\ SameWish(q, db)
          /\ q.cp = db.cp /\ q.errAt = "container"
      BY <1>2 DEF State, SameWork, SamePlace, SameWish
    <2>2. row \in {db, q}
      BY DEF OutcomeRow
    <2> HIDE DEF q, row
    <2>3. q.cp = "plan-approved" => q.stage = PlanGate /\ q.target = "none"
      BY <1>2, <2>1 DEF RowOK, SamePlace
    <2>4. RowOK(q, Merged)
      BY <1>2, <2>1, <2>3, RowHalts DEF SameWish
    <2> QED
      BY <1>2, <2>2, <2>4
  <1> HIDE DEF row
  <1> QED
    BY <1>1, <1>2, <1>3, CourseHalts

\* A row that is stopped by an error or at the plan gate and continued.
LEMMA Continues ==
  ASSUME CInv, NEW row \in State, Continue(row), row \in {db, ClearError(db)},
         row = db => \/ "cli" \in Inputs \/ db.err = "none" \/ db.cp = "plan-approved",
         UNCHANGED << prStatus, asks >>
  PROVE  CourseInv'
  <1>1. db \in State /\ RowOK(db, Merged) /\ asks \subseteq Inputs
    BY CTypes DEF CInv, CourseInv, Rows
  <1>2. RowOK(row, Merged)
    BY <1>1, RowCleared
  <1>3. "cli" \notin Inputs => row.errAt # "test-cases"
    <2>1. CASE row = db
      BY <1>1, <2>1 DEF RowOK
    <2>2. CASE row = ClearError(db)
      <3>1. row.errAt = "none"
        BY <1>1, <2>2, ClearErrorSet
      <3> QED
        BY <3>1
    <2> QED
      BY <2>1, <2>2
  <1>4. db' = row /\ Load(row, "continue")
    BY DEF Continue
  <1> QED
    BY <1>1, <1>2, <1>3, <1>4, CourseLoads

LEMMA RerunCourse ==
  ASSUME CInv, NEW c \in {"/rerun-plan", "/fix"}, c \in Inputs, Rerun(c)
  PROVE  CourseInv'
  <1> DEFINE row == ApplyRerun(c, db)
  <1>1. db' = row /\ Load(row, "continue") /\ asks' = {} /\ prStatus' = prStatus
    BY DEF Rerun, Continue
  <1>2. db \in State /\ RowOK(db, Merged)
    BY CTypes DEF CInv, CourseInv, Rows
  <1>3. row \in State /\ row.errAt = "none"
    BY <1>2, ApplyRerunType, ApplyRerunSet
  <1>4. RowOK(row, Merged)
    BY <1>2, RowRerun
  <1> HIDE DEF row
  <1> QED
    BY <1>1, <1>3, <1>4, CourseLoads

LEMMA InitialRow == ASSUME NEW merged PROVE RowOK(InitialState, merged)
  <1>1. /\ InitialState.stage = "analyzer" /\ InitialState.target = "none"
        /\ InitialState.code = NoPlan /\ InitialState.errAt = "none" /\ InitialState.cp = "none"
        /\ ~ InitialState.rerun
    BY DEF InitialState
  <1> QED
    BY <1>1, ReachedLoops DEF RowOK, PlanKnown

LEMMA StartFreshCourse == ASSUME CInv, StartFresh PROVE CourseInv'
  <1>1. /\ db' = db /\ Load(InitialState, "run") /\ asks' = {} /\ prStatus' = prStatus
        /\ "analyse" \in Inputs
    BY DEF StartFresh
  <1>2. RowOK(db, Merged)
    BY DEF CInv, CourseInv, Rows
  <1>3. InitialState.errAt = "none"
    BY DEF InitialState
  <1> QED
    BY <1>1, <1>2, <1>3, InitialType, InitialRow, CourseLoads

LEMMA WatcherCourse == ASSUME CInv, Watcher PROVE CourseInv'
  <1>1. db \in State /\ ClearError(db) \in State /\ asks \subseteq Inputs /\ heard \subseteq asks
    BY CTypes, ClearErrorType DEF CInv, TypeInv, TypeOK
  <1>2. CASE LoseOutcome
    BY <1>2, DownStays DEF LoseOutcome, CInv, TypeInv, world
  <1>3. CASE ContinueTag
    <2> DEFINE row == IF db.err # "none" THEN ClearError(db) ELSE db
    <2>1. /\ Continue(row) /\ UNCHANGED << prStatus, asks >>
      BY <1>3 DEF ContinueTag, Rewindowed
    <2>2. row \in State /\ row \in {db, ClearError(db)}
      BY <1>1
    <2>3. row = db => db.err = "none"
      <3>1. ClearError(db).err = "none"
        BY <1>1, ClearErrorSet
      <3> QED
        BY <3>1
    <2> HIDE DEF row
    <2> QED
      BY <2>1, <2>2, <2>3, Continues
  <1>4. CASE ContinueApproved
    <2> DEFINE row == IF PlanTagRetry THEN ClearError(db) ELSE db
    <2>1. /\ Continue(row) /\ UNCHANGED << prStatus, asks >>
      BY <1>4 DEF ContinueApproved, Rewindowed
    <2>2. row \in State /\ row \in {db, ClearError(db)}
      BY <1>1
    <2>3. row = db => db.err = "none" \/ db.cp = "plan-approved"
      <3>1. ClearError(db).err = "none"
        BY <1>1, ClearErrorSet
      <3>2. ~ PlanTagRetry => db.cp = "plan-approved"
        BY <1>4 DEF ContinueApproved, PlanTagAtGate
      <3> QED
        BY <3>1, <3>2
    <2> HIDE DEF row
    <2> QED
      BY <2>1, <2>2, <2>3, Continues
  <1>5. CASE ContinueMerged
    BY <1>1, <1>5, Continues DEF ContinueMerged, PrCompletedCandidate
  <1>6. CASE ResumeOrphan
    BY <1>1, <1>6, Continues DEF ResumeOrphan
  <1>7. CASE CliContinue
    BY <1>1, <1>7, Continues DEF CliContinue
  <1>8. ASSUME NEW c \in {"/rerun-plan", "/fix"}, ScanRerun(c) PROVE CourseInv'
    <2>1. c \in Inputs /\ Rerun(c)
      BY <1>1, <1>8 DEF ScanRerun
    <2> QED
      BY <2>1, RerunCourse
  <1>9. ASSUME NEW c \in {"/rerun-plan", "/fix"}, DashboardRerun(c) PROVE CourseInv'
    BY <1>9, RerunCourse DEF DashboardRerun
  <1> QED
    BY <1>2, <1>3, <1>4, <1>5, <1>6, <1>7, <1>8, <1>9, HandleOutcomeCourse, StartFreshCourse DEF Watcher

LEMMA HumanCourse == ASSUME CInv, Human PROVE CourseInv'
  <1> USE DEF container
  <1>1. CASE ApprovePlan
    BY <1>1, DownStays DEF ApprovePlan, Stopped
  <1>2. CASE RemoveNeedInput
    BY <1>2, DownStays DEF RemoveNeedInput, Stopped
  <1>3. CASE PullRequest
    BY <1>3, CTypes, CourseStays DEF PullRequest, Merged
  <1>4. CASE FreeBranch
    BY <1>4, DownStays DEF FreeBranch, Stopped
  <1>5. ASSUME NEW c \in {"/rerun-plan", "/fix"}, Ask(c) PROVE CourseInv'
    BY <1>5, CTypes, CourseStays DEF Ask, Merged
  <1> QED
    BY <1>1, <1>2, <1>3, <1>4, <1>5 DEF Human

LEMMA InitCourse == Init => CInv
  <1> SUFFICES ASSUME Init PROVE CourseInv
    BY InitTypeInv DEF CInv
  <1>1. /\ db = InitialState /\ s = InitialState /\ pre = InitialState /\ asks = {} /\ ~ planTag
        /\ pc = "stage" /\ sig = "none" /\ i = 1
    BY DEF Init
  <1>2. Stage = "analyzer"
    BY <1>1, StageListType DEF Stage
  <1>3. /\ InitialState.stage = "analyzer" /\ InitialState.target = "none"
        /\ InitialState.errAt = "none" /\ InitialState.cp = "none"
    BY DEF InitialState
  <1> QED
    BY <1>1, <1>2, <1>3, InitialRow DEF CourseInv, Rows, InStep, Entering, Drafting, Leaving, FirstRun

LEMMA CourseStep == CInv /\ [Next]_vars => CInv'
  <1> SUFFICES ASSUME CInv, [Next]_vars PROVE CInv'
    OBVIOUS
  <1>1. TypeInv'
    BY ContainerTypes, CrashTypes, WatcherTypes, HumanTypes, StutterTypes DEF Next, CInv
  <1>2. ASSUME UNCHANGED vars PROVE CourseInv'
    <2>1. UNCHANGED << db, s, pre, pc, i, cmd, sig, planTag, prStatus, asks >>
      BY <1>2 DEF vars, container, world
    <2>2. planTag' => planTag
      BY <2>1, Zenon
    <2>3. Merged => Merged'
      BY <2>1 DEF Merged
    <2>4. asks' \subseteq Inputs
      BY <2>1, CTypes
    <2> QED
      BY <2>1, <2>2, <2>3, <2>4, CourseStays
  <1>3. ASSUME Next PROVE CourseInv'
    BY <1>3, ContainerCourse, CrashCourse, WatcherCourse, HumanCourse DEF Next
  <1> QED
    BY <1>1, <1>2, <1>3 DEF CInv

LEMMA CourseHolds == Spec => []CInv
  BY InitCourse, CourseStep, PTL DEF Spec

---------------------------------------------------------------------------
(* The theorems *)

\* What the stored row has delivered, for the stages it is past.
LEMMA PastStage ==
  ASSUME CInv, NEW m \in Stages, Pos(db.stage) > Pos(m)
  PROVE  Delivered(m, db, Merged)
  <1>1. RowOK(db, Merged) /\ db \in State
    BY CTypes DEF CInv, CourseInv, Rows
  <1>2. db.stage \in Stages
    BY <1>1 DEF State
  <1>3. Pos(m) < Pos(db.stage)
    <2>1. PICK name \in Stages : name = db.stage
      BY <1>2
    <2>2. Pos(name) \in 1..11 /\ Pos(m) \in 1..11 /\ Pos(name) > Pos(m)
      BY <2>1, StageAt
    <2> QED
      BY <2>1, <2>2
  <1> QED
    BY <1>1, <1>3 DEF RowOK, Reached

\* Documentation is written for merged work only (pipeline-definition.ts, checkpoint:pr-completed):
\* a row past the last gate has its pull request, and that pull request is completed - whatever
\* crashes, loses a save, rewinds, or starts the item again.
THEOREM DocsAfterMergeOnly == Spec => []DocsAfterMerge
  <1>1. CInv => DocsAfterMerge
    <2>1. "checkpoint:pr-completed" \in Stages
      BY DEF Stages, Gates
    <2> QED
      BY <2>1, PastStage DEF DocsAfterMerge, Delivered, Merged
  <1> QED
    BY CourseHolds, <1>1, PTL

\* The coding gate holds (pipeline-definition.ts:32): a row past the coding loop has a changeset
\* that its last review approved and whose CI passed.
THEOREM ReviewedCodePasses == ErrorsFresh => (Spec => []ReviewedCodeOnly)
  <1> SUFFICES ASSUME ErrorsFresh PROVE Spec => []ReviewedCodeOnly
    OBVIOUS
  <1>1. CInv => ReviewedCodeOnly
    <2>1. "coding" \in Stages
      BY DEF Stages, Loops
    <2> QED
      BY <2>1, PastStage DEF ReviewedCodeOnly, Delivered
  <1> QED
    BY CourseHolds, <1>1, PTL

\* A row past the coding loop holds code of the plan it holds, as long as nobody sends the coder
\* back to an existing branch.
THEOREM CodeImplementsPlan == "/fix" \notin Inputs => (Spec => []CodeMatchesPlan)
  <1> SUFFICES ASSUME "/fix" \notin Inputs PROVE Spec => []CodeMatchesPlan
    OBVIOUS
  <1>1. CInv => CodeMatchesPlan
    <2>1. "coding" \in Stages
      BY DEF Stages, Loops
    <2> QED
      BY <2>1, PastStage DEF CodeMatchesPlan, Delivered
  <1> QED
    BY CourseHolds, <1>1, PTL

\* No stage is reached before its inputs (canRun of each stage): however the item was rewound,
\* resumed, failed or started again, what the stage needs is in the row.
THEOREM InputsReady == ErrorsFresh /\ TestsRun => (Spec => []StageInputsReady)
  <1> SUFFICES ASSUME ErrorsFresh, TestsRun PROVE Spec => []StageInputsReady
    OBVIOUS
  <1>1. ASSUME CInv, pc = "enter", s.ready, s.tests # "empty" PROVE CanRun(Stage, s)
    <2>1. Reached(Stage, s, Merged)
      BY <1>1 DEF CInv, CourseInv, Entering
    <2>2. s.tests \in {"none", "empty", "some"} /\ Stage \in Stages
      BY <1>1, CTypes DEF State
    <2>3. /\ "planning" \in Stages /\ "coding" \in Stages /\ "test-cases" \in Stages
          /\ "draft-pr" \in Stages /\ "documenter" \in Stages
      BY DEF Stages, Loops, PlainStages
    <2>4. CASE Stage = "planning"
      BY <1>1, <2>4 DEF CanRun
    <2>5. CASE Stage = "coding"
      BY <2>1, <2>3, <2>5, Positions DEF CanRun, Reached, Delivered
    <2>6. CASE Stage \in {"test-cases", "draft-pr"}
      BY <2>1, <2>3, <2>6, Positions DEF CanRun, Reached, Delivered
    <2>7. CASE Stage = "test-case-activation"
      BY <1>1, <2>1, <2>2, <2>3, <2>7, Positions DEF CanRun, Reached, Delivered
    <2>8. CASE Stage = "documenter"
      BY <2>1, <2>3, <2>8, Positions DEF CanRun, Reached, Delivered
    <2>9. CASE Stage = "docs-writer"
      BY <2>1, <2>3, <2>9, Positions DEF CanRun, Reached, Delivered
    <2> QED
      BY <2>4, <2>5, <2>6, <2>7, <2>8, <2>9 DEF CanRun
  <1>2. CInv => StageInputsReady
    BY <1>1 DEF StageInputsReady
  <1> QED
    BY CourseHolds, <1>2, PTL

---------------------------------------------------------------------------
(* Commands that were accepted *)

\* The row knows the command: it is sent to the loop, or it is in that loop,
Sent(row)    == row.feedback /\ row.target = owed
Serving(row) == row.feedback /\ row.target = "none" /\ row.stage = owed

\* or it waits at the gate whose scan finds the comment again.
Scanned(row) ==
  /\ row.target = "none" /\ row.stage \in Gates /\ row.cp # "none"
  /\ \E k \in 1..Len(GateCommands(row.stage)) :
       GateCommands(row.stage)[k][1] \in asks /\ GateCommands(row.stage)[k][2] = owed

\* Where the container is with a command that was accepted.
Owing ==
  owed # "none" =>
    /\ pc = "down" => Sent(db) \/ Serving(db) \/ Scanned(db)
    /\ pc = "enter" => \/ Stage = owed /\ s.feedback /\ (Sent(db) \/ Serving(db))
                       \/ Stage = db.stage /\ s.cp = db.cp /\ Scanned(db)
    /\ pc = "stage" => (Stage = owed /\ Serving(db)) \/ Scanned(db)
    /\ pc = "produce" => Stage = owed /\ Serving(db) /\ s.feedback /\ pre.feedback
    /\ pc # "review"
    /\ pc = "leave" => sig = "rewind" /\ s.target = owed /\ s.feedback /\ Scanned(db)
    /\ pc = "notify" => sig = "rewind" /\ s.target = owed /\ s.feedback /\ Sent(db)

\* A stage starts from the stored row.
StartsStored == pc = "stage" => db = s /\ pre = s

OwingInv == Owing /\ StartsStored

OInv == CInv /\ OwingInv

\* q knows of the command what r knows.
SameCall(q, r) == SamePlace(q, r) /\ q.feedback = r.feedback /\ q.cp = r.cp

LEMMA SameCallKnows ==
  ASSUME NEW q, NEW r, SameCall(q, r)
  PROVE  Sent(q) = Sent(r) /\ Serving(q) = Serving(r) /\ Scanned(q) = Scanned(r)
  BY DEF SameCall, SamePlace, Sent, Serving, Scanned

LEMMA OwingTypes ==
  ASSUME OInv
  PROVE  /\ db \in State /\ s \in State /\ pre \in State /\ Stage \in Stages
         /\ owed \in Loops \cup {"none"}
         /\ pc \in {"down", "enter", "stage", "produce", "review", "leave", "notify"}
  BY CTypes DEF OInv, CInv, TypeInv, TypeOK

\* A command that is carried over to a container that is down.
LEMMA OwingHalts ==
  ASSUME pc' = "down", owed' = owed, asks' = asks, NEW r, SameCall(db', r),
         owed # "none" => Sent(r) \/ Serving(r) \/ Scanned(r)
  PROVE  OwingInv'
  <1>1. PICK q : q = db'
    OBVIOUS
  <1>2. Sent(q) = Sent(r) /\ Serving(q) = Serving(r) /\ Scanned(q) = Scanned(r)
    BY <1>1, SameCallKnows
  <1>3. Sent(db)' = Sent(q) /\ Serving(db)' = Serving(q) /\ Scanned(db)' = Scanned(q)
    BY <1>1 DEF Sent, Serving, Scanned
  <1> QED
    BY <1>2, <1>3 DEF OwingInv, Owing, StartsStored

LEMMA NothingOwed == ASSUME owed' = "none", StartsStored' PROVE OwingInv'
  BY DEF OwingInv, Owing

\* The row a failing stage leaves.
LEMMA FailCalls ==
  ASSUME OInv, NEW at \in State, NEW type, Fail(at, type), owed' = owed, at.cp = db.cp,
         owed # "none" => Serving(at) \/ Scanned(at)
  PROVE  OwingInv'
  <1> DEFINE q == [at EXCEPT !.err = type, !.errAt = Stage]
  <1>1. db' = q /\ pc' = "down" /\ asks' = asks
    BY DEF Fail
  <1>2. SameCall(q, at)
    BY DEF State, SameCall, SamePlace
  <1> HIDE DEF q
  <1> QED
    BY <1>1, <1>2, OwingHalts

LEMMA EnterStageCalls == ASSUME OInv, EnterStage PROVE OwingInv'
  <1> DEFINE row == [s EXCEPT !.stage = Stage]
  <1>1. /\ row.stage = Stage /\ row.target = s.target /\ row.feedback = s.feedback /\ row.cp = s.cp
    BY OwingTypes DEF State
  <1>2. /\ pc = "enter" /\ owed' = owed /\ asks' = asks
        /\ \/ /\ db' = row /\ s' = row /\ pre' = row /\ pc' = "stage"
              /\ UNCHANGED << i, cmd, sig, exit >>
           \/ Stop(row, "failed")
    BY DEF EnterStage, world, ghosts
  <1> HIDE DEF row
  <1>3. s.target = "none"
    BY <1>2 DEF OInv, CInv, CourseInv, InStep
  <1>4. owed # "none" => (Stage = owed /\ Serving(row)) \/ Scanned(row)
    BY <1>1, <1>2, <1>3 DEF OInv, OwingInv, Owing, Serving, Scanned
  <1>5. CASE Stop(row, "failed")
    BY <1>2, <1>4, <1>5, OwingHalts DEF Stop, SameCall, SamePlace
  <1>6. CASE /\ db' = row /\ s' = row /\ pre' = row /\ pc' = "stage"
             /\ UNCHANGED << i, cmd, sig, exit >>
    <2>1. Stage' = Stage
      BY <1>6 DEF Stage
    <2>2. Serving(db)' = Serving(row) /\ Scanned(db)' = Scanned(row)
      BY <1>2, <1>6 DEF Serving, Scanned
    <2> QED
      BY <1>2, <1>4, <1>6, <2>1, <2>2 DEF OwingInv, Owing, StartsStored
  <1> QED
    BY <1>2, <1>5, <1>6

\* Where a command may be while a stage runs.
LEMMA CalledStage ==
  ASSUME OInv, pc = "stage"
  PROVE  /\ db = s /\ pre = s /\ s.stage = Stage /\ s.target = "none"
         /\ Stage \in PlainStages => owed = "none"
         /\ Stage \in Loops /\ owed # "none" => Stage = owed /\ Serving(s)
         /\ Stage \in Gates /\ owed # "none" => Scanned(s) /\ Commented(Stage)
  <1>1. db = s /\ pre = s /\ s.stage = Stage /\ s.target = "none"
    BY AtStage DEF OInv, OwingInv, StartsStored
  <1>2. owed # "none" => owed \in Loops /\ ((Stage = owed /\ Serving(s)) \/ Scanned(s))
    BY <1>1, OwingTypes DEF OInv, OwingInv, Owing
  <1>3. Scanned(s) => Stage \in Gates /\ Commented(Stage)
    BY <1>1 DEF Scanned, Commented
  <1>4. \A m \in Loops : m \notin Gates /\ m \notin PlainStages
    BY DEF Loops, Gates, PlainStages
  <1>5. \A m \in Gates : m \notin PlainStages
    BY DEF Gates, PlainStages
  <1> QED
    BY <1>1, <1>2, <1>3, <1>4, <1>5

LEMMA PlainStageCalls == ASSUME OInv, RunPlainStage \/ FailPlainStage PROVE OwingInv'
  <1>1. pc = "stage" /\ Stage \in PlainStages /\ owed' = owed /\ pc' # "stage"
    BY DEF RunPlainStage, FailPlainStage, Return, Fail, ghosts
  <1> QED
    BY <1>1, CalledStage, NothingOwed DEF StartsStored

LEMMA EnterLoopCalls == ASSUME OInv, NEW l \in Loops, EnterLoop(l) PROVE OwingInv'
  <1> DEFINE row == Entered(l, s)
             spent == PriorAttempts(l, s)
  <1>1. /\ pc = "stage" /\ Stage = l /\ owed' = owed
        /\ \/ Fail(row, "revision-exhausted")
           \/ Fail(s, "needs-input")
           \/ StartAttempt(l, spent + 1, row) /\ asks' = asks
    BY DEF EnterLoop, world, ghosts
  <1>2. s \in State /\ row \in State /\ spent + 1 \in Nat
    BY OwingTypes, EnteredType, PriorAttemptsType, BudgetAssumption
  <1>3. SameCall(row, s)
    BY <1>2, EnteredSet DEF SameCall, SameHalt, SameWish
  <1>4. /\ db = s /\ pre = s
        /\ owed # "none" => Stage = owed /\ Serving(s)
    BY <1>1, CalledStage
  <1>5. CASE Fail(row, "revision-exhausted")
    <2>1. owed # "none" => Serving(row)
      BY <1>3, <1>4, SameCallKnows
    <2>2. row.cp = db.cp
      BY <1>3, <1>4 DEF SameCall
    <2> HIDE DEF row
    <2> QED
      BY <1>1, <1>2, <1>5, <2>1, <2>2, FailCalls
  <1>6. CASE Fail(s, "needs-input")
    BY <1>1, <1>2, <1>4, <1>6, FailCalls
  <1>7. CASE StartAttempt(l, spent + 1, row) /\ asks' = asks
    <2> DEFINE q == RecordAttempt(l, spent + 1, row)
    <2>1. SamePlace(q, row) /\ SameHalt(q, row) /\ SameWish(q, row)
      BY <1>2, AttemptSet DEF RecordAttempt
    <2>2. SameCall(q, s)
      BY <1>3, <2>1 DEF SameCall, SamePlace, SameHalt, SameWish
    <2>3. s' = q /\ db' \in {q, db} /\ pc' = "produce" /\ UNCHANGED << pre, i, cmd >>
      BY <1>7 DEF StartAttempt
    <2> HIDE DEF q
    <2>4. Stage' = Stage
      BY <2>3 DEF Stage
    <2>5. owed # "none" => q.feedback /\ s.feedback /\ Serving(q)
      BY <1>4, <2>2, SameCallKnows DEF SameCall, Serving
    <2>6. owed # "none" => Serving(db)' /\ s'.feedback /\ pre'.feedback
      BY <1>1, <1>4, <2>3, <2>5 DEF Serving
    <2> QED
      BY <1>1, <1>4, <2>3, <2>4, <2>6 DEF OwingInv, Owing, StartsStored
  <1> QED
    BY <1>1, <1>5, <1>6, <1>7

LEMMA ProduceCalls == ASSUME OInv, NEW l \in Loops, Produce(l) PROVE OwingInv'
  <1>1. pc = "produce" /\ Stage = l /\ pc' = "review" /\ owed' = (IF owed = l THEN "none" ELSE owed)
    BY DEF Produce
  <1>2. owed # "none" => Stage = owed
    BY <1>1 DEF OInv, OwingInv, Owing
  <1> QED
    BY <1>1, <1>2, NothingOwed DEF StartsStored

LEMMA ReviewCalls == ASSUME OInv, NEW l \in Loops, Review(l) PROVE OwingInv'
  <1>1. pc = "review" /\ owed' = owed /\ pc' # "stage"
    BY DEF Review, Return, StartAttempt, Fail, ghosts
  <1>2. owed = "none"
    BY <1>1 DEF OInv, OwingInv, Owing
  <1> QED
    BY <1>1, <1>2, NothingOwed DEF StartsStored

LEMMA FailLoopCalls == ASSUME OInv, NEW l \in Loops, FailLoop(l) PROVE OwingInv'
  <1>1. /\ pc \in {"produce", "review"} /\ owed' = owed
        /\ Fail(s, "unknown") \/ Fail(pre, "unknown")
    BY DEF FailLoop, ghosts
  <1>2. CASE pc = "review"
    <2>1. owed = "none" /\ pc' = "down"
      BY <1>1, <1>2 DEF OInv, OwingInv, Owing, Fail
    <2> QED
      BY <1>1, <2>1, NothingOwed DEF StartsStored
  <1>3. CASE pc = "produce"
    <2>1. /\ s.stage = Stage /\ s.target = "none" /\ pre.stage = Stage /\ pre.target = "none"
      BY <1>1, AtStage DEF OInv
    <2>2. owed # "none" => Serving(s) /\ Serving(pre)
      BY <1>3, <2>1 DEF OInv, OwingInv, Owing, Serving
    <2>3. ASSUME NEW at \in State, Fail(at, "unknown"), owed # "none" => Serving(at)
          PROVE  OwingInv'
      <3> DEFINE q == [at EXCEPT !.err = "unknown", !.errAt = Stage]
      <3>1. db' = q /\ pc' = "down"
        BY <2>3 DEF Fail
      <3>2. SamePlace(q, at) /\ q.feedback = at.feedback
        BY <2>3 DEF State, SamePlace
      <3> HIDE DEF q
      <3>3. owed # "none" => Serving(db)'
        BY <1>1, <2>3, <3>1, <3>2 DEF Serving, SamePlace
      <3> QED
        BY <1>1, <3>1, <3>3 DEF OwingInv, Owing, StartsStored
    <2> QED
      BY <1>1, <2>2, <2>3, OwingTypes
  <1> QED
    BY <1>1, <1>2, <1>3

LEMMA GateRewindCalls == ASSUME OInv, GateRewind PROVE OwingInv'
  <1>1. pc = "stage" /\ Stage \in Gates /\ Commented(Stage) /\ asks' = asks
    BY DEF GateRewind
  <1>2. PICK k \in 1..Len(GateCommands(Stage)) :
          FirstMatch(Stage) = GateCommands(Stage)[k] /\ FirstMatch(Stage)[1] \in asks
    BY <1>1, FirstMatchType
  <1> DEFINE b == FirstMatch(Stage)[1] # "/rerun-plan"
             l == FirstMatch(Stage)[2]
             q == [s EXCEPT !.cp = "none", !.rerun = b, !.target = l, !.feedback = TRUE]
  <1>3. s' = q /\ sig' = "rewind" /\ pc' = "leave" /\ db' = db /\ owed' = l
    BY DEF GateRewind, Return
  <1> HIDE DEF b
  <1>4. q.target = l /\ q.feedback
    BY OwingTypes DEF State
  <1> HIDE DEF q
  <1>5. db = s /\ s.stage = Stage /\ s.target = "none" /\ s.cp # "none"
    BY <1>1, CalledStage DEF Commented
  <1>6. Scanned(db)'
    BY <1>1, <1>2, <1>3, <1>5 DEF Scanned
  <1> QED
    BY <1>3, <1>4, <1>6 DEF OwingInv, Owing, StartsStored

LEMMA GateCalls == ASSUME OInv, GatePass \/ GatePause PROVE OwingInv'
  <1>1. pc = "stage" /\ Stage \in Gates /\ ~ Commented(Stage) /\ owed' = owed /\ pc' = "leave"
    BY DEF GatePass, GatePause, Return, ghosts
  <1> QED
    BY <1>1, CalledStage, NothingOwed DEF StartsStored

LEMMA FailGateCalls == ASSUME OInv, FailGate PROVE OwingInv'
  <1>1. pc = "stage" /\ Stage \in Gates /\ owed' = owed /\ Fail(s, "unknown")
    BY DEF FailGate, ghosts
  <1> QED
    BY <1>1, OwingTypes, CalledStage, FailCalls

LEMMA SaveResultCalls == ASSUME OInv, SaveResult PROVE OwingInv'
  <1>1. /\ pc = "leave" /\ db' = s /\ pc' = "notify" /\ UNCHANGED << s, sig, owed >>
    BY DEF SaveResult, ghosts
  <1> QED
    BY <1>1 DEF OInv, OwingInv, Owing, StartsStored, Sent

\* A rewind goes to its target.
LEMMA RewindLands ==
  ASSUME TypeInv, pc = "notify", sig = "rewind", i' = StageIndex(StageList(cmd), s.target), cmd' = cmd
  PROVE  Stage' = s.target /\ s.target \in {"planning", "coding"}
  <1>1. s.target \in {"planning", "coding"}
    BY DEF TypeInv
  <1>2. /\ 2 \in 1..Len(StageList(cmd)) /\ 4 \in 1..Len(StageList(cmd))
        /\ StageList(cmd)[2] = "planning" /\ StageList(cmd)[4] = "coding"
    BY StageListType
  <1>3. StageList(cmd)[StageIndex(StageList(cmd), s.target)] = s.target
    BY <1>1, <1>2, StageIndexFinds
  <1> QED
    BY <1>1, <1>3 DEF Stage

LEMMA NotifyCalls == ASSUME OInv, Notify PROVE OwingInv'
  <1>1. pc = "notify" /\ pc' \in {"down", "enter"} /\ owed' = owed /\ asks' = asks
    BY DEF Notify, Stop, ghosts
  <1>2. CASE owed = "none"
    BY <1>1, <1>2, NothingOwed DEF StartsStored
  <1>3. CASE owed # "none"
    <2>1. sig = "rewind" /\ s.target = owed /\ s.feedback /\ Sent(db)
      BY <1>1, <1>3 DEF OInv, OwingInv, Owing
    <2>2. /\ s' = [s EXCEPT !.target = "none"] /\ i' = StageIndex(StageList(cmd), s.target)
          /\ pc' = "enter" /\ UNCHANGED << db, cmd >>
      BY <2>1 DEF Notify
    <2>3. s'.feedback
      BY <2>1, <2>2, OwingTypes DEF State
    <2>4. Stage' = owed
      BY <1>1, <2>1, <2>2, RewindLands DEF OInv, CInv
    <2>5. Sent(db)'
      BY <1>1, <2>1, <2>2 DEF Sent
    <2> QED
      BY <1>1, <2>2, <2>3, <2>4, <2>5 DEF OwingInv, Owing, StartsStored
  <1> QED
    BY <1>2, <1>3

LEMMA CrashCalls == ASSUME OInv, Crash PROVE OwingInv'
  <1>1. db' = db /\ pc # "down" /\ pc' = "down" /\ owed' = owed /\ asks' = asks
    BY DEF Crash, Stop, world, ghosts
  <1>2. owed # "none" => Sent(db) \/ Serving(db) \/ Scanned(db)
    BY <1>1, OwingTypes DEF OInv, OwingInv, Owing
  <1> QED
    BY <1>1, <1>2, OwingHalts DEF SameCall, SamePlace

\* A `pipeline continue` starts where the row says.
LEMMA LoadLands ==
  ASSUME NEW row \in State, Load(row, "continue")
  PROVE  Stage' = (IF row.target # "none" THEN row.target ELSE row.stage)
  <1> DEFINE wanted == IF row.target # "none" THEN row.target ELSE row.stage
  <1>1. /\ cmd' = "continue"
        /\ StageIndex(DefaultStages, wanted) > 0 => i' = StageIndex(DefaultStages, wanted)
    BY DEF Load, StageList
  <1>2. wanted \in Stages
    BY LoopStages DEF State
  <1> HIDE DEF wanted
  <1>3. Pos(wanted) \in 1..Len(DefaultStages) /\ DefaultStages[Pos(wanted)] = wanted
    BY <1>2, StageAt, DefaultTuple
  <1>4. /\ StageIndex(DefaultStages, wanted) \in 1..Len(DefaultStages)
        /\ DefaultStages[StageIndex(DefaultStages, wanted)] = wanted
    BY <1>3, StageIndexFinds
  <1>5. StageIndex(DefaultStages, wanted) > 0
    BY <1>4, DefaultTuple
  <1>6. Stage' = wanted
    BY <1>1, <1>4, <1>5 DEF Stage, StageList
  <1> QED
    BY <1>6 DEF wanted

LEMMA ContinueCalls ==
  ASSUME OInv, pc = "down", NEW row \in State, Continue(row), SameCall(row, db),
         UNCHANGED << asks, owed >>
  PROVE  OwingInv'
  <1> DEFINE q == [row EXCEPT !.target = "none"]
  <1>1. db' = row /\ s' = q /\ pc' = "enter" /\ Load(row, "continue")
    BY DEF Continue, Load
  <1>2. q.feedback = row.feedback /\ q.cp = row.cp
    BY DEF State
  <1> HIDE DEF q
  <1>3. Stage' = (IF row.target # "none" THEN row.target ELSE row.stage)
    BY <1>1, LoadLands
  <1>4. owed # "none" => Sent(row) \/ Serving(row) \/ Scanned(row)
    BY SameCallKnows DEF OInv, OwingInv, Owing
  <1>5. Sent(db)' = Sent(row) /\ Serving(db)' = Serving(row) /\ Scanned(db)' = Scanned(row)
    BY <1>1 DEF Sent, Serving, Scanned
  <1>6. owed # "none" =>
          \/ Stage' = owed /\ q.feedback /\ (Sent(row) \/ Serving(row))
          \/ Stage' = row.stage /\ q.cp = row.cp /\ Scanned(row)
    BY <1>2, <1>3, <1>4 DEF Sent, Serving, Scanned
  <1> QED
    BY <1>1, <1>5, <1>6 DEF OwingInv, Owing, StartsStored

LEMMA RerunCalls ==
  ASSUME OInv, NEW c \in {"/rerun-plan", "/fix"}, Rerun(c)
  PROVE  OwingInv'
  <1> DEFINE row == ApplyRerun(c, db)
             t == RerunTarget(c, db)
  <1>1. db' = row /\ Load(row, "continue") /\ owed' = t
    BY DEF Rerun, Continue
  <1>2. row \in State /\ row.target = t /\ row.feedback /\ t \in Loops
    BY OwingTypes, ApplyRerunType, ApplyRerunSet, FixTargetType DEF RerunTarget, Loops
  <1> HIDE DEF row, t
  <1>3. t # "none"
    BY <1>2 DEF Loops
  <1>4. Stage' = t
    BY <1>1, <1>2, <1>3, LoadLands
  <1>5. pc' = "enter" /\ s'.feedback
    <2>1. s' = [row EXCEPT !.target = "none"]
      BY <1>1 DEF Load
    <2> QED
      BY <1>1, <1>2, <2>1 DEF State, Load
  <1>6. Sent(db)'
    BY <1>1, <1>2 DEF Sent
  <1> QED
    BY <1>1, <1>4, <1>5, <1>6 DEF OwingInv, Owing, StartsStored

LEMMA SameRow == ASSUME NEW r PROVE SameCall(r, r)
  BY DEF SameCall, SamePlace

LEMMA ClearedCall == ASSUME NEW r \in State PROVE SameCall(ClearError(r), r)
  BY ClearErrorSet DEF SameCall, SameWish

\* Nothing happens to the row, and comments only come.
LEMMA CallsStay ==
  ASSUME OInv, UNCHANGED << db, s, pre, pc, i, cmd, sig, owed >>, asks \subseteq asks'
  PROVE  OwingInv'
  <1>1. Stage' = Stage
    BY DEF Stage
  <1>2. /\ Sent(db)' = Sent(db) /\ Serving(db)' = Serving(db)
        /\ Scanned(db) => Scanned(db)'
    BY DEF Sent, Serving, Scanned
  <1> QED
    BY <1>1, <1>2 DEF OInv, OwingInv, Owing, StartsStored

LEMMA WatcherCalls == ASSUME OInv, Watcher PROVE OwingInv'
  <1>1. /\ db \in State /\ ClearError(db) \in State
        /\ SameCall(db, db) /\ SameCall(ClearError(db), db)
    BY OwingTypes, ClearErrorType, SameRow, ClearedCall
  <1>2. CASE HandleOutcome
    <2>1. /\ db' = OutcomeRow /\ pc' = pc /\ owed' = owed /\ asks' = asks /\ exit # "none"
      BY <1>2 DEF HandleOutcome, ghosts
    <2>2. pc = "down"
      BY <2>1 DEF OInv, CInv, TypeInv
    <2>3. SameCall(OutcomeRow, db)
      BY <1>1 DEF OutcomeRow, State, SameCall, SamePlace
    <2>4. owed # "none" => Sent(db) \/ Serving(db) \/ Scanned(db)
      BY <2>2 DEF OInv, OwingInv, Owing
    <2> QED
      BY <2>1, <2>2, <2>3, <2>4, OwingHalts
  <1>3. CASE LoseOutcome
    BY <1>3, CallsStay DEF LoseOutcome, world, ghosts
  <1>4. CASE ContinueTag
    <2> DEFINE row == IF db.err # "none" THEN ClearError(db) ELSE db
    <2>1. Continue(row) /\ UNCHANGED << asks, owed >> /\ pc = "down"
      BY <1>4 DEF ContinueTag, Rewindowed, Stopped
    <2>2. row \in State /\ SameCall(row, db)
      BY <1>1
    <2> HIDE DEF row
    <2> QED
      BY <2>1, <2>2, ContinueCalls
  <1>5. CASE ContinueApproved
    <2> DEFINE row == IF PlanTagRetry THEN ClearError(db) ELSE db
    <2>1. Continue(row) /\ UNCHANGED << asks, owed >> /\ pc = "down"
      BY <1>5 DEF ContinueApproved, Rewindowed, Stopped, ghosts
    <2>2. row \in State /\ SameCall(row, db)
      BY <1>1
    <2> HIDE DEF row
    <2> QED
      BY <2>1, <2>2, ContinueCalls
  <1>6. CASE ContinueMerged \/ ResumeOrphan \/ CliContinue
    <2>1. Continue(db) /\ UNCHANGED << asks, owed >> /\ pc = "down"
      BY <1>6 DEF ContinueMerged, ResumeOrphan, CliContinue, Stopped, ghosts
    <2> QED
      BY <1>1, <2>1, ContinueCalls
  <1>7. CASE StartFresh
    BY <1>7, NothingOwed DEF StartFresh, Load, StartsStored
  <1>8. ASSUME NEW c \in {"/rerun-plan", "/fix"}, ScanRerun(c) \/ DashboardRerun(c) PROVE OwingInv'
    BY <1>8, RerunCalls DEF ScanRerun, DashboardRerun
  <1> QED
    BY <1>2, <1>3, <1>4, <1>5, <1>6, <1>7, <1>8 DEF Watcher

LEMMA HumanCalls == ASSUME OInv, Human PROVE OwingInv'
  <1>1. UNCHANGED << db, s, pre, pc, i, cmd, sig, owed >> /\ asks \subseteq asks'
    BY DEF Human, ApprovePlan, RemoveNeedInput, PullRequest, FreeBranch, Ask, container, ghosts
  <1> QED
    BY <1>1, CallsStay

LEMMA OwingStarts == Init => OInv
  BY InitCourse, NothingOwed DEF Init, OInv, OwingInv, Owing, StartsStored

LEMMA OwingStep == OInv /\ [Next]_vars => OInv'
  <1>1. ASSUME OInv, Next PROVE OwingInv'
    <2>1. CASE PushBranch
      BY <1>1, <2>1, CallsStay DEF PushBranch, container, ghosts
    <2>2. CASE Container
      BY <2>1, <2>2, EnterStageCalls, PlainStageCalls, EnterLoopCalls, ProduceCalls, ReviewCalls,
         FailLoopCalls, GateRewindCalls, GateCalls, FailGateCalls, SaveResultCalls, NotifyCalls,
         <1>1 DEF Container
    <2> QED
      BY <1>1, <2>2, CrashCalls, WatcherCalls, HumanCalls DEF Next
  <1>2. ASSUME OInv, UNCHANGED vars PROVE OwingInv'
    BY <1>2, CallsStay DEF vars, container, world, ghosts
  <1> QED
    BY <1>1, <1>2, CourseStep DEF OInv

LEMMA OwingHolds == Spec => []OInv
  BY OwingStarts, OwingStep, PTL DEF Spec

\* A command a run or the watcher has accepted is answered whatever dies in between
\* (checkpoint.ts:241, applyRerun): until its loop has produced again, the row resumes at that
\* loop with the feedback, or holds the gate and the comment its scan finds again.
THEOREM CommandsSurvive == Spec => []FeedbackDurable
  <1>1. ASSUME OInv, owed # "none" PROVE Sent(db) \/ Serving(db) \/ Scanned(db)
    BY <1>1, OwingTypes DEF OInv, OwingInv, Owing
  <1>2. ASSUME OInv PROVE FeedbackDurable
    <2> SUFFICES ASSUME owed # "none" PROVE FeedbackDurable
      BY DEF FeedbackDurable
    <2>1. owed \in Loops /\ Pos(owed) \in {2, 4, 5}
      BY <1>2, OwingTypes, LoopStages
    <2>2. CASE Sent(db)
      BY <2>2 DEF FeedbackDurable, Sent
    <2>3. CASE Serving(db)
      BY <2>1, <2>3 DEF FeedbackDurable, Serving
    <2>4. CASE Scanned(db)
      <3>1. PICK k \in 1..Len(GateCommands(db.stage)) :
              GateCommands(db.stage)[k][1] \in asks /\ GateCommands(db.stage)[k][2] = owed
        BY <2>4 DEF Scanned
      <3>2. GateCommands(db.stage)[k][1] = (IF owed = "planning" THEN "/rerun-plan" ELSE "/fix")
        BY <3>1 DEF GateCommands
      <3> QED
        BY <2>4, <3>1, <3>2 DEF FeedbackDurable, Scanned
    <2> QED
      BY <1>1, <1>2, <2>2, <2>3, <2>4
  <1> QED
    BY OwingHolds, <1>2, PTL
---------------------------------------------------------------------------
(* Escalations.  A row that is resumed in the coding loop counts no more    *)
(* rounds than have run since the budget was granted.                       *)

\* What `row` counts of the coding loop, the charge c stands for.
InBounds(row, c) ==
  /\ row.stage = "coding" => row.stall["coding"] <= c["coding"]
  /\ row.stage = "checkpoint:plan-approved" => row.stall["coding"] = 0

\* A rewind goes through planning, which counts afresh, and a retry of an exhausted loop
\* is a human's.
KeepsUp(row, c) == row.target = "none" /\ row.err # "revision-exhausted" => InBounds(row, c)

\* Nobody refills a budget, and no `/fix` goes around planning.
NoRefill == ~ db.skip /\ ~ s.skip /\ db.target # "coding" /\ s.target # "coding"

\* What the store holds while a stage runs, and until its result is saved.
StoreInStep ==
  /\ pc \in {"stage", "produce", "review", "notify"} => db = s
  /\ pc \in {"leave", "notify"} => db.stage = Stage

\* What a container that is started, or dies, finds.
ResumesInBounds ==
  /\ pc = "down" => KeepsUp(db, charge)
  /\ pc = "enter" /\ (db.stage = "coding" => Stage = "coding") => KeepsUp(db, charge)
  /\ pc \in {"leave", "notify"} => KeepsUp(db, charge) \/ (db.stage = "coding" /\ sig = "none")

\* Each round of a loop is charged before it is counted.
RoundsCharged ==
  /\ pc \in {"enter", "stage"} =>
       /\ Stage = "coding" => s.stall["coding"] <= charge["coding"]
       /\ Stage = "checkpoint:plan-approved" => s.stall["coding"] = 0
  /\ pc \in {"produce", "review"} =>
       /\ Stage \in Loops
       /\ Stage = "coding" => s.stall["coding"] < charge["coding"]
       /\ Stage = "planning" =>
            s.stall["planning"] < charge["planning"] /\ s.stall["coding"] = 0
  /\ pc \in {"leave", "notify"} /\ sig # "rewind" =>
       (Stage \in {"planning", "checkpoint:plan-approved"} => s.stall["coding"] = 0)

EarnedInv == NoRefill /\ StoreInStep /\ ResumesInBounds /\ RoundsCharged /\ EscalationEarned

EInv == BInv /\ EarnedInv

\* The container dies after the coder's work was approved, which hands its budget back, or the
\* item was started afresh, and before a row that is past those rounds is saved.
GrantLost ==
  /\ pc # "down" /\ pc' = "down" /\ db' = db
  /\ db.stage = "coding" /\ db.target = "none"
  /\ \/ pc \in {"leave", "notify"} /\ sig = "none"
     \/ pc = "enter" /\ Stage # "coding"

\* A container starts on an exhausted loop that a human has granted a new budget.
HumanRetry == pc = "down" /\ pc' = "enter" /\ s'.skip

\* No run works on counts of rounds from before its budget was granted.
NoStaleCounts == [][~ GrantLost /\ ~ HumanRetry]_vars
---------------------------------------------------------------------------
\* q waits where r does and counts the rounds r counts.
SameRounds(q, r) ==
  q.stage = r.stage /\ q.target = r.target /\ q.skip = r.skip /\ q.stall = r.stall

LEMMA RoundsError ==
  ASSUME NEW r \in State, NEW e, NEW w
  PROVE  SameRounds([r EXCEPT !.err = e, !.errAt = w], r)
  BY DEF State, SameRounds

LEMMA RoundsCheckpoint ==
  ASSUME NEW r \in State, NEW c PROVE SameRounds([r EXCEPT !.cp = c], r)
  BY DEF State, SameRounds

LEMMA RoundsDone ==
  ASSUME NEW r \in State
  PROVE  SameRounds([r EXCEPT !.done = TRUE], r)
  BY DEF State, SameRounds

LEMMA RoundsPlain ==
  ASSUME NEW r \in State, NEW stage PROVE SameRounds(PlainOutputs(stage, r), r)
  BY DEF State, SameRounds, PlainOutputs

LEMMA RoundsStage ==
  ASSUME NEW r \in State, NEW w
  PROVE  LET q == [r EXCEPT !.stage = w]
         IN  /\ q.stage = w /\ q.target = r.target /\ q.skip = r.skip
             /\ q.stall = r.stall /\ q.err = r.err
  BY DEF State

LEMMA RoundsTarget ==
  ASSUME NEW r \in State
  PROVE  LET q == [r EXCEPT !.target = "none"]
         IN  /\ q.stage = r.stage /\ q.target = "none" /\ q.skip = r.skip
             /\ q.stall = r.stall /\ q.err = r.err
  BY DEF State

LEMMA RoundsRewind ==
  ASSUME NEW r \in State, NEW b, NEW l
  PROVE  LET q == [r EXCEPT !.cp = "none", !.rerun = b, !.target = l, !.feedback = TRUE]
         IN  q.stage = r.stage /\ q.target = l /\ q.skip = r.skip
  BY DEF State

LEMMA RoundsAttempt ==
  ASSUME NEW r \in State, NEW l, NEW n
  PROVE  SameRounds(RecordAttempt(l, n, r), r) /\ SameRounds(Approved(l, r), r)
  BY DEF State, SameRounds, RecordAttempt, Approved

LEMMA RoundsProduced ==
  ASSUME NEW r \in State, NEW l \in Loops, NEW p, NEW built, NEW tests
  PROVE  SameRounds(Produced(l, p, built, tests, r), r)
  BY DEF State, SameRounds, Produced

LEMMA RoundsReviewed ==
  ASSUME NEW r \in State, NEW l, NEW v PROVE SameRounds(Reviewed(l, v, r), r)
  BY DEF State, SameRounds, Reviewed

LEMMA RoundsEscalated ==
  ASSUME NEW r \in State, NEW l PROVE SameRounds(Escalated(l, r), r)
  BY DEF State, SameRounds, Escalated

LEMMA RoundsCleared ==
  ASSUME NEW r \in State
  PROVE  LET q == ClearError(r)
         IN  /\ q.stage = r.stage /\ q.target = r.target /\ q.stall = r.stall
             /\ q.err = "none" /\ (q.skip => r.skip \/ r.err = "revision-exhausted")
  BY DEF State, ClearError

LEMMA RoundsRerun ==
  ASSUME NEW r \in State
  PROVE  LET q == ApplyRerun("/rerun-plan", r)
         IN  q.target = "planning" /\ q.skip = r.skip /\ q.err = "none"
  BY DEF State, ApplyRerun, RerunTarget

\* A review counts one round, or starts the count again.
LEMMA RoundsCounted ==
  ASSUME NEW r \in State, NEW l \in Loops, NEW fell
  PROVE  LET q == Counted(l, fell, r)
         IN  /\ q.stage = r.stage /\ q.target = r.target /\ q.skip = r.skip
             /\ q.stall[l] <= r.stall[l] + 1
             /\ \A m \in Loops \ {l} : q.stall[m] = r.stall[m]
  <1> DEFINE run == IF fell \/ r.stall[l] = 0 THEN 1
                    ELSE IF r.stall[l] < Window THEN r.stall[l] + 1 ELSE Window
             q == [r EXCEPT !.stall = [@ EXCEPT ![l] = run]]
  <1>1. r.stall \in [Loops -> 0..Window]
    BY DEF State
  <1>2. run <= r.stall[l] + 1
    BY <1>1, WindowAssumption
  <1> HIDE DEF run
  <1>3. /\ q.stage = r.stage /\ q.target = r.target /\ q.skip = r.skip
        /\ q.stall = [r.stall EXCEPT ![l] = run]
    BY DEF State
  <1>4. Counted(l, fell, r) = q
    BY DEF Counted, run
  <1> HIDE DEF q
  <1> QED
    BY <1>1, <1>2, <1>3, <1>4

\* Planning starts every count again; another loop at most its own.
LEMMA RoundsEntered ==
  ASSUME NEW r \in State, NEW l \in Loops, ~ r.rerun, ~ r.skip
  PROVE  LET q == Entered(l, r)
         IN  \A m \in Loops : \/ q.stall[m] = 0
                              \/ l # "planning" /\ q.stall[m] = r.stall[m]
  <1> DEFINE fresh == ResetState(l, r)
             unskip == [fresh EXCEPT !.skip = FALSE]
             left == [unskip EXCEPT !.esc = "none", !.stall = [@ EXCEPT ![l] = 0]]
  <1>1. Entered(l, r) = IF unskip.esc = l THEN left ELSE unskip
    BY DEF Entered
  <1>2. /\ fresh \in State
        /\ fresh.stall = IF l = "planning" THEN [m \in Loops |-> 0] ELSE r.stall
    <2>1. CASE l = "planning"
      <3>1. fresh = PlanningReset(r)
        BY <2>1 DEF ResetState
      <3>2. PlanningReset(r).stall = [m \in Loops |-> 0]
        BY DEF PlanningReset, State
      <3> HIDE DEF fresh
      <3> QED
        BY <2>1, <3>1, <3>2, PlanningResetType
    <2>2. CASE l = "coding"
      <3> DEFINE q == [r EXCEPT !.review = "none"]
      <3>1. fresh = q
        BY <2>2 DEF ResetState
      <3>2. "none" \in {"none", "approve", "revise"}
        OBVIOUS
      <3>3. q \in State
        BY <3>2, SetReview
      <3>4. q.stall = r.stall
        BY DEF State
      <3> HIDE DEF fresh, q
      <3> QED
        BY <2>2, <3>1, <3>3, <3>4
    <2>3. CASE l = "test-cases"
      BY <2>3 DEF ResetState
    <2> QED
      BY <2>1, <2>2, <2>3 DEF Loops
  <1> HIDE DEF fresh
  <1>3. unskip \in State /\ unskip.stall = fresh.stall
    BY <1>2, SetSkip DEF State
  <1> HIDE DEF unskip
  <1>4. left.stall = [unskip.stall EXCEPT ![l] = 0] /\ unskip.stall \in [Loops -> 0..Window]
    BY <1>3 DEF State
  <1> HIDE DEF left
  <1> QED
    BY <1>1, <1>2, <1>3, <1>4
---------------------------------------------------------------------------
(* The ways a step ends *)

LEMMA EarnedTypes ==
  ASSUME EInv
  PROVE  /\ BInv /\ TypeInv
         /\ db \in State /\ s \in State /\ Stage \in Stages
         /\ charge \in [Loops -> 0..MaxAttempts + 1]
         /\ i \in 1..Len(StageList(cmd)) /\ cmd \in {"run", "continue"}
         /\ ~ db.skip /\ ~ s.skip /\ ~ db.rerun /\ ~ s.rerun
         /\ db.target # "coding" /\ s.target # "coding"
         /\ Faults \cap {"plain", "report", "watcher"} = {}
         /\ Inputs \cap {"/fix", "cli"} = {} /\ asks \subseteq Inputs /\ heard \subseteq asks
         /\ (pc \notin {"leave", "notify"} => sig = "none")
         /\ (pc \notin {"down", "enter"} => s.stage = Stage)
         /\ (pc # "down" /\ sig # "rewind" => s.target = "none")
  BY BInvTypes
  DEF EInv, EarnedInv, NoRefill, BInv, TypeInv, TypeOK, OnlyHumansGrant, RowInStep

LEMMA DownEarned ==
  ASSUME pc' = "down", sig' = "none", s' = db', ~ db'.skip, db'.target # "coding",
         KeepsUp(db', charge')
  PROVE  EarnedInv'
  BY DEF EarnedInv, NoRefill, StoreInStep, ResumesInBounds, RoundsCharged, EscalationEarned,
         KeepsUp, InBounds

LEMMA FailEarned ==
  ASSUME NEW at \in State, NEW type, Fail(at, type), ~ at.skip, at.target # "coding",
         type # "revision-exhausted" => InBounds(at, charge')
  PROVE  EarnedInv'
  <1>1. /\ db' = [at EXCEPT !.err = type, !.errAt = Stage]
        /\ s' = db' /\ pc' = "down" /\ sig' = "none"
    BY DEF Fail
  <1>2. SameRounds(db', at)
    BY <1>1, RoundsError
  <1>3. db'.err = type
    BY <1>1, ErrorRecorded
  <1>4. KeepsUp(db', charge')
    BY <1>2, <1>3 DEF KeepsUp, InBounds, SameRounds
  <1> QED
    BY <1>1, <1>2, <1>4, DownEarned DEF SameRounds

LEMMA StopEarned ==
  ASSUME NEW row, NEW how, Stop(row, how), ~ row.skip, row.target # "coding",
         KeepsUp(row, charge')
  PROVE  EarnedInv'
  BY DownEarned DEF Stop

\* A stage that returns has worked on the row the store holds.
LEMMA ReturnEarned ==
  ASSUME EInv, pc \in {"stage", "produce", "review"},
         NEW result, NEW signal, Return(result, signal),
         result.stage = s.stage, ~ result.skip, result.target # "coding",
         KeepsUp(db, charge') \/ (db.stage = "coding" /\ signal = "none"),
         Stage \in {"planning", "checkpoint:plan-approved"} /\ signal # "rewind" =>
           result.stall["coding"] = 0,
         signal = "pause" /\ Stage \in Loops => charge'[Stage] >= Window
  PROVE  EarnedInv'
  <1>1. /\ s' = result /\ sig' = signal /\ pc' = "leave" /\ UNCHANGED << db, i, cmd, exit >>
    BY DEF Return
  <1>2. Stage' = Stage
    BY <1>1 DEF Stage
  <1>3. db.stage = Stage
    BY EarnedTypes DEF EInv, EarnedInv, StoreInStep
  <1>4. ResumesInBounds'
    BY <1>1 DEF ResumesInBounds, KeepsUp, InBounds
  <1>5. NoRefill' /\ StoreInStep'
    BY <1>1, <1>2, <1>3, EarnedTypes DEF NoRefill, StoreInStep
  <1>6. RoundsCharged' /\ EscalationEarned'
    BY <1>1, <1>2 DEF RoundsCharged, EscalationEarned
  <1> QED
    BY <1>4, <1>5, <1>6 DEF EarnedInv

\* A round that starts is charged before it is counted.
LEMMA StartEarned ==
  ASSUME EInv, pc \in {"stage", "review"}, NEW l \in Loops, Stage = l,
         NEW row \in State, NEW n, StartAttempt(l, n, row), ~ row.skip, row.target # "coding",
         l \in {"planning", "coding"} => row.stall[l] < charge'[l],
         l = "planning" => row.stall["coding"] = 0
  PROVE  EarnedInv'
  <1>1. /\ s' = RecordAttempt(l, n, row) /\ db' = s' /\ pc' = "produce"
        /\ UNCHANGED << i, cmd, sig, exit >>
    BY EarnedTypes DEF StartAttempt
  <1>2. SameRounds(s', row)
    BY <1>1, RoundsAttempt
  <1>3. Stage' = Stage /\ sig' = "none"
    BY <1>1, EarnedTypes DEF Stage
  <1>4. NoRefill' /\ StoreInStep' /\ ResumesInBounds' /\ EscalationEarned'
    BY <1>1, <1>2, <1>3
    DEF NoRefill, StoreInStep, ResumesInBounds, EscalationEarned, SameRounds
  <1>5. RoundsCharged'
    BY <1>1, <1>2, <1>3 DEF RoundsCharged, SameRounds
  <1> QED
    BY <1>4, <1>5 DEF EarnedInv

\* A container that starts where its row says.
LEMMA ContinueEarned ==
  ASSUME EInv, NEW row \in State, Continue(row), ~ row.skip, row.target # "coding",
         row.err # "revision-exhausted", KeepsUp(row, charge')
  PROVE  EarnedInv'
  <1> DEFINE q == [row EXCEPT !.target = "none"]
  <1>1. /\ db' = row /\ s' = q /\ pc' = "enter" /\ sig' = "none" /\ Load(row, "continue")
    BY DEF Continue, Load
  <1>2. /\ q.stage = row.stage /\ q.target = "none" /\ q.skip = row.skip
        /\ q.stall = row.stall /\ q.err = row.err
    BY RoundsTarget
  <1> HIDE DEF q
  <1>3. Stage' = (IF row.target # "none" THEN row.target ELSE row.stage)
    BY <1>1, LoadLands
  <1>4. row.target \in Loops \cup {"none"}
    BY DEF State
  <1>5. NoRefill' /\ StoreInStep' /\ EscalationEarned'
    BY <1>1, <1>2 DEF NoRefill, StoreInStep, EscalationEarned
  <1>6. ResumesInBounds'
    BY <1>1 DEF ResumesInBounds, KeepsUp, InBounds
  <1>7. RoundsCharged'
    BY <1>1, <1>2, <1>3, <1>4 DEF RoundsCharged, KeepsUp, InBounds, Loops
  <1> QED
    BY <1>5, <1>6, <1>7 DEF EarnedInv

\* Nothing changes but tags, comments and the world, or a human's grant of an exhausted loop.
LEMMA QuietEarned ==
  ASSUME EInv, UNCHANGED container,
         charge' = charge \/ (pc = "down" /\ db.err = "revision-exhausted")
  PROVE  EarnedInv'
  <1>1. UNCHANGED << db, s, pc, i, cmd, sig >> /\ Stage' = Stage
    BY DEF container, Stage
  <1>2. NoRefill' /\ StoreInStep'
    BY <1>1 DEF EInv, EarnedInv, NoRefill, StoreInStep
  <1>3. ResumesInBounds'
    BY <1>1 DEF EInv, EarnedInv, ResumesInBounds, KeepsUp, InBounds
  <1>4. RoundsCharged'
    BY <1>1 DEF EInv, EarnedInv, RoundsCharged
  <1>5. EscalationEarned'
    BY <1>1, EarnedTypes DEF EInv, EarnedInv, EscalationEarned
  <1> QED
    BY <1>2, <1>3, <1>4, <1>5 DEF EarnedInv
---------------------------------------------------------------------------
(* The steps of the container *)

LEMMA RunningEarned ==
  ASSUME EInv, pc \in {"stage", "produce", "review"}
  PROVE  db = s /\ s.stage = Stage /\ s.target = "none" /\ InBounds(s, charge)
  <1>1. db = s /\ s.stage = Stage /\ s.target = "none"
    BY EarnedTypes DEF EInv, EarnedInv, StoreInStep
  <1>2. s.stall \in [Loops -> 0..Window]
    BY EarnedTypes DEF State
  <1>3. s.stall["coding"] \in Int /\ charge["coding"] \in Int
    BY <1>2, EarnedTypes, WindowAssumption, BudgetAssumption DEF Loops
  <1>4. InBounds(s, charge)
    BY <1>1, <1>3 DEF EInv, EarnedInv, RoundsCharged, InBounds, Loops
  <1> QED
    BY <1>1, <1>4

LEMMA EnterStageEarned == ASSUME EInv, EnterStage PROVE EarnedInv'
  <1> DEFINE row == [s EXCEPT !.stage = Stage]
  <1>1. /\ row.stage = Stage /\ row.target = s.target /\ row.skip = s.skip
        /\ row.stall = s.stall
    BY EarnedTypes, RoundsStage
  <1>2. /\ pc = "enter" /\ charge' = charge
        /\ \/ /\ db' = row /\ s' = row /\ pc' = "stage" /\ UNCHANGED << i, cmd, sig >>
           \/ Stop(row, "failed")
    BY DEF EnterStage, ghosts
  <1> HIDE DEF row
  <1>3. InBounds(row, charge) /\ sig = "none"
    BY <1>1, <1>2, EarnedTypes DEF EInv, EarnedInv, RoundsCharged, InBounds
  <1>4. CASE Stop(row, "failed")
    BY <1>1, <1>2, <1>3, <1>4, EarnedTypes, StopEarned DEF KeepsUp
  <1>5. CASE db' = row /\ s' = row /\ pc' = "stage" /\ UNCHANGED << i, cmd, sig >>
    <2>1. Stage' = Stage
      BY <1>5 DEF Stage
    <2>2. NoRefill' /\ StoreInStep' /\ ResumesInBounds' /\ EscalationEarned'
      BY <1>1, <1>3, <1>5, EarnedTypes
      DEF NoRefill, StoreInStep, ResumesInBounds, EscalationEarned
    <2>3. RoundsCharged'
      BY <1>1, <1>2, <1>3, <1>5, <2>1 DEF RoundsCharged, InBounds
    <2> QED
      BY <2>2, <2>3 DEF EarnedInv
  <1> QED
    BY <1>2, <1>4, <1>5

LEMMA PlainStageEarned == ASSUME EInv, RunPlainStage \/ FailPlainStage PROVE EarnedInv'
  <1>1. pc = "stage" /\ Stage \in PlainStages /\ charge' = charge
    BY DEF RunPlainStage, FailPlainStage, ghosts
  <1>2. Stage \notin {"planning", "checkpoint:plan-approved", "coding"} /\ Stage \notin Loops
    BY <1>1 DEF PlainStages, Loops
  <1>3. CASE RunPlainStage
    <2>1. Return(PlainOutputs(Stage, s), "none")
      BY <1>3 DEF RunPlainStage
    <2>2. SameRounds(PlainOutputs(Stage, s), s)
      BY EarnedTypes, RoundsPlain
    <2>3. KeepsUp(db, charge')
      BY <1>1, <1>2, RunningEarned DEF KeepsUp, InBounds
    <2> QED
      BY <1>1, <1>2, <2>1, <2>2, <2>3, EarnedTypes, ReturnEarned DEF SameRounds
  <1>4. CASE FailPlainStage
    BY <1>1, <1>4, RunningEarned, EarnedTypes, FailEarned DEF FailPlainStage
  <1> QED
    BY <1>3, <1>4

\* What is charged before the attempt that goes on top of it.
LEMMA ChargeGrows ==
  ASSUME NEW c \in [Loops -> 0..MaxAttempts + 1], NEW l \in Loops, c[l] < MaxAttempts
  PROVE  Charge(l, c)[l] = c[l] + 1
  BY BudgetAssumption DEF Charge

LEMMA EnterLoopEarned == ASSUME EInv, NEW l \in Loops, EnterLoop(l) PROVE EarnedInv'
  <1> DEFINE row == Entered(l, s)
             spent == PriorAttempts(l, s)
             kept == IF l = "planning" THEN [charge EXCEPT !["coding"] = 0, !["test-cases"] = 0]
                     ELSE charge
  <1>1. pc = "stage" /\ Stage = l /\ ~ s.rerun /\ ~ s.skip
    BY EarnedTypes DEF EnterLoop
  <1>2. \/ Fail(row, "revision-exhausted")
        \/ Fail(s, "needs-input") /\ charge' = charge
        \/ spent < MaxAttempts /\ StartAttempt(l, spent + 1, row) /\ charge' = Charge(l, kept)
    BY <1>1 DEF EnterLoop, BudgetLeft, ghosts
  <1>3. row \in State /\ ~ row.skip /\ row.target = s.target /\ spent = row.attempts[l]
    BY <1>1, EarnedTypes, EnteredType, EnteredFields
    DEF Agree, PriorAttempts, GrantsFreshBudget
  <1>4. \A m \in Loops : row.stall[m] = 0 \/ (l # "planning" /\ row.stall[m] = s.stall[m])
    BY <1>1, EarnedTypes, RoundsEntered
  <1>5. CASE Fail(row, "revision-exhausted")
    <2> HIDE DEF row
    <2> QED
      BY <1>3, <1>5, EarnedTypes, FailEarned
  <1>6. CASE Fail(s, "needs-input") /\ charge' = charge
    BY <1>1, <1>6, EarnedTypes, RunningEarned, FailEarned
  <1>7. CASE spent < MaxAttempts /\ StartAttempt(l, spent + 1, row) /\ charge' = Charge(l, kept)
    <2>1. /\ kept \in [Loops -> 0..MaxAttempts + 1] /\ kept[l] = charge[l]
          /\ charge[l] \in 0..MaxAttempts + 1
      BY EarnedTypes, BudgetAssumption DEF Loops
    <2>2. charge[l] <= spent
      <3>1. charge[l] <= s.attempts[l]
        BY EarnedTypes DEF BInv, ChargeOnRecord
      <3>2. row.attempts[l] = s.attempts[l]
        <4>1. s.attempts \in [Loops -> 0..MaxAttempts]
          BY EarnedTypes DEF State
        <4>2. row.attempts = IF l = "planning" /\ ~ (s.rerun \/ s.skip)
                             THEN [s.attempts EXCEPT !["coding"] = 0, !["test-cases"] = 0]
                             ELSE s.attempts
          BY EarnedTypes, EnteredFields
        <4> HIDE DEF row
        <4> QED
          BY <4>1, <4>2 DEF Loops
      <3> HIDE DEF row, spent
      <3> QED
        BY <1>3, <3>1, <3>2
    <2>3. spent \in 0..MaxAttempts
      BY EarnedTypes, PriorAttemptsType
    <2> HIDE DEF row, spent, kept
    <2>4. charge'[l] = charge[l] + 1
      BY <1>7, <2>1, <2>2, <2>3, ChargeGrows, BudgetAssumption
    <2>5. l = "coding" => s.stall["coding"] <= charge["coding"]
      BY <1>1 DEF EInv, EarnedInv, RoundsCharged
    <2>6. s.stall[l] \in Int
      <3>1. s.stall \in [Loops -> 0..Window]
        BY EarnedTypes DEF State
      <3> QED
        BY <3>1, WindowAssumption
    <2>7. l \in {"planning", "coding"} => row.stall[l] < charge'[l]
      BY <1>4, <2>1, <2>4, <2>5, <2>6, BudgetAssumption
    <2>8. l = "planning" => row.stall["coding"] = 0
      BY <1>4 DEF Loops
    <2> QED
      BY <1>1, <1>3, <1>7, <2>7, <2>8, EarnedTypes, StartEarned
  <1> QED
    BY <1>2, <1>5, <1>6, <1>7

LEMMA ProduceEarned == ASSUME EInv, NEW l \in Loops, Produce(l) PROVE EarnedInv'
  <1>1. /\ pc = "produce" /\ pc' = "review" /\ db' = s'
        /\ UNCHANGED << i, cmd, sig, charge >>
    BY EarnedTypes DEF Produce
  <1>2. \E p, built, tests : s' = Produced(l, p, built, tests, s)
    BY DEF Produce
  <1>3. SameRounds(s', s)
    BY <1>2, EarnedTypes, RoundsProduced
  <1>4. Stage' = Stage /\ sig = "none"
    BY <1>1, EarnedTypes DEF Stage
  <1>5. NoRefill' /\ StoreInStep' /\ ResumesInBounds' /\ EscalationEarned'
    BY <1>1, <1>3, <1>4, EarnedTypes
    DEF NoRefill, StoreInStep, ResumesInBounds, EscalationEarned, SameRounds
  <1>6. RoundsCharged'
    BY <1>1, <1>3, <1>4 DEF EInv, EarnedInv, RoundsCharged, SameRounds
  <1> QED
    BY <1>5, <1>6 DEF EarnedInv

LEMMA ReviewEarned == ASSUME EInv, NEW l \in Loops, Review(l) PROVE EarnedInv'
  <1> DEFINE row(v) == Reviewed(l, v, s)
             next(v, fell) == IF Converges(l, cmd) THEN Counted(l, fell, row(v)) ELSE row(v)
  <1>1. PICK v \in {"approve", "revise"}, fell \in BOOLEAN :
          \/ Return(Approved(l, row(v)), "none")
          \/ /\ Converges(l, cmd) /\ Plateaued(l, next(v, fell))
             /\ Return(Escalated(l, next(v, fell)), "pause") /\ UNCHANGED ghosts
          \/ /\ BudgetLeft(next(v, fell).attempts[l])
             /\ StartAttempt(l, next(v, fell).attempts[l] + 1, next(v, fell))
             /\ charge' = Charge(l, charge)
          \/ Fail(next(v, fell), "revision-exhausted")
    BY Zenon DEF Review
  <1> DEFINE r == row(v)
             n == next(v, fell)
  <1>2. pc = "review" /\ Stage = l
    BY DEF Review
  <1>3. r \in State /\ SameRounds(r, s) /\ r.attempts = s.attempts
    BY EarnedTypes, ReviewedType, ReviewedFields, RoundsReviewed
  <1> HIDE DEF row
  <1>4. /\ n \in State /\ n.attempts = s.attempts
        /\ n.stage = s.stage /\ n.target = s.target /\ n.skip = s.skip
        /\ n.stall[l] <= s.stall[l] + 1
        /\ \A m \in Loops \ {l} : n.stall[m] = s.stall[m]
    <2>1. s.stall \in [Loops -> 0..Window] /\ s.stall[l] \in Int
      BY EarnedTypes, WindowAssumption DEF State
    <2>2. CASE Converges(l, cmd)
      <3>1. /\ Counted(l, fell, r) \in State /\ Counted(l, fell, r).attempts = r.attempts
        BY <1>3, CountedType, CountedFields
      <3> QED
        BY <1>3, <2>2, <3>1, RoundsCounted DEF SameRounds
    <2>3. CASE ~ Converges(l, cmd)
      <3>1. n = r
        BY <2>3
      <3> HIDE DEF n, r
      <3> QED
        BY <1>3, <2>1, <3>1 DEF SameRounds
    <2> QED
      BY <2>2, <2>3
  <1> HIDE DEF next
  <1>5. /\ charge[l] \in 0..MaxAttempts + 1 /\ s.stall[l] \in Int /\ n.stall[l] \in Int
        /\ n.attempts[l] \in 0..MaxAttempts
    <2>1. s.stall \in [Loops -> 0..Window] /\ n.stall \in [Loops -> 0..Window]
      BY <1>4, EarnedTypes DEF State
    <2> QED
      BY <1>4, <2>1, EarnedTypes, AttemptsType, WindowAssumption
  <1>6. /\ l \in {"planning", "coding"} => s.stall[l] < charge[l]
        /\ l = "planning" => s.stall["coding"] = 0
    BY <1>2 DEF EInv, EarnedInv, RoundsCharged
  <1>7. /\ l \in {"planning", "coding"} => n.stall[l] <= charge[l]
        /\ l = "planning" => n.stall["coding"] = 0
    BY <1>4, <1>5, <1>6, BudgetAssumption DEF Loops
  <1>8. /\ db.stage = l /\ s.stage = l /\ s.target = "none" /\ KeepsUp(db, charge)
        /\ l # "checkpoint:plan-approved"
    BY <1>2, RunningEarned DEF KeepsUp, Loops
  <1>9. CASE Return(Approved(l, r), "none")
    <2>1. SameRounds(Approved(l, r), r)
      BY <1>3, RoundsAttempt
    <2>2. l # "coding" => KeepsUp(db, charge')
      BY <1>8 DEF KeepsUp, InBounds
    <2> QED
      BY <1>2, <1>3, <1>6, <1>8, <1>9, <2>1, <2>2, EarnedTypes, ReturnEarned DEF SameRounds
  <1>10. CASE /\ Converges(l, cmd) /\ Plateaued(l, n)
              /\ Return(Escalated(l, n), "pause") /\ UNCHANGED ghosts
    <2>1. SameRounds(Escalated(l, n), n)
      BY <1>4, RoundsEscalated
    <2>2. n.stall[l] = Window /\ l \in {"planning", "coding"} /\ charge' = charge
      BY <1>10 DEF Plateaued, Converges, ghosts
    <2>3. charge'[l] >= Window
      BY <1>5, <1>7, <2>2, BudgetAssumption, WindowAssumption
    <2> QED
      BY <1>2, <1>4, <1>7, <1>8, <1>10, <2>1, <2>2, <2>3, EarnedTypes, ReturnEarned
      DEF SameRounds
  <1>11. CASE /\ BudgetLeft(n.attempts[l]) /\ StartAttempt(l, n.attempts[l] + 1, n)
              /\ charge' = Charge(l, charge)
    <2>1. charge[l] <= n.attempts[l]
      BY <1>4, EarnedTypes DEF BInv, ChargeOnRecord
    <2>2. charge'[l] = charge[l] + 1
      BY <1>5, <1>11, <2>1, EarnedTypes, ChargeGrows, BudgetAssumption DEF BudgetLeft
    <2>3. l \in {"planning", "coding"} => n.stall[l] < charge'[l]
      BY <1>5, <1>7, <2>2, BudgetAssumption
    <2> HIDE DEF n
    <2> QED
      BY <1>2, <1>4, <1>7, <1>11, <2>3, EarnedTypes, StartEarned
  <1>12. CASE Fail(n, "revision-exhausted")
    BY <1>4, <1>12, EarnedTypes, FailEarned
  <1> QED
    BY <1>1, <1>9, <1>10, <1>11, <1>12

LEMMA FailLoopEarned == ASSUME EInv, NEW l \in Loops, FailLoop(l) PROVE EarnedInv'
  <1>1. pc \in {"produce", "review"} /\ Fail(s, "unknown") /\ charge' = charge
    BY EarnedTypes DEF FailLoop, ghosts
  <1> QED
    BY <1>1, EarnedTypes, RunningEarned, FailEarned

LEMMA GateEarned ==
  ASSUME EInv, GateRewind \/ GatePass \/ GatePause \/ FailGate
  PROVE  EarnedInv'
  <1>1. pc = "stage" /\ Stage \in Gates /\ Stage \notin Loops /\ Stage # "planning"
    BY DEF GateRewind, GatePass, GatePause, FailGate, Gates, Loops
  <1>2. /\ db = s /\ s.stage = Stage /\ s.target = "none"
        /\ Stage = "checkpoint:plan-approved" => s.stall["coding"] = 0
    BY <1>1, RunningEarned DEF InBounds
  <1>3. \A c : KeepsUp(db, c)
    BY <1>1, <1>2 DEF KeepsUp, InBounds, Loops
  <1>4. CASE GateRewind
    <2> DEFINE hit == FirstMatch(Stage)
               b == hit[1] # "/rerun-plan"
               l == hit[2]
               q == [s EXCEPT !.cp = "none", !.rerun = b, !.target = l, !.feedback = TRUE]
    <2>1. Return(q, "rewind") /\ Commented(Stage)
      BY <1>4 DEF GateRewind
    <2>2. l # "coding"
      <3>1. PICK k \in 1..Len(GateCommands(Stage)) :
              hit = GateCommands(Stage)[k] /\ hit[1] \in asks
        BY <1>1, <2>1, FirstMatchType
      <3>2. hit[1] # "/fix"
        BY <3>1, EarnedTypes
      <3>3. GateCommands(Stage)[k][1] # "/fix" => GateCommands(Stage)[k][2] # "coding"
        BY DEF GateCommands
      <3> QED
        BY <3>1, <3>2, <3>3
    <2> HIDE DEF b, l
    <2>3. q.stage = s.stage /\ q.target = l /\ q.skip = s.skip
      BY EarnedTypes, RoundsRewind
    <2> HIDE DEF q
    <2> QED
      BY <1>1, <1>3, <2>1, <2>2, <2>3, EarnedTypes, ReturnEarned
  <1>5. CASE GatePass \/ GatePause
    <2>1. PICK c \in {"none", CheckpointName(Stage)}, signal \in {"none", "pause"} :
            Return([s EXCEPT !.cp = c], signal)
      BY <1>5 DEF GatePass, GatePause
    <2>2. SameRounds([s EXCEPT !.cp = c], s)
      BY EarnedTypes, RoundsCheckpoint
    <2> DEFINE q == [s EXCEPT !.cp = c]
    <2>3. Return(q, signal) /\ SameRounds(q, s)
      BY <2>1, <2>2
    <2> HIDE DEF q
    <2> QED
      BY <1>1, <1>2, <1>3, <2>3, EarnedTypes, ReturnEarned DEF SameRounds
  <1>6. CASE FailGate
    <2>1. Fail(s, "unknown") /\ charge' = charge
      BY <1>6 DEF FailGate, ghosts
    <2> QED
      BY <1>1, <2>1, EarnedTypes, RunningEarned, FailEarned
  <1> QED
    BY <1>4, <1>5, <1>6

\* The result of a stage that has not been approved keeps within what is charged.
LEMMA SaveResultEarned == ASSUME EInv, SaveResult PROVE EarnedInv'
  <1>1. /\ pc = "leave" /\ db' = s /\ pc' = "notify"
        /\ UNCHANGED << s, i, cmd, sig, charge >>
    BY DEF SaveResult, ghosts
  <1>2. Stage' = Stage /\ s.stage = Stage
    BY <1>1, EarnedTypes DEF Stage
  <1>3. NoRefill' /\ StoreInStep' /\ RoundsCharged' /\ EscalationEarned'
    BY <1>1, <1>2
    DEF EInv, EarnedInv, NoRefill, StoreInStep, RoundsCharged, EscalationEarned
  <1>4. KeepsUp(s, charge) \/ (s.stage = "coding" /\ sig = "none")
    <2>1. CASE sig = "rewind"
      <3>1. s.target # "none"
        BY <1>1, <2>1, EarnedTypes DEF TypeInv
      <3> QED
        BY <3>1 DEF KeepsUp
    <2>2. CASE sig # "rewind" /\ Stage # "coding"
      BY <1>1, <1>2, <2>2 DEF EInv, EarnedInv, RoundsCharged, KeepsUp, InBounds
    <2>3. CASE sig = "pause" /\ Stage = "coding"
      <3>1. charge["coding"] >= Window
        BY <2>3 DEF EInv, EarnedInv, EscalationEarned, Loops
      <3>2. s.stall["coding"] \in 0..Window /\ charge["coding"] \in 0..MaxAttempts + 1
        BY EarnedTypes DEF State, Loops
      <3>3. s.stall["coding"] <= charge["coding"]
        BY <3>1, <3>2, WindowAssumption, BudgetAssumption
      <3> QED
        BY <1>2, <2>3, <3>3 DEF KeepsUp, InBounds
    <2>4. sig \in {"none", "pause", "rewind"}
      BY EarnedTypes DEF TypeInv, TypeOK
    <2> QED
      BY <1>2, <2>1, <2>2, <2>3, <2>4
  <1>5. ResumesInBounds'
    BY <1>1, <1>4 DEF ResumesInBounds, KeepsUp, InBounds
  <1> QED
    BY <1>3, <1>5 DEF EarnedInv

\* Coding is entered from the gate only, and the gate from planning.
LEMMA StageBefore ==
  ASSUME TypeInv, i < Len(StageList(cmd))
  PROVE  LET q == StageList(cmd)[i + 1]
         IN  /\ q = "coding" => Stage = "checkpoint:plan-approved"
             /\ q = "checkpoint:plan-approved" => Stage = "planning"
  <1>1. i \in 1..Len(StageList(cmd)) /\ Len(StageList(cmd)) \in Nat /\ Stage \in Stages
    BY StageListType, StageType DEF TypeInv, TypeOK
  <1>2. PICK q \in Stages : q = StageList(cmd)[i + 1] /\ Follows(Stage, q)
    BY <1>1, StageListOrder, StageListType DEF Stage
  <1>3. /\ "checkpoint:plan-approved" \in Stages /\ ~ LeftOut("checkpoint:plan-approved")
        /\ "planning" \in Stages /\ ~ LeftOut("planning")
        /\ Pos(Stage) \in 1..11 /\ Stage = DefaultStages[Pos(Stage)]
    BY <1>1, StageAt DEF LeftOut, Stages, Loops, Gates
  <1>4. ASSUME q = "coding" PROVE Pos(Stage) = 3
    BY <1>2, <1>3, <1>4, Positions DEF Follows
  <1>5. ASSUME q = "checkpoint:plan-approved" PROVE Pos(Stage) = 2
    BY <1>2, <1>3, <1>5, Positions DEF Follows
  <1> QED
    BY <1>2, <1>3, <1>4, <1>5, DefaultTuple

LEMMA NotifyEarned == ASSUME EInv, Notify PROVE EarnedInv'
  <1>1. pc = "notify" /\ charge' = charge
    BY DEF Notify, ghosts
  <1>2. /\ db = s /\ s.stage = Stage
        /\ KeepsUp(db, charge) \/ (Stage = "coding" /\ sig = "none")
        /\ sig # "rewind" =>
             (Stage \in {"planning", "checkpoint:plan-approved"} => s.stall["coding"] = 0)
    BY <1>1, EarnedTypes DEF EInv, EarnedInv, StoreInStep, ResumesInBounds, RoundsCharged
  <1>3. CASE sig = "pause" /\ Stop(s, "ok")
    BY <1>1, <1>2, <1>3, EarnedTypes, StopEarned
  <1>4. CASE /\ sig = "rewind" /\ s' = [s EXCEPT !.target = "none"]
             /\ i' = StageIndex(StageList(cmd), s.target)
             /\ pc' = "enter" /\ sig' = "none" /\ UNCHANGED << db, cmd >>
    <2> DEFINE q == [s EXCEPT !.target = "none"]
    <2>1. q.target = "none" /\ q.skip = s.skip
      BY EarnedTypes, RoundsTarget
    <2>2. s' = q
      BY <1>4
    <2> HIDE DEF q
    <2>3. Stage' = "planning" /\ s.target = "planning"
      BY <1>1, <1>4, EarnedTypes, RewindLands
    <2>4. NoRefill' /\ StoreInStep' /\ ResumesInBounds' /\ EscalationEarned'
      BY <1>2, <1>4, <2>1, <2>2, <2>3, EarnedTypes
      DEF NoRefill, StoreInStep, ResumesInBounds, EscalationEarned, KeepsUp
    <2>5. RoundsCharged'
      BY <1>4, <2>3 DEF RoundsCharged
    <2> QED
      BY <2>4, <2>5 DEF EarnedInv
  <1>5. CASE /\ sig = "none" /\ i < Len(StageList(cmd)) /\ i' = i + 1 /\ pc' = "enter"
             /\ UNCHANGED << db, s, cmd, sig >>
    <2>1. /\ Stage' = "coding" => Stage = "checkpoint:plan-approved"
          /\ Stage' = "checkpoint:plan-approved" => Stage = "planning"
      BY <1>5, EarnedTypes, StageBefore DEF Stage
    <2>2. 0 <= charge["coding"]
      BY EarnedTypes, BudgetAssumption DEF Loops
    <2>3. RoundsCharged'
      BY <1>1, <1>2, <1>5, <2>1, <2>2 DEF RoundsCharged
    <2>4. ResumesInBounds'
      BY <1>1, <1>2, <1>5, <2>1 DEF ResumesInBounds, KeepsUp, InBounds
    <2>5. NoRefill' /\ StoreInStep' /\ EscalationEarned'
      BY <1>1, <1>5, EarnedTypes DEF NoRefill, StoreInStep, EscalationEarned
    <2> QED
      BY <2>3, <2>4, <2>5 DEF EarnedInv
  <1>6. CASE sig = "none" /\ i = Len(StageList(cmd)) /\ Stop([s EXCEPT !.done = TRUE], "ok")
    <2> DEFINE q == [s EXCEPT !.done = TRUE]
    <2>1. SameRounds(q, s)
      BY EarnedTypes, RoundsDone
    <2>2. Pos(Stage) >= 10
      BY <1>6, EarnedTypes, StageListOrder DEF Stage
    <2>3. Stop(q, "ok")
      BY <1>6
    <2> HIDE DEF q
    <2>4. Stage # "coding" /\ Stage # "checkpoint:plan-approved"
      BY <2>2, Positions
    <2>5. KeepsUp(q, charge')
      BY <1>2, <2>1, <2>4 DEF KeepsUp, InBounds, SameRounds
    <2> QED
      BY <2>1, <2>3, <2>5, EarnedTypes, StopEarned DEF SameRounds
  <1> QED
    BY <1>3, <1>4, <1>5, <1>6 DEF Notify

LEMMA CrashEarned == ASSUME EInv, Crash, ~ GrantLost PROVE EarnedInv'
  <1>1. pc # "down" /\ Stop(db, "failed") /\ charge' = charge
    BY DEF Crash, ghosts
  <1>2. KeepsUp(db, charge)
    <2>1. CASE pc \in {"stage", "produce", "review"}
      BY <2>1, RunningEarned DEF KeepsUp
    <2>2. CASE pc \in {"enter", "leave", "notify"}
      BY <1>1, <2>2 DEF EInv, EarnedInv, ResumesInBounds, KeepsUp, GrantLost, Stop
    <2> QED
      BY <1>1, <2>1, <2>2, EarnedTypes DEF TypeInv, TypeOK
  <1> QED
    BY <1>1, <1>2, EarnedTypes, StopEarned
---------------------------------------------------------------------------
(* The watcher and the humans *)

LEMMA StartFreshEarned == ASSUME EInv, StartFresh PROVE EarnedInv'
  <1>1. /\ pc = "down" /\ db' = db /\ pc' = "enter" /\ sig' = "none" /\ cmd' = "run"
        /\ s' = [InitialState EXCEPT !.target = "none"] /\ Load(InitialState, "run")
    BY DEF StartFresh, Load, Stopped
  <1>2. s'.target = "none" /\ ~ s'.skip
    BY <1>1 DEF InitialState
  <1>3. Stage' = "analyzer"
    <2>1. StageList("run")[1] = "analyzer" /\ 1 \in 1..Len(StageList("run"))
      BY StageListType
    <2>2. /\ StageIndex(StageList("run"), "analyzer") \in 1..Len(StageList("run"))
          /\ StageList("run")[StageIndex(StageList("run"), "analyzer")] = "analyzer"
      BY <2>1, StageIndexFinds
    <2>3. InitialState.stage = "analyzer" /\ InitialState.target = "none"
      BY DEF InitialState
    <2>4. StageIndex(StageList("run"), "analyzer") > 0
      BY <2>2, StageListType
    <2>5. i' = StageIndex(StageList("run"), "analyzer")
      BY <1>1, <2>3, <2>4 DEF Load
    <2> QED
      BY <1>1, <2>2, <2>5 DEF Stage
  <1>4. db.stage # "coding" => KeepsUp(db, charge')
    BY <1>1 DEF EInv, EarnedInv, ResumesInBounds, KeepsUp, InBounds
  <1>5. ResumesInBounds'
    BY <1>1, <1>3, <1>4 DEF ResumesInBounds, KeepsUp, InBounds
  <1>6. NoRefill' /\ StoreInStep' /\ RoundsCharged' /\ EscalationEarned'
    BY <1>1, <1>2, <1>3, EarnedTypes
    DEF NoRefill, StoreInStep, RoundsCharged, EscalationEarned
  <1> QED
    BY <1>5, <1>6 DEF EarnedInv

LEMMA WatcherEarned == ASSUME EInv, Watcher, ~ HumanRetry PROVE EarnedInv'
  <1>1. pc = "down" => KeepsUp(db, charge)
    BY DEF EInv, EarnedInv, ResumesInBounds
  <1>2. ASSUME NEW row \in State, Continue(row), Stopped, charge' = charge,
               row.err # "revision-exhausted" /\ row.err # "revision-exhausted",
               row.stage = db.stage /\ row.target = db.target /\ row.stall = db.stall,
               db.err # "revision-exhausted"
        PROVE  EarnedInv'
    <2>1. pc = "down" /\ pc' = "enter" /\ s' = [row EXCEPT !.target = "none"]
      BY <1>2 DEF Continue, Load, Stopped
    <2>2. s'.skip = row.skip
      BY <1>2, <2>1, RoundsTarget
    <2>3. ~ row.skip
      BY <2>1, <2>2 DEF HumanRetry
    <2>4. KeepsUp(row, charge')
      BY <1>1, <1>2, <2>1 DEF KeepsUp, InBounds
    <2> QED
      BY <1>2, <2>3, <2>4, EarnedTypes, ContinueEarned
  <1>3. ASSUME Continue(ClearError(db)), Stopped, charge' = charge \/ db.err = "revision-exhausted"
        PROVE  EarnedInv'
    <2> DEFINE row == ClearError(db)
    <2>1. /\ row \in State /\ row.stage = db.stage /\ row.target = db.target
          /\ row.stall = db.stall /\ row.err = "none"
      BY EarnedTypes, ClearErrorType, RoundsCleared
    <2>2. db.err = "revision-exhausted" => row.skip
      BY EarnedTypes DEF ClearError, State
    <2>3. Continue(row)
      BY <1>3
    <2> HIDE DEF row
    <2>4. pc = "down" /\ pc' = "enter" /\ s' = [row EXCEPT !.target = "none"]
      BY <1>3, <2>3 DEF Continue, Load, Stopped
    <2>5. s'.skip = row.skip
      BY <2>1, <2>4, RoundsTarget
    <2>6. db.err # "revision-exhausted"
      BY <2>2, <2>4, <2>5 DEF HumanRetry
    <2> QED
      BY <1>2, <1>3, <2>1, <2>3, <2>6
  <1>4. CASE HandleOutcome
    <2>1. /\ db' = OutcomeRow /\ s' = db' /\ pc' = "down" /\ sig' = "none"
          /\ charge' = charge /\ pc = "down"
      BY <1>4, EarnedTypes DEF HandleOutcome, ghosts, TypeInv
    <2>2. SameRounds(OutcomeRow, db) /\ (OutcomeRow.err = db.err \/ db.err = "none")
      BY EarnedTypes, RoundsError DEF OutcomeRow, SameRounds
    <2>3. KeepsUp(OutcomeRow, charge)
      BY <1>1, <2>1, <2>2 DEF KeepsUp, InBounds, SameRounds
    <2> QED
      BY <2>1, <2>2, <2>3, EarnedTypes, DownEarned DEF SameRounds
  <1>5. CASE LoseOutcome
    BY <1>5, EarnedTypes DEF LoseOutcome
  <1>6. CASE ContinueTag
    <2>1. /\ Continue(IF db.err # "none" THEN ClearError(db) ELSE db) /\ Stopped
          /\ charge' = charge \/ db.err = "revision-exhausted"
      BY <1>6 DEF ContinueTag, Granted
    <2> QED
      BY <1>2, <1>3, <2>1, EarnedTypes
  <1>7. CASE ContinueApproved
    <2>1. /\ Continue(IF PlanTagRetry THEN ClearError(db) ELSE db) /\ Stopped
          /\ charge' = charge /\ (PlanTagRetry \/ db.cp = "plan-approved")
      BY <1>7 DEF ContinueApproved, PlanTagAtGate, ghosts
    <2>2. db.cp = "plan-approved" => db.err # "revision-exhausted"
      BY EarnedTypes DEF BInv, RowInStep, AtPlanGate
    <2> QED
      BY <1>2, <1>3, <2>1, <2>2, EarnedTypes
  <1>8. CASE ContinueMerged \/ ResumeOrphan
    <2>1. Continue(db) /\ Stopped /\ db.err = "none" /\ charge' = charge
      BY <1>8 DEF ContinueMerged, ResumeOrphan, PrCompletedCandidate, ghosts
    <2> QED
      BY <1>2, <2>1, EarnedTypes
  <1>9. CASE StartFresh
    BY <1>9, StartFreshEarned
  <1>10. CASE CliContinue
    BY <1>10, EarnedTypes DEF CliContinue
  <1>11. ASSUME NEW c \in {"/rerun-plan", "/fix"}, ScanRerun(c) \/ DashboardRerun(c)
         PROVE  EarnedInv'
    <2> DEFINE row == ApplyRerun("/rerun-plan", db)
    <2>1. c = "/rerun-plan" /\ Continue(row)
      BY <1>11, EarnedTypes DEF ScanRerun, DashboardRerun, Rerun
    <2>2. /\ row \in State /\ row.target = "planning" /\ row.skip = db.skip /\ row.err = "none"
      BY EarnedTypes, ApplyRerunType, RoundsRerun
    <2> HIDE DEF row
    <2>3. KeepsUp(row, charge')
      BY <2>2 DEF KeepsUp
    <2> QED
      BY <2>1, <2>2, <2>3, EarnedTypes, ContinueEarned
  <1> QED
    BY <1>4, <1>5, <1>6, <1>7, <1>8, <1>9, <1>10, <1>11 DEF Watcher

LEMMA HumanEarned == ASSUME EInv, Human \/ PushBranch PROVE EarnedInv'
  <1>1. UNCHANGED container /\ (charge' = charge \/ (pc = "down" /\ db.err = "revision-exhausted"))
    BY DEF Human, ApprovePlan, RemoveNeedInput, PullRequest, FreeBranch, Ask, PushBranch, Granted,
           Stopped, ghosts
  <1> QED
    BY <1>1, QuietEarned
---------------------------------------------------------------------------

LEMMA BudgetStep == ASSUME BInv, [Next]_vars PROVE BInv'
  <1>1. TypeInv /\ OnlyHumansGrant
    BY DEF BInv
  <1>2. TypeInv'
    BY <1>1, ContainerTypes, CrashTypes, WatcherTypes, HumanTypes, StutterTypes DEF Next
  <1>3. RowInStep' /\ ChargeOnRecord'
    <2>1. CASE Container
      BY <2>1, EnterStageBudget, PlainStageBudget, PushBranchBudget, GateBudget,
         SaveResultBudget, NotifyBudget, EnterLoopBudget, ProduceBudget, ReviewBudget,
         FailLoopBudget
      DEF Container
    <2> QED
      BY <2>1, CrashBudget, WatcherBudget, HumanBudget, StutterBudget DEF Next
  <1>4. OnlyHumansGrant'
    BY <1>1 DEF OnlyHumansGrant
  <1> QED
    BY <1>2, <1>3, <1>4 DEF BInv

LEMMA EarnedStarts == ASSUME OnlyHumansGrant, Init PROVE EInv
  <1>1. BInv
    BY InitTypeInv, InitBudget DEF BInv
  <1>2. /\ ~ InitialState.skip /\ InitialState.target = "none"
        /\ InitialState.stage = "analyzer"
    BY DEF InitialState
  <1>3. Stage = "analyzer"
    BY StageListType DEF Init, Stage
  <1>4. EarnedInv
    BY <1>2, <1>3
    DEF Init, EarnedInv, NoRefill, StoreInStep, ResumesInBounds, RoundsCharged, EscalationEarned
  <1> QED
    BY <1>1, <1>4 DEF EInv

LEMMA EarnedStep ==
  ASSUME EInv, [Next]_vars, [~ GrantLost /\ ~ HumanRetry]_vars
  PROVE  EInv'
  <1>1. BInv'
    BY EarnedTypes, BudgetStep
  <1>2. CASE UNCHANGED vars
    <2>1. UNCHANGED container /\ charge' = charge
      BY <1>2 DEF vars, ghosts
    <2> QED
      BY <1>1, <2>1, QuietEarned DEF EInv
  <1>3. CASE Next /\ ~ GrantLost /\ ~ HumanRetry
    <2> SUFFICES EarnedInv'
      BY <1>1 DEF EInv
    <2>1. ASSUME NEW l \in Loops, EnterLoop(l) \/ Produce(l) \/ Review(l) \/ FailLoop(l)
          PROVE  EarnedInv'
      BY <2>1, EnterLoopEarned, ProduceEarned, ReviewEarned, FailLoopEarned
    <2>2. CASE Container
      BY <2>1, <2>2, EnterStageEarned, PlainStageEarned, HumanEarned, GateEarned,
         SaveResultEarned, NotifyEarned
      DEF Container
    <2>3. CASE Crash
      BY <1>3, <2>3, CrashEarned
    <2>4. CASE Watcher
      BY <1>3, <2>4, WatcherEarned
    <2>5. CASE Human
      BY <2>5, HumanEarned
    <2> QED
      BY <1>3, <2>2, <2>3, <2>4, <2>5 DEF Next
  <1> QED
    BY <1>2, <1>3

\* An escalation to a human is earned (revision-loop.ts:98): the loop has run Window rounds
\* since its budget was granted, for every window and budget and whatever fails, dies or is
\* resumed, unless a human has refilled an exhausted loop, which keeps its counts, or the
\* container dies between the coder's approval and the next stage.
THEOREM EscalationsEarned ==
  OnlyHumansGrant => (Spec /\ NoStaleCounts => []EscalationEarned)
  <1> SUFFICES ASSUME OnlyHumansGrant PROVE Spec /\ NoStaleCounts => []EscalationEarned
    OBVIOUS
  <1>1. Init => EInv
    BY EarnedStarts
  <1>2. EInv /\ [Next]_vars /\ [~ GrantLost /\ ~ HumanRetry]_vars => EInv'
    BY EarnedStep
  <1>3. EInv => EscalationEarned
    BY DEF EInv, EarnedInv
  <1> QED
    BY <1>1, <1>2, <1>3, PTL DEF Spec, NoStaleCounts

---------------------------------------------------------------------------
(* Order and the plan gate.  Both need the same account of the row, the container's place and
   what the humans may still say. *)

---------------------------------------------------------------------------
(* The inductive invariant *)

\* The item is neither started again nor continued by hand, and
NoRestart == Inputs \cap {"analyse", "cli"} = {}

\* commands answer a changeset,
FixesCode == Disciplined /\ "/rerun-plan" \notin Inputs

\* or ask for a new plan, but not both: `/fix` on an item that is re-planning jumps the plan gate.
StraightCourse == NoRestart /\ ("/fix" \notin Inputs \/ FixesCode)

\* What a row says of why it stopped, of its end and of the command it carries.
HaltOK(r, o) ==
  /\ (r.err = "none") = (r.errAt = "none")
  /\ r.errAt \in {"none", "container", PlanGate, r.stage}
  /\ r.cp = "plan-approved" /\ r.err # "none" => r.errAt = PlanGate
  /\ r.cp = "pr-published" => r.stage = "checkpoint:pr-published"
  /\ Pos(r.stage) >= 10 => r.cp = "none"
  /\ r.done => Pos(r.stage) >= 10 /\ r.target = "none" /\ (r.err # "none" => r.stage = "docs-writer")
  /\ r.target # "none" => o = r.target /\ r.cp = "none"

\* A command that answers a changeset never sends the item back before the coding.
AheadOK(r) == (Pos(r.stage) <= 3 => r.code = NoPlan /\ r.target = "none") /\ r.target # "planning"

\* A plan that is not replaced stays approved.
PlanOK(r, a) == Pos(r.stage) >= 4 => r.plan \in a

StraightRow(r, o, a) == HaltOK(r, o) /\ (FixesCode => AheadOK(r) /\ PlanOK(r, a))

StraightRows ==
  StraightRow(db, owed, approved) /\ StraightRow(s, owed, approved) /\ StraightRow(pre, owed, approved)

\* A container starts over no error but that of the plan gate.
RunOK(r, c, d) == r.errAt \in {"none", PlanGate} /\ (r.err # "none" => c = "continue") /\ r.done = d

Underway ==
  pc # "down" =>
    /\ RunOK(db, cmd, db.done) /\ RunOK(s, cmd, db.done) /\ RunOK(pre, cmd, db.done)
    /\ db.done => cmd = "continue" /\ Stage = "docs-writer"

Coming ==
  pc = "enter" =>
    /\ s.stage = db.stage /\ s.plan = db.plan
    /\ db.done => Stage = s.stage
    /\ owed = "none" => Stage = s.stage \/ Follows(s.stage, Stage)
    /\ s.stage \in Gates /\ Stage # s.stage => s.cp = "none"
    /\ FixesCode /\ Pos(Stage) >= 4 => s.plan \in approved

Going ==
  pc \in {"leave", "notify"} =>
    /\ sig = "rewind" => Stage \in Gates
    /\ sig = "none" /\ Stage \in Gates => s.cp = "none"
    /\ pc = "notify" => db = s
    /\ FixesCode /\ Stage = PlanGate /\ (sig = "none" \/ planTag) => s.plan \in approved

\* Where the commands and the approval of an item may be that goes ahead.
Ahead ==
  FixesCode =>
    /\ owed # "planning"
    /\ Pos(db.stage) <= 3 => asks = {} /\ owed = "none"
    /\ planTag => Pos(db.stage) >= 3 /\ db.plan \in approved

OrderInv == StraightRows /\ Underway /\ Coming /\ Going /\ Ahead

NInv == OInv /\ OrderInv

LEMMA OrderTypes ==
  ASSUME NInv
  PROVE  /\ db \in State /\ s \in State /\ pre \in State /\ Stage \in Stages
         /\ i \in 1..Len(StageList(cmd)) /\ cmd \in {"run", "continue"}
         /\ asks \subseteq Inputs /\ asks \subseteq {"/rerun-plan", "/fix"}
         /\ owed \in Loops \cup {"none"}
         /\ pc \in {"down", "enter", "stage", "produce", "review", "leave", "notify"}
         /\ StraightRow(db, owed, approved) /\ StraightRow(s, owed, approved)
         /\ StraightRow(pre, owed, approved)
  BY CTypes DEF NInv, OInv, CInv, TypeInv, TypeOK, OrderInv, StraightRows

\* q is r after work that leaves plan and checkpoint alone, and the code too unless it drops it.
Carries(q, r) ==
  /\ SamePlace(q, r) /\ SameHalt(q, r) /\ q.done = r.done /\ q.plan = r.plan
  /\ q.code \in {r.code, NoPlan}

LEMMA CarriesStraight ==
  ASSUME NEW q, NEW r, NEW o, NEW a, StraightRow(r, o, a), Carries(q, r)
  PROVE  StraightRow(q, o, a)
  BY DEF StraightRow, HaltOK, AheadOK, PlanOK, Carries, SamePlace, SameHalt

LEMMA CarriesRuns ==
  ASSUME NEW q, NEW r, NEW c, NEW d, RunOK(r, c, d), Carries(q, r)
  PROVE  RunOK(q, c, d)
  BY DEF RunOK, Carries, SameHalt

LEMMA CarriesOn ==
  ASSUME NEW q, NEW r, NEW t, Carries(q, r), Carries(t, q)
  PROVE  Carries(t, r)
  BY DEF Carries, SamePlace, SameHalt

LEMMA AttemptCarries ==
  ASSUME NEW r \in State, NEW l, NEW n
  PROVE  Carries([r EXCEPT !.attempts = [@ EXCEPT ![l] = n]], r)
  BY DEF State, Carries, SamePlace, SameHalt

LEMMA StallCarries ==
  ASSUME NEW r \in State, NEW t
  PROVE  Carries([r EXCEPT !.stall = t], r)
  BY DEF State, Carries, SamePlace, SameHalt

LEMMA EscCarries ==
  ASSUME NEW r \in State, NEW t
  PROVE  Carries([r EXCEPT !.esc = "none", !.stall = t], r)
  BY DEF State, Carries, SamePlace, SameHalt

LEMMA SkipCarries ==
  ASSUME NEW r \in State
  PROVE  Carries([r EXCEPT !.skip = FALSE], r)
  BY DEF State, Carries, SamePlace, SameHalt

LEMMA ReviewCarries ==
  ASSUME NEW r \in State, NEW v
  PROVE  Carries([r EXCEPT !.review = v], r)
  BY DEF State, Carries, SamePlace, SameHalt

LEMMA PlainCarries ==
  ASSUME NEW r \in State, NEW stage
  PROVE  Carries(PlainOutputs(stage, r), r)
  BY DEF State, PlainOutputs, Carries, SamePlace, SameHalt

LEMMA ResetCarries ==
  ASSUME NEW r \in State
  PROVE  Carries(PlanningReset(r), r)
  BY DEF State, PlanningReset, Carries, SamePlace, SameHalt

LEMMA CarriesSelf == ASSUME NEW r PROVE Carries(r, r)
  BY DEF Carries, SamePlace, SameHalt

LEMMA EnteredCarries ==
  ASSUME NEW r \in State, NEW l \in Loops
  PROVE  Carries(Entered(l, r), r)
  <1> DEFINE fresh == IF r.rerun \/ r.skip THEN r ELSE ResetState(l, r)
             unskip == [fresh EXCEPT !.skip = FALSE]
             left == [unskip EXCEPT !.esc = "none", !.stall = [@ EXCEPT ![l] = 0]]
  <1>1. Entered(l, r) = IF unskip.esc = l THEN left ELSE unskip
    BY DEF Entered
  <1>2. fresh \in State /\ Carries(fresh, r)
    <2>1. fresh \in {r, PlanningReset(r), [r EXCEPT !.review = "none"]}
      BY DEF ResetState
    <2> DEFINE x == PlanningReset(r)
               y == [r EXCEPT !.review = "none"]
    <2>2. x \in State /\ y \in State /\ Carries(x, r) /\ Carries(y, r)
      BY PlanningResetType, ResetCarries, SetReview, ReviewCarries
    <2>3. fresh \in {r, x, y}
      BY <2>1
    <2> HIDE DEF x, y, fresh
    <2> QED
      BY <2>2, <2>3, CarriesSelf
  <1> HIDE DEF fresh
  <1>3. unskip \in State /\ Carries(unskip, r)
    BY <1>2, SetSkip, SkipCarries, CarriesOn
  <1> HIDE DEF unskip
  <1>4. Carries(left, r)
    BY <1>3, EscCarries, CarriesOn
  <1> QED
    BY <1>1, <1>3, <1>4

LEMMA RecordCarries ==
  ASSUME NEW r \in State, NEW l, NEW n
  PROVE  Carries(RecordAttempt(l, n, r), r)
  BY AttemptCarries DEF RecordAttempt

LEMMA ApprovedCarries ==
  ASSUME NEW r \in State, NEW l
  PROVE  Carries(Approved(l, r), r)
  BY AttemptCarries DEF Approved

LEMMA ReviewedCarries ==
  ASSUME NEW r \in State, NEW l, NEW v
  PROVE  Carries(Reviewed(l, v, r), r)
  BY ReviewCarries, CarriesSelf DEF Reviewed

LEMMA CountedCarries ==
  ASSUME NEW r \in State, NEW l, NEW fell
  PROVE  Carries(Counted(l, fell, r), r)
  <1> DEFINE n == IF fell \/ r.stall[l] = 0 THEN 1
                  ELSE IF r.stall[l] < Window THEN r.stall[l] + 1 ELSE Window
  <1>1. Counted(l, fell, r) = [r EXCEPT !.stall = [@ EXCEPT ![l] = n]]
    BY DEF Counted
  <1> HIDE DEF n
  <1>2. [r EXCEPT !.stall = [@ EXCEPT ![l] = n]] = [r EXCEPT !.stall = [r.stall EXCEPT ![l] = n]]
    OBVIOUS
  <1> QED
    BY <1>1, <1>2, StallCarries

---------------------------------------------------------------------------
(* How the invariant is kept *)

LEMMA PlaceAt == ASSUME NEW r \in State PROVE r.stage \in Stages /\ Pos(r.stage) \in 1..11
  <1>1. r.stage \in Stages
    BY DEF State
  <1> QED
    BY <1>1, StageAt

\* The rows at work are those of the stage.
LEMMA OrderAt ==
  ASSUME NInv, pc \in {"stage", "produce", "review"}
  PROVE  /\ db.stage = Stage /\ s.stage = Stage /\ pre.stage = Stage
         /\ db.target = "none" /\ s.target = "none" /\ pre.target = "none"
         /\ RunOK(db, cmd, db.done) /\ RunOK(s, cmd, db.done) /\ RunOK(pre, cmd, db.done)
         /\ db.done => Stage = "docs-writer"
         /\ pc = "stage" => db = s /\ pre = s
         /\ s.cp = "plan-approved" => Stage = PlanGate
         /\ pre.cp = "plan-approved" => Stage = PlanGate
  <1>1. /\ db.stage = Stage /\ s.stage = Stage /\ pre.stage = Stage
        /\ s.target = "none" /\ pre.target = "none"
        /\ RowOK(s, Merged) /\ RowOK(pre, Merged)
    BY AtStage DEF NInv, OInv
  <1>2. s.cp = "plan-approved" => Stage = PlanGate
    BY <1>1 DEF RowOK
  <1>3. pre.cp = "plan-approved" => Stage = PlanGate
    BY <1>1 DEF RowOK
  <1>4. pc = "stage" => db = s /\ pre = s
    BY DEF NInv, OInv, OwingInv, StartsStored
  <1>5. db.target = "none"
    <2>1. CASE pc = "stage"
      BY <1>1, <1>4, <2>1
    <2>2. CASE pc # "stage"
      <3>1. owed # "none" => Serving(db)
        BY <2>2 DEF NInv, OInv, OwingInv, Owing
      <3>2. db.target # "none" => owed = db.target
        BY OrderTypes DEF StraightRow, HaltOK
      <3> QED
        BY <3>1, <3>2 DEF Serving
    <2> QED
      BY <2>1, <2>2
  <1>6. /\ RunOK(db, cmd, db.done) /\ RunOK(s, cmd, db.done) /\ RunOK(pre, cmd, db.done)
        /\ db.done => Stage = "docs-writer"
    BY DEF NInv, OrderInv, Underway
  <1> QED
    BY <1>1, <1>2, <1>3, <1>4, <1>5, <1>6

\* In a loop the plan-approved tag stands for the plan of every copy.
LEMMA TagAtLoop ==
  ASSUME NInv, FixesCode, planTag, pc \in {"stage", "produce", "review"}, Stage \in Loops
  PROVE  Pos(Stage) >= 4 /\ db.plan \in approved /\ s.plan \in approved /\ pre.plan \in approved
  <1>1. Pos(Stage) >= 4
    <2>1. Pos(Stage) >= 3
      BY OrderAt DEF NInv, OrderInv, Ahead
    <2> QED
      BY <2>1, LoopStages
  <1> QED
    BY <1>1, OrderAt, OrderTypes DEF StraightRow, PlanOK

LEMMA OrderHalts ==
  ASSUME NEW row, db' = row, s' = row, pre' = row, pc' = "down",
         StraightRow(row, owed', approved'),
         FixesCode =>
           /\ owed' # "planning"
           /\ Pos(row.stage) <= 3 => asks' = {} /\ owed' = "none"
           /\ planTag' => Pos(row.stage) >= 3 /\ row.plan \in approved'
  PROVE  OrderInv'
  BY DEF OrderInv, StraightRows, Underway, Coming, Going, Ahead

LEMMA OrderFails ==
  ASSUME NInv, NEW at \in {s, pre}, NEW q \in State, Carries(q, at), NEW type, type # "none", Fail(q, type),
         pc \in {"stage", "produce", "review"}, UNCHANGED << owed, planTag, approved >>,
         FixesCode /\ planTag => at.plan \in approved
  PROVE  OrderInv'
  <1> DEFINE row == [q EXCEPT !.err = type, !.errAt = Stage]
  <1>1. /\ db' = row /\ s' = row /\ pre' = row /\ pc' = "down" /\ asks' \in {asks, {}}
    BY DEF Fail
  <1>2. /\ SamePlace(row, q) /\ row.done = q.done /\ row.plan = q.plan /\ row.code = q.code
        /\ row.cp = q.cp /\ row.err = type /\ row.errAt = Stage
    BY DEF State, SamePlace
  <1> HIDE DEF row
  <1>3. StraightRow(q, owed, approved) /\ RunOK(q, cmd, db.done)
    BY OrderTypes, OrderAt, CarriesStraight, CarriesRuns
  <1>4. q.stage = Stage /\ q.target = "none" /\ db.stage = Stage
        /\ (q.cp = "plan-approved" => Stage = PlanGate)
        /\ (q.done => Stage = "docs-writer")
    BY <1>3, OrderAt DEF Carries, SamePlace, SameHalt, RunOK
  <1>5. Stage \in Stages /\ Stage # "none"
    BY OrderTypes DEF Stages, Loops, Gates, PlainStages
  <1>6. StraightRow(row, owed, approved)
    BY <1>2, <1>3, <1>4, <1>5 DEF StraightRow, HaltOK, AheadOK, PlanOK, SamePlace
  <1>7. FixesCode =>
          /\ owed # "planning"
          /\ Pos(row.stage) <= 3 => asks = {} /\ owed = "none"
          /\ planTag => Pos(row.stage) >= 3 /\ row.plan \in approved
    BY <1>2, <1>4 DEF NInv, OrderInv, Ahead, Carries, SamePlace
  <1> QED
    BY <1>1, <1>6, <1>7, OrderHalts

LEMMA OrderReturns ==
  ASSUME NInv, pc \in {"stage", "review"}, NEW result \in State, NEW signal, Return(result, signal),
         StraightRow(result, owed', approved), RunOK(result, cmd, db.done), result.stage = Stage,
         StraightRow(db, owed', approved),
         signal = "rewind" => Stage \in Gates,
         signal = "none" /\ Stage \in Gates => result.cp = "none",
         FixesCode /\ Stage = PlanGate /\ (signal = "none" \/ planTag) => result.plan \in approved,
         FixesCode => owed' # "planning" /\ (Pos(Stage) <= 3 => owed' = "none"),
         asks' = asks, planTag' => planTag, approved' = approved
  PROVE  OrderInv'
  <1>1. /\ s' = result /\ pre' = result /\ sig' = signal /\ pc' = "leave"
        /\ UNCHANGED << db, i, cmd, Stage >>
    BY DEF Return, Stage
  <1>2. /\ RunOK(db, cmd, db.done) /\ db.stage = Stage
        /\ db.done => cmd = "continue" /\ Stage = "docs-writer"
    BY OrderAt DEF NInv, OrderInv, Underway
  <1>3. StraightRows' /\ Underway'
    BY <1>1, <1>2 DEF StraightRows, Underway
  <1>4. Coming' /\ Going'
    BY <1>1 DEF Coming, Going
  <1>5. Ahead'
    BY <1>1, <1>2 DEF NInv, OrderInv, Ahead
  <1> QED
    BY <1>3, <1>4, <1>5 DEF OrderInv

\* A save inside a loop, which may be lost.
LEMMA OrderWorks ==
  ASSUME NInv, pc \in {"stage", "produce", "review"}, Stage \in Loops, NEW q, s' = q,
         db' \in {q, db}, pc' \in {"produce", "review"}, UNCHANGED << pre, i, cmd, planTag, asks >>,
         q.stage = Stage, RunOK(q, cmd, db.done),
         \A r \in {db, pre, q} : StraightRow(r, owed', approved'),
         FixesCode => owed' # "planning" /\ (Pos(Stage) <= 3 => owed' = "none"),
         FixesCode /\ planTag => q.plan \in approved' /\ db.plan \in approved'
  PROVE  OrderInv'
  <1>1. UNCHANGED Stage
    BY DEF Stage
  <1>2. /\ RunOK(db, cmd, db.done) /\ RunOK(pre, cmd, db.done) /\ db.stage = Stage
        /\ db.done => cmd = "continue" /\ Stage = "docs-writer"
    BY OrderAt DEF NInv, OrderInv, Underway
  <1>3. q.done = db.done /\ ~ db.done
    BY <1>2 DEF RunOK, Loops
  <1>4. PICK d \in {q, db} : db' = d
    OBVIOUS
  <1>5. StraightRows' /\ Underway'
    BY <1>1, <1>2, <1>3, <1>4 DEF StraightRows, Underway
  <1>6. Coming' /\ Going'
    BY DEF Coming, Going
  <1>7. Ahead'
    BY <1>1, <1>2, <1>4 DEF NInv, OrderInv, Ahead
  <1> QED
    BY <1>5, <1>6, <1>7 DEF OrderInv

LEMMA OrderLoads ==
  ASSUME NInv, NEW row \in State, Load(row, "continue"), db' = row,
         StraightRow(row, owed', approved), RunOK(row, "continue", row.done),
         row.done => row.stage = "docs-writer",
         FixesCode =>
           /\ owed' # "planning"
           /\ Pos(row.stage) <= 3 => asks' = {} /\ owed' = "none"
           /\ planTag' => Pos(row.stage) >= 3 /\ row.plan \in approved,
         approved' = approved
  PROVE  OrderInv'
  <1> DEFINE q == [row EXCEPT !.target = "none"]
  <1>1. /\ s' = q /\ pre' = q /\ pc' = "enter" /\ cmd' = "continue"
        /\ Stage' = (IF row.target # "none" THEN row.target ELSE row.stage)
    BY LoadLands DEF Load
  <1>2. /\ q.stage = row.stage /\ q.target = "none" /\ SameHalt(q, row) /\ q.done = row.done
        /\ q.plan = row.plan /\ q.code = row.code
    BY DEF State, SameHalt
  <1> HIDE DEF q
  <1>3. StraightRow(q, owed', approved) /\ RunOK(q, "continue", row.done)
    BY <1>2 DEF StraightRow, HaltOK, AheadOK, PlanOK, RunOK, SameHalt
  <1>4. row.done => row.target = "none"
    BY DEF StraightRow, HaltOK
  <1>5. StraightRows' /\ Underway'
    BY <1>1, <1>2, <1>3, <1>4 DEF StraightRows, Underway
  <1>6. Coming'
    <2>1. row.target # "none" => owed' # "none" /\ q.cp = "none" /\ (FixesCode => Pos(row.stage) >= 4)
      <3>1. row.target # "none" => owed' = row.target /\ row.cp = "none"
        BY DEF StraightRow, HaltOK
      <3>2. Pos(row.stage) \in 1..11
        BY PlaceAt
      <3> QED
        BY <1>2, <3>1, <3>2 DEF StraightRow, AheadOK, SameHalt
    <2>2. FixesCode /\ Pos(row.stage) >= 4 => q.plan \in approved
      BY <1>2 DEF StraightRow, PlanOK
    <2> QED
      BY <1>1, <1>2, <1>4, <2>1, <2>2 DEF Coming
  <1>7. Going' /\ Ahead'
    BY <1>1 DEF Going, Ahead
  <1> QED
    BY <1>5, <1>6, <1>7 DEF OrderInv

---------------------------------------------------------------------------
(* The steps of the container *)

LEMMA EnterStageOrder == ASSUME NInv, EnterStage PROVE OrderInv'
  <1> DEFINE row == [s EXCEPT !.stage = Stage]
  <1>1. /\ SameHalt(row, s) /\ row.stage = Stage /\ row.target = s.target /\ row.done = s.done
        /\ row.plan = s.plan /\ row.code = s.code
    BY OrderTypes DEF State, SameHalt
  <1>2. /\ pc = "enter" /\ UNCHANGED << planTag, asks, approved, owed >>
        /\ \/ /\ db' = row /\ s' = row /\ pre' = row /\ pc' = "stage"
              /\ UNCHANGED << i, cmd, sig, exit >>
           \/ Stop(row, "failed")
    BY DEF EnterStage, world, ghosts
  <1> HIDE DEF row
  <1>3. /\ s.target = "none" /\ s.stage = db.stage /\ s.plan = db.plan
        /\ owed = "none" => Stage = s.stage \/ Follows(s.stage, Stage)
        /\ s.stage \in Gates /\ Stage # s.stage => s.cp = "none"
        /\ FixesCode /\ Pos(Stage) >= 4 => s.plan \in approved
        /\ RunOK(s, cmd, db.done) /\ (db.done => cmd = "continue" /\ Stage = "docs-writer")
        /\ s.cp = "plan-approved" => Stage = PlanGate
    BY <1>2 DEF NInv, OInv, CInv, CourseInv, InStep, Entering, OrderInv, Underway, Coming
  <1>4. owed # "none" => Stage = s.stage \/ Stage = owed
    BY <1>2, <1>3 DEF NInv, OInv, OwingInv, Owing
  <1>5. /\ s.stage \in Stages /\ Stage \in Stages /\ Pos(s.stage) \in 1..11 /\ Pos(Stage) \in 1..11
        /\ StraightRow(s, owed, approved)
    BY OrderTypes, PlaceAt, StageAt
  <1>6. Pos(Stage) >= 10 => s.cp = "none"
    <2> SUFFICES ASSUME Pos(Stage) >= 10, Stage # s.stage PROVE s.cp = "none"
      BY <1>5 DEF StraightRow, HaltOK
    <2>1. owed = "none"
      <3>1. owed # "none" => owed \in Loops
        BY OrderTypes
      <3> QED
        BY <1>4, <3>1, LoopStages
    <2>2. Follows(s.stage, Stage)
      BY <1>3, <2>1
    <2>3. Pos(s.stage) >= 9
      <3>1. "checkpoint:pr-completed" \in Stages /\ ~ LeftOut("checkpoint:pr-completed")
        BY DEF Stages, Gates, LeftOut
      <3> QED
        BY <1>5, <2>2, <3>1, Positions DEF Follows
    <2>4. CASE Pos(s.stage) = 9
      <3>1. s.stage = "checkpoint:pr-completed"
        BY <1>5, <2>4, StageAt, DefaultTuple
      <3> QED
        BY <1>3, <3>1 DEF Gates
    <2>5. CASE Pos(s.stage) >= 10
      BY <1>5, <2>5 DEF StraightRow, HaltOK
    <2> QED
      BY <1>5, <2>3, <2>4, <2>5
  <1>7. s.cp = "pr-published" => Stage = "checkpoint:pr-published"
    <2> SUFFICES ASSUME s.cp = "pr-published" PROVE Stage = "checkpoint:pr-published"
      OBVIOUS
    <2>1. s.stage = "checkpoint:pr-published"
      BY <1>5 DEF StraightRow, HaltOK
    <2> QED
      BY <1>3, <2>1 DEF Gates
  <1>8. HaltOK(row, owed)
    <2>1. s.done => Stage = "docs-writer" /\ Pos(Stage) >= 10
      BY <1>3, Positions DEF RunOK
    <2> QED
      BY <1>1, <1>3, <1>5, <1>6, <1>7, <2>1 DEF HaltOK, StraightRow, RunOK, SameHalt
  <1>9. ASSUME FixesCode
        PROVE  /\ AheadOK(row) /\ PlanOK(row, approved)
               /\ Pos(Stage) <= 3 => Pos(s.stage) <= 3
               /\ Pos(s.stage) >= 3 => Pos(Stage) >= 3
    <2>1. /\ owed # "planning"
          /\ Pos(s.stage) <= 3 => owed = "none"
      BY <1>3, <1>9 DEF NInv, OrderInv, Ahead
    <2>2. owed # "none" => owed \in {"coding", "test-cases"}
      BY <2>1, OrderTypes DEF Loops
    <2>3. owed # "none" => Pos(s.stage) > 3
      BY <1>5, <2>1
    <2>4. Pos("coding") = 4 /\ Pos("test-cases") = 5
      BY Positions
    <2>5. CASE owed # "none"
      BY <1>1, <1>3, <1>4, <1>5, <1>9, <2>2, <2>3, <2>4, <2>5 DEF AheadOK, PlanOK
    <2>6. CASE owed = "none"
      <3>1. Pos(s.stage) <= Pos(Stage)
        BY <1>3, <1>5, <2>6 DEF Follows
      <3>2. Pos(s.stage) <= 3 => s.code = NoPlan
        BY <1>5, <1>9 DEF StraightRow, AheadOK
      <3> QED
        BY <1>1, <1>3, <1>5, <1>9, <3>1, <3>2 DEF AheadOK, PlanOK
    <2> QED
      BY <2>5, <2>6
  <1>10. StraightRow(row, owed, approved)
    BY <1>8, <1>9 DEF StraightRow
  <1>11. ASSUME FixesCode
         PROVE  /\ owed # "planning"
                /\ Pos(row.stage) <= 3 => asks = {} /\ owed = "none"
                /\ planTag => Pos(row.stage) >= 3 /\ row.plan \in approved
    BY <1>1, <1>3, <1>9, <1>11 DEF NInv, OrderInv, Ahead
  <1>12. CASE Stop(row, "failed")
    BY <1>2, <1>10, <1>11, <1>12, OrderHalts DEF Stop
  <1>13. CASE /\ db' = row /\ s' = row /\ pre' = row /\ pc' = "stage"
              /\ UNCHANGED << i, cmd, sig, exit >>
    <2>1. Stage' = Stage
      BY <1>13 DEF Stage
    <2>2. RunOK(row, cmd, db.done) /\ row.done = db.done
      BY <1>1, <1>3 DEF RunOK, SameHalt
    <2>3. StraightRows' /\ Underway'
      BY <1>2, <1>3, <1>10, <1>13, <2>1, <2>2 DEF StraightRows, Underway
    <2>4. Coming' /\ Going'
      BY <1>13 DEF Coming, Going
    <2>5. Ahead'
      BY <1>2, <1>11, <1>13 DEF Ahead
    <2> QED
      BY <2>3, <2>4, <2>5 DEF OrderInv
  <1> QED
    BY <1>2, <1>12, <1>13

LEMMA RunPlainStageOrder == ASSUME NInv, RunPlainStage PROVE OrderInv'
  <1> DEFINE q == PlainOutputs(Stage, s)
  <1>1. /\ pc = "stage" /\ Stage \in PlainStages /\ Return(q, "none")
        /\ UNCHANGED << planTag, asks, approved, owed >>
    BY DEF RunPlainStage, ghosts
  <1>2. q \in State /\ Carries(q, s)
    BY OrderTypes, PlainOutputsType, PlainCarries
  <1> HIDE DEF q
  <1>3. /\ StraightRow(q, owed, approved) /\ RunOK(q, cmd, db.done) /\ q.stage = Stage
    BY <1>1, <1>2, OrderTypes, OrderAt, CarriesStraight, CarriesRuns DEF Carries, SamePlace
  <1>4. Stage \notin Gates /\ Stage # PlanGate
    BY <1>1 DEF PlainStages, Gates, PlanGate
  <1>5. FixesCode => owed # "planning" /\ (Pos(Stage) <= 3 => owed = "none")
    BY <1>1, OrderAt DEF NInv, OrderInv, Ahead
  <1> QED
    BY <1>1, <1>2, <1>3, <1>4, <1>5, OrderTypes, OrderReturns

\* Where a stage that is no loop fails, the plan has not changed.
LEMMA StageFails ==
  ASSUME NInv, pc = "stage", NEW type, type # "none", Fail(s, type), UNCHANGED << owed, planTag, approved >>
  PROVE  OrderInv'
  <1>1. FixesCode /\ planTag => s.plan \in approved
    BY OrderAt DEF NInv, OrderInv, Ahead
  <1> QED
    BY <1>1, OrderTypes, CarriesSelf, OrderFails

LEMMA FailPlainStageOrder == ASSUME NInv, FailPlainStage PROVE OrderInv'
  BY StageFails DEF FailPlainStage, ghosts

LEMMA FailGateOrder == ASSUME NInv, FailGate PROVE OrderInv'
  BY StageFails DEF FailGate, ghosts

\* A loop starts an attempt over the row it was given.
LEMMA StartsOrder ==
  ASSUME NInv, pc \in {"stage", "review"}, NEW l \in Loops, Stage = l, NEW row \in State, Carries(row, s),
         NEW n, StartAttempt(l, n, row), UNCHANGED << planTag, asks, approved, owed >>
  PROVE  OrderInv'
  <1> DEFINE q == RecordAttempt(l, n, row)
  <1>1. s' = q /\ db' \in {q, db} /\ pc' = "produce" /\ UNCHANGED << pre, i, cmd >>
    BY DEF StartAttempt
  <1>2. Carries(q, s)
    BY RecordCarries, CarriesOn
  <1> HIDE DEF q
  <1>3. /\ StraightRow(q, owed, approved) /\ RunOK(q, cmd, db.done) /\ q.stage = Stage
        /\ StraightRow(db, owed, approved) /\ StraightRow(pre, owed, approved)
    BY <1>2, OrderTypes, OrderAt, CarriesStraight, CarriesRuns DEF Carries, SamePlace
  <1>4. FixesCode => owed # "planning" /\ (Pos(Stage) <= 3 => owed = "none")
    BY OrderAt DEF NInv, OrderInv, Ahead
  <1>5. FixesCode /\ planTag => q.plan \in approved /\ db.plan \in approved
    BY <1>2, TagAtLoop DEF Carries
  <1> QED
    BY <1>1, <1>3, <1>4, <1>5, OrderWorks

LEMMA EnterLoopOrder == ASSUME NInv, NEW l \in Loops, EnterLoop(l) PROVE OrderInv'
  <1> DEFINE row == Entered(l, s)
             n == PriorAttempts(l, s) + 1
  <1>1. /\ pc = "stage" /\ Stage = l /\ UNCHANGED << planTag, approved, owed >>
        /\ \/ Fail(row, "revision-exhausted")
           \/ Fail(s, "needs-input")
           \/ StartAttempt(l, n, row) /\ asks' = asks
    BY DEF EnterLoop, world, ghosts
  <1>2. s \in State /\ row \in State /\ Carries(row, s)
    BY OrderTypes, EnteredType, EnteredCarries
  <1> HIDE DEF row, n
  <1>3. FixesCode /\ planTag => s.plan \in approved
    BY <1>1, TagAtLoop
  <1>4. CASE Fail(row, "revision-exhausted")
    BY <1>1, <1>2, <1>3, <1>4, OrderFails
  <1>5. CASE Fail(s, "needs-input")
    BY <1>1, <1>2, <1>3, <1>5, CarriesSelf, OrderFails
  <1>6. CASE StartAttempt(l, n, row) /\ asks' = asks
    BY <1>1, <1>2, <1>6, StartsOrder
  <1> QED
    BY <1>1, <1>4, <1>5, <1>6

LEMMA ReviewOrder == ASSUME NInv, NEW l \in Loops, Review(l) PROVE OrderInv'
  <1>1. pc = "review" /\ Stage = l /\ UNCHANGED << planTag, approved, owed >>
    BY DEF Review, world, ghosts
  <1>2. PICK v \in {"approve", "revise"}, fell \in BOOLEAN :
          LET row  == Reviewed(l, v, s)
              next == IF Converges(l, cmd) THEN Counted(l, fell, row) ELSE row
          IN  \/ Return(Approved(l, row), "none") /\ asks' = asks
              \/ Return(Escalated(l, next), "pause") /\ asks' = asks
              \/ StartAttempt(l, next.attempts[l] + 1, next) /\ asks' = asks
              \/ Fail(next, "revision-exhausted")
    BY DEF Review, world, ghosts
  <1> DEFINE row == Reviewed(l, v, s)
             next == IF Converges(l, cmd) THEN Counted(l, fell, row) ELSE row
             n == next.attempts[l] + 1
  <1>3. s \in State /\ row \in State /\ Carries(row, s)
    BY OrderTypes, ReviewedType, ReviewedCarries
  <1>4. \/ Return(Approved(l, row), "none") /\ asks' = asks
        \/ Return(Escalated(l, next), "pause") /\ asks' = asks
        \/ StartAttempt(l, n, next) /\ asks' = asks
        \/ Fail(next, "revision-exhausted")
    BY <1>2
  <1> HIDE DEF row
  <1>5. next \in State /\ Carries(next, s)
    <2>1. Counted(l, fell, row) \in State /\ Carries(Counted(l, fell, row), row)
      BY <1>3, CountedType, CountedCarries
    <2> QED
      BY <1>3, <2>1, CarriesOn
  <1> HIDE DEF n, next
  <1>6. /\ FixesCode => owed # "planning" /\ (Pos(Stage) <= 3 => owed = "none")
        /\ FixesCode /\ planTag => s.plan \in approved
        /\ Stage \notin Gates /\ Stage # PlanGate
    BY <1>1, OrderAt, TagAtLoop DEF NInv, OrderInv, Ahead, Loops, Gates, PlanGate
  <1>7. /\ StraightRow(db, owed, approved) /\ StraightRow(s, owed, approved) /\ RunOK(s, cmd, db.done)
        /\ s.stage = Stage /\ s.target = "none"
    BY <1>1, OrderTypes, OrderAt
  <1>8. CASE Return(Approved(l, row), "none") /\ asks' = asks
    <2> DEFINE q == Approved(l, row)
    <2>1. q \in State /\ Carries(q, s)
      BY <1>3, ApprovedType, ApprovedCarries, CarriesOn
    <2>2. Return(q, "none") /\ asks' = asks
      BY <1>8
    <2> HIDE DEF q
    <2>3. StraightRow(q, owed, approved) /\ RunOK(q, cmd, db.done) /\ q.stage = Stage
      BY <1>7, <2>1, CarriesStraight, CarriesRuns DEF Carries, SamePlace
    <2> QED
      BY <1>1, <1>6, <1>7, <2>1, <2>2, <2>3, OrderReturns
  <1>9. CASE Return(Escalated(l, next), "pause") /\ asks' = asks
    <2> DEFINE q == Escalated(l, next)
    <2>1. /\ q \in State /\ q.stage = next.stage /\ q.target = next.target /\ q.err = next.err
          /\ q.errAt = next.errAt /\ q.done = next.done /\ q.plan = next.plan /\ q.code = next.code
          /\ q.cp \in {"convergence:planning", "convergence:coding"}
      <3>1. PICK c : c = ConvergenceName(l)
        OBVIOUS
      <3>2. q = [next EXCEPT !.cp = c, !.esc = l]
        BY <3>1 DEF Escalated
      <3>3. q \in State
        BY <1>5, EscalatedType
      <3> HIDE DEF q
      <3>4. /\ q.stage = next.stage /\ q.target = next.target /\ q.err = next.err
            /\ q.errAt = next.errAt /\ q.done = next.done /\ q.plan = next.plan /\ q.code = next.code
            /\ q.cp = c
        BY <1>5, <3>2 DEF State
      <3> QED
        BY <3>1, <3>3, <3>4 DEF ConvergenceName
    <2>2. Return(q, "pause") /\ asks' = asks
      BY <1>9
    <2> HIDE DEF q
    <2>3. StraightRow(next, owed, approved) /\ RunOK(next, cmd, db.done) /\ next.stage = Stage
          /\ next.target = "none"
      BY <1>5, <1>7, CarriesStraight, CarriesRuns DEF Carries, SamePlace
    <2>4. ~ (Pos(Stage) >= 10)
      BY <1>1, LoopStages
    <2>5. StraightRow(q, owed, approved)
      BY <2>1, <2>3, <2>4 DEF StraightRow, HaltOK, AheadOK, PlanOK
    <2>6. RunOK(q, cmd, db.done) /\ q.stage = Stage
      BY <2>1, <2>3 DEF RunOK
    <2> QED
      BY <1>1, <1>6, <1>7, <2>1, <2>2, <2>5, <2>6, OrderReturns
  <1>10. CASE StartAttempt(l, n, next) /\ asks' = asks
    BY <1>1, <1>5, <1>10, StartsOrder
  <1>11. CASE Fail(next, "revision-exhausted")
    BY <1>1, <1>3, <1>5, <1>6, <1>11, OrderFails
  <1> QED
    BY <1>4, <1>8, <1>9, <1>10, <1>11

LEMMA FailLoopOrder == ASSUME NInv, NEW l \in Loops, FailLoop(l) PROVE OrderInv'
  <1>1. /\ pc \in {"produce", "review"} /\ Stage = l /\ UNCHANGED << owed, planTag, approved >>
        /\ Fail(s, "unknown") \/ Fail(pre, "unknown")
    BY DEF FailLoop, ghosts
  <1>2. s \in State /\ pre \in State /\ Carries(s, s) /\ Carries(pre, pre)
    BY OrderTypes, CarriesSelf
  <1>3. FixesCode /\ planTag => s.plan \in approved /\ pre.plan \in approved
    BY <1>1, TagAtLoop
  <1>4. CASE Fail(s, "unknown")
    BY <1>1, <1>2, <1>3, <1>4, OrderFails
  <1>5. CASE Fail(pre, "unknown")
    BY <1>1, <1>2, <1>3, <1>5, OrderFails
  <1> QED
    BY <1>1, <1>4, <1>5

LEMMA ProduceOrder == ASSUME NInv, NEW l \in Loops, Produce(l) PROVE OrderInv'
  <1>1. /\ pc = "produce" /\ Stage = l /\ pc' = "review" /\ db' \in {s', db}
        /\ UNCHANGED << pre, i, cmd, planTag, asks >>
        /\ owed' = (IF owed = l THEN "none" ELSE owed)
        /\ l # "planning" => approved' = approved
    BY DEF Produce, world
  <1>2. PICK p \in IF l = "planning" THEN FreshPlans ELSE {NoPlan}, built \in BOOLEAN,
             tests \in IF l = "test-cases" THEN TestOutputs ELSE {"none"} :
          s' = Produced(l, p, built, tests, s)
    BY DEF Produce
  <1> DEFINE q == Produced(l, p, built, tests, s)
  <1>3. /\ SamePlace(q, s) /\ SameHalt(q, s) /\ q.done = s.done
        /\ l # "planning" => q.plan = s.plan
        /\ l # "coding" => q.code = s.code
    BY OrderTypes DEF Produced, State, SamePlace, SameHalt
  <1>4. s' = q
    BY <1>2
  <1> HIDE DEF q
  <1>5. owed' = "none"
    BY <1>1 DEF NInv, OInv, OwingInv, Owing
  <1>6. l # "planning" /\ l # "coding" => Pos(l) = 5
    BY Positions DEF Loops
  <1>7. Pos("planning") = 2 /\ Pos("coding") = 4
    BY Positions
  <1>8. /\ db.stage = l /\ s.stage = l /\ pre.stage = l
        /\ db.target = "none" /\ s.target = "none" /\ pre.target = "none"
        /\ RunOK(s, cmd, db.done)
        /\ StraightRow(db, owed, approved) /\ StraightRow(s, owed, approved)
        /\ StraightRow(pre, owed, approved)
    BY <1>1, OrderTypes, OrderAt
  <1>9. /\ HaltOK(db, owed') /\ HaltOK(pre, owed') /\ HaltOK(q, owed')
    BY <1>3, <1>8 DEF StraightRow, HaltOK, SamePlace, SameHalt
  <1>10. ASSUME FixesCode
         PROVE  /\ AheadOK(db) /\ AheadOK(pre) /\ AheadOK(q)
                /\ PlanOK(db, approved') /\ PlanOK(pre, approved') /\ PlanOK(q, approved')
    <2>1. CASE l = "planning"
      BY <1>3, <1>7, <1>8, <1>10, <2>1 DEF StraightRow, AheadOK, PlanOK, SamePlace
    <2>2. CASE l # "planning"
      BY <1>1, <1>3, <1>6, <1>7, <1>8, <1>10, <2>2 DEF StraightRow, AheadOK, PlanOK, SamePlace
    <2> QED
      BY <2>1, <2>2
  <1>11. \A r \in {db, pre, q} : StraightRow(r, owed', approved')
    BY <1>9, <1>10 DEF StraightRow
  <1>12. FixesCode /\ planTag => q.plan \in approved' /\ db.plan \in approved'
    BY <1>1, <1>3, <1>7, TagAtLoop
  <1>13. RunOK(q, cmd, db.done) /\ q.stage = Stage
    BY <1>1, <1>3, <1>8 DEF RunOK, SamePlace, SameHalt
  <1> QED
    BY <1>1, <1>4, <1>5, <1>11, <1>12, <1>13, OrderWorks

LEMMA GateAt == ASSUME NEW gate \in Gates PROVE Pos(gate) \in {3, 7, 9} /\ (Pos(gate) = 3 => gate = PlanGate)
  BY Positions DEF Gates, PlanGate

LEMMA GateRewindOrder == ASSUME NInv, GateRewind PROVE OrderInv'
  <1>1. /\ pc = "stage" /\ Stage \in Gates /\ Commented(Stage) /\ asks' = asks /\ approved' = approved
        /\ (\E b \in BOOLEAN : planTag' = (planTag /\ b)) \/ planTag' = planTag
    BY DEF GateRewind
  <1>2. planTag' => planTag
    BY <1>1, Zenon
  <1>3. PICK hit : hit = FirstMatch(Stage)
    OBVIOUS
  <1> DEFINE b == hit[1] # "/rerun-plan"
             l == hit[2]
             q == [s EXCEPT !.cp = "none", !.rerun = b, !.target = l, !.feedback = TRUE]
  <1>4. Return(q, "rewind") /\ owed' = l
    BY <1>3 DEF GateRewind
  <1>5. PICK gate \in Gates : gate = Stage
    BY <1>1
  <1>6. /\ l \in {"planning", "coding"}
        /\ hit[1] = (IF l = "planning" THEN "/rerun-plan" ELSE "/fix") /\ hit[1] \in asks
        /\ Pos(l) < Pos(gate)
    BY <1>1, <1>3, <1>5, RewindsBack
  <1>7. FixesCode => l = "coding" /\ Pos(Stage) > 3
    <2>1. FixesCode => l = "coding"
      BY <1>6, OrderTypes DEF FixesCode
    <2>2. l = "coding" => Pos(gate) > 3
      BY <1>6, GateAt, Positions
    <2> QED
      BY <1>5, <2>1, <2>2
  <1>8. q \in State
    BY <1>6, OrderTypes, SetRewind DEF Loops
  <1> HIDE DEF b
  <1>9. /\ q.stage = s.stage /\ q.cp = "none" /\ q.err = s.err /\ q.errAt = s.errAt
        /\ q.target = l /\ q.done = s.done /\ q.plan = s.plan /\ q.code = s.code
    BY OrderTypes DEF State
  <1> HIDE DEF q, l
  <1>10. /\ StraightRow(s, owed, approved) /\ StraightRow(db, owed, approved)
         /\ s.stage = Stage /\ db.target = "none" /\ RunOK(s, cmd, db.done)
         /\ ~ db.done
    BY <1>1, OrderTypes, OrderAt DEF Gates
  <1>11. Stage \in Stages /\ ~ (Pos(Stage) >= 10)
    BY <1>5, GateAt, OrderTypes
  <1>12. StraightRow(q, owed', approved)
    <2>1. HaltOK(q, owed')
      BY <1>4, <1>9, <1>10, <1>11 DEF StraightRow, HaltOK, RunOK
    <2>2. ASSUME FixesCode PROVE AheadOK(q) /\ PlanOK(q, approved)
      <3>1. ~ (Pos(Stage) <= 3)
        BY <1>7, <1>11, <2>2, StageAt
      <3> QED
        BY <1>7, <1>9, <1>10, <2>2, <3>1 DEF StraightRow, AheadOK, PlanOK
    <2> QED
      BY <2>1, <2>2 DEF StraightRow
  <1>13. StraightRow(db, owed', approved)
    BY <1>10 DEF StraightRow, HaltOK
  <1>14. RunOK(q, cmd, db.done) /\ q.stage = Stage
    BY <1>9, <1>10 DEF RunOK
  <1>15. FixesCode => owed' # "planning" /\ (Pos(Stage) <= 3 => owed' = "none")
    BY <1>4, <1>7, <1>11, StageAt
  <1>16. FixesCode => Stage # PlanGate
    BY <1>7, Positions DEF PlanGate
  <1> QED
    BY <1>1, <1>2, <1>4, <1>8, <1>12, <1>13, <1>14, <1>15, <1>16, OrderReturns

\* A gate that is passed or paused at changes the checkpoint only.
LEMMA GateStays ==
  ASSUME NInv, pc = "stage", Stage \in Gates, NEW c \in CheckpointNames \cup {"none"}, NEW signal \in {"none", "pause"},
         Return([s EXCEPT !.cp = c], signal), UNCHANGED << planTag, asks, approved, owed >>,
         c = "pr-published" => Stage = "checkpoint:pr-published",
         signal = "none" => c = "none" /\ Satisfied(Stage)
  PROVE  OrderInv'
  <1> DEFINE q == [s EXCEPT !.cp = c]
  <1>1. q \in State /\ Return(q, signal)
    BY OrderTypes, SetCheckpoint
  <1>2. /\ q.stage = s.stage /\ q.cp = c /\ q.err = s.err /\ q.errAt = s.errAt
        /\ q.target = s.target /\ q.done = s.done /\ q.plan = s.plan /\ q.code = s.code
    BY OrderTypes DEF State
  <1> HIDE DEF q
  <1>3. /\ StraightRow(s, owed, approved) /\ StraightRow(db, owed, approved)
        /\ s.stage = Stage /\ s.target = "none" /\ db = s /\ RunOK(s, cmd, db.done) /\ ~ db.done
    BY OrderTypes, OrderAt DEF Gates
  <1>4. ~ (Pos(Stage) >= 10)
    <2>1. PICK gate \in Gates : gate = Stage
      OBVIOUS
    <2> QED
      BY <2>1, GateAt
  <1>5. StraightRow(q, owed, approved)
    BY <1>2, <1>3, <1>4 DEF StraightRow, HaltOK, AheadOK, PlanOK, RunOK
  <1>6. RunOK(q, cmd, db.done) /\ q.stage = Stage
    BY <1>2, <1>3 DEF RunOK
  <1>7. FixesCode => owed # "planning" /\ (Pos(Stage) <= 3 => owed = "none")
    BY <1>3 DEF NInv, OrderInv, Ahead
  <1>8. FixesCode /\ Stage = PlanGate /\ (signal = "none" \/ planTag) => q.plan \in approved
    <2>1. Satisfied(PlanGate) = planTag
      BY DEF Satisfied, PlanGate
    <2>2. FixesCode /\ planTag => db.plan \in approved
      BY DEF NInv, OrderInv, Ahead
    <2> QED
      BY <1>2, <1>3, <2>1, <2>2
  <1> QED
    BY <1>1, <1>2, <1>3, <1>5, <1>6, <1>7, <1>8, OrderReturns

LEMMA GatePassOrder == ASSUME NInv, GatePass PROVE OrderInv'
  BY GateStays DEF GatePass, world, ghosts

LEMMA GatePauseOrder == ASSUME NInv, GatePause PROVE OrderInv'
  <1>1. PICK c : c = CheckpointName(Stage)
    OBVIOUS
  <1>2. /\ pc = "stage" /\ Stage \in Gates /\ Return([s EXCEPT !.cp = c], "pause")
        /\ UNCHANGED << planTag, asks, approved, owed >>
    BY <1>1 DEF GatePause, world, ghosts
  <1>3. c \in CheckpointNames /\ (c = "pr-published" => Stage = "checkpoint:pr-published")
    BY <1>1 DEF CheckpointName, CheckpointNames
  <1> QED
    BY <1>2, <1>3, GateStays

LEMMA SaveResultOrder == ASSUME NInv, SaveResult PROVE OrderInv'
  <1>1. /\ pc = "leave" /\ db' = s /\ pc' = "notify" /\ asks' \in {asks, {}}
        /\ UNCHANGED << s, pre, i, cmd, sig, planTag, approved, owed >>
    BY DEF SaveResult, ghosts
  <1>2. Stage' = Stage /\ s.stage = db.stage
    BY <1>1 DEF Stage, NInv, OInv, CInv, CourseInv, InStep
  <1>3. /\ RunOK(s, cmd, db.done) /\ RunOK(pre, cmd, db.done) /\ s.done = db.done
        /\ db.done => cmd = "continue" /\ Stage = "docs-writer"
    BY <1>1 DEF NInv, OrderInv, Underway, RunOK
  <1>4. StraightRows' /\ Underway'
    BY <1>1, <1>2, <1>3 DEF NInv, OrderInv, StraightRows, Underway
  <1>5. Coming' /\ Going'
    BY <1>1, <1>2 DEF NInv, OrderInv, Coming, Going
  <1>6. FixesCode /\ planTag => s.plan \in approved
    <2>1. ASSUME FixesCode, planTag PROVE s.plan \in approved
      <3>1. Pos(Stage) >= 3 /\ Stage \in Stages
        BY <1>1, <1>2, <2>1, OrderTypes DEF NInv, OInv, CInv, CourseInv, InStep, OrderInv, Ahead
      <3>2. StraightRow(s, owed, approved) /\ s.stage = Stage
        BY <1>1, OrderTypes DEF NInv, OInv, CInv, CourseInv, InStep
      <3>3. CASE Pos(Stage) >= 4
        BY <2>1, <3>2, <3>3 DEF StraightRow, PlanOK
      <3>4. CASE Pos(Stage) = 3
        <4>1. Stage = PlanGate
          BY <3>1, <3>4, StageAt, DefaultTuple DEF PlanGate
        <4> QED
          BY <1>1, <2>1, <4>1 DEF NInv, OrderInv, Going
      <3> QED
        BY <3>1, <3>3, <3>4, StageAt
    <2> QED
      BY <2>1
  <1>7. Ahead'
    BY <1>1, <1>2, <1>6 DEF NInv, OrderInv, Ahead
  <1> QED
    BY <1>4, <1>5, <1>7 DEF OrderInv

\* The last stage of the list that a continue runs.
LEMMA LastStage ==
  ASSUME NInv, i = Len(StageList(cmd))
  PROVE  Pos(Stage) >= 10 /\ (cmd = "continue" => Stage = "docs-writer")
  <1>1. i \in 1..Len(StageList(cmd))
    BY OrderTypes
  <1>2. Pos(Stage) >= 10
    BY <1>1, StageListOrder DEF Stage
  <1>3. cmd = "continue" => Stage = DefaultStages[11]
    BY DefaultTuple DEF Stage, StageList
  <1> QED
    BY <1>2, <1>3, DefaultTuple

LEMMA NotifyOrder == ASSUME NInv, Notify PROVE OrderInv'
  <1>1. /\ pc = "notify" /\ UNCHANGED << planTag, asks, approved, owed >>
        /\ \/ sig = "pause" /\ Stop(s, "ok")
           \/ /\ sig = "rewind"
              /\ s' = [s EXCEPT !.target = "none"] /\ pre' = s'
              /\ i' = StageIndex(StageList(cmd), s.target)
              /\ pc' = "enter" /\ UNCHANGED << db, cmd >>
           \/ /\ sig = "none" /\ i < Len(StageList(cmd))
              /\ i' = i + 1 /\ pc' = "enter"
              /\ UNCHANGED << db, s, pre, cmd >>
           \/ /\ sig = "none" /\ i = Len(StageList(cmd))
              /\ Stop([s EXCEPT !.done = TRUE], "ok")
    BY DEF Notify, ghosts
  <1>2. /\ db = s /\ s.stage = Stage /\ s \in State /\ Stage \in Stages /\ pre = s
        /\ sig # "rewind" => s.target = "none"
        /\ sig = "rewind" => Stage \in Gates
        /\ sig = "none" /\ Stage \in Gates => s.cp = "none"
        /\ FixesCode /\ Stage = PlanGate /\ sig = "none" => s.plan \in approved
    BY <1>1, OrderTypes DEF NInv, OInv, CInv, CourseInv, InStep, Leaving, OrderInv, Going
  <1>3. /\ StraightRow(s, owed, approved) /\ RunOK(s, cmd, db.done)
        /\ db.done => cmd = "continue" /\ Stage = "docs-writer"
    BY <1>1, OrderTypes DEF NInv, OrderInv, Underway
  <1>4. FixesCode =>
          /\ owed # "planning"
          /\ Pos(Stage) <= 3 => asks = {} /\ owed = "none"
          /\ planTag => Pos(Stage) >= 3 /\ s.plan \in approved
    BY <1>2 DEF NInv, OrderInv, Ahead
  <1>5. Pos(Stage) \in 1..11
    BY <1>2, StageAt
  <1>6. CASE sig = "pause" /\ Stop(s, "ok")
    BY <1>1, <1>2, <1>3, <1>4, <1>6, OrderHalts DEF Stop
  <1>7. CASE /\ sig = "rewind"
             /\ s' = [s EXCEPT !.target = "none"] /\ pre' = s'
             /\ i' = StageIndex(StageList(cmd), s.target)
             /\ pc' = "enter" /\ UNCHANGED << db, cmd >>
    <2> DEFINE q == [s EXCEPT !.target = "none"]
    <2>1. /\ q.stage = s.stage /\ q.target = "none" /\ SameHalt(q, s) /\ q.done = s.done
          /\ q.plan = s.plan /\ q.code = s.code
      BY <1>2 DEF State, SameHalt
    <2>2. s' = q /\ pre' = q
      BY <1>7
    <2> HIDE DEF q
    <2>3. Stage' = s.target /\ s.target \in {"planning", "coding"}
      BY <1>1, <1>7, RewindLands DEF NInv, OInv, CInv
    <2>4. owed = s.target /\ s.cp = "none"
      BY <1>3, <2>3 DEF StraightRow, HaltOK
    <2>5. ~ db.done
      BY <1>2, <1>3, <1>7 DEF Gates
    <2>6. StraightRow(q, owed, approved) /\ RunOK(q, cmd, db.done)
      BY <1>3, <2>1 DEF StraightRow, HaltOK, AheadOK, PlanOK, RunOK, SameHalt
    <2>7. FixesCode => q.plan \in approved
      <3>1. FixesCode => ~ (Pos(Stage) <= 3)
        BY <1>2, <1>3, <2>3 DEF StraightRow, AheadOK
      <3> QED
        BY <1>2, <1>3, <1>5, <2>1, <3>1 DEF StraightRow, PlanOK
    <2>8. StraightRows' /\ Underway'
      BY <1>1, <1>2, <1>3, <1>7, <2>2, <2>5, <2>6 DEF StraightRows, Underway
    <2>9. Coming'
      BY <1>1, <1>2, <1>7, <2>1, <2>2, <2>3, <2>4, <2>5, <2>7 DEF Coming, SameHalt
    <2>10. Going' /\ Ahead'
      BY <1>1, <1>7 DEF NInv, OrderInv, Going, Ahead
    <2> QED
      BY <2>8, <2>9, <2>10 DEF OrderInv
  <1>8. CASE /\ sig = "none" /\ i < Len(StageList(cmd)) /\ i' = i + 1 /\ pc' = "enter"
             /\ UNCHANGED << db, s, pre, cmd >>
    <2>1. PICK q \in Stages : q = StageList(cmd)[i + 1] /\ Follows(Stage, q)
      <3>1. i \in 1..Len(StageList(cmd)) /\ Len(StageList(cmd)) \in Nat
        BY OrderTypes, StageListType
      <3> QED
        BY <1>8, <3>1, StageListOrder, StageListType DEF Stage
    <2>2. Stage' = q
      BY <1>8, <2>1 DEF Stage
    <2>3. Pos(q) \in 1..11 /\ Pos(Stage) < Pos(q)
      BY <2>1, StageAt DEF Follows
    <2>4. ~ db.done
      BY <1>3, <2>3, Positions
    <2>5. FixesCode /\ Pos(q) >= 4 => s.plan \in approved
      <3>1. PlanGate \in Stages /\ Pos(PlanGate) = 3 /\ ~ LeftOut(PlanGate)
        BY Positions DEF PlanGate, Stages, Gates, LeftOut
      <3>2. Pos(q) >= 4 => Pos(Stage) >= 3
        BY <1>5, <2>1, <2>3, <3>1 DEF Follows
      <3>3. CASE Pos(Stage) >= 4
        BY <1>2, <1>3, <3>3 DEF StraightRow, PlanOK
      <3>4. CASE Pos(Stage) = 3
        <4>1. Stage = PlanGate
          BY <1>2, <3>4, StageAt, DefaultTuple DEF PlanGate
        <4> QED
          BY <1>2, <1>8, <4>1
      <3> QED
        BY <1>5, <3>2, <3>3, <3>4
    <2>6. StraightRows' /\ Underway'
      BY <1>1, <1>2, <1>3, <1>8, <2>4 DEF StraightRows, Underway
    <2>7. Coming'
      BY <1>1, <1>2, <1>8, <2>1, <2>2, <2>4, <2>5 DEF Coming
    <2>8. Going' /\ Ahead'
      BY <1>1, <1>8 DEF NInv, OrderInv, Going, Ahead
    <2> QED
      BY <2>6, <2>7, <2>8 DEF OrderInv
  <1>9. CASE sig = "none" /\ i = Len(StageList(cmd)) /\ Stop([s EXCEPT !.done = TRUE], "ok")
    <2> DEFINE q == [s EXCEPT !.done = TRUE]
    <2>1. /\ q.stage = s.stage /\ q.target = s.target /\ SameHalt(q, s) /\ q.done
          /\ q.plan = s.plan /\ q.code = s.code
      BY <1>2 DEF State, SameHalt
    <2>2. db' = q /\ s' = q /\ pre' = q /\ pc' = "down"
      BY <1>9 DEF Stop
    <2> HIDE DEF q
    <2>3. Pos(Stage) >= 10 /\ (cmd = "continue" => Stage = "docs-writer")
      BY <1>9, LastStage
    <2>4. StraightRow(q, owed, approved)
      BY <1>2, <1>3, <1>9, <2>1, <2>3 DEF StraightRow, HaltOK, AheadOK, PlanOK, RunOK, SameHalt
    <2> QED
      BY <1>1, <1>2, <1>4, <2>1, <2>2, <2>4, OrderHalts
  <1> QED
    BY <1>1, <1>6, <1>7, <1>8, <1>9

LEMMA CrashOrder == ASSUME NInv, Crash PROVE OrderInv'
  <1>1. /\ db' = db /\ s' = db /\ pre' = db /\ pc' = "down" /\ UNCHANGED << owed, approved, asks, planTag >>
    BY DEF Crash, Stop, world, ghosts
  <1>2. StraightRow(db, owed, approved)
    BY OrderTypes
  <1>3. FixesCode =>
          /\ owed # "planning"
          /\ Pos(db.stage) <= 3 => asks = {} /\ owed = "none"
          /\ planTag => Pos(db.stage) >= 3 /\ db.plan \in approved
    BY DEF NInv, OrderInv, Ahead
  <1> QED
    BY <1>1, <1>2, <1>3, OrderHalts

---------------------------------------------------------------------------
(* The watcher, the humans and the first state *)

\* Nothing happens to the row.
LEMMA OrderStays ==
  ASSUME NInv, UNCHANGED << db, s, pre, pc, i, cmd, sig, owed >>, approved \subseteq approved', Ahead',
         (planTag' => planTag) \/ pc = "down"
  PROVE  OrderInv'
  <1>1. Stage' = Stage
    BY DEF Stage
  <1>2. StraightRows' /\ Underway'
    BY <1>1, OrderTypes DEF NInv, OrderInv, StraightRows, StraightRow, PlanOK, Underway
  <1>3. Coming' /\ Going'
    BY <1>1 DEF NInv, OrderInv, Coming, Going
  <1> QED
    BY <1>2, <1>3 DEF OrderInv

LEMMA OrderIdles ==
  ASSUME NInv, UNCHANGED << db, s, pre, pc, i, cmd, sig, owed, approved, asks, planTag >>
  PROVE  OrderInv'
  <1>1. Ahead'
    BY DEF NInv, OrderInv, Ahead
  <1>2. planTag' => planTag
    BY Zenon
  <1> QED
    BY <1>1, <1>2, OrderStays

LEMMA HandleOutcomeOrder == ASSUME NInv, HandleOutcome PROVE OrderInv'
  <1> DEFINE row == OutcomeRow
             q == [db EXCEPT !.err = "ContainerError", !.errAt = "container"]
  <1>1. /\ db' = row /\ s' = row /\ pre' = row /\ pc' = pc /\ exit # "none"
        /\ UNCHANGED << owed, approved, asks, planTag >>
    BY DEF HandleOutcome, ghosts
  <1>2. pc = "down" /\ db \in State /\ StraightRow(db, owed, approved)
    BY <1>1, OrderTypes DEF NInv, OInv, CInv, TypeInv
  <1>3. /\ SamePlace(q, db) /\ q.cp = db.cp /\ q.err = "ContainerError" /\ q.errAt = "container"
        /\ q.done = db.done /\ q.plan = db.plan /\ q.code = db.code
    BY <1>2 DEF State, SamePlace
  <1>4. row = db \/ (row = q /\ ~ db.done /\ db.cp = "none")
    BY DEF OutcomeRow, Failed
  <1> HIDE DEF q, row
  <1>5. StraightRow(row, owed, approved)
    BY <1>2, <1>3, <1>4 DEF StraightRow, HaltOK, AheadOK, PlanOK, SamePlace
  <1>6. row.stage = db.stage /\ row.plan = db.plan
    BY <1>3, <1>4 DEF SamePlace
  <1>7. FixesCode =>
          /\ owed # "planning"
          /\ Pos(row.stage) <= 3 => asks = {} /\ owed = "none"
          /\ planTag => Pos(row.stage) >= 3 /\ row.plan \in approved
    BY <1>6 DEF NInv, OrderInv, Ahead
  <1> QED
    BY <1>1, <1>2, <1>5, <1>7, OrderHalts

\* A row that is stopped by an error or at the plan gate and continued.
LEMMA OrderContinues ==
  ASSUME NInv, NEW row \in State, Continue(row), row \in {db, ClearError(db)},
         row = db => db.err = "none" \/ db.cp = "plan-approved",
         db.done => db.err # "none" \/ db.cp # "none",
         UNCHANGED << planTag, asks, approved, owed >>
  PROVE  OrderInv'
  <1>1. db \in State /\ StraightRow(db, owed, approved)
    BY OrderTypes
  <1>2. /\ row.stage = db.stage /\ row.target = db.target /\ row.cp = db.cp
        /\ row.done = db.done /\ row.plan = db.plan /\ row.code = db.code
        /\ \/ row.err = "none" /\ row.errAt = "none"
           \/ row.err = db.err /\ row.errAt = db.errAt /\ (db.err = "none" \/ db.cp = "plan-approved")
    BY <1>1 DEF ClearError, State
  <1>3. StraightRow(row, owed, approved)
    BY <1>1, <1>2 DEF StraightRow, HaltOK, AheadOK, PlanOK
  <1>4. RunOK(row, "continue", row.done)
    BY <1>1, <1>2 DEF StraightRow, HaltOK, RunOK
  <1>5. row.done => row.stage = "docs-writer"
    BY <1>1, <1>2 DEF StraightRow, HaltOK
  <1>6. FixesCode =>
          /\ owed # "planning"
          /\ Pos(row.stage) <= 3 => asks = {} /\ owed = "none"
          /\ planTag => Pos(row.stage) >= 3 /\ row.plan \in approved
    BY <1>2 DEF NInv, OrderInv, Ahead
  <1>7. db' = row /\ Load(row, "continue")
    BY DEF Continue
  <1> QED
    BY <1>3, <1>4, <1>5, <1>6, <1>7, OrderLoads

\* Where an item is when a command is taken up between two containers.
TakenUp(c) ==
  /\ Rerun(c) /\ c \in Inputs /\ (planTag' => planTag) /\ ~ db.done
  /\ c = "/fix" /\ FixesCode => Pos(db.stage) >= 4

LEMMA RerunOrder ==
  ASSUME NInv, NEW c \in {"/rerun-plan", "/fix"}, TakenUp(c)
  PROVE  OrderInv'
  <1> DEFINE row == ApplyRerun(c, db)
             l == RerunTarget(c, db)
  <1>1. /\ db' = row /\ Load(row, "continue") /\ asks' = {} /\ owed' = l /\ approved' = approved
        /\ c \in Inputs /\ ~ db.done /\ (c = "/fix" /\ FixesCode => Pos(db.stage) >= 4)
    BY DEF TakenUp, Rerun, Continue
  <1>10. planTag' => planTag
    BY DEF TakenUp
  <1>2. db \in State /\ StraightRow(db, owed, approved) /\ RowOK(db, Merged)
    BY OrderTypes DEF NInv, OInv, CInv, CourseInv, Rows
  <1>3. row \in State
    BY <1>2, ApplyRerunType
  <1>4. /\ row.stage = db.stage /\ row.target = l /\ row.cp = "none" /\ row.err = "none"
        /\ row.errAt = "none" /\ row.done = db.done /\ row.plan = db.plan /\ row.code = db.code
    BY <1>2 DEF ApplyRerun, State
  <1> HIDE DEF row
  <1>5. HaltOK(row, l)
    BY <1>1, <1>2, <1>4 DEF StraightRow, HaltOK
  <1>6. ASSUME FixesCode
        PROVE  Pos(db.stage) \in 4..11 /\ AheadOK(row) /\ PlanOK(row, approved) /\ l # "planning"
    <2>1. c = "/fix" /\ Pos(db.stage) \in 4..11
      <3>1. c = "/fix"
        BY <1>1, <1>6 DEF FixesCode
      <3> QED
        BY <1>1, <1>2, <1>6, <3>1, PlaceAt
    <2>2. db.plan # NoPlan
      <3>1. "planning" \in Stages /\ Pos("planning") = 2
        BY Positions DEF Stages, Loops
      <3>2. Delivered("planning", db, Merged)
        BY <2>1, <3>1, PastStage DEF NInv, OInv
      <3> QED
        BY <3>2 DEF Delivered
    <2>3. db.errAt # "planning"
      <3>1. db.errAt = "planning" => db.stage = "planning"
        BY <1>2 DEF StraightRow, HaltOK, PlanGate
      <3> QED
        BY <2>1, <3>1, Positions
    <2>4. l # "planning"
      BY <2>1, <2>2, <2>3 DEF RerunTarget, FixTarget
    <2> HIDE DEF l
    <2> QED
      BY <1>2, <1>4, <1>6, <2>1, <2>4 DEF StraightRow, AheadOK, PlanOK
  <1> HIDE DEF l
  <1>7. StraightRow(row, owed', approved)
    BY <1>1, <1>5, <1>6 DEF StraightRow
  <1>8. RunOK(row, "continue", row.done) /\ ~ row.done
    BY <1>1, <1>4 DEF RunOK
  <1>9. FixesCode =>
          /\ owed' # "planning"
          /\ Pos(row.stage) <= 3 => asks' = {} /\ owed' = "none"
          /\ planTag' => Pos(row.stage) >= 3 /\ row.plan \in approved
    BY <1>1, <1>4, <1>6, <1>10 DEF NInv, OrderInv, Ahead
  <1> QED
    BY <1>1, <1>3, <1>7, <1>8, <1>9, OrderLoads

LEMMA ScanRerunAt == ASSUME NInv, NEW c \in {"/rerun-plan", "/fix"}, ScanRerun(c) PROVE TakenUp(c)
  <1>1. /\ Rerun(c) /\ c \in heard /\ ~ db.done
        /\ (\E b \in BOOLEAN : planTag' = (planTag /\ b)) \/ planTag' = planTag
    BY DEF ScanRerun, Scannable
  <1>2. planTag' => planTag
    BY <1>1, Zenon
  <1>3. c \in asks /\ c \in Inputs
    BY <1>1, OrderTypes DEF NInv, OInv, CInv, TypeInv, TypeOK
  <1>4. FixesCode => Pos(db.stage) >= 4
    <2>1. Pos(db.stage) \in 1..11
      BY OrderTypes, PlaceAt
    <2> QED
      BY <1>3, <2>1 DEF NInv, OrderInv, Ahead
  <1> QED
    BY <1>1, <1>2, <1>3, <1>4 DEF TakenUp

LEMMA DashboardRerunAt ==
  ASSUME NInv, NEW c \in {"/rerun-plan", "/fix"}, DashboardRerun(c)
  PROVE  TakenUp(c)
  <1>1. /\ Rerun(c) /\ c \in Inputs /\ planTag' = planTag
        /\ \/ db.cp \in {"pr-published", "plan-approved"}
           \/ db.errAt \in {"planning", "coding", "draft-pr", "test-cases"}
        /\ \/ c = "/rerun-plan" \/ db.cp = "pr-published"
           \/ db.errAt \in {"coding", "draft-pr", "test-cases"}
    BY DEF DashboardRerun
  <1>2. planTag' => planTag
    BY <1>1, Zenon
  <1>3. StraightRow(db, owed, approved) /\ Pos(db.stage) \in 1..11
    BY OrderTypes, PlaceAt
  <1>4. db.errAt \in {"planning", "coding", "draft-pr", "test-cases"} => db.stage = db.errAt
    BY <1>3 DEF StraightRow, HaltOK, PlanGate
  <1>5. db.cp = "pr-published" => db.stage = "checkpoint:pr-published"
    BY <1>3 DEF StraightRow, HaltOK
  <1>6. ~ db.done
    <2>1. db.done => Pos(db.stage) >= 10 /\ db.cp = "none"
      BY <1>3 DEF StraightRow, HaltOK
    <2> QED
      BY <1>1, <1>4, <2>1, Positions
  <1>7. c = "/fix" => Pos(db.stage) >= 4
    BY <1>1, <1>4, <1>5, Positions
  <1> QED
    BY <1>1, <1>2, <1>6, <1>7 DEF TakenUp

LEMMA WatcherOrder == ASSUME NInv, NoRestart, Watcher PROVE OrderInv'
  <1>1. db \in State /\ ClearError(db) \in State /\ ClearError(db).err = "none"
    BY OrderTypes, ClearErrorType, ClearErrorSet
  <1>2. db.done => db.cp = "none"
    BY OrderTypes DEF StraightRow, HaltOK
  <1>3. CASE LoseOutcome
    BY <1>3, OrderIdles DEF LoseOutcome, world, ghosts
  <1>4. CASE ContinueTag
    <2> DEFINE row == IF db.err # "none" THEN ClearError(db) ELSE db
    <2>1. /\ Continue(row) /\ UNCHANGED << planTag, asks, approved, owed >>
          /\ db.err # "none" \/ db.cp # "none"
      BY <1>4 DEF ContinueTag, Rewindowed
    <2>2. row \in State /\ row \in {db, ClearError(db)} /\ (row = db => db.err = "none")
      BY <1>1
    <2> HIDE DEF row
    <2> QED
      BY <2>1, <2>2, OrderContinues
  <1>5. CASE ContinueApproved
    <2> DEFINE row == IF PlanTagRetry THEN ClearError(db) ELSE db
    <2>1. /\ Continue(row) /\ UNCHANGED << planTag, asks, approved, owed >>
          /\ PlanTagRetry \/ db.cp = "plan-approved"
          /\ db.err # "none" \/ db.cp # "none"
      BY <1>5 DEF ContinueApproved, Rewindowed, ghosts, PlanTagRetry, PlanTagAtGate
    <2>2. row \in State /\ row \in {db, ClearError(db)}
          /\ (row = db => db.err = "none" \/ db.cp = "plan-approved")
      BY <1>1, <2>1
    <2> HIDE DEF row
    <2> QED
      BY <2>1, <2>2, OrderContinues
  <1>6. CASE ContinueMerged
    BY <1>1, <1>6, OrderContinues DEF ContinueMerged, PrCompletedCandidate, ghosts
  <1>7. CASE ResumeOrphan
    BY <1>1, <1>7, OrderContinues DEF ResumeOrphan, ghosts
  <1>8. ~ StartFresh /\ ~ CliContinue
    BY DEF NoRestart, StartFresh, CliContinue
  <1> QED
    BY <1>3, <1>4, <1>5, <1>6, <1>7, <1>8, HandleOutcomeOrder, ScanRerunAt, DashboardRerunAt, RerunOrder
    DEF Watcher

LEMMA AskOrder == ASSUME NInv, NEW c \in {"/rerun-plan", "/fix"}, Ask(c) PROVE OrderInv'
  <1>1. /\ c \in Inputs /\ asks' = asks \cup {c}
        /\ UNCHANGED << db, s, pre, pc, i, cmd, sig, owed, approved, planTag >>
        /\ Disciplined /\ c = "/fix" => db.code # NoPlan
    BY DEF Ask, container, ghosts
  <1>2. planTag' => planTag
    BY <1>1, Zenon
  <1>3. FixesCode => ~ (Pos(db.stage) <= 3)
    <2>1. FixesCode => c = "/fix" /\ Disciplined
      BY <1>1 DEF FixesCode
    <2> QED
      BY <1>1, <2>1, OrderTypes DEF StraightRow, AheadOK
  <1>4. Ahead'
    BY <1>1, <1>3 DEF NInv, OrderInv, Ahead
  <1> QED
    BY <1>1, <1>2, <1>4, OrderStays

LEMMA ApprovePlanOrder == ASSUME NInv, ApprovePlan PROVE OrderInv'
  <1>1. /\ db.cp = "plan-approved" /\ pc = "down" /\ approved' = approved \cup {db.plan}
        /\ UNCHANGED << db, s, pre, pc, i, cmd, sig, owed, asks >>
    BY DEF ApprovePlan, Stopped, container
  <1>2. db.stage = PlanGate
    BY <1>1 DEF NInv, OInv, CInv, CourseInv, Rows, RowOK
  <1>3. Pos(db.stage) >= 3
    BY <1>2, Positions DEF PlanGate
  <1>4. Ahead'
    BY <1>1, <1>3 DEF NInv, OrderInv, Ahead
  <1> QED
    BY <1>1, <1>4, OrderStays

LEMMA HumanOrder == ASSUME NInv, Human PROVE OrderInv'
  <1>1. CASE RemoveNeedInput \/ PullRequest \/ FreeBranch
    BY <1>1, OrderIdles DEF RemoveNeedInput, PullRequest, FreeBranch, container, ghosts
  <1> QED
    BY <1>1, AskOrder, ApprovePlanOrder DEF Human

LEMMA ContainerOrder == ASSUME NInv, Container PROVE OrderInv'
  <1>1. CASE PushBranch
    BY <1>1, OrderIdles DEF PushBranch, container, ghosts
  <1> QED
    BY <1>1, EnterStageOrder, RunPlainStageOrder, FailPlainStageOrder, GateRewindOrder,
       GatePassOrder, GatePauseOrder, FailGateOrder, SaveResultOrder, NotifyOrder,
       EnterLoopOrder, ProduceOrder, ReviewOrder, FailLoopOrder DEF Container

LEMMA InitOrder == Init => NInv
  <1> SUFFICES ASSUME Init PROVE NInv
    OBVIOUS
  <1>1. OInv
    BY OwingStarts
  <1>2. /\ db = InitialState /\ s = InitialState /\ pre = InitialState /\ asks = {} /\ ~ planTag
        /\ pc = "stage" /\ owed = "none"
    BY DEF Init
  <1>3. /\ InitialState.stage = "analyzer" /\ InitialState.target = "none"
        /\ InitialState.err = "none" /\ InitialState.errAt = "none" /\ InitialState.cp = "none"
        /\ InitialState.code = NoPlan /\ ~ InitialState.done
    BY DEF InitialState
  <1>4. Pos("analyzer") = 1
    BY Positions
  <1>5. StraightRow(InitialState, owed, approved)
    BY <1>3, <1>4 DEF StraightRow, HaltOK, AheadOK, PlanOK
  <1> QED
    BY <1>1, <1>2, <1>3, <1>5 DEF NInv, OrderInv, StraightRows, Underway, RunOK, Coming, Going, Ahead

LEMMA OrderStep == NoRestart /\ NInv /\ [Next]_vars => NInv'
  <1> SUFFICES ASSUME NoRestart, NInv, [Next]_vars PROVE NInv'
    OBVIOUS
  <1>1. OInv'
    BY OwingStep DEF NInv
  <1>2. ASSUME UNCHANGED vars PROVE OrderInv'
    BY <1>2, OrderIdles DEF vars, container, world, ghosts
  <1>3. ASSUME Next PROVE OrderInv'
    BY <1>3, ContainerOrder, CrashOrder, WatcherOrder, HumanOrder DEF Next
  <1> QED
    BY <1>1, <1>2, <1>3 DEF NInv

---------------------------------------------------------------------------
(* The theorems *)

LEMMA OrderHolds == ASSUME NoRestart PROVE Spec => []NInv
  BY InitOrder, OrderStep, PTL DEF Spec

\* The plan gate holds (pipeline-definition.ts, "CHECKPOINT: Human approves plan"): where the
\* item is not started again and commands only answer a changeset, the coder never starts from
\* a plan no human approved - whatever crashes, fails, loses a save, a tag or an exit.
THEOREM PlanGateHolds == NoRestart /\ FixesCode => (Spec => []PlanApprovedBeforeCoding)
  <1> SUFFICES ASSUME NoRestart, FixesCode PROVE Spec => []PlanApprovedBeforeCoding
    OBVIOUS
  <1>1. NInv => PlanApprovedBeforeCoding
    <2> SUFFICES ASSUME NInv, pc = "produce", Stage = "coding" PROVE s.plan \in approved
      BY DEF PlanApprovedBeforeCoding
    <2>1. s.stage = "coding" /\ StraightRow(s, owed, approved)
      BY OrderAt, OrderTypes
    <2> QED
      BY <2>1, Positions DEF StraightRow, PlanOK
  <1> QED
    BY OrderHolds, <1>1, PTL

LEMMA OrderPos == \A name : Order!Pos(name) = Pos(name)
  BY DEF Order!Pos, Order!Position, Order!StageIndex, Order!DefaultStages, Order!Stages, Order!Loops,
         Order!Gates, Order!PlainStages, Pos, Position, StageIndex, DefaultStages, Stages, Loops,
         Gates, PlainStages

LEMMA OrderSets == Order!Stages = Stages /\ Order!Loops = Loops /\ Len(Order!DefaultStages) = 11
  BY DefaultTuple
  DEF Order!Stages, Order!Loops, Order!Gates, Order!PlainStages, Stages, Loops, Gates, PlainStages,
      Order!DefaultStages, DefaultStages

\* A step of the abstract course, or none.
Course == [Order!Next]_<< db.stage, db.done, owed >>

LEMMA StaysPut ==
  ASSUME db'.stage = db.stage, db'.done = db.done, owed' = owed
  PROVE  Course
  BY DEF Course

\* What fails, fails where it is.
LEMMA FailsPut ==
  ASSUME NInv, pc \in {"stage", "produce", "review"}, NEW at \in {s, pre}, NEW q \in State, Carries(q, at),
         NEW type, Fail(q, type), owed' = owed
  PROVE  Course
  <1>1. db' = [q EXCEPT !.err = type, !.errAt = Stage]
    BY DEF Fail
  <1>2. db'.stage = q.stage /\ db'.done = q.done
    BY <1>1 DEF State
  <1>3. q.stage = db.stage /\ q.done = db.done
    BY OrderAt DEF Carries, SamePlace, RunOK
  <1> QED
    BY <1>2, <1>3, StaysPut

LEMMA StartsPut ==
  ASSUME NInv, pc \in {"stage", "review"}, NEW l \in Loops, NEW row \in State, Carries(row, s),
         NEW n, StartAttempt(l, n, row), owed' = owed
  PROVE  Course
  <1>1. PICK q : q = RecordAttempt(l, n, row)
    OBVIOUS
  <1>2. db' \in {q, db}
    BY <1>1 DEF StartAttempt
  <1>3. Carries(q, s)
    BY <1>1, RecordCarries, CarriesOn
  <1>4. q.stage = db.stage /\ q.done = db.done
    BY <1>3, OrderAt DEF Carries, SamePlace, RunOK
  <1> QED
    BY <1>2, <1>4, StaysPut

\* Between a stage and one that comes no later nothing is skipped.
LEMMA NothingSkipped ==
  ASSUME NEW p \in Nat, NEW q \in Nat, q <= p + 1
  PROVE  Order!Skippable(p, q)
  <1> SUFFICES ASSUME NEW m \in Stages, p < Pos(m), Pos(m) < q PROVE FALSE
    BY OrderPos, OrderSets DEF Order!Skippable
  <1>1. Pos(m) \in 1..11
    BY StageAt
  <1> QED
    BY <1>1

LEMMA EnterStageCourses == ASSUME NInv, EnterStage PROVE Course
  <1> DEFINE row == [s EXCEPT !.stage = Stage]
  <1>1. /\ pc = "enter" /\ owed' = owed /\ db' = row
    BY DEF EnterStage, Stop, ghosts
  <1>2. db'.stage = Stage /\ db'.done = s.done
    BY <1>1, OrderTypes DEF State
  <1> HIDE DEF row
  <1>3. /\ s.stage = db.stage /\ s.done = db.done
        /\ db.done => Stage = s.stage
        /\ owed = "none" => Stage = s.stage \/ Follows(s.stage, Stage)
        /\ owed # "none" => Stage = s.stage \/ Stage = owed
    <2>1. s.target = "none" /\ s.stage = db.stage
      BY <1>1 DEF NInv, OInv, CInv, CourseInv, InStep, OrderInv, Coming
    <2> QED
      BY <1>1, <2>1 DEF NInv, OInv, OwingInv, Owing, Serving, OrderInv, Underway, RunOK, Coming
  <1>4. CASE Stage = db.stage
    BY <1>1, <1>2, <1>3, <1>4, StaysPut
  <1>5. CASE Stage # db.stage /\ owed # "none"
    <2>1. Order!Obey
      BY <1>1, <1>2, <1>3, <1>5 DEF Order!Obey
    <2> QED
      BY <2>1 DEF Course, Order!Next
  <1>6. CASE Stage # db.stage /\ owed = "none"
    <2>1. Follows(db.stage, Stage) /\ ~ db.done /\ Stage \in Stages
      BY <1>3, <1>6, OrderTypes
    <2>2. Order!Skippable(Pos(db.stage), Pos(Stage))
      BY <2>1, OrderPos, OrderSets DEF Order!Skippable, Follows, LeftOut, Order!Optional
    <2>3. Order!Advance
      BY <1>1, <1>2, <1>3, <1>6, <2>1, <2>2, OrderPos, OrderSets DEF Order!Advance, Follows
    <2> QED
      BY <2>3 DEF Course, Order!Next
  <1> QED
    BY <1>4, <1>5, <1>6

LEMMA EnterLoopCourses == ASSUME NInv, NEW l \in Loops, EnterLoop(l) PROVE Course
  <1> DEFINE row == Entered(l, s)
             n == PriorAttempts(l, s) + 1
  <1>1. /\ pc = "stage" /\ owed' = owed
        /\ \/ Fail(row, "revision-exhausted")
           \/ Fail(s, "needs-input")
           \/ StartAttempt(l, n, row)
    BY DEF EnterLoop, ghosts
  <1>2. s \in State /\ row \in State /\ Carries(row, s)
    BY OrderTypes, EnteredType, EnteredCarries
  <1> HIDE DEF row, n
  <1> QED
    BY <1>1, <1>2, CarriesSelf, FailsPut, StartsPut

LEMMA ProduceCourses == ASSUME NInv, NEW l \in Loops, Produce(l) PROVE Course
  <1>1. /\ pc = "produce" /\ Stage = l /\ db' \in {s', db}
        /\ owed' = (IF owed = l THEN "none" ELSE owed)
    BY DEF Produce
  <1>2. PICK p, built, tests : s' = Produced(l, p, built, tests, s)
    BY DEF Produce
  <1>3. s'.stage = s.stage /\ s'.done = s.done
    BY <1>2, OrderTypes DEF Produced, State
  <1>4. db.stage = l /\ s.stage = l /\ s.done = db.done
    BY <1>1, OrderAt DEF RunOK
  <1>5. db'.stage = l /\ db'.done = db.done
    BY <1>1, <1>3, <1>4
  <1>6. CASE owed = l
    <2>1. Order!Answer
      BY <1>1, <1>4, <1>5, <1>6 DEF Order!Answer
    <2> QED
      BY <2>1 DEF Course, Order!Next
  <1>7. CASE owed # l
    BY <1>1, <1>4, <1>5, <1>7, StaysPut
  <1> QED
    BY <1>6, <1>7

LEMMA ReviewCourses == ASSUME NInv, NEW l \in Loops, Review(l) PROVE Course
  <1>1. pc = "review" /\ owed' = owed
    BY DEF Review, ghosts
  <1>2. PICK v \in {"approve", "revise"}, fell \in BOOLEAN :
          LET row  == Reviewed(l, v, s)
              next == IF Converges(l, cmd) THEN Counted(l, fell, row) ELSE row
          IN  \/ db' = db
              \/ StartAttempt(l, next.attempts[l] + 1, next)
              \/ Fail(next, "revision-exhausted")
    BY DEF Review, Return
  <1> DEFINE row == Reviewed(l, v, s)
             next == IF Converges(l, cmd) THEN Counted(l, fell, row) ELSE row
             n == next.attempts[l] + 1
  <1>3. s \in State /\ row \in State /\ Carries(row, s)
    BY OrderTypes, ReviewedType, ReviewedCarries
  <1>4. db' = db \/ StartAttempt(l, n, next) \/ Fail(next, "revision-exhausted")
    BY <1>2
  <1> HIDE DEF row
  <1>5. next \in State /\ Carries(next, s)
    <2>1. Counted(l, fell, row) \in State /\ Carries(Counted(l, fell, row), row)
      BY <1>3, CountedType, CountedCarries
    <2> QED
      BY <1>3, <2>1, CarriesOn
  <1> HIDE DEF n, next
  <1> QED
    BY <1>1, <1>4, <1>5, FailsPut, StartsPut, StaysPut

\* A command is accepted: it never sends the item past a required stage.
LEMMA Commands ==
  ASSUME ~ db.done, db'.stage = db.stage, db'.done = db.done, NEW l \in Loops, owed' = l,
         db.stage \in Stages, Pos(l) <= Pos(db.stage) + 1
  PROVE  Course
  <1>1. Pos(l) \in Nat /\ Pos(db.stage) \in Nat
    BY LoopStages, StageAt
  <1>2. Order!Command
    BY <1>1, NothingSkipped, OrderPos, OrderSets DEF Order!Command
  <1> QED
    BY <1>2 DEF Course, Order!Next

LEMMA GateRewindCourses == ASSUME NInv, GateRewind PROVE Course
  <1>1. /\ pc = "stage" /\ Stage \in Gates /\ Commented(Stage) /\ db' = db
        /\ owed' = FirstMatch(Stage)[2]
    BY DEF GateRewind, Return
  <1>2. PICK hit : hit = FirstMatch(Stage)
    OBVIOUS
  <1>3. PICK gate \in Gates : gate = Stage
    BY <1>1
  <1>4. hit[2] \in {"planning", "coding"} /\ Pos(hit[2]) < Pos(gate)
    BY <1>1, <1>2, <1>3, RewindsBack
  <1>5. PICK l \in Loops : l = hit[2] /\ Pos(l) < Pos(gate)
    BY <1>4 DEF Loops
  <1>6. db.stage = gate /\ ~ db.done /\ gate \in Stages
    BY <1>1, <1>3, OrderTypes, OrderAt DEF Gates
  <1>7. Pos(l) <= Pos(gate) + 1
    BY <1>5, <1>6, LoopStages, StageAt
  <1> QED
    BY <1>1, <1>2, <1>5, <1>6, <1>7, Commands

LEMMA NotifyCourses == ASSUME NInv, Notify PROVE Course
  <1>1. /\ pc = "notify" /\ owed' = owed
        /\ \/ db' \in {s, db}
           \/ sig = "none" /\ i = Len(StageList(cmd)) /\ db' = [s EXCEPT !.done = TRUE]
    BY DEF Notify, Stop, ghosts
  <1>2. db = s /\ s.stage = Stage /\ s \in State /\ Stage \in Stages
    BY <1>1, OrderTypes DEF NInv, OInv, CInv, CourseInv, InStep, OrderInv, Going
  <1>3. CASE db' \in {s, db}
    BY <1>1, <1>2, <1>3, StaysPut
  <1>4. CASE sig = "none" /\ i = Len(StageList(cmd)) /\ db' = [s EXCEPT !.done = TRUE]
    <2>1. db'.stage = db.stage /\ db'.done = TRUE
      BY <1>2, <1>4 DEF State
    <2>2. owed = "none"
      BY <1>1, <1>4 DEF NInv, OInv, OwingInv, Owing
    <2>3. Pos(Stage) >= 10 /\ Pos(Stage) \in 1..11
      BY <1>2, <1>4, LastStage, StageAt
    <2>4. ASSUME NEW m \in Stages, Pos(Stage) < Pos(m) PROVE m \in Order!Optional
      <3>1. Pos(m) = 11
        BY <2>3, <2>4, StageAt
      <3>2. m = "docs-writer"
        BY <3>1, StageAt, DefaultTuple
      <3> QED
        BY <3>2 DEF Order!Optional
    <2>5. Order!Skippable(Pos(db.stage), 12)
      BY <1>2, <2>4, OrderPos, OrderSets DEF Order!Skippable
    <2>6. CASE db.done = TRUE
      BY <1>1, <2>1, <2>6, StaysPut
    <2>7. CASE ~ db.done
      <3>1. Order!Finish
        BY <1>1, <2>1, <2>2, <2>5, <2>7, OrderPos, OrderSets DEF Order!Finish
      <3> QED
        BY <3>1 DEF Course, Order!Next
    <2>8. db.done \in BOOLEAN
      BY <1>2 DEF State
    <2> QED
      BY <2>6, <2>7, <2>8
  <1> QED
    BY <1>1, <1>3, <1>4

LEMMA RerunCourses ==
  ASSUME NInv, StraightCourse, NEW c \in {"/rerun-plan", "/fix"}, TakenUp(c)
  PROVE  Course
  <1>1. /\ db' = ApplyRerun(c, db) /\ owed' = RerunTarget(c, db) /\ c \in Inputs /\ ~ db.done
        /\ c = "/fix" => Pos(db.stage) >= 4
    BY DEF TakenUp, Rerun, Continue, StraightCourse
  <1>2. db \in State /\ db.stage \in Stages /\ Pos(db.stage) \in 1..11
    BY OrderTypes, PlaceAt
  <1>3. db'.stage = db.stage /\ db'.done = db.done
    BY <1>1, <1>2 DEF ApplyRerun, State
  <1>4. PICK l \in Loops : owed' = l /\ (c = "/rerun-plan" => l = "planning")
    BY <1>1, FixTargetType DEF RerunTarget, Loops
  <1>5. Pos("planning") = 2 /\ Pos(l) <= 5
    BY LoopStages, Positions
  <1>6. Pos(l) <= Pos(db.stage) + 1
    <2>1. CASE c = "/rerun-plan"
      BY <1>2, <1>4, <1>5, <2>1
    <2>2. CASE c = "/fix"
      <3>1. Pos(l) \in {2, 4, 5}
        BY LoopStages
      <3> QED
        BY <1>1, <1>2, <2>2, <3>1
    <2> QED
      BY <2>1, <2>2
  <1> QED
    BY <1>1, <1>2, <1>3, <1>4, <1>6, Commands

LEMMA ContainerCourses == ASSUME NInv, Container PROVE Course
  <1>1. s \in State /\ pre \in State /\ Carries(s, s) /\ Carries(pre, pre)
    BY OrderTypes, CarriesSelf
  <1>2. CASE FailPlainStage \/ FailGate
    <2>1. /\ pc = "stage" /\ owed' = owed
          /\ \E type \in ErrorTypes : Fail(s, type)
      BY <1>2 DEF FailPlainStage, FailGate, ghosts, ErrorTypes
    <2> QED
      BY <1>1, <2>1, FailsPut
  <1>3. ASSUME NEW l \in Loops, FailLoop(l) PROVE Course
    <2>1. /\ pc \in {"produce", "review"} /\ owed' = owed
          /\ Fail(s, "unknown") \/ Fail(pre, "unknown")
      BY <1>3 DEF FailLoop, ghosts
    <2> QED
      BY <1>1, <2>1, FailsPut
  <1>4. CASE RunPlainStage \/ GatePass \/ GatePause \/ PushBranch
    BY <1>4, StaysPut DEF RunPlainStage, GatePass, GatePause, PushBranch, Return, container, ghosts
  <1>5. CASE SaveResult
    <2>1. db' = s /\ owed' = owed /\ pc = "leave"
      BY <1>5 DEF SaveResult, ghosts
    <2>2. s.stage = db.stage /\ s.done = db.done
      BY <2>1 DEF NInv, OInv, CInv, CourseInv, InStep, OrderInv, Underway, RunOK
    <2> QED
      BY <2>1, <2>2, StaysPut
  <1> QED
    BY <1>2, <1>3, <1>4, <1>5, EnterStageCourses, GateRewindCourses, NotifyCourses,
       EnterLoopCourses, ProduceCourses, ReviewCourses DEF Container

LEMMA WatcherCourses == ASSUME NInv, StraightCourse, Watcher PROVE Course
  <1>1. db \in State
    BY OrderTypes
  <1>2. /\ ClearError(db).stage = db.stage /\ ClearError(db).done = db.done
        /\ OutcomeRow.stage = db.stage /\ OutcomeRow.done = db.done
    BY <1>1 DEF ClearError, OutcomeRow, State
  <1>3. CASE HandleOutcome \/ LoseOutcome
    BY <1>2, <1>3, StaysPut DEF HandleOutcome, LoseOutcome, ghosts
  <1>4. CASE ContinueTag \/ ContinueApproved \/ ContinueMerged \/ ResumeOrphan
    <2>1. db' \in {db, ClearError(db)} /\ owed' = owed
      BY <1>4 DEF ContinueTag, ContinueApproved, ContinueMerged, ResumeOrphan, Continue, ghosts
    <2> QED
      BY <1>2, <2>1, StaysPut
  <1>5. ~ StartFresh /\ ~ CliContinue
    BY DEF StraightCourse, NoRestart, StartFresh, CliContinue
  <1> QED
    BY <1>3, <1>4, <1>5, ScanRerunAt, DashboardRerunAt, RerunCourses DEF Watcher

LEMMA NextCourses == ASSUME NInv, StraightCourse, [Next]_vars PROVE Course
  <1>1. CASE Crash
    BY <1>1, StaysPut DEF Crash, Stop, ghosts
  <1>2. CASE Human
    BY <1>2, StaysPut DEF Human, ApprovePlan, RemoveNeedInput, PullRequest, FreeBranch, Ask, container, ghosts
  <1>3. CASE UNCHANGED vars
    BY <1>3, StaysPut DEF vars, container, ghosts
  <1> QED
    BY <1>1, <1>2, <1>3, ContainerCourses, WatcherCourses DEF Next

\* The pipeline implements the course StageOrder promises: stages are visited in order, only
\* optional ones are skipped, only a command sends the item back and never past a stage it has
\* not been through, and nothing moves on while a command waits for its answer - whatever
\* crashes, fails, loses a save, a tag or an exit.
THEOREM CourseRefined == StraightCourse => (Spec => StagesInOrder)
  <1> SUFFICES ASSUME StraightCourse PROVE Spec => StagesInOrder
    OBVIOUS
  <1>1. Init => Order!Init
    BY DEF Init, InitialState, Order!Init
  <1>2. NInv /\ [Next]_vars => [Order!Next]_(Order!orderVars)
    BY NextCourses DEF Course, Order!orderVars
  <1>3. Spec => []NInv
    BY OrderHolds DEF StraightCourse
  <1> QED
    BY <1>1, <1>2, <1>3, PTL DEF Spec, StagesInOrder, Order!Spec
=============================================================================
