--------------------------- MODULE PipelineProofs ---------------------------
(***************************************************************************)
(* Theorems about Pipeline, for every value of its constants: its types;   *)
(* BudgetRespected, the circuit breaker of the revision loops;             *)
(* FailureKeepsProgress: what a loop has spent and produced survives every *)
(* failure and crash inside it, provided saves are not lost;               *)
(* NeverStranded: an item that stops can be moved, provided every exit is  *)
(* settled; and OwnBranchKnown: the row knows of the branch its coder      *)
(* pushed, provided no coder dies before it has reported the push.         *)
(***************************************************************************)
EXTENDS PipelineProps, SequenceTheorems, TLAPS

---------------------------------------------------------------------------
(* The operators on the row keep it a row.  The prover is given one row at  *)
(* a time: a row has many fields.                                           *)

LEMMA InitialType == InitialState \in State
  BY PlanAssumption, BudgetAssumption, WindowAssumption
  DEF InitialState, State, Stages, Loops, Gates, PlainStages, CheckpointNames, ErrorTypes

LEMMA DropCode ==
  ASSUME NEW r \in State, NEW b \in BOOLEAN
  PROVE  [r EXCEPT !.prior = b, !.review = "none", !.code = NoPlan, !.built = FALSE] \in State
  BY DEF State

LEMMA DropOutputs ==
  ASSUME NEW r \in State
  PROVE  [r EXCEPT !.pr = FALSE, !.tests = "none", !.docs = FALSE] \in State
  BY DEF State

LEMMA SetCounters ==
  ASSUME NEW r \in State,
         NEW a \in [Loops -> 0..MaxAttempts], NEW t \in [Loops -> 0..Window]
  PROVE  [r EXCEPT !.attempts = a, !.stall = t] \in State
  BY DEF State

LEMMA ClearCounters ==
  ASSUME NEW r \in State
  PROVE  /\ [r.attempts EXCEPT !["coding"] = 0, !["test-cases"] = 0]
              \in [Loops -> 0..MaxAttempts]
         /\ [l \in Loops |-> 0] \in [Loops -> 0..Window]
  BY BudgetAssumption, WindowAssumption DEF State, Loops

LEMMA PlanningResetType == ASSUME NEW r \in State PROVE PlanningReset(r) \in State
  <1> DEFINE b == r.prior \/ r.code # NoPlan
             a == [r.attempts EXCEPT !["coding"] = 0, !["test-cases"] = 0]
             t == [l \in Loops |-> 0]
             r1 == [r EXCEPT !.prior = b, !.review = "none", !.code = NoPlan, !.built = FALSE]
             r2 == [r1 EXCEPT !.pr = FALSE, !.tests = "none", !.docs = FALSE]
  <1>1. PlanningReset(r) = [r2 EXCEPT !.attempts = a, !.stall = t]
    BY DEF PlanningReset, State
  <1>2. b \in BOOLEAN
    OBVIOUS
  <1>3. a \in [Loops -> 0..MaxAttempts] /\ t \in [Loops -> 0..Window]
    BY ClearCounters
  <1> HIDE DEF b, a, t
  <1>4. r1 \in State
    BY <1>2, DropCode
  <1> HIDE DEF r1
  <1>5. r2 \in State
    BY <1>4, DropOutputs
  <1> HIDE DEF r2
  <1> QED
    BY <1>1, <1>3, <1>5, SetCounters

LEMMA SetReview == ASSUME NEW r \in State, NEW v \in {"none", "approve", "revise"}
                   PROVE  [r EXCEPT !.review = v] \in State
  BY DEF State

LEMMA SetSkip == ASSUME NEW r \in State PROVE [r EXCEPT !.skip = FALSE] \in State
  BY DEF State

LEMMA SetAttempt ==
  ASSUME NEW r \in State, NEW l \in Loops, NEW n \in 0..MaxAttempts
  PROVE  [r EXCEPT !.attempts = [@ EXCEPT ![l] = n]] \in State
  BY DEF State

LEMMA SetStall ==
  ASSUME NEW r \in State, NEW l \in Loops, NEW n \in 0..Window
  PROVE  [r EXCEPT !.stall = [@ EXCEPT ![l] = n]] \in State
  BY DEF State

LEMMA LeaveEscalation ==
  ASSUME NEW r \in State, NEW l \in Loops
  PROVE  [r EXCEPT !.esc = "none", !.stall = [@ EXCEPT ![l] = 0]] \in State
  <1>1. ASSUME NEW t \in [Loops -> 0..Window]
        PROVE  [r EXCEPT !.esc = "none", !.stall = t] \in State
    BY DEF State
  <1>2. [r.stall EXCEPT ![l] = 0] \in [Loops -> 0..Window]
    BY WindowAssumption DEF State
  <1> QED
    BY <1>1, <1>2

LEMMA EnteredType == ASSUME NEW r \in State, NEW l \in Loops PROVE Entered(l, r) \in State
  <1> DEFINE fresh == IF r.rerun \/ r.skip THEN r ELSE ResetState(l, r)
             unskip == [fresh EXCEPT !.skip = FALSE]
  <1>1. Entered(l, r) = IF unskip.esc = l
                        THEN [unskip EXCEPT !.esc = "none", !.stall = [@ EXCEPT ![l] = 0]]
                        ELSE unskip
    BY DEF Entered
  <1>2. fresh \in State
    BY PlanningResetType, SetReview DEF ResetState
  <1> HIDE DEF fresh
  <1>3. unskip \in State
    BY <1>2, SetSkip
  <1> HIDE DEF unskip
  <1> QED
    BY <1>1, <1>3, LeaveEscalation

LEMMA AttemptsType ==
  ASSUME NEW r \in State, NEW l \in Loops
  PROVE  r.attempts[l] \in 0..MaxAttempts
  BY DEF State

LEMMA PlanType == ASSUME NEW r \in State PROVE r.plan \in Plans \cup {NoPlan}
  BY DEF State

LEMMA PriorAttemptsType ==
  ASSUME NEW r \in State, NEW l \in Loops
  PROVE  PriorAttempts(l, r) \in 0..MaxAttempts
  BY AttemptsType, EnteredType, BudgetAssumption DEF PriorAttempts

LEMMA ProducedType ==
  ASSUME NEW r \in State, NEW l \in Loops, NEW p \in Plans \cup {NoPlan},
         NEW built \in BOOLEAN, NEW tests \in {"none", "empty", "some"}
  PROVE  Produced(l, p, built, tests, r) \in State
  <1>1. [r EXCEPT !.plan = p, !.feedback = FALSE] \in State
    BY DEF State
  <1>2. [r EXCEPT !.tests = tests] \in State
    BY DEF State
  <1>3. ASSUME NEW c \in Plans \cup {NoPlan}
        PROVE  [r EXCEPT !.code = c, !.built = built, !.feedback = FALSE, !.rerun = FALSE] \in State
    BY DEF State
  <1>4. (IF r.rerun /\ r.code # NoPlan THEN r.code ELSE r.plan) \in Plans \cup {NoPlan}
    BY DEF State
  <1> QED
    BY <1>1, <1>2, <1>3, <1>4 DEF Produced

LEMMA ReviewedType ==
  ASSUME NEW r \in State, NEW l \in Loops, NEW v \in {"approve", "revise"}
  PROVE  Reviewed(l, v, r) \in State
  BY SetReview DEF Reviewed

LEMMA ApprovedType == ASSUME NEW r \in State, NEW l \in Loops PROVE Approved(l, r) \in State
  BY SetAttempt, BudgetAssumption DEF Approved

LEMMA RecordAttemptType ==
  ASSUME NEW r \in State, NEW l \in Loops, NEW n \in 0..MaxAttempts
  PROVE  RecordAttempt(l, n, r) \in State
  BY SetAttempt DEF RecordAttempt

LEMMA CountedType ==
  ASSUME NEW r \in State, NEW l \in Loops, NEW fell \in BOOLEAN
  PROVE  Counted(l, fell, r) \in State
  <1> DEFINE run == IF fell \/ r.stall[l] = 0 THEN 1
                    ELSE IF r.stall[l] < Window THEN r.stall[l] + 1 ELSE Window
  <1>1. run \in 0..Window
    BY WindowAssumption DEF State
  <1>2. Counted(l, fell, r) = [r EXCEPT !.stall = [@ EXCEPT ![l] = run]]
    BY DEF Counted
  <1> HIDE DEF run
  <1> QED
    BY <1>1, <1>2, SetStall

LEMMA EscalatedType == ASSUME NEW r \in State, NEW l \in Loops PROVE Escalated(l, r) \in State
  <1>1. ASSUME NEW c \in CheckpointNames PROVE [r EXCEPT !.cp = c, !.esc = l] \in State
    BY DEF State
  <1>2. ConvergenceName(l) \in CheckpointNames
    BY DEF ConvergenceName, CheckpointNames
  <1> QED
    BY <1>1, <1>2 DEF Escalated

LEMMA SetError ==
  ASSUME NEW r \in State, NEW e \in ErrorTypes \cup {"none"}, NEW w \in Stages \cup {"container", "none"}
  PROVE  [r EXCEPT !.err = e, !.errAt = w] \in State
  BY DEF State

LEMMA SetStage == ASSUME NEW r \in State, NEW w \in Stages PROVE [r EXCEPT !.stage = w] \in State
  BY DEF State

LEMMA SetCheckpoint ==
  ASSUME NEW r \in State, NEW c \in CheckpointNames \cup {"none"}
  PROVE  [r EXCEPT !.cp = c] \in State
  BY DEF State

LEMMA SetTarget == ASSUME NEW r \in State PROVE [r EXCEPT !.target = "none"] \in State
  BY DEF State

LEMMA SetDone == ASSUME NEW r \in State PROVE [r EXCEPT !.done = TRUE] \in State
  BY DEF State

LEMMA SetRewind ==
  ASSUME NEW r \in State, NEW b \in BOOLEAN, NEW l \in Loops
  PROVE  [r EXCEPT !.cp = "none", !.rerun = b, !.target = l, !.feedback = TRUE] \in State
  BY DEF State

LEMMA SetPlainOutputs ==
  ASSUME NEW r \in State, NEW b1 \in BOOLEAN, NEW b2 \in BOOLEAN, NEW b3 \in BOOLEAN
  PROVE  [r EXCEPT !.ready = b1, !.pr = b2, !.docs = b3] \in State
  BY DEF State

LEMMA PlainOutputsType ==
  ASSUME NEW r \in State, NEW stage PROVE PlainOutputs(stage, r) \in State
  <1>1. /\ (r.ready \/ stage = "analyzer") \in BOOLEAN
        /\ (r.pr \/ stage = "draft-pr") \in BOOLEAN
        /\ (r.docs \/ stage = "documenter") \in BOOLEAN
    OBVIOUS
  <1> QED
    BY <1>1, SetPlainOutputs DEF PlainOutputs

LEMMA ClearErrorType == ASSUME NEW r \in State PROVE ClearError(r) \in State
  <1> DEFINE b == r.skip \/ r.err = "revision-exhausted"
  <1>1. ClearError(r) = [r EXCEPT !.skip = b, !.err = "none", !.errAt = "none"]
    BY DEF ClearError
  <1>2. b \in BOOLEAN
    OBVIOUS
  <1> HIDE DEF b
  <1> QED
    BY <1>1, <1>2 DEF State

LEMMA SetCommand == ASSUME NEW r \in State, NEW l \in Loops
                    PROVE  [r EXCEPT !.target = l, !.feedback = TRUE] \in State
  BY DEF State

LEMMA FixTargetType == ASSUME NEW r PROVE FixTarget(r) \in Loops
  BY DEF FixTarget, Loops

LEMMA ApplyRerunType == ASSUME NEW r \in State, NEW c PROVE ApplyRerun(c, r) \in State
  <1> DEFINE t == RerunTarget(c, r)
             b == r.rerun \/ (c # "/rerun-plan" /\ FixExistingBranch(r))
             r1 == [r EXCEPT !.err = "none", !.errAt = "none", !.cp = "none", !.rerun = b]
             r2 == [r1 EXCEPT !.attempts = [@ EXCEPT ![t] = 0]]
  <1>1. ApplyRerun(c, r) = [r2 EXCEPT !.target = t, !.feedback = TRUE]
    BY DEF ApplyRerun, State
  <1>2. b \in BOOLEAN
    OBVIOUS
  <1>3. t \in Loops
    BY FixTargetType DEF RerunTarget, Loops
  <1> HIDE DEF b, t
  <1>4. r1 \in State
    BY <1>2 DEF State
  <1> HIDE DEF r1
  <1>5. r2 \in State
    BY <1>3, <1>4, SetAttempt, BudgetAssumption
  <1> HIDE DEF r2
  <1> QED
    BY <1>1, <1>3, <1>5, SetCommand

---------------------------------------------------------------------------
(* The stage lists *)

LEMMA DefaultStagesType ==
  /\ DefaultStages \in Seq(Stages) /\ Len(DefaultStages) = 11
  /\ DefaultStages[1] = "analyzer" /\ DefaultStages[2] = "planning" /\ DefaultStages[4] = "coding"
  BY DEF DefaultStages, Stages, Loops, Gates, PlainStages

\* A list of stages that begins as every pipeline does.
Opens(x) ==
  /\ x \in Seq(Stages) /\ Len(x) >= 4
  /\ x[1] = "analyzer" /\ x[2] = "planning" /\ x[4] = "coding"

LEMMA OpensConcat ==
  ASSUME NEW x, NEW y \in Seq(Stages), Opens(x)
  PROVE  Opens(x \o y)
  BY DEF Opens

LEMMA RepoStagesType == Opens(RepoStages)
  <1> DEFINE head == << "analyzer", "planning", "checkpoint:plan-approved", "coding" >>
             t1 == IF TestCases THEN << "test-cases" >> ELSE << >>
             t2 == << "draft-pr", "checkpoint:pr-published" >>
             t3 == IF TestCases THEN << "test-case-activation" >> ELSE << >>
             t4 == << "checkpoint:pr-completed", "documenter" >>
             t5 == IF DocsWriter THEN << "docs-writer" >> ELSE << >>
  <1>1. RepoStages = ((((head \o t1) \o t2) \o t3) \o t4) \o t5
    BY DEF RepoStages
  <1>2. Opens(head)
    BY DEF Opens, Stages, Loops, Gates, PlainStages
  <1>3. << >> \in Seq(Stages)
    OBVIOUS
  <1>4. << "test-cases" >> \in Seq(Stages)
    BY DEF Stages, Loops
  <1>5. << "test-case-activation" >> \in Seq(Stages) /\ << "docs-writer" >> \in Seq(Stages)
    BY DEF Stages, PlainStages
  <1>6. t2 \in Seq(Stages) /\ t4 \in Seq(Stages)
    BY DEF Stages, PlainStages, Gates
  <1>7. t1 \in Seq(Stages) /\ t3 \in Seq(Stages) /\ t5 \in Seq(Stages)
    BY <1>3, <1>4, <1>5, Zenon
  <1> HIDE DEF head, t1, t2, t3, t4, t5
  <1>8. Opens(head \o t1)
    BY <1>2, <1>7, OpensConcat
  <1>9. Opens((head \o t1) \o t2)
    BY <1>6, <1>8, OpensConcat
  <1>10. Opens(((head \o t1) \o t2) \o t3)
    BY <1>7, <1>9, OpensConcat
  <1>11. Opens((((head \o t1) \o t2) \o t3) \o t4)
    BY <1>6, <1>10, OpensConcat
  <1> QED
    BY <1>1, <1>7, <1>11, OpensConcat

LEMMA StageListType ==
  ASSUME NEW c
  PROVE  /\ StageList(c) \in Seq(Stages) /\ Len(StageList(c)) \in Nat
         /\ Len(StageList(c)) >= 4 /\ StageList(c)[1] = "analyzer"
         /\ StageList(c)[2] = "planning" /\ StageList(c)[4] = "coding"
  <1>1. Opens(DefaultStages)
    BY DefaultStagesType DEF Opens
  <1>2. Opens(StageList(c))
    BY <1>1, RepoStagesType DEF StageList
  <1> QED
    BY <1>2 DEF Opens

LEMMA StageIndexFinds ==
  ASSUME NEW list, NEW name
  PROVE  /\ StageIndex(list, name) \in {0} \cup 1..Len(list)
         /\ \A j \in 1..Len(list) :
              list[j] = name => /\ StageIndex(list, name) \in 1..Len(list)
                                /\ list[StageIndex(list, name)] = name
  <1>1. CASE \E j \in 1..Len(list) : list[j] = name
    <2>1. /\ (CHOOSE j \in 1..Len(list) : list[j] = name) \in 1..Len(list)
          /\ list[CHOOSE j \in 1..Len(list) : list[j] = name] = name
      BY <1>1
    <2> QED
      BY <1>1, <2>1 DEF StageIndex
  <1>2. CASE ~ \E j \in 1..Len(list) : list[j] = name
    BY <1>2 DEF StageIndex
  <1> QED
    BY <1>1, <1>2

---------------------------------------------------------------------------
(* Type correctness.  TypeOK is not inductive by itself: the index a rewind *)
(* jumps to is in range because the target of a rewind is a loop every list *)
(* has.                                                                     *)

TypeInv ==
  /\ TypeOK
  /\ pc \in {"leave", "notify"} /\ sig = "rewind" => s.target \in {"planning", "coding"}
  /\ exit # "none" => pc = "down"

LEMMA StageType == ASSUME TypeOK PROVE Stage \in Stages
  BY StageListType DEF TypeOK, Stage

LEMMA ChargeType ==
  ASSUME NEW c \in [Loops -> 0..MaxAttempts + 1], NEW l \in Loops
  PROVE  Charge(l, c) \in [Loops -> 0..MaxAttempts + 1]
  BY BudgetAssumption DEF Charge

LEMMA NoChargeType == NoCharge \in [Loops -> 0..MaxAttempts + 1]
  BY BudgetAssumption DEF NoCharge

LEMMA FailType ==
  ASSUME TypeInv, NEW at \in State, NEW type \in ErrorTypes, Fail(at, type)
  PROVE  /\ db' \in State /\ s' \in State /\ pre' \in State
         /\ pc' = "down" /\ sig' = "none" /\ exit' = "failed"
         /\ cmd' = cmd /\ i' = i
         /\ asks' \subseteq asks /\ heard' = {}
  BY StageType, SetError DEF Fail, TypeInv

LEMMA StopType ==
  ASSUME NEW row \in State, NEW how \in {"ok", "failed"}, Stop(row, how)
  PROVE  /\ db' \in State /\ s' \in State /\ pre' \in State
         /\ pc' = "down" /\ sig' = "none" /\ exit' = how
         /\ cmd' = cmd /\ i' = i
  BY DEF Stop

LEMMA LoadType ==
  ASSUME NEW row \in State, NEW command \in {"run", "continue"}, Load(row, command)
  PROVE  /\ s' \in State /\ pre' \in State
         /\ cmd' = command /\ i' \in 1..Len(StageList(command))
         /\ pc' = "enter" /\ sig' = "none" /\ exit' = "none"
  <1>1. s' \in State /\ pre' \in State
    BY SetTarget DEF Load
  <1>2. i' \in 1..Len(StageList(command))
    BY StageIndexFinds, StageListType DEF Load
  <1> QED
    BY <1>1, <1>2 DEF Load

LEMMA InitTypeInv == Init => TypeInv
  <1> SUFFICES ASSUME Init PROVE TypeInv
    OBVIOUS
  <1>1. 1 \in 1..Len(StageList("run"))
    BY StageListType
  <1> QED
    BY <1>1, InitialType, NoChargeType DEF Init, TypeInv, TypeOK, PrStatuses

LEMMA FirstMatchType ==
  ASSUME NEW gate \in Gates, Commented(gate)
  PROVE  \E k \in 1..Len(GateCommands(gate)) :
           /\ FirstMatch(gate) = GateCommands(gate)[k]
           /\ FirstMatch(gate)[1] \in asks
           /\ FirstMatch(gate)[2] \in {"planning", "coding"}
  <1> DEFINE hits == { k \in 1..Len(GateCommands(gate)) : GateCommands(gate)[k][1] \in asks }
  <1>1. Len(GateCommands(gate)) \in {1, 2}
    BY DEF GateCommands
  <1>2. hits # {} /\ hits \subseteq {1, 2}
    BY <1>1 DEF Commented
  <1>3. \E k \in hits : \A m \in hits : k <= m
    <2>1. CASE 1 \in hits
      BY <1>2, <2>1
    <2>2. CASE 1 \notin hits
      <3>1. hits = {2}
        BY <1>2, <2>2
      <3> QED
        BY <3>1
    <2> QED
      BY <2>1, <2>2
  <1>4. PICK k \in hits : FirstMatch(gate) = GateCommands(gate)[k]
    BY <1>3 DEF FirstMatch
  <1>5. \A m \in 1..Len(GateCommands(gate)) : GateCommands(gate)[m][2] \in {"planning", "coding"}
    BY DEF GateCommands
  <1> QED
    BY <1>4, <1>5

LEMMA StartAttemptType ==
  ASSUME TypeInv, NEW row \in State, NEW l \in Loops, NEW n \in 0..MaxAttempts,
         StartAttempt(l, n, row)
  PROVE  /\ db' \in State /\ s' \in State /\ pre' \in State
         /\ pc' = "produce" /\ UNCHANGED << i, cmd, sig, exit >>
  BY RecordAttemptType DEF StartAttempt, TypeInv, TypeOK

LEMMA EnterLoopType ==
  ASSUME TypeInv, NEW l \in Loops, EnterLoop(l)
  PROVE  TypeInv'
  <1> USE DEF TypeInv, TypeOK, world, ghosts
  <1> DEFINE row == Entered(l, s)
             spent == PriorAttempts(l, s)
             kept == IF l = "planning" /\ ~ (s.rerun \/ s.skip)
                     THEN [charge EXCEPT !["coding"] = 0, !["test-cases"] = 0]
                     ELSE charge
  <1>1. row \in State /\ spent \in 0..MaxAttempts
    BY EnteredType, PriorAttemptsType
  <1>2. kept \in [Loops -> 0..MaxAttempts + 1]
    BY BudgetAssumption DEF Loops
  <1>3. \/ /\ Fail(row, "revision-exhausted") /\ charge' = kept
           /\ UNCHANGED << planTag, needInput, prStatus, branch, approved, owed >>
        \/ /\ Fail(s, "needs-input")
           /\ UNCHANGED << planTag, needInput, prStatus, branch, ghosts >>
        \/ /\ spent < MaxAttempts /\ StartAttempt(l, spent + 1, row)
           /\ charge' = Charge(l, kept)
           /\ UNCHANGED << world, approved, owed >>
    BY DEF EnterLoop, BudgetLeft
  <1>4. pc = "stage"
    BY DEF EnterLoop
  <1> HIDE DEF row, spent, kept
  <1>5. CASE Fail(row, "revision-exhausted") /\ charge' = kept
             /\ UNCHANGED << planTag, needInput, prStatus, branch, approved, owed >>
    BY <1>1, <1>2, <1>5, FailType DEF ErrorTypes
  <1>6. CASE Fail(s, "needs-input") /\ UNCHANGED << planTag, needInput, prStatus, branch, ghosts >>
    BY <1>6, FailType DEF ErrorTypes
  <1>7. CASE spent < MaxAttempts /\ StartAttempt(l, spent + 1, row)
             /\ charge' = Charge(l, kept) /\ UNCHANGED << world, approved, owed >>
    <2>1. spent + 1 \in 0..MaxAttempts
      BY <1>1, <1>7, BudgetAssumption
    <2> QED
      BY <1>1, <1>2, <1>7, <1>4, <2>1, StartAttemptType, ChargeType
  <1> QED
    BY <1>3, <1>5, <1>6, <1>7

LEMMA ProduceType ==
  ASSUME TypeInv, NEW l \in Loops, Produce(l)
  PROVE  TypeInv'
  <1> USE DEF TypeInv, TypeOK, world, ghosts
  <1>1. s' \in State
    <2>1. PICK p \in Plans \cup {NoPlan}, built \in BOOLEAN, tests \in {"none", "empty", "some"} :
            s' = Produced(l, p, built, tests, s)
      BY DEF Produce, FreshPlans, TestOutputs
    <2> QED
      BY <2>1, ProducedType
  <1>2. db' \in State
    BY <1>1 DEF Produce
  <1> QED
    BY <1>1, <1>2 DEF Produce

LEMMA ReviewType ==
  ASSUME TypeInv, NEW l \in Loops, Review(l)
  PROVE  TypeInv'
  <1> USE DEF TypeInv, TypeOK, world, ghosts
  <1>1. PICK v \in {"approve", "revise"}, fell \in BOOLEAN :
          LET row  == Reviewed(l, v, s)
              next == IF Converges(l, cmd) THEN Counted(l, fell, row) ELSE row
          IN  \/ /\ Return(Approved(l, row), "none")
                 /\ charge' = [charge EXCEPT ![l] = 0]
                 /\ UNCHANGED << world, approved, owed >>
              \/ /\ Return(Escalated(l, next), "pause")
                 /\ UNCHANGED << world, ghosts >>
              \/ /\ BudgetLeft(next.attempts[l])
                 /\ StartAttempt(l, next.attempts[l] + 1, next)
                 /\ charge' = Charge(l, charge)
                 /\ UNCHANGED << world, approved, owed >>
              \/ /\ Fail(next, "revision-exhausted")
                 /\ UNCHANGED << planTag, needInput, prStatus, branch, ghosts >>
    BY DEF Review
  <1>2. pc = "review"
    BY DEF Review
  <1> DEFINE row == Reviewed(l, v, s)
             next == IF Converges(l, cmd) THEN Counted(l, fell, row) ELSE row
  <1>3. row \in State
    BY ReviewedType
  <1>4. next \in State
    BY <1>3, CountedType
  <1>5. next.attempts[l] \in 0..MaxAttempts
    BY <1>4, AttemptsType
  <1>6. charge' \in [Loops -> 0..MaxAttempts + 1]
    BY <1>1, ChargeType, BudgetAssumption
  <1> HIDE DEF row, next
  <1>7. CASE /\ Return(Approved(l, row), "none") /\ UNCHANGED << world, approved, owed >>
    BY <1>2, <1>3, <1>6, <1>7, ApprovedType DEF Return
  <1>8. CASE /\ Return(Escalated(l, next), "pause") /\ UNCHANGED << world, ghosts >>
    BY <1>2, <1>4, <1>6, <1>8, EscalatedType DEF Return
  <1>9. CASE /\ BudgetLeft(next.attempts[l]) /\ StartAttempt(l, next.attempts[l] + 1, next)
             /\ UNCHANGED << world, approved, owed >>
    <2>1. next.attempts[l] + 1 \in 0..MaxAttempts
      BY <1>5, <1>9, BudgetAssumption DEF BudgetLeft
    <2> QED
      BY <1>2, <1>4, <1>6, <1>9, <2>1, StartAttemptType
  <1>10. CASE /\ Fail(next, "revision-exhausted")
              /\ UNCHANGED << planTag, needInput, prStatus, branch, ghosts >>
    BY <1>4, <1>6, <1>10, FailType DEF ErrorTypes
  <1> QED
    BY <1>1, <1>7, <1>8, <1>9, <1>10 DEF row, next

\* What a step of the container leaves alone keeps its type.
LEMMA ContainerTypes == ASSUME TypeInv, Container PROVE TypeInv'
  <1> USE DEF TypeInv, TypeOK, world, ghosts
  <1>1. CASE EnterStage
    <2> DEFINE row == [s EXCEPT !.stage = Stage]
    <2>1. row \in State
      BY StageType, SetStage
    <2> HIDE DEF row
    <2>2. /\ pc = "enter" /\ UNCHANGED << world, ghosts >>
          /\ \/ /\ db' = row /\ s' = row /\ pre' = row /\ pc' = "stage"
                /\ UNCHANGED << i, cmd, sig, exit >>
             \/ Stop(row, "failed")
      BY <1>1 DEF EnterStage, row
    <2> QED
      BY <2>1, <2>2, StopType
  <1>2. CASE RunPlainStage
    <2>1. s' \in State /\ pre' \in State /\ sig' = "none" /\ pc' = "leave"
      BY <1>2, PlainOutputsType DEF RunPlainStage, Return
    <2>2. prStatus' \in PrStatuses
      BY <1>2 DEF RunPlainStage, PrStatuses
    <2> QED
      BY <1>2, <2>1, <2>2 DEF RunPlainStage, Return
  <1>3. CASE FailPlainStage
    BY <1>3, FailType DEF FailPlainStage, ErrorTypes
  <1>4. CASE PushBranch
    BY <1>4 DEF PushBranch, container
  <1>5. CASE GateRewind
    <2>2. FirstMatch(Stage)[2] \in {"planning", "coding"}
      BY <1>5, FirstMatchType DEF GateRewind
    <2>3. s' \in State /\ pre' \in State /\ s'.target = FirstMatch(Stage)[2]
      <3>1. (FirstMatch(Stage)[1] # "/rerun-plan") \in BOOLEAN
        OBVIOUS
      <3>2. FirstMatch(Stage)[2] \in Loops
        BY <2>2 DEF Loops
      <3>3. /\ s' = [s EXCEPT !.cp = "none", !.rerun = FirstMatch(Stage)[1] # "/rerun-plan",
                              !.target = FirstMatch(Stage)[2], !.feedback = TRUE]
            /\ pre' = s'
        BY <1>5 DEF GateRewind, Return
      <3>4. ASSUME NEW r \in State PROVE DOMAIN r = DOMAIN InitialState
        BY DEF State, InitialState
      <3> QED
        BY <3>1, <3>2, <3>3, <3>4, SetRewind DEF InitialState
    <2> QED
      BY <1>5, <2>2, <2>3, NoChargeType DEF GateRewind, Return, Loops
  <1>6. CASE GatePass
    BY <1>6, SetCheckpoint DEF GatePass, Return
  <1>7. CASE GatePause
    <2>1. CheckpointName(Stage) \in CheckpointNames
      BY DEF CheckpointName, CheckpointNames
    <2> QED
      BY <1>7, <2>1, SetCheckpoint DEF GatePause, Return
  <1>8. CASE FailGate
    BY <1>8, FailType DEF FailGate, ErrorTypes
  <1>9. CASE SaveResult
    BY <1>9 DEF SaveResult
  <1>10. CASE Notify
    <2>1. needInput' \in BOOLEAN /\ UNCHANGED << planTag, asks, heard, prStatus, branch, ghosts >>
      BY <1>10 DEF Notify
    <2>2. CASE sig = "pause"
      BY <1>10, <2>1, <2>2, StopType DEF Notify
    <2>3. CASE sig = "rewind"
      <3>1. i' \in 1..Len(StageList(cmd))
        BY <1>10, <2>3, StageIndexFinds, StageListType DEF Notify
      <3> QED
        BY <1>10, <2>1, <2>3, <3>1, SetTarget DEF Notify
    <2>4. CASE sig = "none" /\ i < Len(StageList(cmd))
      BY <1>10, <2>1, <2>4, StageListType DEF Notify
    <2>5. CASE sig = "none" /\ i = Len(StageList(cmd))
      BY <1>10, <2>1, <2>5, StopType, SetDone DEF Notify
    <2> QED
      BY <1>10, <2>2, <2>3, <2>4, <2>5 DEF Notify
  <1>11. ASSUME NEW l \in Loops, EnterLoop(l) PROVE TypeInv'
    BY <1>11, EnterLoopType
  <1>12. ASSUME NEW l \in Loops, Produce(l) PROVE TypeInv'
    BY <1>12, ProduceType
  <1>13. ASSUME NEW l \in Loops, Review(l) PROVE TypeInv'
    BY <1>13, ReviewType
  <1>14. ASSUME NEW l \in Loops, FailLoop(l) PROVE TypeInv'
    BY <1>14, FailType DEF FailLoop, ErrorTypes
  <1> QED
    BY <1>1, <1>2, <1>3, <1>4, <1>5, <1>6, <1>7, <1>8, <1>9, <1>10, <1>11, <1>12, <1>13, <1>14
    DEF Container

LEMMA RerunTypes ==
  ASSUME TypeInv, NEW c \in {"/rerun-plan", "/fix"}, Rerun(c),
         planTag' \in BOOLEAN
  PROVE  TypeInv'
  <1>1. ApplyRerun(c, db) \in State
    BY ApplyRerunType DEF TypeInv, TypeOK
  <1>2. RerunTarget(c, db) \in Loops
    BY FixTargetType DEF RerunTarget, Loops
  <1> HIDE DEF ApplyRerun, RerunTarget
  <1> QED
    BY <1>1, <1>2, LoadType, NoChargeType DEF Rerun, Continue, TypeInv, TypeOK

LEMMA WatcherTypes == ASSUME TypeInv, Watcher PROVE TypeInv'
  <1> USE DEF TypeInv, TypeOK, world, ghosts
  <1>1. CASE HandleOutcome
    <2>1. [db EXCEPT !.err = "ContainerError", !.errAt = "container"] \in State
      BY SetError DEF ErrorTypes
    <2>2. db' \in State /\ s' \in State /\ pre' \in State
      BY <1>1, <2>1 DEF HandleOutcome, OutcomeRow
    <2>3. needInput' \in BOOLEAN
      BY <1>1 DEF HandleOutcome, Failed
    <2>4. heard' \subseteq asks
      BY <1>1 DEF HandleOutcome
    <2>5. exit' = "none" /\ UNCHANGED << pc, i, cmd, sig, planTag, asks, prStatus, branch, ghosts >>
      BY <1>1 DEF HandleOutcome
    <2>6. pc = "down"
      BY <1>1 DEF HandleOutcome
    <2> QED
      BY <2>6, <2>2, <2>3, <2>4, <2>5
  <1>2. CASE LoseOutcome
    BY <1>2 DEF LoseOutcome
  <1>3. CASE ContinueTag
    <2> DEFINE row == IF db.err # "none" THEN ClearError(db) ELSE db
    <2>1. row \in State
      BY ClearErrorType
    <2>2. Continue(row) /\ Rewindowed(row)
      BY <1>3 DEF ContinueTag
    <2> HIDE DEF row
    <2> QED
      BY <1>3, <2>1, <2>2, LoadType, NoChargeType DEF ContinueTag, Continue, Rewindowed, Granted
  <1>4. CASE ContinueApproved
    <2> DEFINE row == IF PlanTagRetry THEN ClearError(db) ELSE db
    <2>1. row \in State
      BY ClearErrorType
    <2>2. Continue(row) /\ Rewindowed(row)
      BY <1>4 DEF ContinueApproved
    <2> HIDE DEF row
    <2> QED
      BY <1>4, <2>1, <2>2, LoadType DEF ContinueApproved, Continue, Rewindowed
  <1>5. CASE ContinueMerged
    BY <1>5, LoadType DEF ContinueMerged, Continue
  <1>6. CASE ResumeOrphan
    BY <1>6, LoadType DEF ResumeOrphan, Continue
  <1>7. CASE StartFresh
    BY <1>7, LoadType, InitialType, NoChargeType DEF StartFresh
  <1>8. CASE CliContinue
    BY <1>8, LoadType DEF CliContinue, Continue
  <1>9. ASSUME NEW c \in {"/rerun-plan", "/fix"}, ScanRerun(c) PROVE TypeInv'
    BY <1>9, RerunTypes DEF ScanRerun
  <1>10. ASSUME NEW c \in {"/rerun-plan", "/fix"}, DashboardRerun(c) PROVE TypeInv'
    BY <1>10, RerunTypes DEF DashboardRerun
  <1> QED
    BY <1>1, <1>2, <1>3, <1>4, <1>5, <1>6, <1>7, <1>8, <1>9, <1>10 DEF Watcher

LEMMA HumanTypes == ASSUME TypeInv, Human PROVE TypeInv'
  <1> USE DEF TypeInv, TypeOK, container, ghosts
  <1>1. CASE ApprovePlan
    <2>1. db.plan \in Plans \cup {NoPlan}
      BY PlanType
    <2> QED
      BY <1>1, <2>1 DEF ApprovePlan
  <1>2. CASE RemoveNeedInput
    BY <1>2, NoChargeType DEF RemoveNeedInput, Granted
  <1>3. CASE PullRequest
    BY <1>3 DEF PullRequest, PrStatuses
  <1>4. CASE FreeBranch
    BY <1>4 DEF FreeBranch
  <1>5. ASSUME NEW c \in {"/rerun-plan", "/fix"}, Ask(c) PROVE TypeInv'
    BY <1>5 DEF Ask
  <1> QED
    BY <1>1, <1>2, <1>3, <1>4, <1>5 DEF Human

LEMMA CrashTypes == ASSUME TypeInv, Crash PROVE TypeInv'
  BY StopType DEF Crash, TypeInv, TypeOK, world, ghosts

LEMMA StutterTypes == ASSUME TypeInv, UNCHANGED vars PROVE TypeInv'
  BY DEF TypeInv, TypeOK, vars, container, world, ghosts

\* Every variable of the pipeline keeps its type: in particular the index of the
\* current stage stays inside the list of the container that runs, wherever a rewind,
\* a stored stage of the other list or a stale target sends it.
THEOREM TypeCorrect == Spec => []TypeOK
  <1>1. TypeInv /\ [Next]_vars => TypeInv'
    BY ContainerTypes, CrashTypes, WatcherTypes, HumanTypes, StutterTypes DEF Next
  <1>2. TypeInv => TypeOK
    BY DEF TypeInv
  <1> QED
    BY InitTypeInv, <1>1, <1>2, PTL DEF Spec
---------------------------------------------------------------------------
(* What the operators on the row do to the fields BudgetInv looks at *)

\* q and r agree on the fields no budget rule touches.
Agree(q, r) ==
  /\ q.stage = r.stage /\ q.cp = r.cp /\ q.target = r.target
  /\ q.err = r.err /\ q.rerun = r.rerun

LEMMA SetStageFields ==
  ASSUME NEW r \in State, NEW w \in Stages
  PROVE  LET q == [r EXCEPT !.stage = w]
         IN  /\ q.stage = w /\ q.cp = r.cp /\ q.target = r.target /\ q.err = r.err
             /\ q.rerun = r.rerun /\ q.skip = r.skip /\ q.attempts = r.attempts
  BY DEF State

LEMMA SetCheckpointFields ==
  ASSUME NEW r \in State, NEW c
  PROVE  LET q == [r EXCEPT !.cp = c]
         IN  /\ q.stage = r.stage /\ q.cp = c /\ q.target = r.target /\ q.err = r.err
             /\ q.rerun = r.rerun /\ q.skip = r.skip /\ q.attempts = r.attempts
  BY DEF State

LEMMA SetErrorFields ==
  ASSUME NEW r \in State, NEW e, NEW w
  PROVE  LET q == [r EXCEPT !.err = e, !.errAt = w]
         IN  /\ q.stage = r.stage /\ q.cp = r.cp /\ q.target = r.target /\ q.err = e
             /\ q.rerun = r.rerun /\ q.skip = r.skip /\ q.attempts = r.attempts
  BY DEF State

LEMMA SetTargetFields ==
  ASSUME NEW r \in State
  PROVE  LET q == [r EXCEPT !.target = "none"]
         IN  /\ q.stage = r.stage /\ q.cp = r.cp /\ q.target = "none" /\ q.err = r.err
             /\ q.rerun = r.rerun /\ q.skip = r.skip /\ q.attempts = r.attempts
  BY DEF State

LEMMA SetDoneFields ==
  ASSUME NEW r \in State
  PROVE  LET q == [r EXCEPT !.done = TRUE]
         IN  Agree(q, r) /\ q.skip = r.skip /\ q.attempts = r.attempts
  BY DEF State, Agree

LEMMA SetRewindFields ==
  ASSUME NEW r \in State, NEW b \in BOOLEAN, NEW l \in Loops
  PROVE  LET q == [r EXCEPT !.cp = "none", !.rerun = b, !.target = l, !.feedback = TRUE]
         IN  /\ q.stage = r.stage /\ q.cp = "none" /\ q.err = r.err
             /\ q.rerun = b /\ q.skip = r.skip /\ q.attempts = r.attempts
  BY DEF State

LEMMA PlainOutputsFields ==
  ASSUME NEW r \in State, NEW stage
  PROVE  LET q == PlainOutputs(stage, r)
         IN  Agree(q, r) /\ q.skip = r.skip /\ q.attempts = r.attempts
  BY DEF State, Agree, PlainOutputs

LEMMA SetAttemptFields ==
  ASSUME NEW r \in State, NEW l \in Loops, NEW n
  PROVE  LET q == [r EXCEPT !.attempts = [@ EXCEPT ![l] = n]]
         IN  /\ Agree(q, r) /\ q.skip = r.skip
             /\ q.attempts[l] = n /\ \A m \in Loops \ {l} : q.attempts[m] = r.attempts[m]
  BY DEF State, Agree

LEMMA PlanningResetFields ==
  ASSUME NEW r \in State
  PROVE  LET q == PlanningReset(r)
         IN  /\ Agree(q, r) /\ q.skip = r.skip
             /\ q.attempts = [r.attempts EXCEPT !["coding"] = 0, !["test-cases"] = 0]
  BY DEF State, Agree, PlanningReset

LEMMA SetReviewFields ==
  ASSUME NEW r \in State, NEW v
  PROVE  LET q == [r EXCEPT !.review = v]
         IN  Agree(q, r) /\ q.skip = r.skip /\ q.attempts = r.attempts
  BY DEF State, Agree

LEMMA SetSkipFields ==
  ASSUME NEW r \in State
  PROVE  LET q == [r EXCEPT !.skip = FALSE]
         IN  Agree(q, r) /\ ~ q.skip /\ q.attempts = r.attempts
  BY DEF State, Agree

LEMMA SetEscStallFields ==
  ASSUME NEW r \in State, NEW l \in Loops, NEW t
  PROVE  LET q == [r EXCEPT !.esc = "none", !.stall = t]
         IN  Agree(q, r) /\ q.skip = r.skip /\ q.attempts = r.attempts
  BY DEF State, Agree

LEMMA EnteredFields ==
  ASSUME NEW r \in State, NEW l \in Loops
  PROVE  LET q == Entered(l, r)
         IN  /\ Agree(q, r) /\ ~ q.skip
             /\ q.attempts = IF l = "planning" /\ ~ (r.rerun \/ r.skip)
                             THEN [r.attempts EXCEPT !["coding"] = 0, !["test-cases"] = 0]
                             ELSE r.attempts
  <1> DEFINE fresh == IF r.rerun \/ r.skip THEN r ELSE ResetState(l, r)
             unskip == [fresh EXCEPT !.skip = FALSE]
             left == [unskip EXCEPT !.esc = "none", !.stall = [@ EXCEPT ![l] = 0]]
             after == IF l = "planning" /\ ~ (r.rerun \/ r.skip)
                      THEN [r.attempts EXCEPT !["coding"] = 0, !["test-cases"] = 0]
                      ELSE r.attempts
  <1>1. Entered(l, r) = IF unskip.esc = l THEN left ELSE unskip
    BY DEF Entered
  <1>2. fresh \in State /\ Agree(fresh, r) /\ fresh.attempts = after
    <2>1. Agree(r, r)
      BY DEF Agree
    <2>2. CASE r.rerun \/ r.skip
      BY <2>1, <2>2
    <2>3. CASE ~ (r.rerun \/ r.skip) /\ l = "planning"
      <3>1. fresh = PlanningReset(r) /\ after = [r.attempts EXCEPT !["coding"] = 0, !["test-cases"] = 0]
        BY <2>3 DEF ResetState
      <3> HIDE DEF fresh, after
      <3> QED
        BY <3>1, PlanningResetType, PlanningResetFields
    <2>4. CASE ~ (r.rerun \/ r.skip) /\ l = "coding"
      <3>1. fresh = [r EXCEPT !.review = "none"] /\ after = r.attempts
        BY <2>4 DEF ResetState
      <3>2. "none" \in {"none", "approve", "revise"}
        OBVIOUS
      <3> DEFINE q == [r EXCEPT !.review = "none"]
      <3>3. q \in State /\ Agree(q, r) /\ q.attempts = r.attempts
        BY <3>2, SetReview, SetReviewFields
      <3> HIDE DEF fresh, after, q
      <3> QED
        BY <3>1, <3>3 DEF q
    <2>5. CASE ~ (r.rerun \/ r.skip) /\ l = "test-cases"
      <3>1. fresh = r /\ after = r.attempts
        BY <2>5 DEF ResetState
      <3> HIDE DEF fresh, after
      <3> QED
        BY <2>1, <3>1
    <2> QED
      BY <2>2, <2>3, <2>4, <2>5 DEF Loops
  <1> HIDE DEF fresh, after
  <1>3. unskip \in State /\ Agree(unskip, fresh) /\ ~ unskip.skip /\ unskip.attempts = fresh.attempts
    BY <1>2, SetSkip, SetSkipFields
  <1> HIDE DEF unskip
  <1>4. Agree(left, unskip) /\ left.skip = unskip.skip /\ left.attempts = unskip.attempts
    BY <1>3, SetEscStallFields
  <1> HIDE DEF left
  <1>5. Entered(l, r).attempts = after /\ Agree(Entered(l, r), r) /\ ~ Entered(l, r).skip
    BY <1>1, <1>2, <1>3, <1>4 DEF Agree
  <1> QED
    BY <1>5 DEF after

LEMMA ProducedFields ==
  ASSUME NEW r \in State, NEW l \in Loops, NEW p, NEW built \in BOOLEAN, NEW tests, ~ r.rerun
  PROVE  LET q == Produced(l, p, built, tests, r)
         IN  Agree(q, r) /\ q.skip = r.skip /\ q.attempts = r.attempts
  BY DEF State, Agree, Produced

LEMMA ReviewedFields ==
  ASSUME NEW r \in State, NEW l \in Loops, NEW v
  PROVE  LET q == Reviewed(l, v, r)
         IN  Agree(q, r) /\ q.skip = r.skip /\ q.attempts = r.attempts
  BY SetReviewFields DEF Agree, Reviewed

LEMMA CountedFields ==
  ASSUME NEW r \in State, NEW l \in Loops, NEW fell
  PROVE  LET q == Counted(l, fell, r)
         IN  Agree(q, r) /\ q.skip = r.skip /\ q.attempts = r.attempts
  BY DEF State, Agree, Counted

LEMMA EscalatedFields ==
  ASSUME NEW r \in State, NEW l \in Loops
  PROVE  LET q == Escalated(l, r)
         IN  /\ q.stage = r.stage /\ q.cp # "plan-approved" /\ q.target = r.target
             /\ q.err = r.err /\ q.rerun = r.rerun /\ q.skip = r.skip /\ q.attempts = r.attempts
  BY DEF State, Escalated, ConvergenceName

LEMMA ClearErrorFields ==
  ASSUME NEW r \in State
  PROVE  LET q == ClearError(r)
         IN  /\ q.stage = r.stage /\ q.cp = r.cp /\ q.target = r.target /\ q.err = "none"
             /\ q.rerun = r.rerun /\ q.attempts = r.attempts
             /\ q.skip => r.skip \/ r.err = "revision-exhausted"
  BY DEF State, ClearError

LEMMA ApplyRerunFields ==
  ASSUME NEW r \in State
  PROVE  LET q == ApplyRerun("/rerun-plan", r)
         IN  /\ q.stage = r.stage /\ q.cp = "none" /\ q.err = "none"
             /\ q.rerun = r.rerun /\ q.skip = r.skip
             /\ q.attempts = [r.attempts EXCEPT !["planning"] = 0]
  BY DEF State, ApplyRerun, RerunTarget

---------------------------------------------------------------------------
(* The invariant and the ways a step ends *)

BInv == TypeInv /\ OnlyHumansGrant /\ RowInStep /\ ChargeOnRecord

LEMMA BInvTypes ==
  ASSUME BInv
  PROVE  /\ db \in State /\ s \in State /\ pre \in State
         /\ charge \in [Loops -> 0..MaxAttempts + 1]
         /\ Stage \in Stages /\ (exit # "none" => pc = "down")
  BY StageType DEF BInv, TypeInv, TypeOK

LEMMA NothingCharged ==
  ASSUME NEW r \in State
  PROVE  \A l \in Loops : NoCharge[l] <= r.attempts[l]
  BY AttemptsType DEF NoCharge

\* Nothing changes but tags, comments and the world, or a human's grant.
LEMMA QuietBudget ==
  ASSUME BInv, UNCHANGED container, asks' \subseteq Inputs,
         charge' = NoCharge \/ /\ charge' = charge
                               /\ needInput' = needInput \/ db.err # "revision-exhausted"
  PROVE  RowInStep' /\ ChargeOnRecord'
  <1>1. /\ \A l \in Loops : NoCharge[l] <= db.attempts[l]
        /\ \A l \in Loops : NoCharge[l] <= s.attempts[l]
    BY BInvTypes, NothingCharged
  <1>2. UNCHANGED << db, s, pc, i, cmd, sig, exit >>
    BY DEF container
  <1>3. RowInStep'
    BY <1>2 DEF BInv, RowInStep, AtPlanGate, Stage
  <1>4. ChargeOnRecord'
    BY <1>1, <1>2 DEF BInv, ChargeOnRecord, Stopped
  <1> QED
    BY <1>3, <1>4

\* A container that stops: the row that is saved carries what is charged.
LEMMA DownBudget ==
  ASSUME BInv, db' \in State, s' = db', pc' = "down", sig' = "none",
         exit' \in {"ok", "failed"},
         asks' \subseteq Inputs, ~ db'.rerun,
         db'.cp = "plan-approved" => AtPlanGate(db)',
         \A l \in Loops : charge'[l] <= db'.attempts[l],
         db'.skip => charge' = NoCharge,
         exit' = "ok" => db'.err # "revision-exhausted"
  PROVE  RowInStep' /\ ChargeOnRecord'
  <1>1. RowInStep'
    BY DEF RowInStep
  <1>2. ChargeOnRecord'
    BY DEF ChargeOnRecord, Stopped
  <1> QED
    BY <1>1, <1>2

LEMMA FailBudget ==
  ASSUME BInv, NEW at \in State, NEW type \in ErrorTypes, Fail(at, type), ~ at.rerun,
         at.cp = "plan-approved" => /\ at.stage = "checkpoint:plan-approved"
                                    /\ at.target = "none" /\ type # "revision-exhausted",
         \A l \in Loops : charge'[l] <= at.attempts[l],
         at.skip => charge' = NoCharge
  PROVE  RowInStep' /\ ChargeOnRecord'
  <1>1. /\ db' = [at EXCEPT !.err = type, !.errAt = Stage]
        /\ s' = db' /\ pc' = "down" /\ exit' = "failed" /\ sig' = "none"
        /\ asks' \subseteq asks
    BY DEF Fail
  <1>2. /\ db'.stage = at.stage /\ db'.cp = at.cp /\ db'.target = at.target /\ db'.err = type
        /\ db'.rerun = at.rerun /\ db'.skip = at.skip /\ db'.attempts = at.attempts
    BY <1>1, SetErrorFields
  <1>3. db' \in State
    BY FailType DEF BInv
  <1>4. db'.cp = "plan-approved" => AtPlanGate(db)'
    BY <1>2 DEF AtPlanGate
  <1>5. asks' \subseteq Inputs
    BY <1>1 DEF BInv, RowInStep
  <1> HIDE DEF Fail
  <1> QED
    BY <1>1, <1>2, <1>3, <1>4, <1>5, DownBudget

LEMMA StopBudget ==
  ASSUME BInv, NEW row \in State, NEW how \in {"ok", "failed"}, Stop(row, how),
         asks' = asks, charge' = charge, ~ row.rerun,
         row.cp = "plan-approved" => AtPlanGate(row),
         \A l \in Loops : charge[l] <= row.attempts[l],
         row.skip => charge = NoCharge,
         how = "ok" => row.err # "revision-exhausted"
  PROVE  RowInStep' /\ ChargeOnRecord'
  <1>1. db' = row /\ s' = row /\ pc' = "down" /\ sig' = "none" /\ exit' = how
    BY DEF Stop
  <1>2. db'.cp = "plan-approved" => AtPlanGate(db)'
    BY <1>1 DEF AtPlanGate
  <1>3. asks' \subseteq Inputs
    BY DEF BInv, RowInStep
  <1> QED
    BY <1>1, <1>2, <1>3, DownBudget

\* A stage that returns: the saved row is as it was.
LEMMA ReturnBudget ==
  ASSUME BInv, NEW result \in State, NEW signal, Return(result, signal), asks' = asks,
         pc \notin {"down", "enter"}, ~ result.rerun,
         result.stage = s.stage, result.err = s.err,
         signal # "rewind" => result.target = "none",
         result.cp = "plan-approved" => /\ Stage = "checkpoint:plan-approved"
                                        /\ signal = "pause",
         \A l \in Loops : charge'[l] <= db.attempts[l] /\ charge'[l] <= result.attempts[l],
         db.skip \/ result.skip => charge' = NoCharge
  PROVE  RowInStep' /\ ChargeOnRecord'
  <1>1. /\ s' = result /\ sig' = signal /\ pc' = "leave" /\ UNCHANGED << db, i, cmd, exit >>
    BY DEF Return
  <1>2. Stage' = Stage
    BY <1>1 DEF Stage
  <1>3. /\ asks \subseteq Inputs /\ ~ db.rerun /\ s.stage = Stage
        /\ s.err # "revision-exhausted"
        /\ (db.cp = "plan-approved" => AtPlanGate(db))
    BY DEF BInv, RowInStep
  <1>4. RowInStep'
    BY <1>1, <1>2, <1>3 DEF RowInStep, AtPlanGate
  <1>5. exit = "ok" => db.err # "revision-exhausted"
    BY DEF BInv, ChargeOnRecord
  <1>6. ChargeOnRecord'
    BY <1>1, <1>5 DEF ChargeOnRecord, Stopped
  <1> QED
    BY <1>4, <1>6

\* A container that starts: a row that waits for the plan's approval restarts there.
LEMMA LoadBudget ==
  ASSUME BInv, NEW row \in State, NEW command \in {"run", "continue"}, Load(row, command),
         db' \in State, asks' \subseteq Inputs, ~ row.rerun, ~ db'.rerun,
         row.err # "revision-exhausted",
         row.cp = "plan-approved" => AtPlanGate(row) /\ command = "continue",
         db'.cp = "plan-approved" => AtPlanGate(db)',
         \A l \in Loops : charge'[l] <= db'.attempts[l] /\ charge'[l] <= row.attempts[l],
         db'.skip \/ row.skip => charge' = NoCharge
  PROVE  RowInStep' /\ ChargeOnRecord'
  <1>1. /\ s' = [row EXCEPT !.target = "none"] /\ pc' = "enter" /\ sig' = "none"
        /\ exit' = "none" /\ cmd' = command
    BY DEF Load
  <1>2. /\ s'.stage = row.stage /\ s'.cp = row.cp /\ s'.target = "none" /\ s'.err = row.err
        /\ s'.rerun = row.rerun /\ s'.skip = row.skip /\ s'.attempts = row.attempts
    BY <1>1, SetTargetFields
  <1>3. row.cp = "plan-approved" => Stage' = "checkpoint:plan-approved"
    <2> SUFFICES ASSUME row.cp = "plan-approved" PROVE Stage' = "checkpoint:plan-approved"
      OBVIOUS
    <2>1. row.stage = "checkpoint:plan-approved" /\ row.target = "none"
      BY DEF AtPlanGate
    <2>2. /\ 3 \in 1..Len(DefaultStages)
          /\ DefaultStages[3] = "checkpoint:plan-approved"
      BY DEF DefaultStages
    <2> DEFINE k == StageIndex(DefaultStages, "checkpoint:plan-approved")
    <2>3. k \in 1..Len(DefaultStages) /\ DefaultStages[k] = "checkpoint:plan-approved"
      BY <2>2, StageIndexFinds
    <2>4. k > 0
      BY <2>3, DefaultStagesType
    <2>5. StageList("continue") = DefaultStages
      BY DEF StageList
    <2>6. i' = k
      BY <2>1, <2>4, <2>5 DEF Load
    <2> QED
      BY <1>1, <2>3, <2>5, <2>6 DEF Stage
  <1>4. RowInStep'
    BY <1>1, <1>2, <1>3 DEF RowInStep, AtPlanGate
  <1>5. ChargeOnRecord'
    BY <1>1, <1>2 DEF ChargeOnRecord, Stopped
  <1> QED
    BY <1>4, <1>5

---------------------------------------------------------------------------
(* The steps of the container *)

\* What holds of the container's copy of the row while a stage runs.
LEMMA Running ==
  ASSUME BInv, pc \notin {"down", "enter"}
  PROVE  /\ asks \subseteq Inputs /\ ~ db.rerun /\ ~ s.rerun
         /\ s.stage = Stage /\ s.err # "revision-exhausted"
         /\ (db.cp = "plan-approved" => AtPlanGate(db))
         /\ (s.cp = "plan-approved" =>
               Stage = "checkpoint:plan-approved" /\ s.target = "none")
         /\ (pc \in {"stage", "produce", "review"} => s.target = "none")
         /\ (pc \in {"produce", "review"} => ~ db.skip /\ ~ s.skip)
         /\ (\A l \in Loops : charge[l] <= db.attempts[l] /\ charge[l] <= s.attempts[l])
         /\ (db.skip \/ s.skip => charge = NoCharge)
         /\ "report" \notin Faults /\ "plain" \notin Faults /\ "tag" \notin Faults
  BY DEF BInv, OnlyHumansGrant, RowInStep, ChargeOnRecord, AtPlanGate

LEMMA EnterStageBudget == ASSUME BInv, EnterStage PROVE RowInStep' /\ ChargeOnRecord'
  <1> DEFINE row == [s EXCEPT !.stage = Stage]
  <1>1. /\ row \in State /\ row.stage = Stage /\ row.cp = s.cp /\ row.target = s.target
        /\ row.err = s.err /\ row.rerun = s.rerun /\ row.skip = s.skip
        /\ row.attempts = s.attempts
    BY BInvTypes, SetStage, SetStageFields
  <1>2. /\ pc = "enter" /\ UNCHANGED << world, ghosts >>
        /\ \/ /\ db' = row /\ s' = row /\ pre' = row /\ pc' = "stage"
              /\ UNCHANGED << i, cmd, sig, exit >>
           \/ Stop(row, "failed")
    BY DEF EnterStage
  <1> HIDE DEF row
  <1>3. asks' = asks /\ charge' = charge
    BY <1>2 DEF world, ghosts
  <1>4. /\ ~ row.rerun
        /\ (row.cp = "plan-approved" =>
              /\ Stage = "checkpoint:plan-approved" /\ AtPlanGate(row))
        /\ \A l \in Loops : charge[l] <= row.attempts[l]
        /\ (row.skip => charge = NoCharge)
    BY <1>1, <1>2 DEF BInv, RowInStep, ChargeOnRecord, AtPlanGate
  <1>5. CASE Stop(row, "failed")
    BY <1>1, <1>3, <1>4, <1>5, StopBudget
  <1>6. CASE /\ db' = row /\ s' = row /\ pc' = "stage" /\ UNCHANGED << i, cmd, sig, exit >>
    <2>1. Stage' = Stage
      BY <1>6 DEF Stage
    <2>2. RowInStep'
      BY <1>1, <1>2, <1>3, <1>4, <1>6, <2>1 DEF BInv, RowInStep, AtPlanGate
    <2>3. exit' # "ok"
      BY <1>2, <1>6, BInvTypes
    <2>4. ChargeOnRecord'
      BY <1>3, <1>4, <1>6, <2>3 DEF ChargeOnRecord, Stopped
    <2> QED
      BY <2>2, <2>4
  <1> QED
    BY <1>2, <1>5, <1>6

LEMMA PlainStageBudget ==
  ASSUME BInv, RunPlainStage \/ FailPlainStage
  PROVE  RowInStep' /\ ChargeOnRecord'
  <1>1. pc = "stage" /\ Stage \in PlainStages /\ charge' = charge
    BY DEF RunPlainStage, FailPlainStage, ghosts
  <1>2. Stage # "checkpoint:plan-approved"
    BY <1>1 DEF PlainStages
  <1>3. CASE RunPlainStage
    <2> DEFINE row == PlainOutputs(Stage, s)
    <2>1. Return(row, "none") /\ asks' = asks
      BY <1>3 DEF RunPlainStage
    <2>2. row \in State /\ Agree(row, s) /\ row.skip = s.skip /\ row.attempts = s.attempts
      BY BInvTypes, PlainOutputsType, PlainOutputsFields
    <2> HIDE DEF row
    <2> QED
      BY <1>1, <1>2, <2>1, <2>2, Running, ReturnBudget DEF Agree
  <1>4. CASE FailPlainStage
    <2>1. PICK type \in ErrorTypes : Fail(s, type)
      BY <1>4 DEF FailPlainStage, ErrorTypes
    <2> QED
      BY <1>1, <1>2, <2>1, Running, BInvTypes, FailBudget
  <1> QED
    BY <1>3, <1>4

\* An attempt that is charged is recorded in the row, and the row is saved with it.
LEMMA StartAttemptBudget ==
  ASSUME BInv, NEW row \in State, NEW l \in Loops, NEW n \in 0..MaxAttempts,
         NEW c \in [Loops -> 0..MaxAttempts + 1],
         StartAttempt(l, n, row), Stage = l, asks' = asks, pc \in {"stage", "review"},
         Agree(row, s), ~ row.skip,
         charge' = Charge(l, c), c[l] < n,
         \A m \in Loops : c[m] <= row.attempts[m]
  PROVE  RowInStep' /\ ChargeOnRecord'
  <1>1. /\ s' = RecordAttempt(l, n, row) /\ db' = s'
        /\ pc' = "produce" /\ UNCHANGED << i, cmd, sig, exit >>
    BY Running DEF StartAttempt
  <1>2. /\ Agree(s', row) /\ ~ s'.skip
        /\ s'.attempts[l] = n /\ \A m \in Loops \ {l} : s'.attempts[m] = row.attempts[m]
    BY <1>1, SetAttemptFields DEF RecordAttempt
  <1>3. Stage' = Stage
    BY <1>1 DEF Stage
  <1>4. s.cp # "plan-approved"
    BY Running DEF Loops
  <1>5. RowInStep'
    BY <1>1, <1>2, <1>3, <1>4, Running DEF RowInStep, Agree, BInv
  <1>6. charge'[l] <= n /\ \A m \in Loops \ {l} : charge'[m] = c[m]
    BY DEF Charge
  <1>7. exit' # "ok"
    BY <1>1, BInvTypes
  <1>8. \A m \in Loops : charge'[m] <= s'.attempts[m]
    BY <1>2, <1>6
  <1>9. ChargeOnRecord'
    BY <1>1, <1>2, <1>7, <1>8 DEF ChargeOnRecord, Stopped
  <1> QED
    BY <1>5, <1>9

LEMMA EnterLoopBudget ==
  ASSUME BInv, NEW l \in Loops, EnterLoop(l)
  PROVE  RowInStep' /\ ChargeOnRecord'
  <1> DEFINE row == Entered(l, s)
             spent == PriorAttempts(l, s)
             kept == IF l = "planning" /\ ~ (s.rerun \/ s.skip)
                     THEN [charge EXCEPT !["coding"] = 0, !["test-cases"] = 0]
                     ELSE charge
  <1>1. pc = "stage" /\ Stage = l /\ Stage # "checkpoint:plan-approved"
    BY DEF EnterLoop, Loops
  <1>2. row \in State /\ s \in State /\ spent \in 0..MaxAttempts
    BY BInvTypes, EnteredType, PriorAttemptsType
  <1>3. /\ Agree(row, s) /\ ~ row.skip
        /\ row.attempts = IF l = "planning" /\ ~ (s.rerun \/ s.skip)
                          THEN [s.attempts EXCEPT !["coding"] = 0, !["test-cases"] = 0]
                          ELSE s.attempts
    BY <1>2, EnteredFields
  <1>4. kept \in [Loops -> 0..MaxAttempts + 1] /\ (s.skip => kept = NoCharge)
    <2>1. charge \in [Loops -> 0..MaxAttempts + 1]
      BY BInvTypes
    <2>2. [charge EXCEPT !["coding"] = 0, !["test-cases"] = 0] \in [Loops -> 0..MaxAttempts + 1]
      BY <2>1, BudgetAssumption DEF Loops
    <2>3. s.skip => charge = NoCharge
      BY <1>1, Running
    <2> QED
      BY <2>1, <2>2, <2>3
  <1>5. \A m \in Loops : kept[m] <= row.attempts[m]
    <2>1. s.attempts \in [Loops -> 0..MaxAttempts]
      BY <1>2 DEF State
    <2> QED
      BY <1>1, <1>3, <2>1, BInvTypes, Running DEF Loops
  <1>6. kept[l] <= spent
    <2>1. CASE s.skip
      BY <1>2, <1>4, <2>1 DEF NoCharge
    <2>2. CASE ~ s.skip
      <3>1. spent = row.attempts[l]
        BY <1>1, <2>2, Running DEF PriorAttempts, GrantsFreshBudget
      <3> QED
        BY <1>5, <3>1
    <2> QED
      BY <2>1, <2>2
  <1>7. CASE Fail(row, "revision-exhausted") /\ charge' = kept
    <2>1. "revision-exhausted" \in ErrorTypes
      BY DEF ErrorTypes
    <2> HIDE DEF row, kept, Fail
    <2> QED
      BY <1>1, <1>2, <1>3, <1>5, <1>7, <2>1, Running, FailBudget DEF Agree
  <1>8. CASE Fail(s, "needs-input") /\ UNCHANGED ghosts
    <2>1. "needs-input" \in ErrorTypes /\ charge' = charge
      BY <1>8 DEF ErrorTypes, ghosts
    <2> QED
      BY <1>1, <1>2, <1>8, <2>1, Running, FailBudget
  <1>9. CASE /\ spent < MaxAttempts /\ StartAttempt(l, spent + 1, row)
             /\ charge' = Charge(l, kept) /\ UNCHANGED world
    <2>1. spent + 1 \in 0..MaxAttempts /\ kept[l] < spent + 1 /\ asks' = asks
      BY <1>2, <1>4, <1>6, <1>9, BudgetAssumption DEF world
    <2> HIDE DEF row, kept, spent
    <2> QED
      BY <1>1, <1>2, <1>3, <1>4, <1>5, <1>9, <2>1, StartAttemptBudget
  <1> QED
    BY <1>7, <1>8, <1>9 DEF EnterLoop, BudgetLeft

LEMMA ProduceBudget ==
  ASSUME BInv, NEW l \in Loops, Produce(l)
  PROVE  RowInStep' /\ ChargeOnRecord'
  <1>1. /\ pc = "produce" /\ Stage = l /\ Stage # "checkpoint:plan-approved"
        /\ pc' = "review" /\ UNCHANGED << i, cmd, sig, exit, world, charge >>
    BY DEF Produce, Loops
  <1>2. db' = s'
    BY <1>1, Running DEF Produce
  <1>3. PICK p \in IF l = "planning" THEN FreshPlans ELSE {NoPlan},
             built \in IF l = "coding" THEN BOOLEAN ELSE {FALSE},
             tests \in IF l = "test-cases" THEN TestOutputs ELSE {"none"} :
          s' = Produced(l, p, built, tests, s)
    BY DEF Produce
  <1>4. built \in BOOLEAN
    BY <1>3
  <1>5. Agree(s', s) /\ s'.skip = s.skip /\ s'.attempts = s.attempts
    BY <1>1, <1>3, <1>4, BInvTypes, Running, ProducedFields
  <1>6. Stage' = Stage /\ asks' = asks
    BY <1>1 DEF Stage, world
  <1>7. RowInStep'
    BY <1>1, <1>2, <1>5, <1>6, Running DEF RowInStep, Agree, BInv
  <1>8. exit' # "ok"
    BY <1>1, BInvTypes
  <1>9. ChargeOnRecord'
    BY <1>1, <1>2, <1>5, <1>8, Running DEF ChargeOnRecord, Stopped
  <1> QED
    BY <1>7, <1>9

LEMMA ReviewBudget ==
  ASSUME BInv, NEW l \in Loops, Review(l)
  PROVE  RowInStep' /\ ChargeOnRecord'
  <1> DEFINE row(v) == Reviewed(l, v, s)
             next(v, fell) == IF Converges(l, cmd) THEN Counted(l, fell, row(v)) ELSE row(v)
  <1>1. PICK v \in {"approve", "revise"}, fell \in BOOLEAN :
          \/ /\ Return(Approved(l, row(v)), "none")
             /\ charge' = [charge EXCEPT ![l] = 0] /\ UNCHANGED world
          \/ /\ Return(Escalated(l, next(v, fell)), "pause")
             /\ UNCHANGED << world, ghosts >>
          \/ /\ next(v, fell).attempts[l] < MaxAttempts
             /\ StartAttempt(l, next(v, fell).attempts[l] + 1, next(v, fell))
             /\ charge' = Charge(l, charge) /\ UNCHANGED world
          \/ /\ Fail(next(v, fell), "revision-exhausted")
             /\ UNCHANGED ghosts
    BY Zenon DEF Review, ghosts, world, BudgetLeft
  <1> DEFINE r == row(v)
             n == next(v, fell)
  <1>2. /\ pc = "review" /\ Stage = l /\ Stage # "checkpoint:plan-approved"
    BY DEF Review, Loops
  <1>3. r \in State /\ Agree(r, s) /\ r.skip = s.skip /\ r.attempts = s.attempts
    BY BInvTypes, ReviewedType, ReviewedFields
  <1> HIDE DEF row
  <1>4. Counted(l, fell, r) \in State
    BY <1>3, CountedType
  <1>5. /\ Agree(Counted(l, fell, r), r) /\ Counted(l, fell, r).skip = r.skip
        /\ Counted(l, fell, r).attempts = r.attempts
    BY <1>3, CountedFields
  <1>6. n \in State /\ Agree(n, s) /\ n.skip = s.skip /\ n.attempts = s.attempts
    BY <1>3, <1>4, <1>5 DEF Agree
  <1> HIDE DEF next
  <1>7. CASE /\ Return(Approved(l, r), "none")
             /\ charge' = [charge EXCEPT ![l] = 0] /\ UNCHANGED world
    <2> DEFINE q == Approved(l, r)
    <2>1. /\ q \in State /\ Agree(q, r) /\ q.skip = r.skip
          /\ q.attempts[l] = 0 /\ \A m \in Loops \ {l} : q.attempts[m] = r.attempts[m]
      BY <1>3, ApprovedType, SetAttemptFields DEF Approved
    <2> HIDE DEF q, r
    <2>2. asks' = asks
      BY <1>7 DEF world
    <2>3. /\ charge'[l] = 0 /\ \A m \in Loops \ {l} : charge'[m] = charge[m]
          /\ (charge = NoCharge => charge' = NoCharge)
      BY <1>7, BInvTypes DEF NoCharge
    <2>4. 0 <= db.attempts[l]
      BY BInvTypes, AttemptsType
    <2>5. \A m \in Loops : charge'[m] <= db.attempts[m] /\ charge'[m] <= q.attempts[m]
      BY <1>2, <1>3, <2>1, <2>3, <2>4, Running
    <2>6. /\ ~ q.rerun /\ q.stage = s.stage /\ q.err = s.err /\ q.target = "none"
          /\ q.cp # "plan-approved" /\ (db.skip \/ q.skip => charge' = NoCharge)
      BY <1>2, <1>3, <2>1, <2>3, Running DEF Agree
    <2>7. Return(q, "none")
      BY <1>7 DEF q
    <2> QED
      BY <1>2, <2>1, <2>2, <2>5, <2>6, <2>7, ReturnBudget
  <1>8. CASE Return(Escalated(l, n), "pause") /\ UNCHANGED << world, ghosts >>
    <2> DEFINE q == Escalated(l, n)
    <2>1. q \in State /\ Return(q, "pause")
      BY <1>6, <1>8, EscalatedType
    <2>2. /\ q.stage = n.stage /\ q.cp # "plan-approved" /\ q.target = n.target
          /\ q.err = n.err /\ q.rerun = n.rerun /\ q.skip = n.skip /\ q.attempts = n.attempts
      BY <1>6, EscalatedFields
    <2> HIDE DEF q, n
    <2>3. asks' = asks /\ charge' = charge
      BY <1>8 DEF world, ghosts
    <2>4. /\ ~ q.rerun /\ q.stage = s.stage /\ q.err = s.err /\ q.target = "none"
          /\ q.skip = s.skip /\ q.attempts = s.attempts
      BY <1>2, <1>6, <2>2, Running DEF Agree
    <2> QED
      BY <1>2, <2>1, <2>2, <2>3, <2>4, Running, ReturnBudget
  <1>9. CASE /\ n.attempts[l] < MaxAttempts /\ StartAttempt(l, n.attempts[l] + 1, n)
             /\ charge' = Charge(l, charge) /\ UNCHANGED world
    <2>1. n.attempts[l] + 1 \in 0..MaxAttempts
      BY <1>6, <1>9, AttemptsType, BudgetAssumption
    <2> HIDE DEF n
    <2>2. charge[l] < n.attempts[l] + 1
      <3>1. charge[l] \in Int
        BY BInvTypes, BudgetAssumption
      <3>2. n.attempts[l] \in Int
        BY <1>6, AttemptsType
      <3>3. charge[l] <= n.attempts[l]
        BY <1>2, <1>6, Running
      <3> QED
        BY <3>1, <3>2, <3>3
    <2>3. asks' = asks /\ ~ n.skip /\ \A m \in Loops : charge[m] <= n.attempts[m]
      BY <1>2, <1>6, <1>9, Running DEF world
    <2> QED
      BY <1>2, <1>6, <1>9, <2>1, <2>2, <2>3, BInvTypes, StartAttemptBudget
  <1>10. CASE Fail(n, "revision-exhausted") /\ UNCHANGED ghosts
    <2>1. "revision-exhausted" \in ErrorTypes /\ charge' = charge
      BY <1>10 DEF ErrorTypes, ghosts
    <2> HIDE DEF n
    <2> QED
      BY <1>2, <1>6, <1>10, <2>1, Running, FailBudget DEF Agree
  <1> QED
    BY <1>1, <1>7, <1>8, <1>9, <1>10

LEMMA FailLoopBudget ==
  ASSUME BInv, NEW l \in Loops, FailLoop(l)
  PROVE  RowInStep' /\ ChargeOnRecord'
  <1>1. /\ pc \in {"produce", "review"} /\ Stage # "checkpoint:plan-approved"
        /\ "unknown" \in ErrorTypes /\ charge' = charge
    BY DEF FailLoop, Loops, ErrorTypes, ghosts
  <1>2. Fail(s, "unknown")
    BY <1>1, Running DEF FailLoop
  <1> QED
    BY <1>1, <1>2, Running, BInvTypes, FailBudget

LEMMA GateBudget ==
  ASSUME BInv, GateRewind \/ GatePass \/ GatePause \/ FailGate
  PROVE  RowInStep' /\ ChargeOnRecord'
  <1>1. pc = "stage" /\ Stage \in Gates
    BY DEF GateRewind, GatePass, GatePause, FailGate
  <1>2. CASE GateRewind
    <2> DEFINE hit == FirstMatch(Stage)
               row == [s EXCEPT !.cp = "none", !.rerun = hit[1] # "/rerun-plan",
                                !.target = hit[2], !.feedback = TRUE]
    <2>1. /\ Return(row, "rewind") /\ asks' = asks /\ charge' = NoCharge /\ Commented(Stage)
      BY <1>2 DEF GateRewind
    <2>2. hit[1] = "/rerun-plan" /\ hit[2] \in Loops
      <3>1. PICK k \in 1..Len(GateCommands(Stage)) :
              /\ hit = GateCommands(Stage)[k]
              /\ hit[1] \in asks
              /\ hit[2] \in {"planning", "coding"}
        BY <1>1, <2>1, FirstMatchType
      <3>2. GateCommands(Stage)[k][1] \in {"/rerun-plan", "/fix"}
        BY DEF GateCommands
      <3>3. "/fix" \notin asks
        BY DEF BInv, RowInStep, OnlyHumansGrant
      <3> QED
        BY <3>1, <3>2, <3>3 DEF Loops
    <2> DEFINE b == hit[1] # "/rerun-plan"
               l == hit[2]
    <2>3. row = [s EXCEPT !.cp = "none", !.rerun = b, !.target = l, !.feedback = TRUE]
      OBVIOUS
    <2>4. b \in BOOLEAN /\ ~ b /\ l \in Loops
      BY <2>2
    <2> HIDE DEF row, b, l, hit
    <2>5. /\ row \in State /\ row.stage = s.stage /\ row.cp = "none" /\ row.err = s.err
          /\ ~ row.rerun /\ row.skip = s.skip /\ row.attempts = s.attempts
      <3>1. s \in State
        BY BInvTypes
      <3>2. row \in State
        BY <2>3, <2>4, <3>1, SetRewind, Zenon
      <3>3. LET q == [s EXCEPT !.cp = "none", !.rerun = b, !.target = l, !.feedback = TRUE]
            IN  /\ q.stage = s.stage /\ q.cp = "none" /\ q.err = s.err
                /\ q.rerun = b /\ q.skip = s.skip /\ q.attempts = s.attempts
        BY <2>4, <3>1, SetRewindFields
      <3> QED
        BY <2>3, <2>4, <3>2, <3>3
    <2>6. \A m \in Loops : NoCharge[m] <= db.attempts[m]
      BY BInvTypes, NothingCharged
    <2>7. \A m \in Loops : NoCharge[m] <= row.attempts[m]
      BY <2>5, NothingCharged
    <2> QED
      BY <1>1, <2>1, <2>5, <2>6, <2>7, ReturnBudget
  <1>3. CASE GatePass
    <2> DEFINE row == [s EXCEPT !.cp = "none"]
    <2>1. Return(row, "none") /\ asks' = asks /\ charge' = charge
      BY <1>3 DEF GatePass, world, ghosts
    <2>2. /\ row \in State /\ row.stage = s.stage /\ row.cp = "none" /\ row.target = s.target
          /\ row.err = s.err /\ row.rerun = s.rerun /\ row.skip = s.skip
          /\ row.attempts = s.attempts
      BY BInvTypes, SetCheckpoint, SetCheckpointFields
    <2> HIDE DEF row
    <2> QED
      BY <1>1, <2>1, <2>2, Running, ReturnBudget
  <1>4. CASE GatePause
    <2> DEFINE c == CheckpointName(Stage)
               row == [s EXCEPT !.cp = c]
    <2>1. Return(row, "pause") /\ asks' = asks /\ charge' = charge
      BY <1>4 DEF GatePause, world, ghosts
    <2>2. c \in CheckpointNames \cup {"none"} /\ (c = "plan-approved" => Stage = "checkpoint:plan-approved")
      BY DEF CheckpointName, CheckpointNames
    <2> HIDE DEF c
    <2>3. /\ row \in State /\ row.stage = s.stage /\ row.cp = c /\ row.target = s.target
          /\ row.err = s.err /\ row.rerun = s.rerun /\ row.skip = s.skip
          /\ row.attempts = s.attempts
      BY <2>2, BInvTypes, SetCheckpoint, SetCheckpointFields
    <2> HIDE DEF row
    <2> QED
      BY <1>1, <2>1, <2>2, <2>3, Running, ReturnBudget
  <1>5. CASE FailGate
    <2>1. Fail(s, "unknown") /\ charge' = charge /\ "unknown" \in ErrorTypes
      BY <1>5 DEF FailGate, ghosts, ErrorTypes
    <2>2. "unknown" # "revision-exhausted" /\ s \in State
      BY BInvTypes
    <2>3. /\ ~ s.rerun /\ (\A l \in Loops : charge'[l] <= s.attempts[l])
          /\ (s.skip => charge' = NoCharge)
          /\ (s.cp = "plan-approved" => /\ s.stage = "checkpoint:plan-approved"
                                        /\ s.target = "none")
      BY <1>1, <2>1, Running
    <2> HIDE DEF BInv
    <2> QED
      BY <2>1, <2>2, <2>3, FailBudget
  <1> QED
    BY <1>2, <1>3, <1>4, <1>5

LEMMA PushBranchBudget == ASSUME BInv, PushBranch PROVE RowInStep' /\ ChargeOnRecord'
  <1>1. UNCHANGED container /\ asks' = asks /\ charge' = charge /\ needInput' = needInput
    BY DEF PushBranch, ghosts
  <1>2. asks \subseteq Inputs
    BY DEF BInv, RowInStep
  <1> QED
    BY <1>1, <1>2, QuietBudget

LEMMA SaveResultBudget == ASSUME BInv, SaveResult PROVE RowInStep' /\ ChargeOnRecord'
  <1>1. /\ pc = "leave" /\ db' = s /\ pc' = "notify" /\ asks' \subseteq asks
        /\ UNCHANGED << s, i, cmd, sig, exit, charge >>
    BY DEF SaveResult, ghosts
  <1>2. Stage' = Stage
    BY <1>1 DEF Stage
  <1>3. RowInStep'
    BY <1>1, <1>2, Running DEF BInv, RowInStep, AtPlanGate
  <1>4. exit' # "ok"
    BY <1>1, BInvTypes
  <1>5. ChargeOnRecord'
    BY <1>1, <1>4, Running DEF ChargeOnRecord, Stopped
  <1> QED
    BY <1>3, <1>5

LEMMA NotifyBudget == ASSUME BInv, Notify PROVE RowInStep' /\ ChargeOnRecord'
  <1>1. /\ pc = "notify" /\ asks' = asks /\ charge' = charge
        /\ (sig # "pause" => s.cp # "plan-approved")
        /\ (sig # "rewind" => s.target = "none")
    BY DEF Notify, ghosts, BInv, RowInStep
  <1>2. exit # "ok"
    BY <1>1, BInvTypes
  <1>3. CASE sig = "pause" /\ Stop(s, "ok")
    <2>1. s.cp = "plan-approved" => AtPlanGate(s)
      BY <1>1, Running DEF AtPlanGate
    <2> QED
      BY <1>1, <1>3, <2>1, Running, BInvTypes, StopBudget
  <1>4. CASE /\ sig = "rewind" /\ s' = [s EXCEPT !.target = "none"]
             /\ pc' = "enter" /\ sig' = "none" /\ UNCHANGED << db, exit >>
    <2>1. /\ s'.stage = s.stage /\ s'.cp = s.cp /\ s'.target = "none" /\ s'.err = s.err
          /\ s'.rerun = s.rerun /\ s'.skip = s.skip /\ s'.attempts = s.attempts
      BY <1>4, BInvTypes, SetTargetFields
    <2>2. RowInStep'
      BY <1>1, <1>4, <2>1, Running DEF RowInStep, AtPlanGate
    <2>3. ChargeOnRecord'
      BY <1>1, <1>2, <1>4, <2>1, Running DEF ChargeOnRecord, Stopped
    <2> QED
      BY <2>2, <2>3
  <1>5. CASE sig = "none" /\ pc' = "enter" /\ UNCHANGED << db, s, sig, exit >>
    <2>1. RowInStep'
      BY <1>1, <1>5, Running DEF RowInStep, AtPlanGate
    <2>2. ChargeOnRecord'
      BY <1>1, <1>2, <1>5, Running DEF ChargeOnRecord, Stopped
    <2> QED
      BY <2>1, <2>2
  <1>6. CASE sig = "none" /\ Stop([s EXCEPT !.done = TRUE], "ok")
    <2> DEFINE row == [s EXCEPT !.done = TRUE]
    <2>1. /\ row \in State /\ Agree(row, s) /\ row.skip = s.skip /\ row.attempts = s.attempts
      BY BInvTypes, SetDone, SetDoneFields
    <2>2. Stop(row, "ok")
      BY <1>6
    <2> HIDE DEF row
    <2> QED
      BY <1>1, <1>6, <2>1, <2>2, Running, StopBudget DEF Agree
  <1> QED
    BY <1>3, <1>4, <1>5, <1>6 DEF Notify

LEMMA CrashBudget == ASSUME BInv, Crash PROVE RowInStep' /\ ChargeOnRecord'
  <1>1. Stop(db, "failed") /\ asks' = asks /\ charge' = charge
    BY DEF Crash, world, ghosts
  <1>2. /\ ~ db.rerun /\ (db.cp = "plan-approved" => AtPlanGate(db))
        /\ (\A l \in Loops : charge[l] <= db.attempts[l])
        /\ (db.skip => charge = NoCharge)
    BY DEF BInv, RowInStep, ChargeOnRecord
  <1> QED
    BY <1>1, <1>2, BInvTypes, StopBudget

---------------------------------------------------------------------------
(* The watcher and the humans *)

\* What holds of the row between two containers.
LEMMA Waiting ==
  ASSUME BInv
  PROVE  /\ asks \subseteq Inputs /\ "/fix" \notin Inputs /\ "cli" \notin Inputs
         /\ ~ db.rerun /\ (db.cp = "plan-approved" => AtPlanGate(db))
         /\ (\A l \in Loops : charge[l] <= db.attempts[l])
         /\ (db.skip => charge = NoCharge)
         /\ "watcher" \notin Faults /\ "tag" \notin Faults
         /\ (Stopped /\ db.err = "revision-exhausted" /\ ~ needInput => charge = NoCharge)
         /\ heard \subseteq asks
  BY DEF BInv, OnlyHumansGrant, RowInStep, ChargeOnRecord, TypeInv, TypeOK

LEMMA HandleOutcomeBudget == ASSUME BInv, HandleOutcome PROVE RowInStep' /\ ChargeOnRecord'
  <1> DEFINE row == OutcomeRow
  <1>1. /\ db' = row /\ s' = row /\ exit # "none" /\ exit' = "none" /\ needInput' = Failed
        /\ UNCHANGED << pc, i, cmd, sig, asks, charge >>
    BY Waiting DEF HandleOutcome, ghosts
  <1>2. /\ row.stage = db.stage /\ row.cp = db.cp /\ row.target = db.target
        /\ row.rerun = db.rerun /\ row.skip = db.skip /\ row.attempts = db.attempts
        /\ row.err \in {db.err, "ContainerError"}
    BY BInvTypes, SetErrorFields DEF OutcomeRow
  <1> HIDE DEF row
  <1>3. pc = "down" /\ sig = "none"
    BY <1>1, BInvTypes DEF BInv, RowInStep
  <1>4. db'.err = "revision-exhausted" => needInput'
    <2> SUFFICES ASSUME db'.err = "revision-exhausted" PROVE Failed
      BY <1>1
    <2>1. db.err = "revision-exhausted"
      BY <1>1, <1>2
    <2>2. exit # "ok" /\ exit \in {"none", "ok", "failed"}
      BY <2>1 DEF BInv, ChargeOnRecord, TypeInv, TypeOK
    <2> QED
      BY <1>1, <2>1, <2>2 DEF Failed
  <1>5. RowInStep'
    BY <1>1, <1>2, <1>3, Waiting DEF RowInStep, AtPlanGate
  <1>6. ChargeOnRecord'
    BY <1>1, <1>2, <1>4, Waiting DEF ChargeOnRecord, Stopped
  <1> QED
    BY <1>5, <1>6

\* A container that starts on the row as a grant or a resume left it.
LEMMA ContinueBudget ==
  ASSUME BInv, NEW row \in State, Continue(row), asks' \subseteq Inputs,
         ~ row.rerun, row.err # "revision-exhausted",
         row.cp = "plan-approved" => AtPlanGate(row),
         \A l \in Loops : charge'[l] <= row.attempts[l],
         row.skip => charge' = NoCharge
  PROVE  RowInStep' /\ ChargeOnRecord'
  <1>1. db' = row /\ Load(row, "continue")
    BY DEF Continue
  <1>2. db'.cp = "plan-approved" => AtPlanGate(db)'
    BY <1>1 DEF AtPlanGate
  <1> QED
    BY <1>1, <1>2, LoadBudget

\* `continue` with the error cleared.
LEMMA ClearedBudget ==
  ASSUME BInv, Continue(ClearError(db)), asks' \subseteq Inputs,
         \/ charge' = NoCharge
         \/ charge' = charge /\ (db.err = "revision-exhausted" => charge = NoCharge)
  PROVE  RowInStep' /\ ChargeOnRecord'
  <1> DEFINE row == ClearError(db)
  <1>1. row \in State /\ Continue(row)
    BY BInvTypes, ClearErrorType
  <1>2. /\ row.stage = db.stage /\ row.cp = db.cp /\ row.target = db.target /\ row.err = "none"
        /\ row.rerun = db.rerun /\ row.attempts = db.attempts
        /\ (row.skip => db.skip \/ db.err = "revision-exhausted")
    BY BInvTypes, ClearErrorFields
  <1> HIDE DEF row
  <1>3. /\ \A l \in Loops : charge'[l] <= row.attempts[l]
        /\ (row.skip => charge' = NoCharge)
    BY <1>2, BInvTypes, NothingCharged, Waiting
  <1>4. ~ row.rerun /\ (row.cp = "plan-approved" => AtPlanGate(row))
    BY <1>2, Waiting DEF AtPlanGate
  <1> QED
    BY <1>1, <1>2, <1>3, <1>4, ContinueBudget

LEMMA RerunBudget ==
  ASSUME BInv, NEW c \in {"/rerun-plan", "/fix"}, c \in Inputs, Rerun(c)
  PROVE  RowInStep' /\ ChargeOnRecord'
  <1> DEFINE row == ApplyRerun("/rerun-plan", db)
  <1>1. c = "/rerun-plan"
    BY Waiting
  <1>2. row \in State /\ Continue(row) /\ asks' = {} /\ charge' = NoCharge
    BY <1>1, BInvTypes, ApplyRerunType DEF Rerun
  <1>3. /\ row.cp = "none" /\ row.err = "none" /\ row.rerun = db.rerun
    BY BInvTypes, ApplyRerunFields
  <1> HIDE DEF row
  <1>4. \A l \in Loops : charge'[l] <= row.attempts[l]
    BY <1>2, NothingCharged
  <1> QED
    BY <1>2, <1>3, <1>4, Waiting, ContinueBudget

LEMMA WatcherBudget == ASSUME BInv, Watcher PROVE RowInStep' /\ ChargeOnRecord'
  <1>1. CASE HandleOutcome
    BY <1>1, HandleOutcomeBudget
  <1>2. CASE LoseOutcome
    BY <1>2, Waiting DEF LoseOutcome
  <1>3. CASE ContinueTag
    <2>1. /\ Continue(IF db.err # "none" THEN ClearError(db) ELSE db)
          /\ asks' = asks
          /\ \/ charge' = NoCharge
             \/ charge' = charge /\ db.err # "revision-exhausted"
      BY <1>3 DEF ContinueTag, Rewindowed, Granted
    <2>2. CASE db.err # "none"
      BY <2>1, <2>2, Waiting, ClearedBudget
    <2>3. CASE db.err = "none"
      BY <2>1, <2>3, Waiting, BInvTypes, NothingCharged, ContinueBudget
    <2> QED
      BY <2>2, <2>3
  <1>4. CASE ContinueApproved
    <2>1. /\ Continue(IF PlanTagRetry THEN ClearError(db) ELSE db)
          /\ asks' = asks /\ charge' = charge /\ Stopped
          /\ (PlanTagRetry \/ db.cp = "plan-approved")
      BY <1>4 DEF ContinueApproved, Rewindowed, PlanTagAtGate, ghosts
    <2>2. CASE PlanTagRetry
      <3>1. ~ needInput
        BY <2>2 DEF PlanTagRetry
      <3> QED
        BY <2>1, <2>2, <3>1, Waiting, ClearedBudget
    <2>3. CASE ~ PlanTagRetry
      <3>1. db.err # "revision-exhausted"
        BY <2>1, <2>3, Waiting DEF AtPlanGate
      <3> QED
        BY <2>1, <2>3, <3>1, Waiting, BInvTypes, ContinueBudget
    <2> QED
      BY <2>2, <2>3
  <1>5. CASE ContinueMerged
    <2>1. Continue(db) /\ db.err = "none" /\ asks' = asks /\ charge' = charge
      BY <1>5 DEF ContinueMerged, PrCompletedCandidate, world, ghosts
    <2> QED
      BY <2>1, Waiting, BInvTypes, ContinueBudget
  <1>6. CASE ResumeOrphan
    <2>1. Continue(db) /\ db.err = "none" /\ asks' = asks /\ charge' = charge
      BY <1>6 DEF ResumeOrphan, world, ghosts
    <2> QED
      BY <2>1, Waiting, BInvTypes, ContinueBudget
  <1>7. CASE StartFresh
    <2> DEFINE row == InitialState
    <2>1. /\ Load(row, "run") /\ db' = db /\ asks' = {} /\ charge' = NoCharge
      BY <1>7 DEF StartFresh
    <2>2. /\ row \in State /\ ~ row.rerun /\ row.err = "none" /\ row.cp = "none"
      BY InitialType DEF InitialState
    <2> HIDE DEF row
    <2>3. /\ \A l \in Loops : charge'[l] <= db.attempts[l]
          /\ \A l \in Loops : charge'[l] <= row.attempts[l]
      BY <2>1, <2>2, BInvTypes, NothingCharged
    <2>4. db'.cp = "plan-approved" => AtPlanGate(db)'
      BY <2>1, Waiting DEF AtPlanGate
    <2> QED
      BY <2>1, <2>2, <2>3, <2>4, BInvTypes, Waiting, LoadBudget
  <1>8. CASE CliContinue
    BY <1>8, Waiting DEF CliContinue
  <1>9. ASSUME NEW c \in {"/rerun-plan", "/fix"}, ScanRerun(c)
        PROVE  RowInStep' /\ ChargeOnRecord'
    BY <1>9, Waiting, RerunBudget DEF ScanRerun
  <1>10. ASSUME NEW c \in {"/rerun-plan", "/fix"}, DashboardRerun(c)
         PROVE  RowInStep' /\ ChargeOnRecord'
    BY <1>10, RerunBudget DEF DashboardRerun
  <1> QED
    BY <1>1, <1>2, <1>3, <1>4, <1>5, <1>6, <1>7, <1>8, <1>9, <1>10 DEF Watcher

LEMMA HumanBudget == ASSUME BInv, Human PROVE RowInStep' /\ ChargeOnRecord'
  <1>1. /\ UNCHANGED container /\ asks' \subseteq Inputs
        /\ charge' = NoCharge \/ /\ charge' = charge
                                 /\ needInput' = needInput \/ db.err # "revision-exhausted"
    <2>1. asks \subseteq Inputs
      BY Waiting
    <2> QED
      BY <2>1 DEF Human, ApprovePlan, RemoveNeedInput, PullRequest, FreeBranch, Ask, ghosts,
                  Granted
  <1> QED
    BY <1>1, QuietBudget

LEMMA StutterBudget == ASSUME BInv, UNCHANGED vars PROVE RowInStep' /\ ChargeOnRecord'
  <1>1. UNCHANGED container /\ asks' = asks /\ charge' = charge /\ needInput' = needInput
    BY DEF vars, world, ghosts
  <1> QED
    BY <1>1, Waiting, QuietBudget

---------------------------------------------------------------------------

LEMMA InitBudget == ASSUME Init PROVE RowInStep /\ ChargeOnRecord
  <1>1. /\ ~ InitialState.rerun /\ ~ InitialState.skip /\ InitialState.stage = "analyzer"
        /\ InitialState.target = "none" /\ InitialState.err = "none" /\ InitialState.cp = "none"
    BY DEF InitialState
  <1>2. \A l \in Loops : NoCharge[l] <= InitialState.attempts[l]
    BY InitialType, NothingCharged
  <1>3. Stage = "analyzer"
    BY StageListType DEF Init, Stage
  <1>4. RowInStep
    BY <1>1, <1>3 DEF Init, RowInStep
  <1>5. ChargeOnRecord
    BY <1>1, <1>2 DEF Init, ChargeOnRecord, Stopped
  <1> QED
    BY <1>4, <1>5

\* When only humans grant budgets, what the loops have run since the last grant is on
\* record in every copy of the row, wherever the container dies and whatever resumes it.
THEOREM BudgetOnRecord == Spec => []BudgetInv
  <1> DEFINE Inv == TypeInv /\ BudgetInv
  <1>1. Init => Inv
    BY InitTypeInv, InitBudget DEF BudgetInv
  <1>2. Inv /\ [Next]_vars => Inv'
    <2> SUFFICES ASSUME Inv, [Next]_vars PROVE Inv'
      OBVIOUS
    <2>1. TypeInv'
      BY ContainerTypes, CrashTypes, WatcherTypes, HumanTypes, StutterTypes DEF Next
    <2>2. ASSUME OnlyHumansGrant PROVE RowInStep' /\ ChargeOnRecord'
      <3>1. BInv
        BY <2>2 DEF BInv, BudgetInv
      <3> HIDE DEF Inv
      <3>2. CASE Container
        BY <3>1, <3>2, EnterStageBudget, PlainStageBudget, PushBranchBudget, GateBudget,
           SaveResultBudget, NotifyBudget, EnterLoopBudget, ProduceBudget, ReviewBudget,
           FailLoopBudget
        DEF Container
      <3> QED
        BY <3>1, <3>2, CrashBudget, WatcherBudget, HumanBudget, StutterBudget DEF Next
    <2>3. OnlyHumansGrant' <=> OnlyHumansGrant
      BY DEF OnlyHumansGrant
    <2> QED
      BY <2>1, <2>2, <2>3 DEF BudgetInv
  <1>3. Inv => BudgetInv
    OBVIOUS
  <1> HIDE DEF Inv
  <1> QED
    BY <1>1, <1>2, <1>3, PTL DEF Spec

\* The circuit breaker: between two grants of a budget a loop's producer runs at most
\* MaxAttempts times, for every budget and every number of crashes and resumes.
THEOREM BudgetBounded == OnlyHumansGrant => (Spec => []BudgetRespected)
  <1> SUFFICES ASSUME OnlyHumansGrant PROVE Spec => []BudgetRespected
    OBVIOUS
  <1>1. TypeOK /\ BudgetInv => BudgetRespected
    <2> SUFFICES ASSUME TypeOK, ChargeOnRecord, NEW l \in Loops PROVE charge[l] <= MaxAttempts
      BY DEF BudgetInv, BudgetRespected
    <2>1. db.attempts[l] \in 0..MaxAttempts /\ charge[l] \in Nat
      BY AttemptsType, BudgetAssumption DEF TypeOK
    <2>2. charge[l] <= db.attempts[l]
      BY DEF ChargeOnRecord
    <2> QED
      BY <2>1, <2>2, BudgetAssumption
  <1> QED
    BY <1>1, TypeCorrect, BudgetOnRecord, PTL

---------------------------------------------------------------------------
(* What failures keep, and where an item may stop *)

\* q keeps what r has spent and produced.
Keeps(q, r) == q.attempts = r.attempts /\ q.plan = r.plan /\ q.code = r.code

LEMMA ErrorRecorded ==
  ASSUME NEW r \in State, NEW e, NEW w
  PROVE  [r EXCEPT !.err = e, !.errAt = w].err = e
  BY DEF State

LEMMA SetErrorKeeps ==
  ASSUME NEW r \in State, NEW e, NEW w
  PROVE  Keeps([r EXCEPT !.err = e, !.errAt = w], r)
  BY DEF State, Keeps

LEMMA ReviewedKeeps ==
  ASSUME NEW r \in State, NEW l \in Loops, NEW v
  PROVE  Keeps(Reviewed(l, v, r), r)
  BY DEF State, Keeps, Reviewed

LEMMA CountedKeeps ==
  ASSUME NEW r \in State, NEW l \in Loops, NEW fell
  PROVE  Keeps(Counted(l, fell, r), r)
  BY DEF State, Keeps, Counted

LEMMA FailKeeps ==
  ASSUME NEW at \in State, NEW type, Fail(at, type)
  PROVE  Keeps(db', at)
  BY SetErrorKeeps DEF Fail

---------------------------------------------------------------------------

\* Only StartAttempt and Produce reach the inside of a loop, and both save.
LEMMA SavedStep ==
  ASSUME NoLostSave, TypeInv, SavedInLoop, [Next]_vars
  PROVE  SavedInLoop'
  <1>1. "report" \notin Faults
    BY DEF NoLostSave
  <1>2. ASSUME NEW l \in Loops, NEW n, NEW row, StartAttempt(l, n, row)
        PROVE  SavedInLoop'
    BY <1>1, <1>2 DEF StartAttempt, SavedInLoop
  <1>3. ASSUME NEW at, NEW type, Fail(at, type) PROVE SavedInLoop'
    BY <1>3 DEF Fail, SavedInLoop
  <1>4. ASSUME NEW row, NEW how, Stop(row, how) PROVE SavedInLoop'
    BY <1>4 DEF Stop, SavedInLoop
  <1>5. ASSUME NEW row, NEW signal, Return(row, signal) PROVE SavedInLoop'
    BY <1>5 DEF Return, SavedInLoop
  <1>6. ASSUME NEW row, NEW command, Load(row, command) PROVE SavedInLoop'
    BY <1>6 DEF Load, SavedInLoop
  <1>7. CASE UNCHANGED container
    BY <1>7 DEF container, SavedInLoop
  <1>8. CASE Container
    <2>1. CASE EnterStage
      BY <2>1, <1>4 DEF EnterStage, SavedInLoop
    <2>2. CASE RunPlainStage \/ FailPlainStage
      BY <2>2, <1>3, <1>5 DEF RunPlainStage, FailPlainStage
    <2>3. CASE PushBranch
      BY <2>3, <1>7 DEF PushBranch
    <2>4. CASE GateRewind \/ GatePass \/ GatePause \/ FailGate
      BY <2>4, <1>3, <1>5 DEF GateRewind, GatePass, GatePause, FailGate
    <2>5. CASE SaveResult
      BY <2>5 DEF SaveResult, SavedInLoop
    <2>6. CASE Notify
      BY <2>6, <1>4 DEF Notify, SavedInLoop
    <2>7. ASSUME NEW l \in Loops, EnterLoop(l) PROVE SavedInLoop'
      BY <2>7, <1>2, <1>3 DEF EnterLoop
    <2>8. ASSUME NEW l \in Loops, Produce(l) PROVE SavedInLoop'
      BY <2>8, <1>1 DEF Produce, SavedInLoop
    <2>9. ASSUME NEW l \in Loops, Review(l) PROVE SavedInLoop'
      BY <2>9, <1>2, <1>3, <1>5 DEF Review
    <2>10. ASSUME NEW l \in Loops, FailLoop(l) PROVE SavedInLoop'
      BY <2>10, <1>3 DEF FailLoop
    <2> QED
      BY <1>8, <2>1, <2>2, <2>3, <2>4, <2>5, <2>6, <2>7, <2>8, <2>9, <2>10 DEF Container
  <1>9. CASE Crash
    BY <1>9, <1>4 DEF Crash
  <1>10. CASE Watcher
    <2>1. CASE HandleOutcome
      BY <2>1 DEF HandleOutcome, SavedInLoop
    <2>2. CASE LoseOutcome
      BY <2>2 DEF LoseOutcome, SavedInLoop
    <2>3. CASE ContinueTag \/ ContinueApproved \/ ContinueMerged \/ ResumeOrphan \/ CliContinue
      BY <2>3, <1>6
      DEF ContinueTag, ContinueApproved, ContinueMerged, ResumeOrphan, CliContinue, Continue
    <2>4. CASE StartFresh
      BY <2>4, <1>6 DEF StartFresh
    <2>5. ASSUME NEW c \in {"/rerun-plan", "/fix"}, ScanRerun(c) \/ DashboardRerun(c)
          PROVE  SavedInLoop'
      BY <2>5, <1>6 DEF ScanRerun, DashboardRerun, Rerun, Continue
    <2> QED
      BY <1>10, <2>1, <2>2, <2>3, <2>4, <2>5 DEF Watcher
  <1>11. CASE Human
    BY <1>11, <1>7 DEF Human, ApprovePlan, RemoveNeedInput, PullRequest, FreeBranch, Ask
  <1> QED
    BY <1>7, <1>8, <1>9, <1>10, <1>11 DEF Next, vars

\* A loop goes down by an exhausted review, a PipelineError or a crash.
LEMMA DownStep ==
  ASSUME NoLostSave, TypeInv, SavedInLoop, Next, pc \in {"produce", "review"}, pc' = "down"
  PROVE  Keeps(db', db)
  <1>1. db = s /\ s \in State /\ "plain" \notin Faults /\ exit = "none"
    BY DEF SavedInLoop, NoLostSave, TypeInv, TypeOK
  <1>2. CASE Crash
    BY <1>2 DEF Crash, Stop, Keeps
  <1>3. ASSUME NEW l \in Loops, FailLoop(l) PROVE Keeps(db', db)
    BY <1>1, <1>3, FailKeeps DEF FailLoop
  <1>4. ASSUME NEW l \in Loops, Review(l) PROVE Keeps(db', db)
    <2> DEFINE row(v) == Reviewed(l, v, s)
               next(v, fell) == IF Converges(l, cmd) THEN Counted(l, fell, row(v)) ELSE row(v)
    <2>1. PICK v \in {"approve", "revise"}, fell \in BOOLEAN :
            Fail(next(v, fell), "revision-exhausted")
      BY <1>4, Zenon DEF Review, Return, StartAttempt
    <2>2. row(v) \in State /\ Keeps(row(v), s)
      BY <1>1, ReviewedType, ReviewedKeeps
    <2> HIDE DEF row
    <2>3. next(v, fell) \in State /\ Keeps(next(v, fell), row(v))
      BY <2>2, CountedType, CountedKeeps DEF Keeps
    <2> HIDE DEF next
    <2> QED
      BY <1>1, <2>1, <2>2, <2>3, FailKeeps DEF Keeps
  <1>5. ~ Watcher
    BY <1>1 DEF Watcher, HandleOutcome, LoseOutcome, ContinueTag, ContinueApproved,
       ContinueMerged, ResumeOrphan, StartFresh, CliContinue, ScanRerun, DashboardRerun, Stopped
  <1>6. ~ Human
    BY DEF Human, ApprovePlan, RemoveNeedInput, PullRequest, FreeBranch, Ask, container
  <1>7. ASSUME Container PROVE \E l \in Loops : FailLoop(l) \/ Review(l)
    BY <1>7 DEF Container, EnterStage, RunPlainStage, FailPlainStage, PushBranch, GateRewind,
       GatePass, GatePause, FailGate, SaveResult, Notify, EnterLoop, Produce, container
  <1> QED
    BY <1>2, <1>3, <1>4, <1>5, <1>6, <1>7 DEF Next

\* When no save is lost, a failure or a crash inside a loop loses neither the attempts
\* the row counts nor the plan and the code of the rounds before it.
THEOREM ProgressKept == NoLostSave => (Spec => FailureKeepsProgress)
  <1> SUFFICES ASSUME NoLostSave PROVE Spec => FailureKeepsProgress
    OBVIOUS
  <1> DEFINE Inv == TypeInv /\ SavedInLoop
  <1>1. Init => Inv
    BY InitTypeInv DEF Init, SavedInLoop
  <1>2. Inv /\ [Next]_vars => Inv'
    <2>1. TypeInv /\ [Next]_vars => TypeInv'
      BY ContainerTypes, CrashTypes, WatcherTypes, HumanTypes, StutterTypes DEF Next
    <2> QED
      BY <2>1, SavedStep
  <1>3. Inv /\ [Next]_vars =>
          [ (pc \in {"produce", "review"} /\ pc' = "down") =>
            (db'.attempts = db.attempts /\ db'.plan = db.plan /\ db'.code = db.code) ]_vars
    BY DownStep DEF Keeps
  <1> HIDE DEF Inv
  <1> QED
    BY <1>1, <1>2, <1>3, PTL DEF Spec, FailureKeepsProgress

---------------------------------------------------------------------------

\* A container that goes down leaves an exit for the watcher to settle.
LEMMA DownHasExit ==
  ASSUME TypeInv, Container \/ Crash
  PROVE  ~ Stopped'
  <1>1. ASSUME NEW at, NEW type, Fail(at, type) PROVE ~ Stopped'
    BY <1>1 DEF Fail, Stopped
  <1>2. ASSUME NEW row, NEW how \in {"ok", "failed"}, Stop(row, how) PROVE ~ Stopped'
    BY <1>2 DEF Stop, Stopped
  <1>3. ASSUME NEW row, NEW signal, Return(row, signal) PROVE ~ Stopped'
    BY <1>3 DEF Return, Stopped
  <1>4. ASSUME NEW l \in Loops, NEW n, NEW row, StartAttempt(l, n, row) PROVE ~ Stopped'
    BY <1>4 DEF StartAttempt, Stopped
  <1>5. CASE EnterStage \/ Notify
    BY <1>5, <1>2 DEF EnterStage, Notify, Stopped
  <1>6. CASE RunPlainStage \/ FailPlainStage
    BY <1>6, <1>1, <1>3 DEF RunPlainStage, FailPlainStage
  <1>7. CASE GateRewind \/ GatePass \/ GatePause \/ FailGate
    BY <1>7, <1>1, <1>3 DEF GateRewind, GatePass, GatePause, FailGate
  <1>8. CASE PushBranch \/ SaveResult
    BY <1>8 DEF PushBranch, SaveResult, Stopped, container
  <1>9. ASSUME NEW l \in Loops, EnterLoop(l) PROVE ~ Stopped'
    BY <1>9, <1>1, <1>4 DEF EnterLoop
  <1>10. ASSUME NEW l \in Loops, Produce(l) PROVE ~ Stopped'
    BY <1>10 DEF Produce, Stopped
  <1>11. ASSUME NEW l \in Loops, Review(l) PROVE ~ Stopped'
    BY <1>11, <1>1, <1>3, <1>4 DEF Review
  <1>12. ASSUME NEW l \in Loops, FailLoop(l) PROVE ~ Stopped'
    BY <1>12, <1>1 DEF FailLoop
  <1>13. CASE Crash
    BY <1>13, <1>2 DEF Crash
  <1> QED
    BY <1>5, <1>6, <1>7, <1>8, <1>9, <1>10, <1>11, <1>12, <1>13 DEF Container

---------------------------------------------------------------------------

LEMMA DoneRecorded ==
  ASSUME NEW r \in State
  PROVE  [r EXCEPT !.done = TRUE].done
  BY DEF State

LEMMA StageKeepsCheckpoint ==
  ASSUME NEW r \in State, NEW w
  PROVE  [r EXCEPT !.stage = w].cp = r.cp
  BY DEF State

LEMMA GatePauseCheckpoint ==
  ASSUME NEW r \in State, NEW stage
  PROVE  [r EXCEPT !.cp = CheckpointName(stage)].cp # "none"
  BY DEF State, CheckpointName

LEMMA EscalatedCheckpoint ==
  ASSUME NEW r \in State, NEW l
  PROVE  Escalated(l, r).cp # "none"
  BY DEF State, Escalated, ConvergenceName

\* The ways a step of the container ends, and the start of one.
LEMMA FailKeepsPause ==
  ASSUME NEW at, NEW type, Fail(at, type)
  PROVE  PauseHasCheckpoint'
  BY DEF Fail, PauseHasCheckpoint

LEMMA StopKeepsPause ==
  ASSUME NEW row, NEW how, Stop(row, how), how = "ok" => row.done \/ row.cp # "none"
  PROVE  PauseHasCheckpoint'
  BY DEF Stop, PauseHasCheckpoint

LEMMA ReturnKeepsPause ==
  ASSUME TypeInv, pc # "down",
         NEW row, NEW signal, Return(row, signal), signal = "pause" => row.cp # "none"
  PROVE  PauseHasCheckpoint'
  <1>1. exit = "none"
    BY DEF TypeInv, TypeOK
  <1> QED
    BY <1>1 DEF Return, PauseHasCheckpoint

LEMMA StartAttemptKeepsPause ==
  ASSUME TypeInv, PauseHasCheckpoint, pc \in {"stage", "review"},
         NEW l, NEW n, NEW row, StartAttempt(l, n, row)
  PROVE  PauseHasCheckpoint'
  <1>1. exit = "none" /\ sig # "pause"
    BY DEF TypeInv, TypeOK, PauseHasCheckpoint
  <1> QED
    BY <1>1 DEF StartAttempt, PauseHasCheckpoint

LEMMA LoadKeepsPause ==
  ASSUME NEW row, NEW command, Load(row, command)
  PROVE  PauseHasCheckpoint'
  BY DEF Load, PauseHasCheckpoint

LEMMA ContainerKeepsPause ==
  ASSUME TypeInv, PauseHasCheckpoint, Container \/ Crash
  PROVE  PauseHasCheckpoint'
  <1>1. s \in State /\ (exit # "none" => pc = "down")
    BY DEF TypeInv, TypeOK
  <1>2. CASE EnterStage
    <2> DEFINE row == [s EXCEPT !.stage = Stage]
    <2>1. row.cp = s.cp
      BY <1>1, StageKeepsCheckpoint
    <2> HIDE DEF row
    <2>2. CASE Stop(row, "failed")
      BY <2>2, StopKeepsPause
    <2>3. CASE s' = row /\ pc = "enter" /\ pc' = "stage" /\ UNCHANGED << sig, exit >>
      BY <1>1, <2>3 DEF PauseHasCheckpoint
    <2> QED
      BY <1>2, <2>2, <2>3 DEF EnterStage, row
  <1>3. CASE RunPlainStage \/ FailPlainStage
    BY <1>3, ReturnKeepsPause, FailKeepsPause DEF RunPlainStage, FailPlainStage
  <1>4. CASE GateRewind \/ GatePass \/ FailGate
    BY <1>4, ReturnKeepsPause, FailKeepsPause DEF GateRewind, GatePass, FailGate
  <1>5. CASE GatePause
    BY <1>1, <1>5, ReturnKeepsPause, GatePauseCheckpoint DEF GatePause
  <1>6. CASE PushBranch
    BY <1>6 DEF PushBranch, container, PauseHasCheckpoint
  <1>7. CASE SaveResult
    BY <1>1, <1>7 DEF SaveResult, PauseHasCheckpoint
  <1>8. CASE Notify
    <2>1. CASE sig = "pause" /\ Stop(s, "ok")
      BY <2>1, StopKeepsPause DEF PauseHasCheckpoint
    <2>2. CASE pc' = "enter" /\ sig' = "none" /\ UNCHANGED << db, exit >>
      BY <1>1, <1>8, <2>2 DEF Notify, PauseHasCheckpoint
    <2>3. CASE Stop([s EXCEPT !.done = TRUE], "ok")
      BY <1>1, <2>3, DoneRecorded, StopKeepsPause
    <2> QED
      BY <1>8, <2>1, <2>2, <2>3 DEF Notify
  <1>9. ASSUME NEW l \in Loops, EnterLoop(l) PROVE PauseHasCheckpoint'
    BY <1>9, FailKeepsPause, StartAttemptKeepsPause DEF EnterLoop
  <1>10. ASSUME NEW l \in Loops, Produce(l) PROVE PauseHasCheckpoint'
    BY <1>1, <1>10 DEF Produce, PauseHasCheckpoint
  <1>11. ASSUME NEW l \in Loops, Review(l) PROVE PauseHasCheckpoint'
    <2> DEFINE row(v) == Reviewed(l, v, s)
               next(v, fell) == IF Converges(l, cmd) THEN Counted(l, fell, row(v)) ELSE row(v)
    <2>1. PICK v \in {"approve", "revise"}, fell \in BOOLEAN :
            \/ Return(Approved(l, row(v)), "none")
            \/ Return(Escalated(l, next(v, fell)), "pause")
            \/ StartAttempt(l, next(v, fell).attempts[l] + 1, next(v, fell))
            \/ Fail(next(v, fell), "revision-exhausted")
      BY <1>11, Zenon DEF Review
    <2>2. pc = "review"
      BY <1>11 DEF Review
    <2>3. row(v) \in State
      BY <1>1, ReviewedType
    <2> HIDE DEF row
    <2>4. next(v, fell) \in State
      BY <2>3, CountedType
    <2> HIDE DEF next
    <2>5. Escalated(l, next(v, fell)).cp # "none"
      BY <2>4, EscalatedCheckpoint
    <2> QED
      BY <2>1, <2>2, <2>5, ReturnKeepsPause, StartAttemptKeepsPause, FailKeepsPause
  <1>12. ASSUME NEW l \in Loops, FailLoop(l) PROVE PauseHasCheckpoint'
    BY <1>12, FailKeepsPause DEF FailLoop
  <1>13. CASE Crash
    BY <1>13, StopKeepsPause DEF Crash
  <1> QED
    BY <1>2, <1>3, <1>4, <1>5, <1>6, <1>7, <1>8, <1>9, <1>10, <1>11, <1>12, <1>13
    DEF Container

\* The watcher stops an item by settling its exit, and starts it otherwise.
LEMMA WatcherStrandsNobody ==
  ASSUME ExitsSettled, TypeInv, PauseHasCheckpoint, NeverStranded, Watcher
  PROVE  PauseHasCheckpoint' /\ NeverStranded'
  <1>1. ASSUME NEW row, NEW command, Load(row, command)
        PROVE  PauseHasCheckpoint' /\ NeverStranded'
    BY <1>1, LoadKeepsPause DEF Load, NeverStranded, Stopped
  <1>2. CASE HandleOutcome
    <2>1. /\ db' = OutcomeRow /\ s' = OutcomeRow /\ db \in State /\ pc = "down" /\ exit' = "none"
          /\ UNCHANGED << pc, sig >> /\ (needInput' = Failed \/ needInput' = needInput)
          /\ exit \in {"ok", "failed"}
      BY <1>2 DEF HandleOutcome, TypeInv, TypeOK
    <2>2. PauseHasCheckpoint'
      BY <2>1 DEF PauseHasCheckpoint
    <2>3. CASE Failed
      <3>1. OutcomeRow.err # "none"
        BY <2>1, <2>3, ErrorRecorded DEF OutcomeRow
      <3> QED
        BY <2>1, <2>2, <3>1 DEF NeverStranded
    <2>4. CASE ~ Failed
      <3>1. OutcomeRow = db /\ (db.done \/ db.cp # "none")
        BY <2>1, <2>4 DEF OutcomeRow, Failed, PauseHasCheckpoint
      <3> QED
        BY <2>1, <2>2, <3>1 DEF NeverStranded
    <2> QED
      BY <2>3, <2>4
  <1>3. CASE LoseOutcome
    BY <1>3 DEF LoseOutcome, ExitsSettled
  <1>4. CASE ContinueTag \/ ContinueApproved \/ ContinueMerged \/ ResumeOrphan \/ CliContinue
    BY <1>1, <1>4
    DEF ContinueTag, ContinueApproved, ContinueMerged, ResumeOrphan, CliContinue, Continue
  <1>5. CASE StartFresh
    BY <1>1, <1>5 DEF StartFresh
  <1>6. ASSUME NEW c \in {"/rerun-plan", "/fix"}, ScanRerun(c) \/ DashboardRerun(c)
        PROVE  PauseHasCheckpoint' /\ NeverStranded'
    BY <1>1, <1>6 DEF ScanRerun, DashboardRerun, Rerun, Continue
  <1> QED
    BY <1>2, <1>3, <1>4, <1>5, <1>6 DEF Watcher

\* When every exit is settled, a stopped item is finished, or carries an error or a
\* checkpoint, or is open to the orphan scan.
THEOREM AlwaysMovable == ExitsSettled => (Spec => []NeverStranded)
  <1> SUFFICES ASSUME ExitsSettled PROVE Spec => []NeverStranded
    OBVIOUS
  <1> DEFINE Inv == TypeInv /\ PauseHasCheckpoint /\ NeverStranded
  <1>1. Init => Inv
    BY InitTypeInv DEF Init, PauseHasCheckpoint, NeverStranded, Stopped
  <1>2. Inv /\ [Next]_vars => Inv'
    <2> SUFFICES ASSUME Inv, [Next]_vars PROVE Inv'
      OBVIOUS
    <2>1. TypeInv'
      BY ContainerTypes, CrashTypes, WatcherTypes, HumanTypes, StutterTypes DEF Next
    <2>2. CASE Container \/ Crash
      BY <2>1, <2>2, DownHasExit, ContainerKeepsPause DEF NeverStranded
    <2>3. CASE Watcher
      BY <2>1, <2>3, WatcherStrandsNobody
    <2>4. CASE Human \/ UNCHANGED vars
      <3>1. UNCHANGED container /\ (needInput' = needInput \/ ~ needInput')
        BY <2>4 DEF Human, ApprovePlan, RemoveNeedInput, PullRequest, FreeBranch, Ask, vars, world
      <3> QED
        BY <2>1, <3>1 DEF container, PauseHasCheckpoint, NeverStranded, Stopped
    <2> QED
      BY <2>2, <2>3, <2>4 DEF Next
  <1>3. Inv => NeverStranded
    OBVIOUS
  <1> HIDE DEF Inv
  <1> QED
    BY <1>1, <1>2, <1>3, PTL DEF Spec
---------------------------------------------------------------------------
(* The branch a row knows of *)

\* A row is lost neither by a loop that throws nor by a container that dies after a save that
\* failed unnoticed.
RowsKept == "plain" \notin Faults /\ ~ ({"report", "crash"} \subseteq Faults)

\* The row has a changeset, or remembers the branch of one it dropped.
Known(r) == r.code # NoPlan \/ r.prior

\* A coder works from a plan, so what it returns is a changeset; until it does, the branch
\* it pushed is known to nobody.
CodingHasPlan == pc \in {"stage", "produce", "review"} /\ Stage = "coding" => s.plan # NoPlan

BranchKnown ==
  branch = "ours" => \/ pc = "produce" /\ Stage = "coding" /\ ~ Known(s)
                     \/ Known(s) /\ (pc = "down" \/ "crash" \in Faults => Known(db))

\* What a coder knows of a branch, the store knows before it starts.
AttemptKnown ==
  pc = "produce" /\ Stage = "coding" /\ Known(s) /\ "crash" \in Faults => Known(db)

BranchInv == CodingHasPlan /\ BranchKnown /\ AttemptKnown

\* A coder dies after it has pushed a branch the row does not know of.
CoderLost ==
  /\ pc = "produce" /\ Stage = "coding" /\ branch = "ours" /\ ~ Known(s)
  /\ pc' = "down"

\* No coder dies between pushing its branch and reporting it.
CodersReturn == [][~ CoderLost]_vars

\* q has the plan of r and knows of the branch if r does.
Recalls(q, r) == q.plan = r.plan /\ (Known(r) => Known(q))

LEMMA RecallsStage ==
  ASSUME NEW r \in State, NEW w PROVE Recalls([r EXCEPT !.stage = w], r)
  BY DEF State, Recalls, Known

LEMMA RecallsError ==
  ASSUME NEW r \in State, NEW e, NEW w PROVE Recalls([r EXCEPT !.err = e, !.errAt = w], r)
  BY DEF State, Recalls, Known

LEMMA RecallsTarget ==
  ASSUME NEW r \in State PROVE Recalls([r EXCEPT !.target = "none"], r)
  BY DEF State, Recalls, Known

LEMMA RecallsDone ==
  ASSUME NEW r \in State PROVE Recalls([r EXCEPT !.done = TRUE], r)
  BY DEF State, Recalls, Known

LEMMA RecallsCheckpoint ==
  ASSUME NEW r \in State, NEW c PROVE Recalls([r EXCEPT !.cp = c], r)
  BY DEF State, Recalls, Known

LEMMA RecallsRewind ==
  ASSUME NEW r \in State, NEW b, NEW l
  PROVE  Recalls([r EXCEPT !.cp = "none", !.rerun = b, !.target = l, !.feedback = TRUE], r)
  BY DEF State, Recalls, Known

LEMMA RecallsPlain ==
  ASSUME NEW r \in State, NEW stage PROVE Recalls(PlainOutputs(stage, r), r)
  BY DEF State, Recalls, Known, PlainOutputs

LEMMA RecallsAttempt ==
  ASSUME NEW r \in State, NEW l \in Loops, NEW n
  PROVE  Recalls(RecordAttempt(l, n, r), r) /\ Recalls(Approved(l, r), r)
  BY DEF State, Recalls, Known, RecordAttempt, Approved

LEMMA RecallsReviewed ==
  ASSUME NEW r \in State, NEW l \in Loops, NEW v PROVE Recalls(Reviewed(l, v, r), r)
  BY DEF State, Recalls, Known, Reviewed

LEMMA RecallsCounted ==
  ASSUME NEW r \in State, NEW l \in Loops, NEW fell PROVE Recalls(Counted(l, fell, r), r)
  BY DEF State, Recalls, Known, Counted

LEMMA RecallsEscalated ==
  ASSUME NEW r \in State, NEW l \in Loops PROVE Recalls(Escalated(l, r), r)
  BY DEF State, Recalls, Known, Escalated

LEMMA RecallsCleared ==
  ASSUME NEW r \in State PROVE Recalls(ClearError(r), r)
  BY DEF State, Recalls, Known, ClearError

LEMMA RecallsRerun ==
  ASSUME NEW r \in State, NEW c PROVE Recalls(ApplyRerun(c, r), r)
  BY DEF State, Recalls, Known, ApplyRerun

LEMMA RecallsReset ==
  ASSUME NEW r \in State, NEW l \in Loops PROVE Recalls(ResetState(l, r), r)
  <1>1. Recalls(PlanningReset(r), r)
    BY DEF State, Recalls, Known, PlanningReset
  <1>2. Recalls([r EXCEPT !.review = "none"], r) /\ Recalls(r, r)
    BY DEF State, Recalls, Known
  <1> QED
    BY <1>1, <1>2 DEF ResetState, Loops

\* A reset that drops the changeset remembers its branch.
LEMMA RecallsEntered ==
  ASSUME NEW r \in State, NEW l \in Loops PROVE Recalls(Entered(l, r), r)
  <1> DEFINE fresh == IF r.rerun \/ r.skip THEN r ELSE ResetState(l, r)
             unskip == [fresh EXCEPT !.skip = FALSE]
             left == [unskip EXCEPT !.esc = "none", !.stall = [@ EXCEPT ![l] = 0]]
  <1>1. Entered(l, r) = IF unskip.esc = l THEN left ELSE unskip
    BY DEF Entered
  <1>2. fresh \in State /\ Recalls(fresh, r)
    <2>1. ResetState(l, r) \in State
      BY PlanningResetType, SetReview DEF ResetState
    <2> QED
      BY <2>1, RecallsReset DEF Recalls
  <1> HIDE DEF fresh
  <1>3. unskip \in State /\ Recalls(unskip, fresh)
    BY <1>2, SetSkip DEF State, Recalls, Known
  <1> HIDE DEF unskip
  <1>4. Recalls(left, unskip)
    BY <1>3 DEF State, Recalls, Known
  <1> HIDE DEF left
  <1> QED
    BY <1>1, <1>2, <1>3, <1>4 DEF Recalls

\* The ways a step ends.
LEMMA DownRecalls ==
  ASSUME pc' = "down", db' = s', Known(s) => Known(s'), branch' = branch,
         BranchInv, ~ CoderLost
  PROVE  BranchInv'
  BY DEF BranchInv, CodingHasPlan, BranchKnown, AttemptKnown, CoderLost

LEMMA FailRecalls ==
  ASSUME BranchInv, ~ CoderLost, branch' = branch,
         NEW at \in State, Recalls(at, s), NEW type, Fail(at, type)
  PROVE  BranchInv'
  <1>1. Recalls(s', at) /\ db' = s' /\ pc' = "down"
    BY RecallsError DEF Fail
  <1> QED
    BY <1>1, DownRecalls DEF Recalls

LEMMA ReturnRecalls ==
  ASSUME BranchInv, pc \in {"stage", "review"}, branch' = branch,
         NEW result, Recalls(result, s), NEW signal, Return(result, signal)
  PROVE  BranchInv'
  BY DEF Return, Recalls, BranchInv, CodingHasPlan, BranchKnown, AttemptKnown

LEMMA StartRecalls ==
  ASSUME RowsKept, BranchInv, pc \in {"stage", "review"}, branch' = branch,
         NEW l \in Loops, Stage = l, NEW row \in State, Recalls(row, s), NEW n,
         StartAttempt(l, n, row)
  PROVE  BranchInv'
  <1>1. /\ Recalls(s', row) /\ pc' = "produce" /\ Stage' = Stage
        /\ "crash" \in Faults => db' = s'
    BY RecallsAttempt DEF StartAttempt, Stage, RowsKept
  <1> QED
    BY <1>1 DEF Recalls, BranchInv, CodingHasPlan, BranchKnown, AttemptKnown

LEMMA LoadRecalls ==
  ASSUME NEW row \in State, NEW command, Load(row, command),
         branch' = "ours" => Known(row) /\ Known(db')
  PROVE  BranchInv'
  <1>1. Recalls(s', row) /\ pc' = "enter"
    BY RecallsTarget DEF Load
  <1> QED
    BY <1>1 DEF Recalls, BranchInv, CodingHasPlan, BranchKnown, AttemptKnown

LEMMA ContainerRecalls ==
  ASSUME RowsKept, TypeInv, BranchInv, ~ CoderLost, Container
  PROVE  BranchInv'
  <1>1. s \in State /\ Recalls(s, s)
    BY DEF TypeInv, TypeOK, Recalls
  <1>2. CASE EnterStage
    <2> DEFINE row == [s EXCEPT !.stage = Stage]
    <2>1. Recalls(row, s) /\ pc = "enter" /\ branch' = branch
      BY <1>1, <1>2, RecallsStage DEF EnterStage, world
    <2>2. CanRun("coding", row) <=> row.plan # NoPlan
      BY DEF CanRun
    <2> HIDE DEF row
    <2>3. CASE /\ CanRun(Stage, row) /\ pc' = "stage"
               /\ db' = row /\ s' = row /\ UNCHANGED << i, cmd >>
      <3>1. Stage' = Stage
        BY <2>3 DEF Stage
      <3> QED
        BY <2>1, <2>2, <2>3, <3>1
        DEF Recalls, BranchInv, CodingHasPlan, BranchKnown, AttemptKnown
    <2>4. CASE Stop(row, "failed")
      BY <2>1, <2>4, DownRecalls DEF Stop, Recalls
    <2> QED
      BY <1>2, <2>3, <2>4 DEF EnterStage, row
  <1>3. CASE RunPlainStage
    <2>1. Recalls(PlainOutputs(Stage, s), s)
      BY <1>1, RecallsPlain
    <2> QED
      BY <1>3, <2>1, ReturnRecalls DEF RunPlainStage
  <1>4. ASSUME NEW l \in Loops, FailPlainStage \/ FailLoop(l) PROVE BranchInv'
    <2>1. PICK type : Fail(s, type) /\ branch' = branch
      BY <1>4 DEF FailPlainStage, FailLoop, RowsKept
    <2> QED
      BY <1>1, <2>1, FailRecalls
  <1>5. CASE PushBranch
    <2>1. /\ pc = "produce" /\ pc' = pc /\ s' = s /\ db' = db
          /\ Stage = "coding" /\ Stage' = Stage
      BY <1>5 DEF PushBranch, container, Stage
    <2> QED
      BY <2>1 DEF BranchInv, CodingHasPlan, BranchKnown, AttemptKnown
  <1>6. CASE GateRewind
    <2>1. PICK q \in State : Recalls(q, s) /\ Return(q, "rewind") /\ branch' = branch
      <3> DEFINE hit == FirstMatch(Stage)
                 q == [s EXCEPT !.cp = "none", !.rerun = hit[1] # "/rerun-plan",
                                !.target = hit[2], !.feedback = TRUE]
      <3>1. hit[2] \in Loops /\ (hit[1] # "/rerun-plan") \in BOOLEAN
        BY <1>6, FirstMatchType DEF GateRewind, Loops
      <3>2. q \in State /\ Recalls(q, s)
        BY <1>1, <3>1, SetRewind, RecallsRewind
      <3> QED
        BY <1>6, <3>2 DEF GateRewind
    <2> QED
      BY <1>6, <2>1, ReturnRecalls DEF GateRewind
  <1>7. CASE GatePass \/ GatePause
    <2>1. PICK c, signal : Return([s EXCEPT !.cp = c], signal) /\ branch' = branch /\ pc = "stage"
      BY <1>7 DEF GatePass, GatePause, world
    <2> QED
      BY <1>1, <2>1, RecallsCheckpoint, ReturnRecalls
  <1>8. CASE FailGate
    BY <1>1, <1>8, FailRecalls DEF FailGate
  <1>9. CASE SaveResult
    BY <1>9 DEF SaveResult, BranchInv, CodingHasPlan, BranchKnown, AttemptKnown
  <1>10. CASE Notify
    <2>1. pc = "notify" /\ branch' = branch
      BY <1>10 DEF Notify
    <2>2. CASE pc' = "enter" /\ db' = db /\ (s' = s \/ s' = [s EXCEPT !.target = "none"])
      BY <1>1, <2>1, <2>2, RecallsTarget
      DEF Recalls, BranchInv, CodingHasPlan, BranchKnown, AttemptKnown
    <2>3. CASE Stop(s, "ok") \/ Stop([s EXCEPT !.done = TRUE], "ok")
      BY <1>1, <2>1, <2>3, RecallsDone, DownRecalls DEF Stop, Recalls
    <2> QED
      BY <1>10, <2>2, <2>3 DEF Notify
  <1>11. ASSUME NEW l \in Loops, EnterLoop(l) PROVE BranchInv'
    <2> DEFINE row == Entered(l, s)
    <2>1. row \in State /\ Recalls(row, s)
      BY <1>1, EnteredType, RecallsEntered
    <2>2. pc = "stage" /\ Stage = l /\ branch' = branch
      BY <1>11 DEF EnterLoop, world
    <2>3. \/ Fail(row, "revision-exhausted") \/ Fail(s, "needs-input")
          \/ StartAttempt(l, PriorAttempts(l, s) + 1, row)
      BY <1>11 DEF EnterLoop
    <2> HIDE DEF row
    <2> QED
      BY <1>1, <2>1, <2>2, <2>3, FailRecalls, StartRecalls
  <1>12. ASSUME NEW l \in Loops, Produce(l) PROVE BranchInv'
    <2>1. /\ pc = "produce" /\ pc' = "review" /\ Stage = l /\ Stage' = Stage
          /\ branch' = branch /\ ("crash" \in Faults => db' = s')
      BY <1>12 DEF Produce, Stage, world, RowsKept
    <2>2. PICK p, built, tests : s' = Produced(l, p, built, tests, s)
      BY <1>12 DEF Produce
    <2>3. CASE l = "coding"
      <3>1. s.plan # NoPlan
        BY <2>1, <2>3 DEF BranchInv, CodingHasPlan
      <3>2. s'.plan = s.plan /\ s'.code # NoPlan
        BY <1>1, <2>2, <2>3, <3>1 DEF Produced, State
      <3> QED
        BY <2>1, <3>1, <3>2 DEF BranchInv, CodingHasPlan, BranchKnown, AttemptKnown, Known
    <2>4. CASE l # "coding"
      <3>1. Known(s) => Known(s')
        BY <1>1, <2>2, <2>4 DEF Produced, State, Known
      <3> QED
        BY <2>1, <2>4, <3>1 DEF BranchInv, CodingHasPlan, BranchKnown, AttemptKnown
    <2> QED
      BY <2>3, <2>4
  <1>13. ASSUME NEW l \in Loops, Review(l) PROVE BranchInv'
    <2> DEFINE row(v) == Reviewed(l, v, s)
               next(v, fell) == IF Converges(l, cmd) THEN Counted(l, fell, row(v)) ELSE row(v)
    <2>1. PICK v \in {"approve", "revise"}, fell \in BOOLEAN :
            \/ Return(Approved(l, row(v)), "none")
            \/ Return(Escalated(l, next(v, fell)), "pause")
            \/ StartAttempt(l, next(v, fell).attempts[l] + 1, next(v, fell))
            \/ Fail(next(v, fell), "revision-exhausted")
      BY <1>13, Zenon DEF Review
    <2>2. pc = "review" /\ Stage = l /\ branch' = branch
      BY <1>13 DEF Review, world
    <2>3. row(v) \in State /\ Recalls(row(v), s)
      BY <1>1, ReviewedType, RecallsReviewed
    <2> HIDE DEF row
    <2>4. next(v, fell) \in State /\ Recalls(next(v, fell), s)
      BY <2>3, CountedType, RecallsCounted DEF Recalls
    <2> HIDE DEF next
    <2>5. Recalls(Approved(l, row(v)), s) /\ Recalls(Escalated(l, next(v, fell)), s)
      BY <2>3, <2>4, RecallsAttempt, RecallsEscalated DEF Recalls
    <2> QED
      BY <2>1, <2>2, <2>4, <2>5, ReturnRecalls, StartRecalls, FailRecalls
  <1> QED
    BY <1>2, <1>3, <1>4, <1>5, <1>6, <1>7, <1>8, <1>9, <1>10, <1>11, <1>12, <1>13
    DEF Container, Loops

LEMMA CrashRecalls ==
  ASSUME BranchInv, ~ CoderLost, Crash PROVE BranchInv'
  <1>1. pc' = "down" /\ db' = db /\ s' = db /\ branch' = branch /\ "crash" \in Faults
    BY DEF Crash, Stop, world
  <1> QED
    BY <1>1 DEF BranchInv, CodingHasPlan, BranchKnown, AttemptKnown, CoderLost

LEMMA WatcherRecalls ==
  ASSUME TypeInv, BranchInv, Watcher
  PROVE  BranchInv'
  <1>1. db \in State /\ (pc = "down" /\ branch = "ours" => Known(db))
    BY DEF TypeInv, TypeOK, BranchInv, BranchKnown
  <1>2. ASSUME NEW row \in State, Continue(row), Stopped, Recalls(row, db), branch' = branch
        PROVE  BranchInv'
    BY <1>1, <1>2, LoadRecalls DEF Continue, Stopped, Recalls
  <1>3. CASE HandleOutcome
    <2>1. Known(db) => Known(OutcomeRow)
      BY <1>1, RecallsError DEF OutcomeRow, Recalls
    <2>2. pc = "down"
      BY <1>3 DEF HandleOutcome, TypeInv
    <2> QED
      BY <1>1, <1>3, <2>1, <2>2
      DEF HandleOutcome, BranchInv, CodingHasPlan, BranchKnown, AttemptKnown
  <1>4. CASE LoseOutcome
    BY <1>4 DEF LoseOutcome, world, BranchInv, CodingHasPlan, BranchKnown, AttemptKnown, Stage
  <1>5. Recalls(db, db) /\ ClearError(db) \in State /\ Recalls(ClearError(db), db)
    BY <1>1, ClearErrorType, RecallsCleared DEF Recalls
  <1>6. CASE ContinueTag \/ ContinueApproved \/ ContinueMerged \/ ResumeOrphan \/ CliContinue
    BY <1>1, <1>2, <1>5, <1>6
    DEF ContinueTag, ContinueApproved, ContinueMerged, ResumeOrphan, CliContinue
  <1>7. CASE StartFresh
    <2>1. branch' # "ours" /\ InitialState \in State
      BY <1>7, InitialType DEF StartFresh
    <2> QED
      BY <1>7, <2>1, LoadRecalls DEF StartFresh
  <1>8. ASSUME NEW c \in {"/rerun-plan", "/fix"}, ScanRerun(c) \/ DashboardRerun(c)
        PROVE  BranchInv'
    <2>1. ApplyRerun(c, db) \in State /\ Recalls(ApplyRerun(c, db), db)
      BY <1>1, ApplyRerunType, RecallsRerun
    <2> QED
      BY <1>2, <1>8, <2>1 DEF ScanRerun, DashboardRerun, Rerun
  <1> QED
    BY <1>3, <1>4, <1>6, <1>7, <1>8 DEF Watcher

\* A branch the item's own coder pushed is never mistaken for a stranger's leftover, unless a
\* coder dies before it has reported the push: whatever crashes or fails elsewhere, is rewound,
\* reset, started again or misread on the remote.
THEOREM BranchesRemembered == RowsKept => (Spec /\ CodersReturn => []OwnBranchKnown)
  <1> SUFFICES ASSUME RowsKept PROVE Spec /\ CodersReturn => []OwnBranchKnown
    OBVIOUS
  <1> DEFINE Inv == TypeInv /\ BranchInv
  <1>1. Init => Inv
    <2>1. Init => Stage = "analyzer" /\ branch # "ours"
      BY StageListType DEF Init, Stage
    <2> QED
      BY <2>1, InitTypeInv DEF Init, BranchInv, CodingHasPlan, BranchKnown, AttemptKnown
  <1>2. Inv /\ [Next]_vars /\ [~ CoderLost]_vars => Inv'
    <2> SUFFICES ASSUME Inv, [Next]_vars, [~ CoderLost]_vars PROVE Inv'
      OBVIOUS
    <2>1. TypeInv'
      BY ContainerTypes, CrashTypes, WatcherTypes, HumanTypes, StutterTypes DEF Next
    <2>2. CASE UNCHANGED vars
      BY <2>1, <2>2
      DEF vars, container, world, Stage, BranchInv, CodingHasPlan, BranchKnown, AttemptKnown
    <2>3. CASE Human
      <3>1. UNCHANGED container /\ branch' \in {branch, "none"}
        BY <2>3 DEF Human, ApprovePlan, RemoveNeedInput, PullRequest, FreeBranch, Ask
      <3>2. Stage' = Stage
        BY <3>1 DEF container, Stage
      <3> QED
        BY <2>1, <3>1, <3>2 DEF container, BranchInv, CodingHasPlan, BranchKnown, AttemptKnown
    <2> QED
      BY <2>1, <2>2, <2>3, ContainerRecalls, CrashRecalls, WatcherRecalls DEF Next
  <1>3. Inv => OwnBranchKnown
    BY DEF BranchInv, BranchKnown, Known, OwnBranchKnown
  <1> HIDE DEF Inv
  <1> QED
    BY <1>1, <1>2, <1>3, PTL DEF Spec, CodersReturn
=============================================================================
