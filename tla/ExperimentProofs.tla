-------------------------- MODULE ExperimentProofs --------------------------
(***************************************************************************)
(* What the matrix promises, for every selection of arms, every set of     *)
(* pull requests and every roster: a line that counts is about the cell's  *)
(* own review with its levers in effect, and the pools are complete.       *)
(***************************************************************************)
EXTENDS Experiment, TLAPS

-----------------------------------------------------------------------------
(* The levers *)

\* The prompts after each lever.
P1(e) == OverrideSubAgentModel(Baked, e)
P2(e) == RestrictAgentSet(P1(e), e)
P3(e) == InjectRouting(P2(e), e)
P4(e) == InjectScopedPayload(P3(e), e)
P5(e) == TrimSecurity(P4(e), e)

LEMMA PullIn ==
  ASSUME NEW e
  PROVE  Pull(e).prompts = P5(e)
  BY DEF Pull, P1, P2, P3, P4, P5

\* Prompts whose security agent is whole.
Whole(set, routes, payload, model) ==
  [set |-> set, routes |-> routes, payload |-> payload, domains |-> "all", focus |-> "all",
   model |-> model]

Routes(e) == IF e.routing THEN << Active(e) >> ELSE << >>
Payload(e) == IF e.scoped THEN << Active(e) \ {"validator"} >> ELSE << >>

\* What the prompts say before the security agent is narrowed.
LEMMA Injected ==
  ASSUME NEW e
  PROVE  P4(e) = Whole(e.set, Routes(e), Payload(e), ExpectedModel(e))
  <1>1. P1(e) = Whole(<< >>, << >>, << >>, ExpectedModel(e))
    BY DEF P1, OverrideSubAgentModel, Baked, ExpectedModel, Whole
  <1>2. P2(e) = Whole(e.set, << >>, << >>, ExpectedModel(e))
    <2>1. CASE e.set = << >>
      BY <1>1, <2>1 DEF P2, RestrictAgentSet
    <2>2. CASE e.set # << >>
      BY <1>1, <2>2 DEF P2, RestrictAgentSet, Whole
    <2> QED
      BY <2>1, <2>2
  <1>3. P3(e) = Whole(e.set, Routes(e), << >>, ExpectedModel(e))
    <2>1. CASE e.routing
      BY <1>2, <2>1 DEF P3, InjectRouting, Whole, Routes
    <2>2. CASE ~ e.routing
      BY <1>2, <2>2 DEF P3, InjectRouting, Routes
    <2> QED
      BY <2>1, <2>2
  <1>4. CASE e.scoped
    <2>1. Payload(e) = << Active(e) \ {"validator"} >>
      BY <1>4 DEF Payload
    <2>2. P3(e).payload = << >>
      BY <1>3 DEF Whole
    <2>3. P4(e) = [P3(e) EXCEPT !.payload = Payload(e)]
      BY <1>4, <2>1, <2>2 DEF P4, InjectScopedPayload
    <2> QED
      BY <1>3, <2>3 DEF Whole
  <1>5. CASE ~ e.scoped
    BY <1>3, <1>5 DEF P4, InjectScopedPayload, Payload
  <1> QED
    BY <1>4, <1>5

\* The dispatch line is narrowed only if the agent's own prompt is.
LEMMA Trimmed ==
  ASSUME NEW e
  PROVE  /\ P5(e).set = P4(e).set /\ P5(e).routes = P4(e).routes
         /\ P5(e).payload = P4(e).payload /\ P5(e).model = P4(e).model
         /\ P5(e).domains \in {"all", "bc"} /\ P5(e).focus \in {"all", "bc"}
         /\ P5(e).focus = "bc" => P5(e).domains = "bc"
  <1>1. P4(e).domains = "all" /\ P4(e).focus = "all"
    BY Injected DEF Whole
  <1> QED
    BY <1>1, Injected DEF Whole, P5, TrimSecurity, TrimSecurityDomains, TrimSecurityDispatchLine

\* Two changed files mean that both prompts of the security agent are cut.
LEMMA BothCut ==
  ASSUME NEW e, Changed(P4(e), P5(e)) = 2
  PROVE  P5(e).domains = "bc" /\ P5(e).focus = "bc"
  <1>1. P4(e).domains = "all" /\ P4(e).focus = "all"
    BY Injected DEF Whole
  <1>2. P4(e).domains # P5(e).domains /\ P4(e).focus # P5(e).focus
    BY DEF Changed
  <1> QED
    BY <1>1, <1>2, Trimmed

\* A review of a cell that compliance accepts had its levers in effect.
LEMMA LeversTold ==
  ASSUME NEW e, NEW row, row.levers = AppliedLevers(e), Compliant(e, row)
  PROVE  InEffect(e, Pull(e).prompts)
  <1>1. e.bc => P5(e).domains = "bc" /\ P5(e).focus = "bc"
    <2> SUFFICES ASSUME e.bc
                 PROVE  Changed(P4(e), P5(e)) = 2
      BY BothCut
    <2>1. row.levers = << Pull(e).levers >>
      BY DEF AppliedLevers
    <2>2. row.levers[1]["bc"] = << RequiredCounts["bc"] >>
      BY DEF Compliant, LeverApplied
    <2>3. Pull(e).levers.bc = Recorded(e.bc, Changed(P4(e), P5(e)))
      BY DEF Pull, P1, P2, P3, P4, P5
    <2>4. Pull(e).levers["bc"] = << Changed(P4(e), P5(e)) >>
      BY <2>3 DEF Recorded
    <2>5. RequiredCounts["bc"] = 2
      BY DEF RequiredCounts
    <2> QED
      BY <2>1, <2>2, <2>4, <2>5
  <1>2. P5(e).model = ExpectedModel(e) /\ P5(e).set = e.set
    BY Injected, Trimmed DEF Whole, Routes, Payload
  <1>3. /\ e.routing => P5(e).routes = << Active(e) >>
        /\ e.scoped => P5(e).payload = << Active(e) \ {"validator"} >>
    BY Injected, Trimmed DEF Whole, Routes, Payload
  <1> QED
    BY <1>1, <1>2, <1>3, PullIn DEF InEffect

\* No block names an agent that another block leaves out.
LEMMA BlocksAgree ==
  ASSUME NEW e, NEW p, p = P5(e)
  PROVE  /\ p.set # << >> =>
              \A t \in {p.routes, p.payload} : t # << >> => t[1] \subseteq p.set[1]
         /\ p.focus = "bc" => p.domains = "bc"
  <1>1. p.set = e.set /\ (p.focus = "bc" => p.domains = "bc")
    BY Injected, Trimmed DEF Whole, Routes, Payload
  <1>2. p.routes \in {<< >>, << Active(e) >>}
    BY Injected, Trimmed DEF Whole, Routes, Payload
  <1>3. p.payload \in {<< >>, << Active(e) \ {"validator"} >>}
    BY Injected, Trimmed DEF Whole, Routes, Payload
  <1>4. e.set # << >> => Active(e) = e.set[1]
    BY DEF Active
  <1> QED
    BY <1>1, <1>2, <1>3, <1>4

-----------------------------------------------------------------------------
(* The script *)

\* The fields of the script's state that a step replaces.
MatrixOK ==
  /\ ParametersOK
  /\ matrix = [pc |-> matrix.pc, first |-> matrix.first, arms |-> matrix.arms,
               pr |-> matrix.pr, arm |-> matrix.arm, row |-> matrix.row]
  /\ matrix.arms \in Seq(AllArms)
  /\ matrix.pr \in 1..(Subjects + 1) /\ matrix.arm \in 1..Len(matrix.arms)
  /\ matrix.pc \in {"run", "report"} => matrix.pr <= Subjects

Here == Cell(matrix.pr, ThisArm)

\* Until a script is killed, the only container is that of the cell.
BoxOK ==
  /\ box \in {<< >>, << Here >>}
  /\ box # << >> => matrix.pc = "run"
  /\ matrix.first /\ matrix.pc # "killed" => orphans = {}

\* A row is of a production review, which posted or failed, or of a cell: until a script is
\* killed of this one, with the levers its container recorded.
RowOK(row) ==
  IF row.run = << >> THEN row.comment = "posted" \/ row.subs = << >>
  ELSE matrix.first => row.run[1] = Here /\ row.levers = AppliedLevers(ThisArm)

RowsOK ==
  /\ \E S : rows \in Seq(S) /\ (matrix.pc = "run" => \A row \in S : RowOK(row))
  /\ matrix.pc = "report" => RowOK(matrix.row[1]) /\ matrix.row[1].comment # "posted"

Told(pr, k) == \E j \in DOMAIN lines : lines[j].pr = pr /\ lines[j].arm = matrix.arms[k].name

\* Every arm of the earlier pull requests and the earlier arms of this one have a line.
LinesOK ==
  /\ \E S : lines \in Seq(S) /\ \A l \in S : l.pr \in 1..matrix.pr
  /\ Len(lines) = (matrix.pr - 1) * Len(matrix.arms) + matrix.arm - 1
  /\ \A pr \in 1..(matrix.pr - 1), k \in DOMAIN matrix.arms : Told(pr, k)
  /\ \A k \in 1..(matrix.arm - 1) : Told(matrix.pr, k)

MatrixInv == MatrixOK /\ BoxOK /\ RowsOK /\ LinesOK

LEMMA Prepended ==
  ASSUME NEW S, NEW s \in Seq(S), NEW x
  PROVE  << x >> \o s \in Seq(S \cup {x})
  OBVIOUS

LEMMA Appended ==
  ASSUME NEW S, NEW s \in Seq(S), NEW x
  PROVE  /\ Append(s, x) \in Seq(S \cup {x}) /\ Len(Append(s, x)) = Len(s) + 1
         /\ DOMAIN s \subseteq DOMAIN Append(s, x) /\ Len(s) + 1 \in DOMAIN Append(s, x)
         /\ \A i \in DOMAIN s : Append(s, x)[i] = s[i]
         /\ Append(s, x)[Len(s) + 1] = x
  OBVIOUS

LEMMA OneRowMore ==
  ASSUME NEW row, RowsOK, matrix' = matrix, image' = image, rows' = << row >> \o rows,
         matrix.pc = "run" => RowOK(row)
  PROVE  RowsOK'
  <1>1. PICK S : rows \in Seq(S) /\ (matrix.pc = "run" => \A r \in S : RowOK(r))
    BY DEF RowsOK
  <1>2. rows' \in Seq(S \cup {row})
    BY <1>1, Prepended
  <1>3. \A r : RowOK(r)' = RowOK(r)
    BY DEF RowOK, Here, ThisArm, Cell, AppliedLevers, Pull, TrimSecurity, TrimSecurityDomains,
      TrimSecurityDispatchLine
  <1>4. matrix.pc = "run" => \A r \in S \cup {row} : RowOK(r)
    BY <1>1
  <1> QED
    BY <1>2, <1>3, <1>4 DEF RowsOK

LEMMA RowsRest ==
  ASSUME RowsOK, UNCHANGED << matrix, image, rows >>
  PROVE  RowsOK'
  <1>1. \A r : RowOK(r)' = RowOK(r)
    BY DEF RowOK, Here, ThisArm, Cell, AppliedLevers, Pull, TrimSecurity, TrimSecurityDomains,
      TrimSecurityDispatchLine
  <1> QED
    BY <1>1 DEF RowsOK

\* A container ends with no row, or with one of its cell and its levers.
LEMMA EndsWell ==
  ASSUME RowsOK, matrix' = matrix, image' = image, NEW c, Ends(c),
         matrix.pc = "run" =>
           \A row : row.run = << c >> /\ row.levers = AppliedLevers(c.arm) => RowOK(row)
  PROVE  RowsOK'
  <1>1. CASE rows' = rows
    BY <1>1, RowsRest
  <1>2. CASE rows' # rows
    <2>1. PICK row : /\ row.run = << c >> /\ row.levers = AppliedLevers(c.arm)
                     /\ rows' = << row >> \o rows
      BY <1>2 DEF Ends, Failed, Done
    <2> QED
      BY <2>1, OneRowMore
  <1> QED
    BY <1>1, <1>2

LEMMA LinesRest ==
  ASSUME LinesOK, lines' = lines, matrix'.pr = matrix.pr, matrix'.arm = matrix.arm,
         matrix'.arms = matrix.arms
  PROVE  LinesOK'
  BY DEF LinesOK, Told

LEMMA MatrixStarts == ParametersOK /\ Init => MatrixInv
  <1> SUFFICES ASSUME ParametersOK, Init
               PROVE  MatrixInv
    OBVIOUS
  <1>1. PICK arms : /\ \E names \in Selections : arms = SelectArms(names)
                    /\ matrix = Ready(arms, TRUE)
    BY DEF Init
  <1>2. arms \in Seq(AllArms) /\ arms # << >> /\ Subjects \in Nat
    BY <1>1 DEF MatrixInv, MatrixOK, ParametersOK
  <1>3. Len(arms) \in Nat /\ Len(arms) >= 1
    BY <1>2
  <1>4. MatrixOK /\ BoxOK
    BY <1>1, <1>2, <1>3 DEF Init, Ready, MatrixOK, BoxOK
  <1>5. RowsOK
    BY <1>1 DEF Init, Ready, RowsOK
  <1>6. LinesOK
    <2>1. lines \in Seq({}) /\ Len(lines) = 0
      BY DEF Init
    <2>2. matrix.pr = 1 /\ matrix.arm = 1 /\ Len(matrix.arms) \in Nat
      BY <1>1, <1>3 DEF Ready
    <2>3. (matrix.pr - 1) * Len(matrix.arms) = 0
      BY <2>2
    <2>4. 1..(matrix.pr - 1) = {} /\ 1..(matrix.arm - 1) = {}
      BY <2>2
    <2>5. \E S : lines \in Seq(S) /\ \A l \in S : l.pr \in 1..matrix.pr
      <3>1. PICK S : S = {}
        OBVIOUS
      <3>2. lines \in Seq(S) /\ \A l \in S : l.pr \in 1..matrix.pr
        BY <2>1, <3>1
      <3> QED
        BY <3>2
    <2>6. Len(lines) = (matrix.pr - 1) * Len(matrix.arms) + matrix.arm - 1
      BY <2>1, <2>2, <2>3
    <2> QED
      BY <2>4, <2>5, <2>6 DEF LinesOK
  <1> QED
    BY <1>4, <1>5, <1>6 DEF MatrixInv

LEMMA MatrixStartCell == ASSUME MatrixInv, StartCell PROVE MatrixInv'
  <1> USE DEF MatrixInv
  <1>1. /\ matrix.pc = "next" /\ matrix.pr <= Subjects
        /\ matrix' = [matrix EXCEPT !.pc = "run"]
        /\ box' = << Cell(matrix.pr, ThisArm) >> /\ rows' = << >> /\ lines' = lines
        /\ orphans' = orphans \ {Cell(matrix.pr, ThisArm)}
    BY DEF StartCell
  <1>2. MatrixOK'
    BY <1>1 DEF MatrixOK
  <1>3. Here' = Here /\ matrix'.pc = "run"
    BY <1>1 DEF MatrixOK, Here, ThisArm, Cell
  <1>4. BoxOK'
    BY <1>1, <1>3 DEF BoxOK, MatrixOK, Here
  <1>5. RowsOK'
    <2>1. rows' \in Seq({})
      BY <1>1
    <2> QED
      BY <1>3, <2>1 DEF RowsOK
  <1>6. LinesOK'
    BY <1>1, LinesRest DEF MatrixOK
  <1> QED
    BY <1>2, <1>4, <1>5, <1>6

LEMMA MatrixFindRow == ASSUME MatrixInv, FindRow PROVE MatrixInv'
  <1> USE DEF MatrixInv
  <1>1. PICK i \in DOMAIN rows : Found(i) /\ matrix' = [matrix EXCEPT !.pc = "report", !.row = << rows[i] >>]
    BY DEF FindRow
  <1>2. /\ matrix.pc = "run" /\ box = << >> /\ UNCHANGED << box, orphans, rows, lines, image >>
    BY DEF FindRow, Fixed
  <1>3. MatrixOK'
    BY <1>1, <1>2 DEF MatrixOK
  <1>4. BoxOK'
    BY <1>1, <1>2 DEF BoxOK, MatrixOK
  <1>5. RowsOK'
    <2>1. PICK S : rows \in Seq(S) /\ \A row \in S : RowOK(row)
      BY <1>2 DEF RowsOK
    <2>2. rows[i] \in S
      BY <2>1
    <2>3. RowOK(rows[i])' = RowOK(rows[i])
      BY <1>1, <1>2 DEF MatrixOK, RowOK, Here, ThisArm, Cell, AppliedLevers, Pull, TrimSecurity,
        TrimSecurityDomains, TrimSecurityDispatchLine
    <2>4. matrix'.row[1] = rows[i] /\ matrix'.pc = "report" /\ rows' = rows
      BY <1>1, <1>2 DEF MatrixOK
    <2>5. rows[i].comment # "posted"
      BY <1>1 DEF Found, MatchesArmRow
    <2> QED
      BY <2>1, <2>2, <2>3, <2>4, <2>5 DEF RowsOK
  <1>6. LinesOK'
    BY <1>1, <1>2, LinesRest DEF MatrixOK
  <1> QED
    BY <1>3, <1>4, <1>5, <1>6

\* The script stops in the middle of a cell.
LEMMA MatrixStops ==
  ASSUME MatrixInv, GiveUp \/ Kill
  PROVE  MatrixInv'
  <1> USE DEF MatrixInv
  <1>1. /\ \/ matrix' = [matrix EXCEPT !.pc = "aborted"] /\ box = << >> /\ orphans' = orphans
           \/ matrix' = [matrix EXCEPT !.pc = "killed", !.row = << >>]
        /\ box' = << >> /\ rows' = rows /\ lines' = lines
    BY DEF GiveUp, Kill
  <1>2. MatrixOK'
    BY <1>1 DEF MatrixOK
  <1>3. BoxOK'
    BY <1>1, <1>2 DEF GiveUp, Kill, BoxOK, MatrixOK
  <1>4. RowsOK'
    BY <1>1 DEF RowsOK, MatrixOK
  <1>5. LinesOK'
    BY <1>1, LinesRest DEF MatrixOK
  <1> QED
    BY <1>2, <1>3, <1>4, <1>5

LEMMA MatrixRestart == ASSUME MatrixInv, Restart PROVE MatrixInv'
  <1>1. PICK arms : /\ \E names \in Selections : arms = SelectArms(names)
                    /\ matrix' = Ready(arms, FALSE)
    BY DEF Restart
  <1>2. arms \in Seq(AllArms) /\ arms # << >> /\ Subjects \in Nat
    BY <1>1 DEF MatrixInv, MatrixOK, ParametersOK
  <1>3. Len(arms) \in Nat /\ Len(arms) >= 1
    BY <1>2
  <1>4. rows' = << >> /\ lines' = << >> /\ box' = box /\ box = << >>
    BY DEF Restart, MatrixInv, BoxOK
  <1>5. MatrixOK' /\ BoxOK'
    <2>1. ParametersOK
      BY DEF MatrixInv, MatrixOK
    <2> QED
      BY <1>1, <1>2, <1>3, <1>4, <2>1 DEF Ready, MatrixOK, BoxOK
  <1>6. RowsOK'
    BY <1>1, <1>4 DEF Ready, RowsOK
  <1>7. LinesOK'
    <2>1. lines' \in Seq({}) /\ Len(lines') = 0
      BY <1>4
    <2>2. matrix'.pr = 1 /\ matrix'.arm = 1 /\ Len(matrix'.arms) \in Nat
      BY <1>1, <1>3 DEF Ready
    <2>3. (matrix'.pr - 1) * Len(matrix'.arms) = 0
      BY <2>2
    <2>4. 1..(matrix'.pr - 1) = {} /\ 1..(matrix'.arm - 1) = {}
      BY <2>2
    <2>5. \E S : lines' \in Seq(S) /\ \A l \in S : l.pr \in 1..matrix'.pr
      BY <2>1
    <2>6. Len(lines') = (matrix'.pr - 1) * Len(matrix'.arms) + matrix'.arm - 1
      BY <2>1, <2>2, <2>3
    <2> QED
      BY <2>4, <2>5, <2>6 DEF LinesOK
  <1> QED
    BY <1>5, <1>6, <1>7 DEF MatrixInv

LEMMA MatrixReport == ASSUME MatrixInv, Report PROVE MatrixInv'
  <1> USE DEF MatrixInv
  <1> DEFINE line == [pr |-> matrix.pr, arm |-> ThisArm.name,
                      compliant |-> Compliant(ThisArm, matrix.row[1])]
             n == Len(matrix.arms)
  <1>0. PICK p, m : p = matrix.pr /\ m = matrix.arm
    OBVIOUS
  <1>1. /\ matrix.pc = "report" /\ lines' = Append(lines, line) /\ matrix' = NextCell
        /\ UNCHANGED << box, orphans, rows, image >>
    BY DEF Report, Fixed
  <1>2. n \in Nat /\ matrix.arm \in 1..n /\ matrix.pr \in 1..Subjects
    BY <1>1 DEF ParametersOK, MatrixOK
  <1>3. /\ matrix'.pc = "next" /\ matrix'.arms = matrix.arms /\ matrix'.first = matrix.first
        /\ MatrixOK'
    <2>1. CASE matrix.arm < n
      <3>1. matrix' = [matrix EXCEPT !.pc = "next", !.row = << >>, !.arm = @ + 1]
        BY <1>1, <2>1 DEF NextCell
      <3>2. /\ matrix' = [pc |-> "next", first |-> matrix.first, arms |-> matrix.arms,
                           pr |-> matrix.pr, arm |-> matrix.arm + 1, row |-> << >>]
            /\ matrix.arms \in Seq(AllArms)
        BY <3>1 DEF MatrixOK
      <3>3. matrix.pr \in 1..(Subjects + 1) /\ matrix.arm + 1 \in 1..n
        BY <1>2, <2>1 DEF MatrixOK, ParametersOK
      <3> QED
        BY <3>2, <3>3 DEF MatrixOK
    <2>2. CASE ~ (matrix.arm < n)
      <3>1. matrix' = [matrix EXCEPT !.pc = "next", !.row = << >>, !.arm = 1, !.pr = @ + 1]
        BY <1>1, <2>2 DEF NextCell
      <3>2. /\ matrix' = [pc |-> "next", first |-> matrix.first, arms |-> matrix.arms,
                           pr |-> matrix.pr + 1, arm |-> 1, row |-> << >>]
            /\ matrix.arms \in Seq(AllArms)
        BY <3>1 DEF MatrixOK
      <3>3. matrix.pr + 1 \in 1..(Subjects + 1) /\ 1 \in 1..n
        BY <1>2, <2>2 DEF MatrixOK, ParametersOK
      <3> QED
        BY <3>2, <3>3 DEF MatrixOK
    <2> QED
      BY <2>1, <2>2
  <1>4. BoxOK'
    BY <1>1, <1>3 DEF BoxOK
  <1>5. RowsOK'
    BY <1>1, <1>3 DEF RowsOK
  <1>6. PICK S : lines \in Seq(S) /\ \A l \in S : l.pr \in 1..matrix.pr
    BY DEF LinesOK
  <1>7. /\ lines' \in Seq(S \cup {line}) /\ Len(lines') = Len(lines) + 1
        /\ DOMAIN lines \subseteq DOMAIN lines' /\ Len(lines) + 1 \in DOMAIN lines'
        /\ \A i \in DOMAIN lines : lines'[i] = lines[i]
        /\ lines'[Len(lines) + 1] = line
    BY <1>1, <1>6, Appended
  <1>8. \A pr, k : Told(pr, k) => Told(pr, k)'
    BY <1>3, <1>7 DEF Told
  <1>9. Told(p, m)'
    BY <1>0, <1>3, <1>7 DEF Told, ThisArm
  <1>10. \A l \in S \cup {line} : l.pr \in 1..matrix.pr
    BY <1>2, <1>6
  <1>11. \A pr \in 1..(matrix.pr - 1), k \in 1..n : Told(pr, k)'
    BY <1>2, <1>8 DEF LinesOK, MatrixOK
  <1>12. \A k \in 1..m : Told(p, k)'
    <2> SUFFICES ASSUME NEW k \in 1..m
                 PROVE  Told(p, k)'
      OBVIOUS
    <2>1. CASE k = m
      BY <1>9, <2>1
    <2>2. CASE k # m
      <3>1. k \in 1..(matrix.arm - 1)
        BY <1>0, <1>2, <2>2
      <3> QED
        BY <1>0, <1>8, <3>1 DEF LinesOK
    <2> QED
      BY <2>1, <2>2
  <1>13. DOMAIN matrix'.arms = 1..n
    BY <1>3 DEF MatrixOK
  <1>14. CASE matrix.arm < n
    <2>1. matrix'.arm = matrix.arm + 1 /\ matrix'.pr = matrix.pr
      BY <1>1, <1>14 DEF NextCell, MatrixOK
    <2>2. Len(lines') = (matrix'.pr - 1) * Len(matrix'.arms) + matrix'.arm - 1
      BY <1>2, <1>3, <1>7, <2>1 DEF LinesOK
    <2>3. matrix'.arm - 1 = matrix.arm
      BY <1>2, <2>1
    <2>4. LinesOK'
      BY <1>0, <1>7, <1>10, <1>11, <1>12, <1>13, <2>1, <2>2, <2>3 DEF LinesOK
    <2> QED
      BY <1>3, <1>4, <1>5, <2>4
  <1>15. CASE matrix.arm >= n
    <2>1. matrix.arm = n /\ matrix'.arm = 1 /\ matrix'.pr = matrix.pr + 1
      BY <1>1, <1>2, <1>15 DEF NextCell, MatrixOK
    <2>2. (matrix.pr - 1) * n + n = matrix.pr * n
      BY <1>2
    <2>3. Len(lines') = (matrix'.pr - 1) * Len(matrix'.arms) + matrix'.arm - 1
      <3>1. (matrix'.pr - 1) * Len(matrix'.arms) = matrix.pr * n
        BY <1>2, <1>3, <2>1
      <3>2. Len(lines) = (matrix.pr - 1) * n + n - 1
        BY <2>1 DEF LinesOK
      <3>3. (matrix.pr - 1) * n \in Nat
        BY <1>2
      <3> QED
        BY <1>2, <1>7, <2>1, <2>2, <3>1, <3>2, <3>3
    <2>4. \A pr \in 1..(matrix'.pr - 1), k \in 1..n : Told(pr, k)'
      <3> SUFFICES ASSUME NEW pr \in 1..p, NEW k \in 1..n
                   PROVE  Told(pr, k)'
        BY <1>0, <1>2, <2>1
      <3>1. CASE pr = p
        BY <1>0, <1>12, <2>1, <3>1
      <3>2. CASE pr # p
        <4>1. pr \in 1..(matrix.pr - 1)
          BY <1>0, <1>2, <3>2
        <4> QED
          BY <1>11, <4>1
      <3> QED
        BY <3>1, <3>2
    <2>5. \A l \in S \cup {line} : l.pr \in 1..matrix'.pr
      BY <1>2, <1>10, <2>1
    <2>6. 1..(matrix'.arm - 1) = {}
      BY <2>1
    <2>7. LinesOK'
      BY <1>7, <1>13, <2>3, <2>4, <2>5, <2>6 DEF LinesOK
    <2> QED
      BY <1>3, <1>4, <1>5, <2>7
  <1> QED
    BY <1>2, <1>14, <1>15

LEMMA MatrixEndCell == ASSUME MatrixInv, EndCell PROVE MatrixInv'
  <1> USE DEF MatrixInv
  <1>1. PICK i \in DOMAIN box : Ends(box[i])
    BY DEF EndCell
  <1>2. UNCHANGED << matrix, orphans, lines, image >> /\ box' = << >>
    BY DEF EndCell, Fixed
  <1>3. box[i] = Here /\ matrix.pc = "run"
    BY <1>1 DEF BoxOK
  <1>4. MatrixOK' /\ BoxOK' /\ LinesOK'
    BY <1>2, LinesRest DEF MatrixOK, BoxOK
  <1>5. \A row : row.run = << Here >> /\ row.levers = AppliedLevers(ThisArm) => RowOK(row)
    BY DEF RowOK
  <1>6. Here.arm = ThisArm
    BY DEF Here, Cell
  <1> QED
    BY <1>1, <1>2, <1>3, <1>4, <1>5, <1>6, EndsWell

LEMMA MatrixEndOrphan == ASSUME MatrixInv, EndOrphan PROVE MatrixInv'
  <1> USE DEF MatrixInv
  <1>1. PICK c \in orphans : Ends(c) /\ orphans' = orphans \ {c}
    BY DEF EndOrphan
  <1>2. UNCHANGED << matrix, box, lines, image >>
    BY DEF EndOrphan, Fixed
  <1>3. MatrixOK' /\ LinesOK'
    BY <1>2, LinesRest DEF MatrixOK
  <1>4. BoxOK'
    BY <1>1, <1>2 DEF BoxOK, Here, ThisArm, Cell
  <1>5. matrix.pc = "run" => ~ matrix.first
    BY <1>1 DEF BoxOK
  <1>6. matrix.pc = "run" => \A row : row.run = << c >> => RowOK(row)
    BY <1>5 DEF RowOK
  <1> QED
    BY <1>1, <1>2, <1>3, <1>4, <1>6, EndsWell

LEMMA MatrixReviews ==
  ASSUME MatrixInv, NEW pr \in 1..Subjects, StartReview(pr) \/ EndReview(pr)
  PROVE  MatrixInv'
  <1> USE DEF MatrixInv
  <1>1. UNCHANGED << matrix, box, orphans, lines, image >>
    BY DEF StartReview, EndReview, Fixed
  <1>2. MatrixOK' /\ BoxOK' /\ LinesOK'
    BY <1>1, LinesRest DEF MatrixOK, BoxOK, Here, ThisArm, Cell
  <1>3. CASE rows' = rows
    BY <1>1, <1>2, <1>3, RowsRest
  <1>4. CASE EndReview(pr)
    <2>1. PICK row : /\ row \in {Failed(pr, << >>, << >>),
                                 Done(pr, "posted", << >>, << >>, Agents, Agents, "sonnet")}
                     /\ rows' = << row >> \o rows
      BY <1>4 DEF EndReview
    <2>2. row.run = << >> /\ (row.comment = "posted" \/ row.subs = << >>)
      <3>1. CASE row = Failed(pr, << >>, << >>)
        BY <3>1 DEF Failed
      <3>2. CASE row = Done(pr, "posted", << >>, << >>, Agents, Agents, "sonnet")
        BY <3>2 DEF Done
      <3> QED
        BY <2>1, <3>1, <3>2
    <2>3. RowOK(row)
      BY <2>2 DEF RowOK
    <2> QED
      BY <1>1, <1>2, <2>1, <2>3, OneRowMore
  <1> QED
    BY <1>3, <1>4 DEF StartReview

LEMMA MatrixStep == ASSUME MatrixInv, [Next]_vars PROVE MatrixInv'
  <1>1. CASE UNCHANGED vars
    <2>1. UNCHANGED << matrix, box, orphans, lines, image, rows >>
      BY <1>1 DEF vars
    <2> QED
      BY <2>1, LinesRest, RowsRest DEF MatrixInv, MatrixOK, BoxOK, Here, ThisArm, Cell
  <1> QED
    BY <1>1, MatrixStartCell, MatrixFindRow, MatrixStops, MatrixRestart, MatrixReport,
      MatrixEndCell, MatrixEndOrphan, MatrixReviews DEF Next

LEMMA MatrixHolds == ParametersOK /\ Spec => []MatrixInv
  <1> QED
    BY MatrixStarts, MatrixStep, PTL DEF Spec

-----------------------------------------------------------------------------
(* What it promises *)

\* A line that counts is about the review of its cell, with the arm's levers in effect
\* (compliance.ts:89, pr-review-tooling-ab.ts:334).
LEMMA CountedInEffect == ParametersOK /\ Spec => []CompliantInEffect
  <1>1. MatrixInv => CompliantInEffect
    <2> SUFFICES ASSUME MatrixInv, matrix.pc = "report", Compliant(ThisArm, matrix.row[1])
                 PROVE  /\ matrix.row[1].run # << >>
                        /\ matrix.first => /\ matrix.row[1].run[1] = Cell(matrix.pr, ThisArm)
                                           /\ InEffect(ThisArm, Pull(ThisArm).prompts)
      BY DEF CompliantInEffect
    <2> DEFINE row == matrix.row[1]
    <2>1. RowOK(row) /\ row.comment # "posted"
      BY DEF MatrixInv, RowsOK
    <2>2. row.subs # << >>
      BY DEF Compliant
    <2>3. row.run # << >>
      BY <2>1, <2>2 DEF RowOK
    <2>4. matrix.first => row.run[1] = Here /\ row.levers = AppliedLevers(ThisArm)
      BY <2>1, <2>3 DEF RowOK
    <2> QED
      BY <2>3, <2>4, LeversTold DEF Here
  <1> QED
    BY <1>1, MatrixHolds, PTL

\* The blocks of a container's prompts do not contradict each other (review-pr.ts:336, 449, 694).
LEMMA BlocksConsistent == PromptsAgree
  BY BlocksAgree, PullIn DEF PromptsAgree

\* A script that stops leaves complete pools (pr-review-tooling-ab.ts:665).
LEMMA PoolsStayComplete == ParametersOK /\ Spec => []PoolsComplete
  <1>1. MatrixInv => PoolsComplete
    <2> SUFFICES ASSUME MatrixInv
                 PROVE  PoolsComplete
      OBVIOUS
    <2>1. PICK S : lines \in Seq(S) /\ \A l \in S : l.pr \in 1..matrix.pr
      BY DEF MatrixInv, LinesOK
    <2>2. \A i \in DOMAIN lines : lines[i].pr \in 1..matrix.pr
      BY <2>1
    <2>3. matrix.pr \in Nat
      BY DEF ParametersOK, MatrixInv, MatrixOK
    <2>4. \A i \in DOMAIN lines : \A pr \in 1..(lines[i].pr - 1) : pr \in 1..(matrix.pr - 1)
      BY <2>2, <2>3
    <2> QED
      BY <2>4 DEF PoolsComplete, MatrixInv, LinesOK, Told
  <1> QED
    BY <1>1, MatrixHolds, PTL

=============================================================================
