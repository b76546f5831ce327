----------------------------- MODULE StageOrder -----------------------------
(***************************************************************************)
(* What the pipeline promises about the course of a work item, told without *)
(* containers, saves, errors or tags: stages are visited in order and only  *)
(* optional ones are skipped; only a human's command sends the item to a    *)
(* loop, and never past a required stage it has not been through; the item  *)
(* does not move on, or finish, while a command waits for an answer.        *)
(***************************************************************************)
EXTENDS PipelineState

VARIABLES
  at,    \* the stage the item is at
  done,  \* the item is finished
  ask    \* the loop a human's command was sent to and has not answered yet

orderVars == << at, done, ask >>

Optional == {"test-cases", "test-case-activation", "docs-writer"}

\* Stages a repository may do without lie between p and q, and no others.
Skippable(p, q) == \A n \in Stages : p < Pos(n) /\ Pos(n) < q => n \in Optional

Init == at = "analyzer" /\ done = FALSE /\ ask = "none"

Advance ==
  /\ ~ done /\ ask = "none"
  /\ \E n \in Stages : Pos(at) < Pos(n) /\ Skippable(Pos(at), Pos(n)) /\ at' = n
  /\ UNCHANGED << done, ask >>

Finish ==
  /\ ~ done /\ ask = "none"
  /\ Skippable(Pos(at), Len(DefaultStages) + 1)
  /\ done' = TRUE
  /\ UNCHANGED << at, ask >>

Command ==
  /\ ~ done
  /\ \E l \in Loops : Skippable(Pos(at), Pos(l)) /\ ask' = l
  /\ UNCHANGED << at, done >>

Obey ==
  /\ ask # "none"
  /\ at' = ask
  /\ UNCHANGED << done, ask >>

Answer ==
  /\ ask = at
  /\ ask' = "none"
  /\ UNCHANGED << at, done >>

Next == Advance \/ Finish \/ Command \/ Obey \/ Answer

Spec == Init /\ [][Next]_orderVars
=============================================================================
