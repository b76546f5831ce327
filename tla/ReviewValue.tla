---------------------------- MODULE ReviewValue ----------------------------
(***************************************************************************)
(* The sentences of the value card: what the dashboard says about the      *)
(* judged findings of the reviews of one pull request.  Reviews are saved, *)
(* and a batch job outside the repository traces findings, asks what the   *)
(* branch did about them and what the team said.  A sentence is the tag of *)
(* the clause that is chosen, with the counts it prints; the properties    *)
(* say that it is true of the findings it is about.                        *)
(***************************************************************************)
EXTENDS Integers, FiniteSets

CONSTANTS
  Findings, Anchored,   \* read-band findings, and those with a file to tie a thread to
  Traces,               \* [evidence, lead] of a finding the batch job has traced
  DidBallots,           \* [did, confidence] of a vote on what the branch did
  SaidBallots,          \* [said, confidence] of a vote on what the team said
  MaxReviews            \* bound

DidLabels == {"ADDRESSED", "not", "UNKNOWN", "SPLIT"}

SaidLabels == {"fixed", "rejected-wrong", "rejected-wontfix", "deferred", "ignored", "unclear"}

Evidences == {"null", "none", "stale-signal", "thread-reply", "pr-discussion"}

Confidences == {"null", "unanimous", "majority", "split", "single-vote"}

Rows == [find : Anchored, evidence : Evidences, lead : {"null", "before", "after"},
         did : DidLabels \cup {"null"}, didConfidence : Confidences,
         said : SaidLabels \cup {"null"}, saidConfidence : Confidences]

\* A vote that was taken has a confidence; what the team said has no label for a tie.
ParametersOK ==
  /\ IsFiniteSet(Findings) /\ Anchored \subseteq Findings /\ MaxReviews \in Nat
  /\ Traces \subseteq [evidence : Evidences, lead : {"null", "before", "after"}]
  /\ DidBallots \subseteq [did : DidLabels, confidence : Confidences \ {"null"}]
  /\ SaidBallots \subseteq [said : SaidLabels \cup {"null"}, confidence : Confidences \ {"null"}]
  /\ \A b \in SaidBallots : b.confidence = "split" => b.said = "null"

VARIABLES
  rows,      \* of finding_outcomes
  listed,    \* findings in the findings_list of a review of the population
  reviews, missing   \* its reviews, and those of them without a cost

vars == << rows, listed, reviews, missing >>

-----------------------------------------------------------------------------
(* The tables *)

Init == rows = {} /\ listed = {} /\ reviews = 0 /\ missing = 0

\* A review is saved with what it found; one that failed may have no cost.
SaveReview(finds, costed) ==
  /\ reviews < MaxReviews /\ reviews' = reviews + 1
  /\ listed' = listed \cup finds
  /\ missing' = IF costed THEN missing ELSE missing + 1
  /\ UNCHANGED rows

\* The batch job finds the thread of a finding, listed by a review of either population.
Trace(f, t) ==
  /\ \A r \in rows : r.find # f
  /\ rows' = rows \cup { [find |-> f, evidence |-> t.evidence, lead |-> t.lead,
                          did |-> "null", didConfidence |-> "null",
                          said |-> "null", saidConfidence |-> "null"] }
  /\ UNCHANGED << listed, reviews, missing >>

\* There is a diff to judge the finding against.
JudgeDid(r, b) ==
  /\ r.did = "null"
  /\ rows' = (rows \ {r}) \cup { [r EXCEPT !.did = b.did, !.didConfidence = b.confidence] }
  /\ UNCHANGED << listed, reviews, missing >>

\* thread-reply or pr-discussion: somebody wrote.
HasEngagedEvidence(r) == r.evidence \in {"thread-reply", "pr-discussion"}

\* A vote on what the team said is only taken where somebody wrote.
JudgeSaid(r, b) ==
  /\ r.saidConfidence = "null" /\ HasEngagedEvidence(r)
  /\ rows' = (rows \ {r}) \cup { [r EXCEPT !.said = b.said, !.saidConfidence = b.confidence] }
  /\ UNCHANGED << listed, reviews, missing >>

Next ==
  \/ \E finds \in SUBSET Findings, costed \in BOOLEAN : SaveReview(finds, costed)
  \/ \E f \in Anchored, t \in Traces : Trace(f, t)
  \/ \E r \in rows, b \in DidBallots : JudgeDid(r, b)
  \/ \E r \in rows, b \in SaidBallots : JudgeSaid(r, b)

Spec == Init /\ [][Next]_vars

-----------------------------------------------------------------------------
(* The figures: computeReviewValue *)

\* The card is filled in when there is a traced finding, and a review of the population.
Ready == rows # {} /\ reviews > 0

Judged == { r \in rows : r.did # "null" }
Addressed == { r \in rows : r.did = "ADDRESSED" }
Unanimous == { r \in Judged : r.didConfidence = "unanimous" }
Engaged == { r \in rows : HasEngagedEvidence(r) }
Silent == { r \in rows : r.evidence = "none" }
Labelled == { r \in rows : r.said # "null" }
Disputed == { r \in rows : r.said = "rejected-wrong" }
Before == { r \in rows : r.lead = "before" }
After == { r \in rows : r.lead = "after" }

NoFileAnchor == Cardinality(listed \ Anchored)

Traced == Cardinality(rows)

\* Floored at the traced findings: a finding of the other population is traced, too.
FindingsRaised == IF Cardinality(listed) > Traced THEN Cardinality(listed) ELSE Traced

Untraceable == FindingsRaised - Traced
Reconciled == Untraceable = NoFileAnchor
Unjudgeable == FindingsRaised - Cardinality(Judged)
AwaitingDiff == Traced - Cardinality(Judged)
Unrecorded == Traced - Cardinality(Engaged) - Cardinality(Silent)
UnrecordedLead == Traced - Cardinality(Before \cup After)

\* Every label has its row in the table, at zero, too.
DidBreakdown == [l \in DidLabels |-> Cardinality({ r \in Judged : r.did = l })]

NumeratorState == IF missing > 0 THEN "floor" ELSE "exact"

\* Untraceable findings are never judged: with one of them the figure is not settled.
DenominatorState == IF Cardinality(Judged) >= FindingsRaised THEN "settled" ELSE "will-grow"

\* Costs that are all missing add up to zero, which is not a cost.
PerAddressed == Cardinality(Addressed) > 0 /\ ~ (reviews > 0 /\ missing = reviews)

-----------------------------------------------------------------------------
(* The sentences *)

\* Why the raised count and the traced count differ.
BuildTraceabilityNote ==
  CASE FindingsRaised = 0 -> "nothing-raised"
    [] Untraceable = 0 /\ FindingsRaised > 0 ->
         IF NoFileAnchor = 0 THEN "all-have-a-thread" ELSE "counting-differently"
    [] Untraceable > 0 ->
         IF NoFileAnchor > Untraceable THEN "counting-differently"
         ELSE IF NoFileAnchor = 0 THEN "unexplained"
         ELSE IF NoFileAnchor = Untraceable THEN "accounted-for"
         ELSE "partly-explained"

\* Awaiting a diff is said before a gap that is not understood.
DescribeJudgedCoverage ==
  IF FindingsRaised = 0 THEN "nothing-raised"
  ELSE IF Unjudgeable = 0 THEN "all-judged"
  ELSE IF AwaitingDiff > 0 /\ Untraceable > 0 THEN "awaiting-and-never"
  ELSE IF AwaitingDiff > 0 THEN "awaiting"
  ELSE IF ~ Reconciled THEN "never-not-established" ELSE "never-no-thread"

DescribeAddressed == IF Judged = {} THEN "no-rate" ELSE "both-rates"

DescribeVerdictCaption ==
  IF Judged = {} THEN "scope"
  ELSE IF Unanimous = Judged THEN "every-row-agreed"
  ELSE IF Unanimous = {} THEN "no-row-agreed" ELSE "some-agreed"

\* The denominator of the rate is printed with it, the findings it leaves out are named.
DescribeEngagement ==
  LET readable == Cardinality(Engaged) + Cardinality(Silent)
  IN [value |-> IF readable = 0 THEN "no-readable-signal" ELSE "of-the-readable",
      contrast |-> readable > 0 /\ readable < FindingsRaised,
      named |-> Unrecorded + Untraceable]

\* The states a row without a label can be in.  The last is left by an older writer only.
Tied == { r \in rows : r.saidConfidence = "split" }
NoBallot == { r \in rows : r.saidConfidence = "null" }
NotYetClassified == { r \in NoBallot : HasEngagedEvidence(r) }
NoReply == NoBallot \ NotYetClassified
Unrecognized == Traced - Cardinality(Tied) - Cardinality(NoBallot)

\* Why nothing is counted: the states that occur, and why zero would misstate them.
BuildDisputedNotMeasuredReason ==
  [parts |-> { p \in {"tied", "unread", "no-reply", "unreadable"} :
                 CASE p = "tied" -> Tied # {} [] p = "unread" -> NotYetClassified # {}
                   [] p = "no-reply" -> NoReply # {} [] p = "unreadable" -> Unrecognized > 0 },
   zero |-> CASE Tied # {} /\ Unrecognized > 0 -> "readable-votes-disagreed"
              [] Tied = {} /\ Unrecognized > 0 -> "cannot-tell"
              [] Tied # {} /\ Unrecognized = 0 -> "votes-disagreed"
              [] Tied = {} /\ Unrecognized = 0 -> "nothing-recorded"]

\* A count and never a rate, of the findings with a label, and what the diff says of them.
DescribeDisputed ==
  IF Labelled = {} THEN [value |-> "not-yet-measured", reason |-> BuildDisputedNotMeasuredReason]
  ELSE LET open == { r \in Disputed : r.did = "null" }
       IN [value |-> "count", zero |-> Disputed = {}, of |-> Cardinality(Labelled),
           unlabelled |-> FindingsRaised - Cardinality(Labelled),
           unjudged |-> IF open = {} THEN "none" ELSE IF open = Disputed THEN "all" ELSE "some"]

\* Costs that are all missing are told before an absence of action.
DescribeSpend ==
  IF reviews > 0 /\ missing = reviews THEN "not-recorded"
  ELSE IF ~ PerAddressed THEN "nothing-acted-on" ELSE "per-finding"

BuildSpendNote ==
  IF NumeratorState = "exact"
  THEN IF reviews = 0 THEN "zero"
       ELSE IF DenominatorState = "settled" THEN "complete" ELSE "at-most"
  ELSE IF DenominatorState = "settled" THEN "at-least" ELSE "rough"

SpendSection == IF NumeratorState = "floor" \/ DenominatorState = "will-grow"
                THEN "attention" ELSE "neutral"

\* Lead times that are not recorded are in no count.
DescribeLeadTime ==
  [head |-> IF Before \cup After = {}
            THEN IF UnrecordedLead = 0 THEN "no-findings" ELSE "none-recorded"
            ELSE IF Before = {} THEN "no-median" ELSE "median",
   after |-> After # {}, unrecorded |-> UnrecordedLead > 0]

-----------------------------------------------------------------------------
(* Properties *)

Threaded == { r.find : r \in rows }

\* The traced findings are among those the population's reviews list.
OneSource == Threaded \subseteq listed

\* The note tells which findings have no thread: the two counts are said to disagree only when
\* a traced finding is not listed, and the findings without a file are said to be the gap, or a
\* part of it, when they are.
TraceabilityTrue ==
  LET note == BuildTraceabilityNote
      gap  == listed \ Threaded
  IN /\ note = "counting-differently" <=> NoFileAnchor > Untraceable
     /\ OneSource =>
          /\ note \notin {"nothing-raised", "counting-differently"}
          /\ note = "all-have-a-thread" => gap = {}
          /\ note = "unexplained" => gap # {} /\ gap \subseteq Anchored
          /\ note = "accounted-for" => gap # {} /\ gap = listed \ Anchored
          /\ note = "partly-explained" => gap \cap Anchored # {} /\ gap \ Anchored # {}

\* The coverage line calls nothing judged that is not, says that a finding awaits a diff only
\* when there is one, and that all that are left have no thread only when that is so.
CoverageTrue ==
  LET line == DescribeJudgedCoverage
      open == { r.find : r \in rows \ Judged }
      gap  == listed \ Threaded
  IN /\ line = "all-judged" => open = {}
     /\ line \in {"awaiting", "awaiting-and-never"} <=> open # {}
     /\ Unjudgeable = AwaitingDiff + Untraceable
     /\ line = "awaiting-and-never" => Unjudgeable >= 2
     /\ OneSource =>
          /\ line \in {"all-judged", "awaiting"} <=> gap = {}
          /\ line = "never-no-thread" => gap = listed \ Anchored

\* A row of the verdict table is missing from no total, and the caption under it speaks of
\* agreement only where there are votes that agreed.
CaptionTrue ==
  /\ DidBreakdown["ADDRESSED"] + DidBreakdown["not"] + DidBreakdown["UNKNOWN"]
       + DidBreakdown["SPLIT"] = Cardinality(Judged)
  /\ DescribeVerdictCaption = "every-row-agreed" => Unanimous # {} /\ Judged = Unanimous
  /\ DescribeVerdictCaption = "no-row-agreed" => Judged # {} /\ Unanimous = {}
  /\ DescribeAddressed = "no-rate" => Addressed = {}

\* What the rate of replies leaves out is named, and when nothing is named it is of every
\* finding that was raised.
EngagementTrue ==
  LET line == DescribeEngagement
  IN /\ line.value = "no-readable-signal" <=> Engaged = {} /\ Silent = {}
     /\ line.contrast <=> Engaged \cup Silent # {} /\ line.named > 0
     /\ line.named >= 0 /\ Unrecorded >= 0
     /\ OneSource /\ line.named = 0 => listed = { r.find : r \in Engaged \cup Silent }

\* Nothing is counted only when nothing has a label, and then the reason says of no finding
\* that nothing was recorded, or that votes disagreed, where that is not so; a count is of the
\* findings with a label, and what it says of the diff is so.
DisputeTrue ==
  LET line  == DescribeDisputed
      voted == { r \in rows : r.saidConfidence # "null" }
  IN IF line.value = "not-yet-measured"
     THEN /\ Labelled = {} /\ line.reason.parts # {}
          /\ line.reason.zero = "nothing-recorded" <=> voted = {}
          /\ line.reason.zero = "votes-disagreed" <=> voted # {} /\ voted = Tied
          /\ line.reason.zero = "cannot-tell" <=> voted # {} /\ Tied = {}
     ELSE /\ Disputed \subseteq Labelled /\ Tied \cap Labelled = {}
          /\ line.of + line.unlabelled = FindingsRaised /\ line.of > 0 /\ line.unlabelled >= 0
          /\ line.zero => line.unjudged = "none"
          /\ line.unjudged = "all" => Disputed # {} /\ Disputed \cap Judged = {}
          /\ line.unjudged = "none" => Disputed \subseteq Judged
          /\ OneSource /\ line.unlabelled = 0 => listed = { r.find : r \in Labelled }

\* Missing costs are not told as an absence of action, a figure is not shown without a cost and
\* an acted-on finding, and it is called complete when nothing can move it.
SpendTrue ==
  /\ DescribeSpend = "not-recorded" <=> missing = reviews
  /\ DescribeSpend = "nothing-acted-on" => Addressed = {}
  /\ DescribeSpend = "per-finding" => Addressed # {} /\ missing < reviews
  /\ BuildSpendNote # "zero"
  /\ BuildSpendNote = "complete" <=> SpendSection = "neutral"
  /\ BuildSpendNote \in {"complete", "at-least"} =>
       Judged = rows /\ (OneSource => listed = Threaded)
  /\ BuildSpendNote \in {"complete", "at-most"} <=> missing = 0

\* The sentence says of the findings of the window what it says only when it is so of each.
LeadTimeTrue ==
  LET line == DescribeLeadTime
  IN /\ line.head # "no-findings"
     /\ line.head = "none-recorded" <=> \A r \in rows : r.lead = "null"
     /\ line.head = "no-median" => After # {} /\ Before = {}
     /\ line.unrecorded <=> \E r \in rows : r.lead = "null"

\* Each sentence of the card is true of the findings it is about.
SentencesTrue ==
  Ready => /\ TraceabilityTrue /\ CoverageTrue /\ CaptionTrue /\ EngagementTrue
           /\ DisputeTrue /\ SpendTrue /\ LeadTimeTrue
=============================================================================
