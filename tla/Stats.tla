------------------------------- MODULE Stats -------------------------------
(***************************************************************************)
(* The statistics of the dashboard: what the six endpoints make of the     *)
(* reviews and of the judged findings of one pull request, and the tab     *)
(* that asks them for one window and one population and shows the answers. *)
(* Reviews are saved, findings judged and days pass between any two steps. *)
(* The value card divides the results of separate queries by each other    *)
(* and is taken query by query; the other cards are read in one step.      *)
(***************************************************************************)
EXTENDS Integers, FiniteSets, FiniteSetsExt

CONSTANTS
  Kinds,        \* reviews there can be, a set of records (see ReviewOK)
  WindowDays,   \* length of each window: [window -> days]
  Baseline,     \* days before the window that the quality card compares with
  Fragile,      \* bound: cards whose request may fail
  MaxDay, MaxLoads, MaxFailures,   \* bounds
  MaxWork       \* bound on reviews and loads together

\* A read-band finding of the pull request; only the first has a file to anchor it to.
Findings == {"inline", "loose"}

Populations == {"prod", "test"}

VARIABLES
  reviews,      \* rows of pr_reviews: a review and [n, day]
  outcomes,     \* rows of finding_outcomes: [find, day, did]
  today,
  window, population,   \* what the selectors show
  token,        \* of the latest load
  loads,        \* batches of requests under way
  cards,        \* what each card shows: [status, window, population]
  value,        \* the figures of the value card, when it is ready
  refreshing,   \* the batch the Refresh button waits for, 0 for none
  failed        \* counted against MaxFailures

vars == << reviews, outcomes, today, window, population, token, loads, cards, value, refreshing,
           failed >>

-----------------------------------------------------------------------------
(* Windows and populations *)

\* created_at > now() - days: each query has a now() of its own.
Recent(day, days) == day > today - days

IsTestFlag(p) == p = "test"

InPopulation(days, test) == { r \in reviews : Recent(r.day, days) /\ r.test = test }

CountInWindow(days) == Cardinality({ r \in reviews : Recent(r.day, days) })

CountInWindowForPopulation(days, test) == Cardinality(InPopulation(days, test))

-----------------------------------------------------------------------------
(* The cards that count reviews *)

ImageShaClasses == {"sha", "unknown", "empty", "not-recorded"}

\* What the reviewer and its sub-agents are seen to have spent are parts of a recorded cost; a
\* review that failed has neither.
ReviewOK(k) ==
  /\ k.test \in BOOLEAN /\ k.costed \in BOOLEAN /\ k.sha \in ImageShaClasses
  /\ k.cost \in Nat /\ k.orchestrator \in Nat /\ k.measured \in Nat
  /\ IF k.costed THEN k.measured + k.orchestrator <= k.cost ELSE k.measured = 0

ParametersOK == \A k \in Kinds : ReviewOK(k)

\* The sum of f over S, counted unit by unit.
SumOf(f(_), S) == Cardinality(UNION { {x} \X (1..f(x)) : x \in S })

\* critical or major: exactly Findings.
ReadBandCount(r) == IF r.listed THEN Cardinality(r.finds) ELSE 0

IsBackportReview(r) == r.path = "sanity"

SumApportionedSubAgentCost(r) == r.measured

RosterCount(r) == r.roster

DispatchCount(r) == r.dispatched

CostStats(w, p) ==
  LET rows  == InPopulation(WindowDays[w], IsTestFlag(p))
      total == SumOf(LAMBDA r : r.cost, { r \in rows : r.costed })
      sub   == SumOf(SumApportionedSubAgentCost, rows)
  IN [n |-> CountInWindowForPopulation(WindowDays[w], IsTestFlag(p)),
      other |-> CountInWindowForPopulation(WindowDays[w], ~ IsTestFlag(p)),
      total |-> total, orchestratorMax |-> IF total > sub THEN total - sub ELSE 0,
      subAgentMin |-> sub,
      covered |-> Cardinality({ r \in rows : RosterCount(r) > 0 })]

QualityStats(w, p) ==
  LET fetched == InPopulation(WindowDays[w] + Baseline, IsTestFlag(p))
      all     == { r \in fetched : Recent(r.day, WindowDays[w]) }
      rows    == { r \in all : ~ IsBackportReview(r) }
      found   == { r \in rows : r.listed }
  IN [n |-> CountInWindowForPopulation(WindowDays[w], IsTestFlag(p)),
      other |-> CountInWindowForPopulation(WindowDays[w], ~ IsTestFlag(p)),
      backports |-> Cardinality(all \ rows),
      baseline |-> Cardinality({ r \in fetched \ all : r.listed /\ ~ IsBackportReview(r) }),
      sample |-> Cardinality(found),
      items |-> SumOf(ReadBandCount, found),
      belowBand |-> Cardinality({ r \in found : ReadBandCount(r) = 0 }),
      verdicts |-> [v \in {"approve", "reject", "(none)"} |->
                      Cardinality({ r \in rows : r.verdict = v })]]

IntegrityStats(w, p) ==
  LET rows == InPopulation(WindowDays[w], IsTestFlag(p))
  IN [n |-> CountInWindowForPopulation(WindowDays[w], IsTestFlag(p)),
      other |-> CountInWindowForPopulation(WindowDays[w], ~ IsTestFlag(p)),
      dispatch |-> Cardinality(rows),
      mismatches |-> Cardinality({ r \in rows : DispatchCount(r) # RosterCount(r) }),
      compared |-> Cardinality({ r \in rows : r.listed }),
      errors |-> Cardinality({ r \in rows : r.error # "none" })]

ErrorCategories == {"rate-limit", "no-result", "schema-validation", "other"}

\* The three fixed texts; anything else is "other".
ClassifyErrorShape(e) == IF e \in ErrorCategories THEN e ELSE "other"

\* The retry loop puts a text of its own around an error; one of them is peeled off.
ClassifyErrorMessage(r) == IF r.wrapped <= 1 THEN ClassifyErrorShape(r.error) ELSE "other"

ClassifyErrors(rows) ==
  [c \in ErrorCategories |-> Cardinality({ r \in rows : ClassifyErrorMessage(r) = c })]

OperationalStats(w, p) ==
  LET rows == InPopulation(WindowDays[w], IsTestFlag(p))
  IN [n |-> CountInWindowForPopulation(WindowDays[w], IsTestFlag(p)),
      other |-> CountInWindowForPopulation(WindowDays[w], ~ IsTestFlag(p)),
      perDay |-> [d \in 0..MaxDay |-> Cardinality({ r \in rows : r.day = d })],
      timed |-> Cardinality({ r \in rows : r.costed }),
      errors |-> ClassifyErrors({ r \in rows : r.error # "none" })]

\* The distribution is of the window, the most recent image of the whole table.
DriftStats(w) ==
  LET known == { r \in reviews : r.sha = "sha" }
  IN [n |-> CountInWindow(WindowDays[w]),
      latest |-> { r.n : r \in { k \in known : \A o \in known : o.day <= k.day } },
      distribution |-> [c \in ImageShaClasses |->
        Cardinality({ r \in reviews : Recent(r.day, WindowDays[w]) /\ r.sha = c })],
      recorded |-> known # {}]

-----------------------------------------------------------------------------
(* The value card: four queries and what is made of them *)

\* A finding has no population of its own: it has those of the reviews of its pull request.
Reviewed(test) == \E r \in reviews : r.test = test

TracedRows(days, test) ==
  IF Reviewed(test) THEN { o \in outcomes : Recent(o.day, days) } ELSE {}

\* The findings the reviews of the population list, each by the first of them that had it.
Raised(days, test) ==
  LET carrying(f) == { r \in reviews : r.test = test /\ r.listed /\ f \in r.finds }
  IN { f \in Findings : /\ outcomes # {} /\ carrying(f) # {}
                        /\ Recent(Min({ r.day : r \in carrying(f) }), days) }

Spend(days, test) ==
  IF \E o \in outcomes : Recent(o.day, days) THEN { r \in reviews : r.test = test } ELSE {}

\* Bug: no floor.
RaisedCountMutant(raised, traced) == Cardinality(raised)

\* Raised is floored at traced: a finding traced by a review of the other population is not
\* among those this population's reviews list.
RaisedCount(raised, traced) == IF Cardinality(raised) > traced THEN Cardinality(raised) ELSE traced

ComputeReviewValue(rows, raised, spend, edge) ==
  LET traced    == Cardinality(rows)
      judged    == Cardinality({ o \in rows : o.did # "none" })
      addressed == Cardinality({ o \in rows : o.did = "ADDRESSED" })
      missing   == Cardinality({ r \in spend : ~ r.costed })
      all       == RaisedCount(raised, traced)
  IN [edge |-> edge, raised |-> all, traced |-> traced, untraceable |-> all - traced,
      reconciled |-> all - traced = Cardinality(raised \cap {"loose"}),
      judged |-> judged, unjudgeable |-> all - judged, addressed |-> addressed,
      reviews |-> Cardinality(spend), missing |-> missing,
      total |-> SumOf(LAMBDA r : r.cost, { r \in spend : r.costed }),
      perAddressed |-> addressed > 0 /\ ~ (spend # {} /\ missing = Cardinality(spend))]

-----------------------------------------------------------------------------
(* The tables *)

\* pr_reviews.insert at the end of a review.
SaveReview(k) ==
  /\ Cardinality(reviews) + token < MaxWork
  /\ reviews' = reviews \cup { [n |-> Cardinality(reviews) + 1, day |-> today,
       test |-> k.test, costed |-> k.costed, cost |-> k.cost, orchestrator |-> k.orchestrator,
       measured |-> k.measured, roster |-> k.roster, dispatched |-> k.dispatched,
       listed |-> k.listed, finds |-> k.finds, path |-> k.path, verdict |-> k.verdict,
       error |-> k.error, wrapped |-> k.wrapped, sha |-> k.sha] }
  /\ UNCHANGED << outcomes, today, window, population, token, loads, cards, value, refreshing,
                  failed >>

\* The batch job finds the thread of a finding once the pull request is closed.
Trace(f) ==
  LET carrying == { r \in reviews : r.listed /\ f \in r.finds }
  IN /\ f = "inline" /\ carrying # {} /\ \A o \in outcomes : o.find # f
     /\ outcomes' = outcomes \cup
          { [find |-> f, day |-> Min({ r.day : r \in carrying }), did |-> "none"] }
     /\ UNCHANGED << reviews, today, window, population, token, loads, cards, value, refreshing,
                     failed >>

\* It judges what the branch made of the finding, once there is a diff.
Judge(o) ==
  /\ o.did = "none"
  /\ \E did \in {"ADDRESSED", "NOT_ADDRESSED"} :
       outcomes' = (outcomes \ {o}) \cup { [o EXCEPT !.did = did] }
  /\ UNCHANGED << reviews, today, window, population, token, loads, cards, value, refreshing,
                  failed >>

\* A review or a finding may leave the window between two queries of one request.
Tick ==
  /\ today < MaxDay /\ today' = today + 1
  /\ loads' = { [l EXCEPT !.edge = l.edge \/ l.step \in 1..2] : l \in loads }
  /\ UNCHANGED << reviews, outcomes, window, population, token, cards, value, refreshing, failed >>

-----------------------------------------------------------------------------
(* The tab *)

Cards == {"cost", "quality", "integrity", "operational", "value", "drift", "ribbon"}

Loading == [status |-> "loading", window |-> "none", population |-> "none"]

NoFigures == [raised |-> 0]

\* A load takes the next token, blanks every card and sends its requests.  The ribbon asks
\* for production by itself only while the selector shows another population.
LoadStatsForWindow(w, p) ==
  /\ token < MaxLoads /\ Cardinality(reviews) + token < MaxWork
  /\ token' = token + 1
  /\ cards' = [c \in Cards |-> Loading] /\ value' = NoFigures
  /\ loads' = loads \cup { [n |-> token + 1, window |-> w, population |-> p, step |-> 0,
                            rows |-> {}, raised |-> {}, spend |-> {}, edge |-> FALSE,
                            answers |-> << >>] }

Init ==
  /\ reviews = {} /\ outcomes = {} /\ today = 0
  /\ window = CHOOSE w \in DOMAIN WindowDays : TRUE
  /\ population = "prod"
  /\ token = 0 /\ loads = {} /\ failed = 0
  /\ cards = [c \in Cards |-> Loading] /\ value = NoFigures /\ refreshing = 0

SetStatsWindow(w) ==
  /\ window # w /\ window' = w
  /\ LoadStatsForWindow(w, population)
  /\ UNCHANGED << reviews, outcomes, today, population, refreshing, failed >>

SetStatsPopulation(p) ==
  /\ population # p /\ population' = p
  /\ LoadStatsForWindow(window, p)
  /\ UNCHANGED << reviews, outcomes, today, window, refreshing, failed >>

\* The Refresh button, and the tab when it is opened: one at a time.
RefreshStatsTab ==
  /\ refreshing = 0 /\ refreshing' = token + 1
  /\ LoadStatsForWindow(window, population)
  /\ UNCHANGED << reviews, outcomes, today, window, population, failed >>

\* A superseded batch is waited for, too, and so are the configuration and the reflections.
RefreshDone ==
  /\ refreshing # 0 /\ \A l \in loads : l.n # refreshing
  /\ refreshing' = 0
  /\ UNCHANGED << reviews, outcomes, today, window, population, token, loads, cards, value, failed >>

\* Only the emptiness of a counting card matters to what is shown.
ClassifyWindowedResponse(n) == IF n = 0 THEN "empty" ELSE "ready"

Card(status, w, p) == [status |-> status, window |-> w, population |-> p]

\* The answers of a batch, of which those in `broken` failed.
Answers(l, rows, broken) ==
  LET w == l.window  p == l.population
      n == [cost |-> CostStats(w, p).n, quality |-> QualityStats(w, p).n,
            integrity |-> IntegrityStats(w, p).n, operational |-> OperationalStats(w, p).n,
            value |-> Cardinality(rows), ribbon |-> IntegrityStats(w, "prod").n,
            drift |-> DriftStats(w).n]
      scope == [c \in Cards |-> CASE c = "ribbon" -> "prod" [] c = "drift" -> "none" [] OTHER -> p]
  IN [c \in Cards |->
        Card(IF c \in broken THEN "error"
             ELSE IF c = "drift" THEN "ready" ELSE ClassifyWindowedResponse(n[c]), w, scope[c])]

\* The queries of the value endpoint, one by one; the other endpoints answer with the last.
Query(l, change) == loads' = (loads \ {l}) \cup { [change EXCEPT !.step = l.step + 1] }

ServeTraced(l) ==
  /\ l.step = 0
  /\ Query(l, [l EXCEPT !.rows = TracedRows(WindowDays[l.window], IsTestFlag(l.population))])
  /\ UNCHANGED << reviews, outcomes, today, window, population, token, cards, value, refreshing,
                  failed >>

ServeRaised(l) ==
  /\ l.step = 1
  /\ Query(l, [l EXCEPT !.raised = Raised(WindowDays[l.window], IsTestFlag(l.population))])
  /\ UNCHANGED << reviews, outcomes, today, window, population, token, cards, value, refreshing,
                  failed >>

\* While production is selected the ribbon shows the answer of the integrity card.
ServeRest(l) ==
  /\ l.step = 2
  /\ \E broken \in SUBSET Fragile :
       LET all == IF l.population = "prod" /\ "integrity" \in broken THEN broken \cup {"ribbon"}
                                                                     ELSE broken
       IN /\ failed + Cardinality(broken) <= MaxFailures
          /\ failed' = failed + Cardinality(broken)
          /\ Query(l, [l EXCEPT !.spend = Spend(WindowDays[l.window], IsTestFlag(l.population)),
                                !.answers = Answers(l, l.rows, all)])
  /\ UNCHANGED << reviews, outcomes, today, window, population, token, cards, value, refreshing >>

\* Answers to a load that is not the latest are dropped.
Superseded(l) == l.n # token

\* All answers have come.
Land(l) ==
  /\ l.step = 3
  /\ loads' = loads \ {l}
  /\ IF Superseded(l) THEN UNCHANGED << cards, value >>
     ELSE /\ cards' = l.answers
          /\ value' = IF l.answers["value"].status # "ready" THEN NoFigures
                      ELSE ComputeReviewValue(l.rows, l.raised, l.spend, l.edge)
  /\ UNCHANGED << reviews, outcomes, today, window, population, token, refreshing, failed >>

Next ==
  \/ \E k \in Kinds : SaveReview(k)
  \/ \E f \in Findings : Trace(f)
  \/ \E o \in outcomes : Judge(o)
  \/ Tick
  \/ \E w \in DOMAIN WindowDays : SetStatsWindow(w)
  \/ \E p \in Populations : SetStatsPopulation(p)
  \/ RefreshStatsTab \/ RefreshDone
  \/ \E l \in loads : ServeTraced(l) \/ ServeRaised(l) \/ ServeRest(l) \/ Land(l)

Spec == Init /\ [][Next]_vars

-----------------------------------------------------------------------------
(* Properties *)

\* Figures on the screen are of the window and the population the selectors show, and the
\* ribbon above them is of production, whatever order the answers come in
\* (stats-store.ts:292).
StatsAsSelected ==
  \A c \in Cards : cards[c].status \in {"ready", "empty"} =>
    /\ cards[c].window = window
    /\ cards[c].population =
         CASE c = "ribbon" -> "prod" [] c = "drift" -> "none" [] OTHER -> population

\* The value card never shows more of a part than of the whole, though its counts come from
\* two tables, three queries and both populations; and no price per finding where no review
\* has a recorded cost, unless the window moved between the queries (stats.ts:2048, 2193).
ValueAddsUp ==
  value # NoFigures =>
    /\ value.addressed <= value.judged /\ value.judged <= value.traced
    /\ value.traced <= value.raised /\ value.unjudgeable >= 0
    /\ value.perAddressed /\ ~ value.edge => value.reviews > value.missing

\* Cards of one window agree with each other: the orchestrator is never shown cheaper than it
\* was (stats.ts:790), both counts of errors are the same (stats.ts:1226), and what one
\* population leaves out the other counts (stats.ts:86).
CardsAgree ==
  \A w \in DOMAIN WindowDays, p \in Populations :
    LET cost   == CostStats(w, p)
        drift  == DriftStats(w).distribution
        errors == OperationalStats(w, p).errors
    IN /\ cost.orchestratorMax >=
            SumOf(LAMBDA r : r.orchestrator,
                  { r \in InPopulation(WindowDays[w], IsTestFlag(p)) : r.costed })
       /\ errors["rate-limit"] + errors["no-result"] + errors["schema-validation"] + errors["other"]
            = IntegrityStats(w, p).errors
       /\ drift["sha"] + drift["unknown"] + drift["empty"] + drift["not-recorded"]
            = cost.n + cost.other
       /\ \A q \in Populations \ {p} : cost.other = QualityStats(w, q).n
=============================================================================
