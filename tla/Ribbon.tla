------------------------------- MODULE Ribbon -------------------------------
(***************************************************************************)
(* The status ribbon of the dashboard: whether the running services are    *)
(* those of HEAD, and whether sub-agents ran on the models their files     *)
(* declare.  HEAD moves, images are built, services deployed, reviews and  *)
(* reflection runs saved while the endpoints read; the batch of statistics *)
(* and the configuration are fetched apart and land in any order.          *)
(***************************************************************************)
EXTENDS Integers, FiniteSets

CONSTANTS
  Commits, History,   \* and the commits that are reachable from each, itself among them
  Agents, Models,     \* sub-agents, and models they may run on
  Pins,               \* the model each commit's files declare for each agent, or "none"
  Flagged,            \* models of the long-context tier
  Ran,                \* what a review did: [usage, ran, roster]
  MaxMoves, MaxRuns   \* bounds: moves of HEAD, builds and deployments; runs saved

NoDistance == -1

\* The roster has an entry for some of the sub-agents that ran, with one model of each or none.
RunOK(k) ==
  /\ k.usage \subseteq Models
  /\ IsFiniteSet(k.ran) /\ k.ran \subseteq [agent : Agents, model : Models]
  /\ IsFiniteSet(k.roster) /\ k.roster \subseteq [agent : Agents, model : Models \cup {"null"}]
  /\ \A e \in k.roster : \E d \in k.ran : d.agent = e.agent /\ e.model \in {d.model, "null"}
  /\ \A e \in k.roster, o \in k.roster : e.agent = o.agent => e = o

ParametersOK ==
  /\ IsFiniteSet(Commits) /\ "null" \notin Commits
  /\ History \in [Commits -> SUBSET Commits] /\ \A c \in Commits : c \in History[c]
  /\ IsFiniteSet(Agents) /\ IsFiniteSet(Models) /\ Models \cap {"null", "none"} = {}
  /\ Pins \in [Commits -> [Agents -> Models \cup {"none"}]]
  /\ \A k \in Ran : RunOK(k)

VARIABLES
  head, kept,   \* of the repository: where HEAD is, and the commits it still has
  mounted,      \* whether the dashboard's container has .git as a directory
  services,     \* the running services: [from, sha], their commit and what BUILD_SHA says
  image,        \* the image that reviews run in, likewise
  rows,         \* of pr_reviews and of reflection_proposals, by kind
  load,         \* the batch of statistics under way, with the answers that have come
  drift, integrity, config,   \* what the ribbon has been told
  moves         \* counted against MaxMoves

vars == << head, kept, mounted, services, image, rows, load, drift, integrity, config, moves >>

Loading == [status |-> "loading"]
Failed == [status |-> "error"]
NoAnswer == [status |-> "none"]
Batch(step) == [step |-> step, integrity |-> NoAnswer, head |-> "null", latest |-> NoAnswer,
                compose |-> NoAnswer, spawned |-> NoAnswer]

Init ==
  /\ head \in Commits /\ kept = History[head] /\ mounted \in BOOLEAN
  /\ services \in { [from |-> head, sha |-> s] : s \in {head, "null"} } /\ image = services
  /\ rows = {} /\ load = Batch("none") /\ moves = 0
  /\ drift = Loading /\ integrity = Loading /\ config = Loading

-----------------------------------------------------------------------------
(* The repository, the images and the runs *)

Move == moves < MaxMoves /\ moves' = moves + 1

\* Somebody pulls, resets or rewrites; commits that are not reachable may be pruned.
MoveHead(c, pruned) ==
  /\ Move /\ c # head /\ head' = c
  /\ kept' = IF pruned THEN History[c] ELSE kept \cup History[c]
  /\ UNCHANGED << mounted, services, image, rows, load, drift, integrity, config >>

\* The image is built from the checkout, with or without BUILD_SHA.
BuildImage(s) ==
  /\ Move /\ image' = [from |-> head, sha |-> s]
  /\ UNCHANGED << head, kept, mounted, services, rows, load, drift, integrity, config >>

\* The services are built and restarted: the requests under way fail.
Deploy(s, mount) ==
  /\ Move /\ services' = [from |-> head, sha |-> s] /\ mounted' = mount
  /\ load' = IF load.step = "none" THEN load ELSE Batch("broken")
  /\ config' = IF config = Loading THEN Failed ELSE config
  /\ UNCHANGED << head, kept, image, rows, drift, integrity >>

\* What a run that ends writes, with the commit its image was stamped with.
Save(kind, k) ==
  /\ Cardinality(rows) < MaxRuns
  /\ rows' = rows \cup { [kind |-> kind, n |-> Cardinality(rows) + 1,
                          from |-> image.from, sha |-> image.sha,
                          usage |-> k.usage, ran |-> k.ran, roster |-> k.roster] }
  /\ UNCHANGED << head, kept, mounted, services, image, load, drift, integrity, config, moves >>

SaveReview(k) == Save("review", k)

\* Of a reflection run only the image matters here.
SaveReflection == Save("reflection", [usage |-> {}, ran |-> {}, roster |-> {}])

Reviews == { r \in rows : r.kind = "review" }

-----------------------------------------------------------------------------
(* The endpoints *)

\* A build that does not say its commit says one of several words, or nothing.
ClassifyImageSha(sha) == IF sha \in Commits THEN "sha" ELSE "not-recorded"

\* The mount is looked at before git is run, whose command may fail.
ResolveHeadSha(ok) == IF mounted /\ ok THEN head ELSE "null"

\* Commits of HEAD, where it is now, that the other does not have.
ComputeCommitsBehindHead(sha, ok) ==
  IF sha \in kept /\ mounted /\ ok THEN Cardinality(History[head] \ History[sha]) ELSE NoDistance

\* The most recent run that has a commit, of the reviews and the reflection runs there are.
MostRecent ==
  LET known == { r \in rows : ClassifyImageSha(r.sha) = "sha" }
  IN IF known = {} THEN [status |-> "ready", from |-> "null", sha |-> "null"]
     ELSE LET r == CHOOSE k \in known : \A o \in known : o.n <= k.n
          IN [status |-> "ready", from |-> r.from, sha |-> r.sha]

\* A batch replaces the one under way, whose answers are dropped when they come.
LoadStatsForWindow ==
  /\ load' = Batch("asked") /\ drift' = Loading /\ integrity' = Loading
  /\ UNCHANGED << head, kept, mounted, services, image, rows, config, moves >>

ServeHead(ok) ==
  /\ load.step = "asked"
  /\ load' = [load EXCEPT !.step = "counting", !.latest = MostRecent, !.head = ResolveHeadSha(ok)]
  /\ UNCHANGED << head, kept, mounted, services, image, rows, drift, integrity, config, moves >>

\* Of the services and of the latest image side by side, and only when HEAD was resolved; "at" is
\* where it is by now.
Distance(sha, ok) ==
  [status |-> "ready", at |-> head,
   behind |-> IF load.head # "null" /\ ClassifyImageSha(sha) = "sha"
              THEN ComputeCommitsBehindHead(sha, ok) ELSE NoDistance]

ServeCompose(ok) ==
  /\ load.step = "counting" /\ load.compose = NoAnswer
  /\ load' = [load EXCEPT !.compose = Distance(services.sha, ok)]
  /\ UNCHANGED << head, kept, mounted, services, image, rows, drift, integrity, config, moves >>

ServeSpawned(ok) ==
  /\ load.step = "counting" /\ load.spawned = NoAnswer
  /\ load' = [load EXCEPT !.spawned = Distance(load.latest.sha, ok)]
  /\ UNCHANGED << head, kept, mounted, services, image, rows, drift, integrity, config, moves >>

\* The endpoint of the integrity statistics reads the reviews at any time of the batch.
ServeIntegrity ==
  /\ load.step \in {"asked", "counting"} /\ load.integrity = NoAnswer
  /\ load' = [load EXCEPT !.integrity =
                IF Reviews = {} THEN [status |-> "empty"] ELSE [status |-> "ready", rows |-> Reviews]]
  /\ UNCHANGED << head, kept, mounted, services, image, rows, drift, integrity, config, moves >>

\* All answers have come, some of which are errors.
Land(broken) ==
  /\ \/ load.step = "counting" /\ NoAnswer \notin {load.integrity, load.compose, load.spawned}
     \/ load.step = "broken" /\ broken = {"drift", "integrity"}
  /\ load' = Batch("none")
  /\ drift' = IF "drift" \in broken THEN Failed
              ELSE [status |-> "ready", head |-> load.head, services |-> services,
                    latest |-> load.latest, compose |-> load.compose, spawned |-> load.spawned]
  /\ integrity' = IF "integrity" \in broken THEN Failed ELSE load.integrity
  /\ UNCHANGED << head, kept, mounted, services, image, rows, config, moves >>

LoadConfigReport ==
  /\ config' = Loading
  /\ UNCHANGED << head, kept, mounted, services, image, rows, load, drift, integrity, moves >>

\* The report is of the files the dashboard was built with.
LandConfigReport(ok) ==
  /\ config = Loading
  /\ config' = IF ok THEN [status |-> "ready", pins |-> Pins[services.from]] ELSE Failed
  /\ UNCHANGED << head, kept, mounted, services, image, rows, load, drift, integrity, moves >>

Next ==
  \/ \E c \in Commits, pruned \in BOOLEAN : MoveHead(c, pruned)
  \/ \E s \in {head, "null"} : BuildImage(s) \/ \E mount \in BOOLEAN : Deploy(s, mount)
  \/ \E k \in Ran : SaveReview(k)
  \/ SaveReflection
  \/ LoadStatsForWindow \/ ServeIntegrity \/ LoadConfigReport
  \/ \E ok \in BOOLEAN : \/ ServeHead(ok) \/ ServeCompose(ok) \/ ServeSpawned(ok)
                         \/ LandConfigReport(ok)
  \/ \E broken \in SUBSET {"drift", "integrity"} : Land(broken)

Spec == Init /\ [][Next]_vars

-----------------------------------------------------------------------------
(* The cards *)

\* What is not known is never told as zero.
FormatDistance(behind) ==
  IF behind = NoDistance THEN "unknown" ELSE IF behind = 0 THEN "in-sync" ELSE "behind"

\* What a row of the table says beside its commit; words that stand for one have no distance.
BuildProvenanceRow(sha, distance) ==
  IF ClassifyImageSha(sha) = "sha" THEN FormatDistance(distance.behind) ELSE "nothing"

\* Fine only when the services are confirmed to be those of HEAD.
AssessDrift(d) ==
  IF \/ d.head = "null" \/ ClassifyImageSha(d.services.sha) # "sha"
     \/ d.compose.behind = NoDistance \/ d.compose.behind > 0 THEN "attention" ELSE "ok"

\* Entries of the rosters, by review: of one sub-agent, and on another model than is declared.
AggregateSubAgentModelAttribution(data) == UNION { {r.n} \X r.roster : r \in data }

Observed(data, a) == { e \in AggregateSubAgentModelAttribution(data) : e[2].agent = a }

OffPin(data, pins) ==
  { e \in AggregateSubAgentModelAttribution(data) : pins[e[2].agent] \notin {"none", e[2].model} }

\* What the table of the sub-agents says of one.
AgentStatus(data, pins, a) ==
  IF pins[a] = "none" THEN "unpinned"
  ELSE IF Observed(data, a) = {} THEN "not-observed"
  ELSE IF Observed(data, a) \cap OffPin(data, pins) # {} THEN "attention" ELSE "ok"

FlaggedModels(data) == { m \in Flagged : \E r \in data : m \in r.usage }

\* The sentence calls the models clear, or counts the entries that are not as declared; either
\* way it counts the declared ones that nothing was seen of.
AssessModelIntegrity(data, pins) ==
  LET with(s) == { a \in Agents : AgentStatus(data, pins, a) = s }
  IN [status |-> IF FlaggedModels(data) = {} /\ with("attention") = {} THEN "ok" ELSE "attention",
      clear |-> with("attention") = {}, off |-> Cardinality(OffPin(data, pins)),
      notObserved |-> Cardinality(with("not-observed")),
      pinned |-> Cardinality(with("ok") \cup with("attention")) + Cardinality(with("not-observed"))]

\* Two fetches: the card waits for the declarations, too, and verifies nothing without them.
BuildModelIntegrityCard ==
  IF integrity.status # "ready" THEN integrity
  ELSE IF config = Loading THEN Loading
  ELSE IF config = Failed THEN [status |-> "unverified"]
  ELSE AssessModelIntegrity(integrity.rows, config.pins)

-----------------------------------------------------------------------------
(* Properties *)

\* A distance of a build is told as none only when all of HEAD, where it was when the distance
\* was counted, is in what was built, and as some only when it is not.
DistanceTrue(text, distance, build) ==
  /\ text = "in-sync" => History[distance.at] \subseteq History[build.from]
  /\ text = "behind" => ~ (History[distance.at] \subseteq History[build.from])

\* The distances of the services and of the latest image are true, the card is fine just when
\* the services are in sync, and without HEAD nothing is said of either (assessDrift: "silence
\* is treated the same as drift").
DriftTrue ==
  drift.status = "ready" =>
    LET compose == BuildProvenanceRow(drift.services.sha, drift.compose)
        spawned == BuildProvenanceRow(drift.latest.sha, drift.spawned)
    IN /\ DistanceTrue(compose, drift.compose, drift.services)
       /\ DistanceTrue(spawned, drift.spawned, drift.latest)
       /\ AssessDrift(drift) = "ok" <=> compose = "in-sync"
       /\ drift.head = "null" => {compose, spawned} \subseteq {"unknown", "nothing"}

\* What sub-agents did, by review, on another model than is declared.
RanOffPin(data, pins) ==
  { d \in UNION { {r.n} \X r.ran : r \in data } : pins[d[2].agent] \notin {"none", d[2].model} }

\* Models are called as declared only when every entry is and none is of the long-context tier;
\* the count of the others is never of more than there were, but for entries without a model;
\* what is called clear is of all declared models but the ones it counts as not observed
\* (assessModelIntegrity: "the true count can only be higher").
ModelsTrue ==
  BuildModelIntegrityCard.status \in {"ok", "attention"} =>
    LET card == BuildModelIntegrityCard
        pins == config.pins
        entries == AggregateSubAgentModelAttribution(integrity.rows)
    IN /\ card.status = "ok" =>
            /\ \A r \in integrity.rows : r.usage \cap Flagged = {}
            /\ \A e \in entries : pins[e[2].agent] \in {"none", e[2].model}
       /\ card.clear <=> card.off = 0
       /\ card.off <= Cardinality(RanOffPin(integrity.rows, pins))
                      + Cardinality({ e \in entries : e[2].model = "null" })
       /\ card.pinned = Cardinality({ a \in Agents : pins[a] # "none" })
       /\ card.pinned - card.notObserved =
            Cardinality({ a \in Agents : pins[a] # "none" /\ \E e \in entries : e[2].agent = a })

\* The ribbon calls nothing fine that is not.
RibbonTrue == DriftTrue /\ ModelsTrue
=============================================================================
