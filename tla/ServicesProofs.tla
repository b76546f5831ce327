--------------------------- MODULE ServicesProofs ---------------------------
(***************************************************************************)
(* The composition that the run Services explores, for every value of its  *)
(* constants: the part that moves keeps its component's specification, so  *)
(* that component's theorems hold of it.  A component without a module of  *)
(* proofs has a section here, on the variables MCServices gives it.        *)
(***************************************************************************)
EXTENDS MCServices, Sequences, FiniteSetTheorems, TLAPS

-----------------------------------------------------------------------------
(* The part that moves is a run of its component, and the others rest *)

LEMMA ReviewMoves == AllSpec => (part = "review" => Re!Spec)
  <1>1. AllInit => (part = "review" => Re!Init)
    BY DEF AllInit
  <1>2. part = "review" /\ [AllNext]_all => (part = "review")'
    BY DEF AllNext, all
  <1>3. part = "review" /\ [AllNext]_all => [Re!Next]_(Re!vars)
    BY DEF AllNext, all, after0, after3, after4, after6, after7, after8, after9, after10, after11,
      Re!vars, Re!answers
  <1> QED
    BY <1>1, <1>2, <1>3, PTL DEF AllSpec, Re!Spec

LEMMA ReviewRests == AllSpec => (part = "review" \/ [](~ (part = "review")))
  <1>1. ~ (part = "review") /\ [AllNext]_all => (~ (part = "review"))'
    BY DEF AllNext, all
  <1> QED
    BY <1>1, PTL DEF AllSpec

LEMMA ReflectionMoves == AllSpec => (part = "reflection" => Rf!Spec)
  <1>1. AllInit => (part = "reflection" => Rf!Init)
    BY DEF AllInit
  <1>2. part = "reflection" /\ [AllNext]_all => (part = "reflection")'
    BY DEF AllNext, all
  <1>3. part = "reflection" /\ [AllNext]_all => [Rf!Next]_(Rf!vars)
    BY DEF AllNext, all, after0, after3, after4, after6, after7, after8, after9, after10, after11,
      Rf!vars
  <1> QED
    BY <1>1, <1>2, <1>3, PTL DEF AllSpec, Rf!Spec

LEMMA ReflectionRests == AllSpec => (part = "reflection" \/ [](~ (part = "reflection")))
  <1>1. ~ (part = "reflection") /\ [AllNext]_all => (~ (part = "reflection"))'
    BY DEF AllNext, all
  <1> QED
    BY <1>1, PTL DEF AllSpec

LEMMA AccountsMoves == AllSpec => (part = "accounts" => Ac!Spec)
  <1>1. AllInit => (part = "accounts" => Ac!Init)
    BY DEF AllInit
  <1>2. part = "accounts" /\ [AllNext]_all => (part = "accounts")'
    BY DEF AllNext, all
  <1>3. part = "accounts" /\ [AllNext]_all => [Ac!Next]_(Ac!vars)
    BY DEF AllNext, all, after0, after3, after4, after6, after7, after8, after9, after10, after11,
      Ac!vars
  <1> QED
    BY <1>1, <1>2, <1>3, PTL DEF AllSpec, Ac!Spec

LEMMA AccountsRests == AllSpec => (part = "accounts" \/ [](~ (part = "accounts")))
  <1>1. ~ (part = "accounts") /\ [AllNext]_all => (~ (part = "accounts"))'
    BY DEF AllNext, all
  <1> QED
    BY <1>1, PTL DEF AllSpec

LEMMA AgentMoves == AllSpec => (part = "agent" => Ar!Spec)
  <1>1. AllInit => (part = "agent" => Ar!Init)
    BY DEF AllInit
  <1>2. part = "agent" /\ [AllNext]_all => (part = "agent")'
    BY DEF AllNext, all
  <1>3. part = "agent" /\ [AllNext]_all => [Ar!Next]_(Ar!vars)
    BY DEF AllNext, all, after0, after3, after4, after6, after7, after8, after9, after10, after11, Ar!vars
  <1> QED
    BY <1>1, <1>2, <1>3, PTL DEF AllSpec, Ar!Spec

LEMMA AgentRests == AllSpec => (part = "agent" \/ [](~ (part = "agent")))
  <1>1. ~ (part = "agent") /\ [AllNext]_all => (~ (part = "agent"))'
    BY DEF AllNext, all
  <1> QED
    BY <1>1, PTL DEF AllSpec

LEMMA FilesMoves == AllSpec => (part = "files" => Aw!Spec)
  <1>1. AllInit => (part = "files" => Aw!Init)
    BY DEF AllInit
  <1>2. part = "files" /\ [AllNext]_all => (part = "files")'
    BY DEF AllNext, all
  <1>3. part = "files" /\ [AllNext]_all => [Aw!Next]_(Aw!vars)
    BY DEF AllNext, all, after0, after3, after4, after6, after7, after8, after9, after10, after11, Aw!vars
  <1> QED
    BY <1>1, <1>2, <1>3, PTL DEF AllSpec, Aw!Spec

LEMMA FilesRests == AllSpec => (part = "files" \/ [](~ (part = "files")))
  <1>1. ~ (part = "files") /\ [AllNext]_all => (~ (part = "files"))'
    BY DEF AllNext, all
  <1> QED
    BY <1>1, PTL DEF AllSpec

LEMMA PolicyMoves == AllSpec => (part = "policy" => St!Spec)
  <1>1. AllInit => (part = "policy" => St!Init)
    BY DEF AllInit
  <1>2. part = "policy" /\ [AllNext]_all => (part = "policy")'
    BY DEF AllNext, all
  <1>3. part = "policy" /\ [AllNext]_all => [St!Next]_(St!vars)
    BY DEF AllNext, all, after0, after3, after4, after6, after7, after8, after9, after10, after11, St!vars
  <1> QED
    BY <1>1, <1>2, <1>3, PTL DEF AllSpec, St!Spec

LEMMA PolicyRests == AllSpec => (part = "policy" \/ [](~ (part = "policy")))
  <1>1. ~ (part = "policy") /\ [AllNext]_all => (~ (part = "policy"))'
    BY DEF AllNext, all
  <1> QED
    BY <1>1, PTL DEF AllSpec
LEMMA RegistryMoves == AllSpec => (part = "registry" => Rg!Spec)
  <1>1. AllInit => (part = "registry" => Rg!Init)
    BY DEF AllInit
  <1>2. part = "registry" /\ [AllNext]_all => (part = "registry")'
    BY DEF AllNext, all
  <1>3. part = "registry" /\ [AllNext]_all => [Rg!Next]_(Rg!vars)
    BY DEF AllNext, all, after0, after3, after4, after6, after7, after8, after9, after10, after11, Rg!vars
  <1> QED
    BY <1>1, <1>2, <1>3, PTL DEF AllSpec, Rg!Spec

LEMMA RegistryRests == AllSpec => (part = "registry" \/ [](~ (part = "registry")))
  <1>1. ~ (part = "registry") /\ [AllNext]_all => (~ (part = "registry"))'
    BY DEF AllNext, all
  <1> QED
    BY <1>1, PTL DEF AllSpec

LEMMA CardMoves == AllSpec => (part = "card" => Rc!Spec)
  <1>1. AllInit => (part = "card" => Rc!Init)
    BY DEF AllInit
  <1>2. part = "card" /\ [AllNext]_all => (part = "card")'
    BY DEF AllNext, all
  <1>3. part = "card" /\ [AllNext]_all => [Rc!Next]_(Rc!vars)
    BY DEF AllNext, all, after0, after3, after4, after6, after7, after8, after9, after10, after11, Rc!vars
  <1> QED
    BY <1>1, <1>2, <1>3, PTL DEF AllSpec, Rc!Spec

LEMMA CardRests == AllSpec => (part = "card" \/ [](~ (part = "card")))
  <1>1. ~ (part = "card") /\ [AllNext]_all => (~ (part = "card"))'
    BY DEF AllNext, all
  <1> QED
    BY <1>1, PTL DEF AllSpec

LEMMA PanelMoves == AllSpec => (part = "panel" => Ap!Spec)
  <1>1. AllInit => (part = "panel" => Ap!Init)
    BY DEF AllInit
  <1>2. part = "panel" /\ [AllNext]_all => (part = "panel")'
    BY DEF AllNext, all
  <1>3. part = "panel" /\ [AllNext]_all => [Ap!Next]_(Ap!vars)
    BY DEF AllNext, all, after0, after3, after4, after6, after7, after8, after9, after10, after11,
      Ap!vars, Ap!barVars
  <1> QED
    BY <1>1, <1>2, <1>3, PTL DEF AllSpec, Ap!Spec

LEMMA PanelRests == AllSpec => (part = "panel" \/ [](~ (part = "panel")))
  <1>1. ~ (part = "panel") /\ [AllNext]_all => (~ (part = "panel"))'
    BY DEF AllNext, all
  <1> QED
    BY <1>1, PTL DEF AllSpec

LEMMA UsersMoves == AllSpec => (part = "users" => Uf!Spec)
  <1>1. AllInit => (part = "users" => Uf!Init)
    BY DEF AllInit
  <1>2. part = "users" /\ [AllNext]_all => (part = "users")'
    BY DEF AllNext, all
  <1>3. part = "users" /\ [AllNext]_all => [Uf!Next]_(Uf!vars)
    BY DEF AllNext, all, after0, after3, after4, after6, after7, after8, after9, after10, after11, Uf!vars
  <1> QED
    BY <1>1, <1>2, <1>3, PTL DEF AllSpec, Uf!Spec

LEMMA UsersRests == AllSpec => (part = "users" \/ [](~ (part = "users")))
  <1>1. ~ (part = "users") /\ [AllNext]_all => (~ (part = "users"))'
    BY DEF AllNext, all
  <1> QED
    BY <1>1, PTL DEF AllSpec

LEMMA ReposMoves == AllSpec => (part = "repos" => Rm!Spec)
  <1>1. AllInit => (part = "repos" => Rm!Init)
    BY DEF AllInit
  <1>2. part = "repos" /\ [AllNext]_all => (part = "repos")'
    BY DEF AllNext, all
  <1>3. part = "repos" /\ [AllNext]_all => [Rm!Next]_(Rm!vars)
    BY DEF AllNext, all, after0, after3, after4, after6, after7, after8, after9, after10, after11, Rm!vars
  <1> QED
    BY <1>1, <1>2, <1>3, PTL DEF AllSpec, Rm!Spec

LEMMA ReposRests == AllSpec => (part = "repos" \/ [](~ (part = "repos")))
  <1>1. ~ (part = "repos") /\ [AllNext]_all => (~ (part = "repos"))'
    BY DEF AllNext, all
  <1> QED
    BY <1>1, PTL DEF AllSpec

LEMMA StatsMoves == AllSpec => (part = "stats" => Sc!Spec)
  <1>1. AllInit => (part = "stats" => Sc!Init)
    BY DEF AllInit
  <1>2. part = "stats" /\ [AllNext]_all => (part = "stats")'
    BY DEF AllNext, all
  <1>3. part = "stats" /\ [AllNext]_all => [Sc!Next]_(Sc!vars)
    BY DEF AllNext, all, after0, after3, after4, after6, after7, after8, after9, after10, after11, Sc!vars
  <1> QED
    BY <1>1, <1>2, <1>3, PTL DEF AllSpec, Sc!Spec

LEMMA StatsRests == AllSpec => (part = "stats" \/ [](~ (part = "stats")))
  <1>1. ~ (part = "stats") /\ [AllNext]_all => (~ (part = "stats"))'
    BY DEF AllNext, all
  <1> QED
    BY <1>1, PTL DEF AllSpec

LEMMA ValueMoves == AllSpec => (part = "value" => Rv!Spec)
  <1>1. AllInit => (part = "value" => Rv!Init)
    BY DEF AllInit
  <1>2. part = "value" /\ [AllNext]_all => (part = "value")'
    BY DEF AllNext, all
  <1>3. part = "value" /\ [AllNext]_all => [Rv!Next]_(Rv!vars)
    BY DEF AllNext, all, after0, after3, after4, after6, after7, after8, after9, after10, after11,
      Rv!vars
  <1> QED
    BY <1>1, <1>2, <1>3, PTL DEF AllSpec, Rv!Spec

LEMMA ValueRests == AllSpec => (part = "value" \/ [](~ (part = "value")))
  <1>1. ~ (part = "value") /\ [AllNext]_all => (~ (part = "value"))'
    BY DEF AllNext, all
  <1> QED
    BY <1>1, PTL DEF AllSpec

LEMMA RibbonMoves == AllSpec => (part = "ribbon" => Rb!Spec)
  <1>1. AllInit => (part = "ribbon" => Rb!Init)
    BY DEF AllInit
  <1>2. part = "ribbon" /\ [AllNext]_all => (part = "ribbon")'
    BY DEF AllNext, all
  <1>3. part = "ribbon" /\ [AllNext]_all => [Rb!Next]_(Rb!vars)
    BY DEF AllNext, all, after0, after3, after4, after6, after7, after8, after9, after10, after11,
      Rb!vars
  <1> QED
    BY <1>1, <1>2, <1>3, PTL DEF AllSpec, Rb!Spec

LEMMA RibbonRests == AllSpec => (part = "ribbon" \/ [](~ (part = "ribbon")))
  <1>1. ~ (part = "ribbon") /\ [AllNext]_all => (~ (part = "ribbon"))'
    BY DEF AllNext, all
  <1> QED
    BY <1>1, PTL DEF AllSpec

LEMMA LogsMoves == AllSpec => (part = "logs" => Lv!Spec)
  <1>1. AllInit => (part = "logs" => Lv!Init)
    BY DEF AllInit
  <1>2. part = "logs" /\ [AllNext]_all => (part = "logs")'
    BY DEF AllNext, all
  <1>3. part = "logs" /\ [AllNext]_all => [Lv!Next]_(Lv!vars)
    BY DEF AllNext, all, after0, after3, after4, after6, after7, after8, after9, after10, after11, Lv!vars
  <1> QED
    BY <1>1, <1>2, <1>3, PTL DEF AllSpec, Lv!Spec

LEMMA LogsRests == AllSpec => (part = "logs" \/ [](~ (part = "logs")))
  <1>1. ~ (part = "logs") /\ [AllNext]_all => (~ (part = "logs"))'
    BY DEF AllNext, all
  <1> QED
    BY <1>1, PTL DEF AllSpec

LEMMA MatrixMoves == AllSpec => (part = "matrix" => Ex!Spec)
  <1>1. AllInit => (part = "matrix" => Ex!Init)
    BY DEF AllInit
  <1>2. part = "matrix" /\ [AllNext]_all => (part = "matrix")'
    BY DEF AllNext, all
  <1>3. part = "matrix" /\ [AllNext]_all => [Ex!Next]_(Ex!vars)
    BY DEF AllNext, all, after0, after3, after4, after6, after7, after8, after9, after10, after11,
      Ex!vars
  <1> QED
    BY <1>1, <1>2, <1>3, PTL DEF AllSpec, Ex!Spec

LEMMA MatrixRests == AllSpec => (part = "matrix" \/ [](~ (part = "matrix")))
  <1>1. ~ (part = "matrix") /\ [AllNext]_all => (~ (part = "matrix"))'
    BY DEF AllNext, all
  <1> QED
    BY <1>1, PTL DEF AllSpec

LEMMA RoundsMoves == AllSpec => (part = "rounds" => Cr!Spec)
  <1>1. AllInit => (part = "rounds" => Cr!Init)
    BY DEF AllInit
  <1>2. part = "rounds" /\ [AllNext]_all => (part = "rounds")'
    BY DEF AllNext, all
  <1>3. part = "rounds" /\ [AllNext]_all => [Cr!Next]_(Cr!vars)
    BY DEF AllNext, all, after0, after3, after4, after6, after7, after8, after9, after10, after11,
      Cr!vars, Cr!loop, Cr!ci
  <1> QED
    BY <1>1, <1>2, <1>3, PTL DEF AllSpec, Cr!Spec

LEMMA RoundsRest == AllSpec => (part = "rounds" \/ [](~ (part = "rounds")))
  <1>1. ~ (part = "rounds") /\ [AllNext]_all => (~ (part = "rounds"))'
    BY DEF AllNext, all
  <1> QED
    BY <1>1, PTL DEF AllSpec

-----------------------------------------------------------------------------
(* The coder's rounds around CI builds.  v1 is `pc`, v5 `changeset`, v6    *)
(* `reviews`, v7 `told`, v8 `builds`, v9 `script`, v10 `heard`, v11 `seen` *)
(* and v12 `refused`.                                                      *)

Came == {"succeeded", "partiallySucceeded", "failed", "canceled"}
Build == [done : BOOLEAN, result : Came \cup {"none"}, errors : BOOLEAN]
Changeset == [run : Nat, ci : {"passed", "failed", "not-run"}, published : BOOLEAN,
              tests : BOOLEAN, skip : BOOLEAN]
Watch == [run : Nat, spent : Nat, latest : Came \cup {"none"}, waiter : BOOLEAN, started : BOOLEAN]

\* A build has a result once it is done.
BuildsOK ==
  /\ v8 \in Seq(Build)
  /\ \A b \in 1..Len(v8) : v8[b].done <=> v8[b].result # "none"

\* What an invocation has read stays so.
WatchOK ==
  v9 # << >> =>
    /\ v9 = << v9[1] >> /\ v9[1] \in Watch
    /\ v9[1].run \in 1..Len(v8) /\ v9[1].latest \in {"none", Cr!Status(v9[1].run)}
    /\ v9[1].waiter /\ ~ v9[1].started /\ v9[1].spent < Timeout + Interval

\* What an exit code has told stays so.
HeardOK ==
  /\ \A h \in v10 : h.run \in 1..Len(v8)
  /\ Cr!ExitsTrue

\* The latest report, and what its check came to.
ReportOK ==
  /\ v5 # << >> =>
       /\ v5 = << v5[1] >> /\ v5[1] \in Changeset
       /\ v5[1].run \in 0..Len(v8)
  /\ v1 \in {"verify", "review", "gate", "done"} => v5 # << >>
  /\ v1 \in {"review", "gate", "done"} /\ v5[1].run # 0 /\ v11 =>
       /\ v8[v5[1].run].done
       /\ v5[1].ci = "passed" => ~ v8[v5[1].run].errors
  /\ v1 = "done" => Cr!Approved

\* The verdicts, and what the coder is told of the latest refusal.
ToldOK ==
  /\ v6 \in Seq(Verdicts)
  /\ v1 = "gate" => v6 # << >>
  /\ v1 = "done" => v12 = {}
  /\ v7 = v12 \ {"review"}
  /\ "review" \in v12 /\ v1 # "gate" => Cr!Shown(v6)

RoundsInv == BuildsOK /\ WatchOK /\ HeardOK /\ ReportOK /\ ToldOK

LEMMA RoundsConstants ==
  /\ Timeout \in Nat /\ Interval \in Nat \ {0} /\ BuildResults \subseteq Came
  /\ CodingReports \subseteq [ci : {"passed", "failed", "not-run"}, published : BOOLEAN,
                               tests : BOOLEAN, skip : BOOLEAN, wizard : BOOLEAN]
  /\ \A r \in Verdicts : r.verdict \in {"approve", "revise"}
  BY RoundsAssumption DEF Cr!ParametersOK, Came

\* Whoever watches has the sentinel, and has not started the build.
LEMMA WatchersAllowed ==
  ASSUME NEW flags \in SUBSET Cr!Flags, ~ Cr!Denied(flags)
  PROVE  /\ Cr!Triggers(flags) => "trigger-only" \in flags
         /\ Cr!Attaches(flags) => "waiter" \in flags
  BY DEF Cr!Denied, Cr!CiWaiterGuard, Cr!Triggers, Cr!Attaches

\* What a build that has an error, or has ended, and a watch after a read look like.
LEMMA BuildShape ==
  ASSUME NEW x \in Build, NEW r \in Came
  PROVE  LET err == [x EXCEPT !.errors = TRUE]  end == [x EXCEPT !.done = TRUE, !.result = r] IN
         /\ err \in Build /\ err.done = x.done /\ err.result = x.result
         /\ end \in Build /\ end.done /\ end.result = r /\ end.errors = x.errors
  BY DEF Build

LEMMA WatchShape ==
  ASSUME NEW x \in Watch, NEW r \in Came \cup {"none"}
  PROVE  LET y == [x EXCEPT !.spent = @ + Interval, !.latest = r] IN
         /\ y \in Watch /\ y.run = x.run /\ y.spent = x.spent + Interval /\ y.latest = r
         /\ y.waiter = x.waiter /\ y.started = x.started
  <1>1. x.spent + Interval \in Nat
    BY RoundsConstants DEF Watch
  <1>2. ASSUME NEW n \in Nat PROVE [x EXCEPT !.spent = n, !.latest = r] \in Watch
    BY DEF Watch
  <1> QED
    BY <1>1, <1>2 DEF Watch

LEMMA BuildsDomain ==
  ASSUME BuildsOK
  PROVE  DOMAIN v8 = 1..Len(v8) /\ \A b \in DOMAIN v8 : v8[b] \in Build
  <1> HIDE DEF Build
  <1> QED
    BY DEF BuildsOK

LEMMA RoundsStart == Cr!Init => RoundsInv
  BY RoundsConstants DEF Cr!Init, RoundsInv, BuildsOK, WatchOK, HeardOK, ReportOK, ToldOK,
    Cr!ExitsTrue, Build

LEMMA RoundsStep == ASSUME RoundsInv, [Cr!Next]_(Cr!vars) PROVE RoundsInv'
  <1> USE DEF RoundsInv
  <1>1. ASSUME NEW b \in DOMAIN v8, Cr!BuildErrs(b) \/ Cr!BuildEnds(b)
        PROVE  RoundsInv'
    <2>1. b \in 1..Len(v8) /\ ~ v8[b].done /\ v8[b] \in Build
      BY <1>1, BuildsDomain DEF Cr!BuildErrs, Cr!BuildEnds
    <2>2. PICK new \in Build :
            /\ v8' = [v8 EXCEPT ![b] = new] /\ (new.done <=> new.result # "none")
            /\ UNCHANGED << v9, v10, Cr!loop >>
      <3>1. CASE Cr!BuildErrs(b)
        <4>1. PICK r \in Came : TRUE
          BY DEF Came
        <4>2. v8' = [v8 EXCEPT ![b] = [v8[b] EXCEPT !.errors = TRUE]]
          BY <3>1 DEF Cr!BuildErrs
        <4> QED
          BY <2>1, <3>1, <4>1, <4>2, BuildShape DEF Cr!BuildErrs, BuildsOK
      <3>2. CASE Cr!BuildEnds(b)
        <4>1. PICK r \in BuildResults :
                v8' = [v8 EXCEPT ![b] = [v8[b] EXCEPT !.done = TRUE, !.result = r]]
          BY <3>2 DEF Cr!BuildEnds
        <4>2. r \in Came /\ r # "none"
          BY RoundsConstants DEF Came
        <4> QED
          BY <2>1, <3>2, <4>1, <4>2, BuildShape DEF Cr!BuildEnds
      <3> QED
        BY <1>1, <3>1, <3>2
    <2>3. /\ Len(v8') = Len(v8) /\ v8' \in Seq(Build)
          /\ v8'[b] = new /\ \A a \in 1..Len(v8) : a # b => v8'[a] = v8[a]
      <3> HIDE DEF Build
      <3> QED
        BY <2>1, <2>2 DEF BuildsOK
    <2>4. BuildsOK'
      BY <2>1, <2>2, <2>3 DEF BuildsOK
    <2>5. WatchOK' /\ HeardOK'
      BY <2>1, <2>2, <2>3 DEF WatchOK, HeardOK, Cr!ExitsTrue, Cr!Status, BuildsOK
    <2>6. ReportOK'
      BY <2>1, <2>2, <2>3 DEF ReportOK, Cr!Approved, Cr!EnvValidated, Cr!loop, Changeset
    <2>7. ToldOK'
      BY <2>2 DEF ToldOK, Cr!Shown, Cr!loop
    <2> QED
      BY <2>4, <2>5, <2>6, <2>7
  <1>2. ASSUME NEW flags \in SUBSET Cr!Flags, Cr!Trigger(flags)
        PROVE  RoundsInv'
    <2>1. "trigger-only" \in flags /\ v9' = << >> /\ v9 = << >>
      BY <1>2, WatchersAllowed DEF Cr!Trigger, Cr!Free
    <2>2. Cr!Queued \in Build /\ Cr!Queued.done = FALSE /\ Cr!Queued.result = "none"
      BY DEF Cr!Queued, Build
    <2>3. /\ v8' \in Seq(Build) /\ Len(v8') = Len(v8) + 1
          /\ v8'[Len(v8) + 1] = Cr!Queued
          /\ \A a \in 1..Len(v8) : v8'[a] = v8[a]
      <3> HIDE DEF Build, Cr!Queued
      <3> QED
        BY <1>2, <2>2 DEF Cr!Trigger, BuildsOK
    <2>4. BuildsOK'
      <3> HIDE DEF Build, Cr!Queued
      <3> QED
        BY <2>2, <2>3 DEF BuildsOK
    <2>5. WatchOK' /\ HeardOK'
      BY <1>2, <2>1, <2>3 DEF WatchOK, HeardOK, Cr!ExitsTrue, Cr!Status, BuildsOK, Cr!Trigger
    <2>6. ReportOK'
      BY <1>2, <2>3 DEF ReportOK, Cr!Trigger, Cr!Free, Cr!loop, BuildsOK
    <2>7. ToldOK'
      BY <1>2 DEF ToldOK, Cr!Shown, Cr!loop, Cr!Trigger
    <2> QED
      BY <2>4, <2>5, <2>6, <2>7
  <1>3. ASSUME NEW flags \in SUBSET Cr!Flags, NEW b \in DOMAIN v8, Cr!Attach(flags, b)
        PROVE  RoundsInv'
    <2>1. "waiter" \in flags /\ "attach" \in flags
      BY <1>3, WatchersAllowed DEF Cr!Attach, Cr!Attaches
    <2>2. /\ b \in 1..Len(v8) /\ Cr!Status(b) \in Came \cup {"none"} /\ b \in Nat
      BY <1>3, BuildsDomain DEF Cr!Status, Build, BuildsOK
    <2>3. Cr!Watching(b, Cr!Status(b), flags) =
            << [run |-> b, spent |-> 0, latest |-> Cr!Status(b), waiter |-> TRUE, started |-> FALSE] >>
      BY <2>1 DEF Cr!Watching
    <2>4. [run |-> b, spent |-> 0, latest |-> Cr!Status(b), waiter |-> TRUE, started |-> FALSE] \in Watch
      BY <2>2 DEF Watch
    <2>5. WatchOK'
      BY <1>3, <2>2, <2>3, <2>4, RoundsConstants DEF WatchOK, Cr!Attach, Cr!Status
    <2> QED
      BY <1>3, <2>5 DEF Cr!Attach, Cr!loop, BuildsOK, HeardOK, Cr!ExitsTrue, Cr!Status,
        ReportOK, Cr!Approved, Cr!EnvValidated, ToldOK, Cr!Shown
  <1>4. CASE Cr!PollAgain
    <2>1. WatchOK'
      <3>1. PICK l \in {"none", Cr!Status(v9[1].run)} :
              v9' = << [v9[1] EXCEPT !.spent = @ + Interval, !.latest = l] >>
        BY <1>4 DEF Cr!PollAgain
      <3>2. v9[1] \in Watch /\ v9[1].spent < Timeout /\ v8' = v8
        BY <1>4 DEF Cr!PollAgain, WatchOK
      <3>3. l \in Came \cup {"none"} /\ v9[1].run \in 1..Len(v8)
        BY <1>4, BuildsDomain DEF Cr!Status, Build, BuildsOK, WatchOK, Cr!PollAgain
      <3> DEFINE w == [v9[1] EXCEPT !.spent = @ + Interval, !.latest = l]
      <3>4. /\ w \in Watch /\ w.spent < Timeout + Interval /\ w.run = v9[1].run /\ w.latest = l
            /\ w.waiter = v9[1].waiter /\ w.started = v9[1].started
        <4>1. v9[1].spent \in Nat /\ Timeout \in Nat /\ Interval \in Nat
          BY <3>2, RoundsConstants DEF Watch
        <4>2. w.spent = v9[1].spent + Interval
          BY <3>2, <3>3, WatchShape
        <4>3. w.spent < Timeout + Interval
          BY <3>2, <4>1, <4>2
        <4> QED
          BY <3>2, <3>3, <4>3, WatchShape
      <3>5. v9' = << w >>
        BY <3>1
      <3> HIDE DEF w
      <3> QED
        BY <1>4, <3>2, <3>3, <3>4, <3>5 DEF WatchOK, Cr!PollAgain, Cr!Status
    <2> QED
      BY <1>4, <2>1 DEF Cr!PollAgain, Cr!loop, BuildsOK, HeardOK, Cr!ExitsTrue, Cr!Status,
        ReportOK, Cr!Approved, Cr!EnvValidated, ToldOK, Cr!Shown
  <1>5. CASE Cr!Exit
    <2>1. HeardOK'
      BY <1>5 DEF Cr!Exit, WatchOK, HeardOK, Cr!ExitsTrue, Cr!Status, Cr!ExitCode, BuildsOK
    <2> QED
      BY <1>5, <2>1 DEF Cr!Exit, Cr!loop, BuildsOK, WatchOK, ReportOK, Cr!Approved,
        Cr!EnvValidated, ToldOK, Cr!Shown
  <1>6. ASSUME NEW r \in CodingReports, NEW run \in {0} \cup DOMAIN v8, Cr!Report(r, run)
        PROVE  RoundsInv'
    <2>1. ReportOK'
      BY <1>6, RoundsConstants DEF Cr!Report, ReportOK, Changeset, Cr!ci, BuildsOK
    <2> QED
      BY <1>6, <2>1 DEF Cr!Report, Cr!Free, Cr!ci, BuildsOK, WatchOK, HeardOK, Cr!ExitsTrue,
        Cr!Status, ToldOK, Cr!Shown
  <1>7. CASE Cr!Verify
    <2>1. ReportOK'
      BY <1>7 DEF Cr!Verify, ReportOK, Changeset, Cr!Checked, Cr!ci, BuildsOK, Build
    <2> QED
      BY <1>7, <2>1 DEF Cr!Verify, Cr!ci, BuildsOK, WatchOK, HeardOK, Cr!ExitsTrue, Cr!Status,
        ToldOK, Cr!Shown
  <1>8. ASSUME NEW r \in Verdicts, Cr!Review(r)
        PROVE  RoundsInv'
    <2>1. ReportOK'
      BY <1>8 DEF Cr!Review, ReportOK, Cr!ci
    <2>2. ToldOK'
      BY <1>8 DEF Cr!Review, ToldOK
    <2> QED
      BY <1>8, <2>1, <2>2 DEF Cr!Review, Cr!ci, BuildsOK, WatchOK, HeardOK, Cr!ExitsTrue,
        Cr!Status
  <1>9. CASE Cr!Accept
    <2>1. ReportOK' /\ ToldOK'
      BY <1>9 DEF Cr!Accept, ReportOK, ToldOK, Cr!Approved, Cr!EnvValidated, Cr!ci
    <2> QED
      BY <1>9, <2>1 DEF Cr!Accept, Cr!ci, BuildsOK, WatchOK, HeardOK, Cr!ExitsTrue, Cr!Status
  <1>10. CASE Cr!Refuse
    <2>1. ReportOK'
      BY <1>10 DEF Cr!Refuse, ReportOK, Cr!ci
    <2>2. ToldOK'
      <3>1. v6 # << >> /\ v6[Len(v6)] \in Verdicts /\ "review" \notin Cr!Unmet(v5[1])
        BY <1>10 DEF Cr!Refuse, ToldOK, Cr!Unmet
      <3>2. CASE v6[Len(v6)].verdict = "approve"
        BY <1>10, <3>1, <3>2 DEF Cr!Refuse, ToldOK, Cr!ExplainCodingGate
      <3>3. CASE v6[Len(v6)].verdict # "approve"
        BY <1>10, <3>1, <3>3, RoundsConstants DEF Cr!Refuse, ToldOK, Cr!ExplainCodingGate,
          Cr!Shown
      <3> QED
        BY <3>2, <3>3
    <2> QED
      BY <1>10, <2>1, <2>2 DEF Cr!Refuse, Cr!ci, BuildsOK, WatchOK, HeardOK, Cr!ExitsTrue,
        Cr!Status
  <1>11. CASE Cr!Throw
    BY <1>11 DEF Cr!Throw, BuildsOK, WatchOK, HeardOK, Cr!ExitsTrue, Cr!Status, ReportOK,
      ToldOK, Cr!Shown
  <1>12. ASSUME NEW m, NEW keep \in BOOLEAN, Cr!Enter(m, keep), v1 # "gate"
         PROVE  RoundsInv'
    <2>1. ReportOK'
      BY <1>12 DEF Cr!Enter, ReportOK, Cr!ci
    <2>2. ToldOK'
      <3>1. CASE m # "none" \/ keep
        BY <1>12, <3>1 DEF Cr!Enter, ToldOK, Cr!Shown
      <3>2. CASE ~ (m # "none" \/ keep)
        <4>1. v12' = v12 \ {"review"} /\ v6' = << >> /\ v7' = v7
          BY <1>12, <3>2 DEF Cr!Enter
        <4>2. v1' \in {"coder", "exhausted"}
          BY <1>12, <3>2 DEF Cr!Enter
        <4> QED
          BY <4>1, <4>2 DEF ToldOK
      <3> QED
        BY <3>1, <3>2
    <2> QED
      BY <1>12, <2>1, <2>2 DEF Cr!Enter, Cr!ci, BuildsOK, WatchOK, HeardOK, Cr!ExitsTrue,
        Cr!Status
  <1>13. CASE UNCHANGED Cr!vars
    BY <1>13 DEF Cr!vars, Cr!ci, Cr!loop, BuildsOK, WatchOK, HeardOK, Cr!ExitsTrue, Cr!Status,
      ReportOK, Cr!Approved, Cr!EnvValidated, ToldOK, Cr!Shown
  <1> QED
    BY <1>1, <1>2, <1>3, <1>4, <1>5, <1>6, <1>7, <1>8, <1>9, <1>10, <1>11, <1>12, <1>13
      DEF Cr!Next, Cr!Rerun, Cr!ResumeExhausted, Cr!ResumeThrown

\* What a watcher hears of a build is so, and an accepted round had the review, the build and
\* the validation that the gate asks for.
LEMMA RoundsClaim == AllSpec => [](part = "rounds" => Cr!ExitsTrue /\ Cr!AcceptedClean)
  <1>1. RoundsInv => Cr!ExitsTrue /\ Cr!AcceptedClean
    BY DEF RoundsInv, HeardOK, ReportOK, Cr!AcceptedClean, Cr!Approved
  <1>2. RoundsInv /\ [Cr!Next]_(Cr!vars) => RoundsInv'
    BY RoundsStep
  <1> QED
    BY <1>1, <1>2, RoundsStart, RoundsMoves, RoundsRest, PTL DEF Cr!Spec

\* A refused coder is told what refused its round, and a ci-waiter how to watch on.
LEMMA RoundsTell == AllSpec => [](part = "rounds" => Cr!RefusalTold /\ Cr!WatchGoesOn)
  <1>1. RoundsInv => Cr!WatchGoesOn
    BY DEF RoundsInv, WatchOK, Cr!WatchGoesOn, Cr!ResumeHint, Cr!Denied, Cr!CiWaiterGuard,
      Cr!Attaches, Cr!Flags
  <1>2. RoundsInv => Cr!RefusalTold
    BY DEF RoundsInv, ToldOK, Cr!RefusalTold, Cr!Prompt
  <1>3. RoundsInv /\ [Cr!Next]_(Cr!vars) => RoundsInv'
    BY RoundsStep
  <1> QED
    BY <1>1, <1>2, <1>3, RoundsStart, RoundsMoves, RoundsRest, PTL DEF Cr!Spec

-----------------------------------------------------------------------------
(* Reviews *)

\* One comment queues one review, and the creation and the publications of a pull request one
\* between them, however often and in whatever order the webhooks are delivered and handled.
THEOREM ReviewsQueued ==
  ASSUME Comments \cap {"created", "published"} = {}
  PROVE  AllSpec => []ReviewsQueuedOnce
  <1>1. Re!Spec => []Re!ReviewsQueuedOnce
    BY Re!OneReviewPerTrigger
  <1>2. Re!ReviewsQueuedOnce \/ ~ (part = "review") => ReviewsQueuedOnce
    BY DEF ReviewsQueuedOnce
  <1> QED
    BY <1>1, <1>2, ReviewMoves, ReviewRests, PTL

\* A review action that was not dropped before anything was started (an invalid payload, an
\* unknown repository) is completed only when there is a summary, a row or a notification of
\* it, whatever crashes, is redelivered or refuses; and so is told who works on a round.
THEOREM NobodySilent == AllSpec => []NeverSilent
  <1>1. Re!Spec => []Re!NeverSilent
    BY Re!NobodyLeftWaiting
  <1>2. /\ Re!NeverSilent \/ ~ (part = "review")
        /\ part = "rounds" => Cr!RefusalTold /\ Cr!WatchGoesOn
        => NeverSilent
    BY DEF NeverSilent
  <1> QED
    BY <1>1, <1>2, ReviewMoves, ReviewRests, RoundsTell, PTL

\* A review claims the tree its agents read, or less; and exit codes and accepted rounds claim
\* the build that was read.
THEOREM ClaimsHold == AllSpec => []ClaimsTrue
  <1>1. Re!Spec => []Re!TreeClaimTrue
    BY Re!TreeNeverOverstated
  <1>2. /\ Re!TreeClaimTrue \/ ~ (part = "review")
        /\ part = "rounds" => Cr!ExitsTrue /\ Cr!AcceptedClean
        => ClaimsTrue
    BY DEF ClaimsTrue
  <1> QED
    BY <1>1, <1>2, ReviewMoves, ReviewRests, RoundsClaim, PTL

\* A suggestion goes on the pull request only after it matched a commit as recent as the end
\* of the agent that made it, whatever is pushed meanwhile.
THEOREM SuggestionsMatch == AllSpec => SuggestionsCurrent
  <1>1. Re!Spec => [][Re!FixCurrent]_(Re!vars)
    BY Re!SuggestionsMatchTheirCommit DEF Re!SuggestionsCurrent
  <1>2. [Re!FixCurrent]_(Re!vars) => [part = "review" => Re!FixCurrent]_all
    BY DEF Re!FixCurrent, Re!vars, Re!answers
  <1>3. ~ (part = "review") => [part = "review" => Re!FixCurrent]_all
    OBVIOUS
  <1> QED
    BY <1>1, <1>2, <1>3, ReviewMoves, ReviewRests, PTL DEF SuggestionsCurrent

-----------------------------------------------------------------------------
(* Reflection and accounts *)

\* One proposal of a cycle waits for a decision, whoever saves, decides, fails or is killed.
THEOREM ProposalsPending == AllSpec => []OnePending
  <1>1. Rf!Spec => []Rf!OnePending
    BY Rf!OneProposalWaits
  <1>2. Rf!OnePending \/ ~ (part = "reflection") => OnePending
    BY DEF OnePending
  <1> QED
    BY <1>1, <1>2, ReflectionMoves, ReflectionRests, PTL

\* A dispatch leaves the container another watcher waits for alone, unless one of the two has
\* lost the connection its lock lived on.
THEOREM DispatchesSpare ==
  ASSUME Watchers \cap {Rf!None, Rf!Nobody} = {}
  PROVE  AllSpec => RunUndisturbed
  <1>1. Rf!Spec => [][Rf!DispatchSpares]_(Rf!vars)
    BY Rf!DispatchesSpareEachOther DEF Rf!RunUndisturbed
  <1>2. [Rf!DispatchSpares]_(Rf!vars) => [part = "reflection" => Rf!DispatchSpares]_all
    BY DEF Rf!DispatchSpares, Rf!vars
  <1>3. ~ (part = "reflection") => [part = "reflection" => Rf!DispatchSpares]_all
    OBVIOUS
  <1> QED
    BY <1>1, <1>2, <1>3, ReflectionMoves, ReflectionRests, PTL DEF RunUndisturbed

\* Whatever admins do to each other at the same time, an active one is left and no set of
\* requests waits for one another.
THEOREM AccountsServed ==
  ASSUME UserIds \in Nat \ {0}
  PROVE  AllSpec => []AdminsServed
  <1>1. Ac!Spec => []Ac!LastAdminStays
    BY Ac!LastAdminAlways
  <1>2. Ac!Spec => []Ac!NeverDeadlocked
    BY Ac!RequestsNeverBlock
  <1>3. Ac!LastAdminStays /\ Ac!NeverDeadlocked => AdminsServed
    BY DEF AdminsServed
  <1>4. ~ (part = "accounts") => AdminsServed
    BY DEF AdminsServed
  <1> QED
    BY <1>1, <1>2, <1>3, <1>4, AccountsMoves, AccountsRests, PTL

-----------------------------------------------------------------------------
(* One stage's agent.  v3 is `stream`, v8 is `heard`. *)

Entries == [source : {"none", "background_task", "stream"}, turns : Nat, coarse : Nat]

Streams == [session : BOOLEAN, text : Ar!Texts, limit : BOOLEAN, known : SUBSET SubAgents,
            tasks : SUBSET SubAgents, counted : SUBSET (SubAgents \X (1..Responses)),
            roster : [SubAgents -> Entries]]

StreamTypes == v3 \in Streams /\ v8 \in [SubAgents -> SUBSET (1..Responses)]

\* A sub-agent's entry in the roster adds up the responses heard, each once; the ids counted
\* are those responses.
Tallied(entry, counted, s, ids) ==
  /\ IsFiniteSet(ids) /\ entry.turns = Cardinality(ids)
  /\ ids # {} <=> entry.source = "stream"
  /\ \A id \in 1..Responses : << s, id >> \in counted <=> id \in ids

UsageInv == StreamTypes /\ \A s \in SubAgents : Tallied(v3.roster[s], v3.counted, s, v8[s])

LEMMA SameSize == ASSUME NEW S PROVE Ar!Cardinality(S) = Cardinality(S)
  BY DEF Ar!Cardinality, Cardinality

LEMMA StreamStarts ==
  /\ Ar!NewStream \in Streams /\ Ar!NewStream.counted = {}
  /\ \A s \in SubAgents : Tallied(Ar!NewStream.roster[s], {}, s, {})
  BY FS_EmptySet
  DEF Streams, Entries, Tallied, Ar!NewStream, Ar!NoEntry, Ar!Texts, Ar!None

\* A message that leaves roster and count alone.
LEMMA StreamGoesOn ==
  ASSUME UsageInv, v3' \in Streams, v8' = v8, v3'.counted = v3.counted,
         \A s \in SubAgents : /\ v3'.roster[s].turns = v3.roster[s].turns
                              /\ v3'.roster[s].source = "stream" <=> v3.roster[s].source = "stream"
  PROVE  UsageInv'
  BY DEF UsageInv, StreamTypes, Tallied

LEMMA TurnCounts ==
  ASSUME UsageInv, NEW s \in SubAgents, NEW id \in 1..Responses, NEW named \in BOOLEAN,
         NEW text \in Ar!Texts, Ar!SubAgentTurn(s, id, named, text)
  PROVE  UsageInv'
  <1>1. CASE ~ (named \/ s \in v3.known)
    <2>1. v3' = [v3 EXCEPT !.text = text] /\ v8' = v8
      BY <1>1 DEF Ar!SubAgentTurn
    <2> QED
      BY <2>1, StreamGoesOn DEF UsageInv, StreamTypes, Streams
  <1>2. CASE named \/ s \in v3.known
    <2> DEFINE n == IF Ar!Counts(s, id) THEN v3.roster[s].turns + 1 ELSE v3.roster[s].turns
    <2> HIDE DEF n
    <2> DEFINE entry == [v3.roster[s] EXCEPT !.source = "stream", !.turns = n]
    <2>1. v3 \in Streams /\ v3.roster[s] \in Entries
      BY DEF UsageInv, StreamTypes, Streams
    <2>2. entry \in Entries /\ entry.turns = n /\ entry.source = "stream"
      <3>1. n \in Nat
        BY <2>1 DEF Entries, n
      <3> QED
        BY <2>1, <3>1 DEF Entries
    <2>3. v8' = [v8 EXCEPT ![s] = @ \cup {id}]
      BY <1>2 DEF Ar!SubAgentTurn
    <2>4. v3' = [v3 EXCEPT !.text = text, !.counted = @ \cup {<< s, id >>},
                           !.roster[s].source = "stream", !.roster[s].turns = n]
      BY <1>2 DEF Ar!SubAgentTurn, n
    <2> HIDE DEF entry
    <2>5. /\ v3'.counted = v3.counted \cup {<< s, id >>} /\ v3'.text = text
          /\ v3'.roster = [v3.roster EXCEPT ![s] = entry]
          /\ v3' = [v3 EXCEPT !.text = text, !.counted = v3'.counted, !.roster = v3'.roster]
      BY <2>1, <2>4 DEF Streams, entry
    <2>6. v3'.roster \in [SubAgents -> Entries] /\ v3'.roster[s] = entry
          /\ \A t \in SubAgents \ {s} : v3'.roster[t] = v3.roster[t]
      BY <2>1, <2>2, <2>5 DEF Streams
    <2>7. v3' \in Streams
      <3>1. v3'.counted \in SUBSET (SubAgents \X (1..Responses)) /\ v3'.text \in Ar!Texts
        BY <2>1, <2>5 DEF Streams
      <3> QED
        BY <2>1, <2>5, <2>6, <3>1 DEF Streams
    <2>8. /\ v8' \in [SubAgents -> SUBSET (1..Responses)] /\ v8'[s] = v8[s] \cup {id}
          /\ \A t \in SubAgents \ {s} : v8'[t] = v8[t]
      BY <2>3 DEF UsageInv, StreamTypes
    <2>9. Tallied(entry, v3'.counted, s, v8'[s])
      <3>1. Tallied(v3.roster[s], v3.counted, s, v8[s])
        BY DEF UsageInv
      <3>2. Ar!Counts(s, id) <=> id \notin v8[s]
        BY <3>1 DEF Tallied, Ar!Counts
      <3> DEFINE ids == v8[s]
      <3>3. IsFiniteSet(ids)
        BY <3>1 DEF Tallied
      <3> HIDE DEF ids
      <3>4. /\ IsFiniteSet(ids \cup {id})
            /\ Cardinality(ids \cup {id})
                 = IF id \in ids THEN Cardinality(ids) ELSE Cardinality(ids) + 1
        BY <3>3, FS_AddElement
      <3>5. v8'[s] = ids \cup {id}
        BY <2>8 DEF ids
      <3>6. /\ IsFiniteSet(v8'[s])
            /\ Cardinality(v8'[s])
                 = IF id \in v8[s] THEN Cardinality(v8[s]) ELSE Cardinality(v8[s]) + 1
        BY <3>4, <3>5 DEF ids
      <3>7. entry.turns = Cardinality(v8'[s]) /\ entry.source = "stream"
        BY <2>2, <3>1, <3>2, <3>6 DEF Tallied, n
      <3>8. \A k \in 1..Responses : << s, k >> \in v3'.counted <=> k \in v8'[s]
        BY <2>5, <2>8, <3>1 DEF Tallied
      <3> QED
        BY <2>8, <3>6, <3>7, <3>8 DEF Tallied
    <2>10. ASSUME NEW t \in SubAgents \ {s} PROVE Tallied(v3'.roster[t], v3'.counted, t, v8'[t])
      <3>1. Tallied(v3.roster[t], v3.counted, t, v8[t])
        BY DEF UsageInv
      <3> QED
        BY <2>5, <2>6, <2>8, <3>1 DEF Tallied
    <2>11. \A t \in SubAgents : Tallied(v3'.roster[t], v3'.counted, t, v8'[t])
      BY <2>6, <2>9, <2>10
    <2> QED
      BY <2>7, <2>8, <2>11 DEF UsageInv, StreamTypes
  <1> QED
    BY <1>1, <1>2

LEMMA UsageStep == ASSUME UsageInv, [Ar!Next]_(Ar!vars) PROVE UsageInv'
  <1>1. CASE UNCHANGED << v3, v8 >>
    BY <1>1 DEF UsageInv, StreamTypes, Tallied
  <1>2. CASE Ar!SessionBegins \/ Ar!RateLimitEvent
    <2>1. v8' = v8 /\ (v3' = [v3 EXCEPT !.session = TRUE] \/ v3' = [v3 EXCEPT !.limit = TRUE])
      BY <1>2 DEF Ar!SessionBegins, Ar!RateLimitEvent
    <2> QED
      BY <2>1, StreamGoesOn DEF UsageInv, StreamTypes, Streams
  <1>3. ASSUME NEW s \in SubAgents, Ar!TaskStarted(s) PROVE UsageInv'
    <2>1. /\ v8' = v8
          /\ v3' = [v3 EXCEPT !.tasks = @ \cup {s}, !.known = @ \cup {s},
                              !.roster = [@ EXCEPT ![s] = Ar!Started(s)]]
      BY <1>3 DEF Ar!TaskStarted, UsageInv, StreamTypes, Streams
    <2>2. /\ Ar!Started(s) \in Entries /\ Ar!Started(s).turns = v3.roster[s].turns
          /\ Ar!Started(s).source = "stream" <=> v3.roster[s].source = "stream"
      BY DEF Ar!Started, Ar!NoEntry, Ar!None, UsageInv, StreamTypes, Streams, Entries
    <2> QED
      BY <2>1, <2>2, StreamGoesOn DEF UsageInv, StreamTypes, Streams
  <1>4. ASSUME NEW s \in SubAgents, NEW total \in 1..2, Ar!TaskUsage(s, total) PROVE UsageInv'
    <2> DEFINE entry == [v3.roster[s] EXCEPT !.coarse = total]
    <2>1. v8' = v8 /\ (v3' = v3 \/ v3' = [v3 EXCEPT !.roster = [@ EXCEPT ![s] = entry]])
      <3>1. v3 \in Streams
        BY DEF UsageInv, StreamTypes
      <3>2. v3' = v3 \/ v3' = [v3 EXCEPT !.roster[s].coarse = total]
        BY <1>4 DEF Ar!TaskUsage
      <3> QED
        BY <1>4, <3>1, <3>2 DEF Ar!TaskUsage
    <2>2. /\ entry \in Entries /\ entry.turns = v3.roster[s].turns
          /\ entry.source = v3.roster[s].source
      BY DEF UsageInv, StreamTypes, Streams, Entries
    <2>3. v3' \in Streams /\ v3'.counted = v3.counted /\ \A t \in SubAgents :
            v3'.roster[t].turns = v3.roster[t].turns /\ v3'.roster[t].source = v3.roster[t].source
      <3>1. v3 \in Streams
        BY DEF UsageInv, StreamTypes
      <3> HIDE DEF entry
      <3> QED
        BY <2>1, <2>2, <3>1 DEF Streams
    <2> QED
      BY <2>1, <2>3, StreamGoesOn
  <1>5. ASSUME NEW some \in SUBSET SubAgents, NEW text \in Ar!Texts, Ar!OwnTurn(some, text)
        PROVE  UsageInv'
    <2>1. v8' = v8 /\ v3' = [v3 EXCEPT !.text = text, !.known = @ \cup some]
      BY <1>5 DEF Ar!OwnTurn
    <2> QED
      BY <2>1, StreamGoesOn DEF UsageInv, StreamTypes, Streams
  <1>6. CASE Ar!Retry
    <2>1. v3' = Ar!NewStream /\ v8' = [s \in SubAgents |-> {}]
      BY <1>6 DEF Ar!Retry, Ar!NewAttempt
    <2> QED
      BY <2>1, StreamStarts DEF UsageInv, StreamTypes
  <1>7. CASE Ar!ResultArrives \/ Ar!StreamEnds \/ Ar!Judge \/ Ar!GiveUp
    BY <1>1, <1>7 DEF Ar!ResultArrives, Ar!StreamEnds, Ar!Judge, Ar!GiveUp
  <1> QED
    BY <1>1, <1>2, <1>3, <1>4, <1>5, <1>6, <1>7, TurnCounts DEF Ar!Next, Ar!Stream, Ar!vars

\* A sub-agent's turns are the responses heard from it, each once, whatever order fragments,
\* totals and notifications come in and however often the run is tried again.
THEOREM TurnsCountedOnce == AllSpec => []UsageOnce
  <1>1. Ar!Init => UsageInv
    BY StreamStarts DEF Ar!Init, UsageInv, StreamTypes
  <1>2. UsageInv /\ [Ar!Next]_(Ar!vars) => UsageInv'
    BY UsageStep
  <1>3. ASSUME UsageInv PROVE Ar!UsageOnce
    <2>1. ASSUME NEW s \in SubAgents
          PROVE  /\ v3.roster[s].turns = Cardinality(v8[s])
                 /\ v8[s] # {} <=> v3.roster[s].source = "stream"
      BY <1>3 DEF UsageInv, Tallied
    <2> QED
      BY <2>1, SameSize DEF Ar!UsageOnce
  <1>4. Ar!UsageOnce \/ ~ (part = "agent") => UsageOnce
    BY DEF UsageOnce
  <1> QED
    BY <1>1, <1>2, <1>3, <1>4, AgentMoves, AgentRests, PTL DEF Ar!Spec


-----------------------------------------------------------------------------
(* The files of the repository.  v1 is `own`, v2 `target`, v3 `bak`, v4    *)
(* `run` and v7 `damaged`.                                                 *)

Runs == [pc : {"idle", "backup", "place", "work", "remove"}, puts : [Aw!Parts -> Aw!Kinds],
         todo : SUBSET Aw!Parts, links : SUBSET Aw!Parts, backups : SUBSET Aw!Parts,
         clean : BOOLEAN]

FileTypes ==
  /\ v1 \in SUBSET Aw!Parts
  /\ v2 \in [Aw!Parts -> {"none", "own", "link", "copy"}]
  /\ v3 \in [Aw!Parts -> {"none", "own", "link", "copy"}]
  /\ v4 \in Runs

Original(p) == IF p \in v1 THEN "own" ELSE "none"

\* A part as the repository has it; one whose original is in the backup, with nothing in its
\* place, with a link, or with whatever the agent was given.
Whole(p)  == v2[p] = Original(p) /\ v3[p] = "none"
Bare(p)   == v2[p] = "none" /\ v3[p] = Original(p)
Stale(p)  == v2[p] = "link" /\ v3[p] = Original(p)
Placed(p) == v2[p] \in {"link", "copy"} /\ v3[p] = Original(p)

Given(p)  == v4.puts[p] # "none"

\* A run has a backup of a part exactly if there is an original.
Saved(p) == p \in v4.backups <=> p \in v1

\* The part that is being put in place, and the one that waits to be put back.
Turn(p)  == v4.pc = "place" /\ p = Aw!First(v4.todo)
Waits(p) == v4.pc = "remove" /\ p \in v4.backups \ v4.links

\* Where a part is while runs come and go: the run knows each backup it has to restore, and
\* a link is left behind only by a run that does not claim to be clean.
PartOK(p) ==
  /\ p \in v4.links => Placed(p) /\ Saved(p)
  /\ Turn(p) => Bare(p) /\ Saved(p)
  /\ Waits(p) => p \in v1 /\ (Bare(p) \/ (Stale(p) /\ ~ v4.clean))
  /\ p \notin v4.links /\ ~ Turn(p) /\ ~ Waits(p) =>
       /\ p \notin v4.backups /\ (Whole(p) \/ Stale(p))
       /\ v4.pc \in {"idle", "remove"} /\ v4.clean /\ Given(p) => Whole(p)

\* Where a run is.
RunOK ==
  /\ v4.pc \in {"backup", "place"} => v4.todo # {}
  /\ v4.pc \in {"idle", "work", "remove"} => v4.todo = {}
  /\ v4.pc = "idle" => v4.links = {} /\ v4.backups = {}
  /\ v4.todo \cap v4.links = {}
  /\ v4.pc \in {"backup", "place", "work"} =>
       v4.clean /\ \A p \in Aw!Parts : Given(p) <=> p \in v4.todo \cup v4.links
  /\ v4.links \cup v4.backups \cup v4.todo \subseteq { p \in Aw!Parts : Given(p) }

FilesInv == FileTypes /\ RunOK /\ \A p \in Aw!Parts \ v7 : PartOK(p)

LEMMA FirstOf == ASSUME NEW S \in SUBSET Aw!Parts, S # {} PROVE Aw!First(S) \in S
  BY DEF Aw!First, Aw!Parts

LEMMA NoRunTyped == Aw!NoRun \in Runs
  BY DEF Aw!NoRun, Runs, Aw!Parts, Aw!Kinds

LEMMA FilesBegin == ASSUME FilesInv, Aw!Begin PROVE FilesInv'
  <1>1. /\ v1' = v1 /\ v2' = v2 /\ v3' = v3 /\ v7' = v7 /\ v4.pc = "idle"
        /\ v4.links = {} /\ v4.backups = {}
    BY DEF Aw!Begin, FilesInv, RunOK
  <1>2. PICK puts \in [Aw!Parts -> Aw!Kinds] :
          v4' = [Aw!NoRun EXCEPT !.puts = puts, !.todo = Aw!Staged(puts), !.clean = TRUE,
                    !.pc = IF Aw!Staged(puts) = {} THEN "work" ELSE "backup"]
    BY DEF Aw!Begin
  <1>3. /\ v4' \in Runs /\ v4'.puts = puts /\ v4'.todo = Aw!Staged(puts) /\ v4'.clean
        /\ v4'.links = {} /\ v4'.backups = {}
        /\ v4'.pc = IF Aw!Staged(puts) = {} THEN "work" ELSE "backup"
    BY <1>2 DEF Aw!NoRun, Runs, Aw!Staged
  <1>4. RunOK'
    BY <1>3 DEF RunOK, Aw!Staged, Given
  <1>5. ASSUME NEW p \in Aw!Parts \ v7' PROVE PartOK(p)'
    BY <1>1, <1>3 DEF FilesInv, PartOK, Turn, Waits, Whole, Stale, Original
  <1> QED
    BY <1>1, <1>3, <1>4, <1>5 DEF FilesInv, FileTypes

LEMMA FilesBackup == ASSUME FilesInv, Aw!Backup PROVE FilesInv'
  <1>1. PICK p \in v4.todo : p = Aw!First(v4.todo)
    BY FirstOf DEF Aw!Backup, FilesInv, RunOK, FileTypes, Runs
  <1>2. /\ v4.pc = "backup" /\ p \in Aw!Parts /\ v1' = v1 /\ v7' = v7 /\ v4 \in Runs
        /\ p \notin v4.links
    BY <1>1 DEF Aw!Backup, FilesInv, RunOK, FileTypes, Runs
  <1>3. /\ v4' \in Runs /\ v4'.pc = "place" /\ v4'.todo = v4.todo /\ v4'.links = v4.links
        /\ v4'.puts = v4.puts /\ v4'.clean = v4.clean
        /\ v4'.backups \cup {p} = v4.backups \cup {p}
        /\ p \in v4.backups \/ (v2[p] # "none" /\ ~ (v2[p] = "link" /\ v3[p] = "none"))
             <=> p \in v4'.backups
        /\ v2'[p] = "none" /\ v3'[p] = IF v2[p] \in {"none", "link"} THEN v3[p] ELSE v2[p]
        /\ \A q \in Aw!Parts \ {p} : v2'[q] = v2[q] /\ v3'[q] = v3[q]
        /\ FileTypes'
    <2>1. v2 \in [Aw!Parts -> {"none", "own", "link", "copy"}]
          /\ v3 \in [Aw!Parts -> {"none", "own", "link", "copy"}] /\ v1 \in SUBSET Aw!Parts
      BY DEF FilesInv, FileTypes
    <2>2. CASE v2[p] = "none"
      <3>1. v2' = v2 /\ v3' = v3 /\ v4' = [v4 EXCEPT !.pc = "place"]
        BY <1>1, <2>2 DEF Aw!Backup
      <3> QED
        BY <1>2, <2>1, <2>2, <3>1 DEF Runs, FileTypes
    <2>3. CASE v2[p] = "link"
      <3>1. /\ v2' = [v2 EXCEPT ![p] = "none"] /\ v3' = v3
            /\ v4' = [v4 EXCEPT !.pc = "place",
                               !.backups = IF v3[p] = "none" THEN @ ELSE @ \cup {p}]
        BY <1>1, <2>3 DEF Aw!Backup, Aw!IsLink
      <3> QED
        BY <1>2, <2>1, <2>3, <3>1 DEF Runs, FileTypes
    <2>4. CASE v2[p] \in {"own", "copy"}
      <3>1. /\ v2' = [v2 EXCEPT ![p] = "none"] /\ v3' = [v3 EXCEPT ![p] = v2[p]]
            /\ v4' = [v4 EXCEPT !.pc = "place", !.backups = @ \cup {p}]
        BY <1>1, <2>4 DEF Aw!Backup, Aw!IsLink
      <3> QED
        BY <1>2, <2>1, <2>4, <3>1 DEF Runs, FileTypes
    <2> QED
      BY <1>2, <2>1, <2>2, <2>3, <2>4
  <1>4. RunOK'
    BY <1>1, <1>2, <1>3 DEF FilesInv, RunOK, Given
  <1>5. ASSUME p \notin v7 PROVE PartOK(p)'
    <2>1. PartOK(p) /\ ~ Turn(p) /\ ~ Waits(p)
      BY <1>2, <1>5 DEF FilesInv, Turn, Waits
    <2>2. p \notin v4.backups /\ (Whole(p) \/ Stale(p))
      BY <1>2, <2>1 DEF PartOK
    <2>3. Bare(p)' /\ Saved(p)'
      BY <1>2, <1>3, <2>2 DEF Bare, Saved, Whole, Stale, Original
    <2>4. p \notin v4'.links /\ Turn(p)' /\ ~ Waits(p)'
      BY <1>1, <1>2, <1>3 DEF Turn, Waits
    <2> QED
      BY <2>3, <2>4 DEF PartOK
  <1>6. ASSUME NEW q \in Aw!Parts \ v7, q # p PROVE PartOK(q)'
    <2>1. PartOK(q) /\ ~ Turn(q) /\ ~ Turn(q)' /\ ~ Waits(q) /\ ~ Waits(q)'
      BY <1>1, <1>2, <1>3, <1>6 DEF FilesInv, Turn, Waits
    <2>2. q \in v4'.backups <=> q \in v4.backups
      BY <1>3, <1>6
    <2> QED
      BY <1>2, <1>3, <1>6, <2>1, <2>2 DEF PartOK, Placed, Saved, Whole, Stale, Original
  <1> QED
    BY <1>2, <1>3, <1>4, <1>5, <1>6 DEF FilesInv

LEMMA FilesPlace == ASSUME FilesInv, Aw!Place PROVE FilesInv'
  <1>1. PICK p \in v4.todo : p = Aw!First(v4.todo)
    BY FirstOf DEF Aw!Place, FilesInv, RunOK, FileTypes, Runs
  <1>2. /\ v4.pc = "place" /\ p \in Aw!Parts /\ v1' = v1 /\ v3' = v3 /\ v7' = v7 /\ v4 \in Runs
        /\ p \notin v4.links /\ Given(p)
    BY <1>1 DEF Aw!Place, FilesInv, RunOK, FileTypes, Runs
  <1>3. v2'[p] \in {"link", "copy"} /\ FileTypes' /\ \A q \in Aw!Parts \ {p} : v2'[q] = v2[q]
    <2>1. PICK what \in {v4.puts[p], "copy"} : v2' = [v2 EXCEPT ![p] = what]
      BY <1>1 DEF Aw!Place
    <2>2. what \in {"link", "copy"}
      BY <1>2 DEF Given, Runs, Aw!Kinds
    <2>3. v4' \in Runs
      BY <1>1, <1>2 DEF Aw!Place, Runs
    <2> QED
      BY <1>2, <2>1, <2>2, <2>3 DEF FilesInv, FileTypes
  <1>4. /\ v4'.todo = v4.todo \ {p} /\ v4'.links = v4.links \cup {p} /\ v4'.puts = v4.puts
        /\ v4'.clean = v4.clean /\ v4'.backups = v4.backups
        /\ v4'.pc = IF v4.todo \ {p} = {} THEN "work" ELSE "backup"
    BY <1>1, <1>2 DEF Aw!Place, Runs
  <1>5. RunOK'
    BY <1>2, <1>4 DEF FilesInv, RunOK, Given
  <1>6. ASSUME p \notin v7 PROVE PartOK(p)'
    <2>1. Bare(p) /\ Saved(p)
      BY <1>1, <1>2, <1>6 DEF FilesInv, PartOK, Turn
    <2>2. Placed(p)' /\ Saved(p)' /\ p \in v4'.links /\ ~ Turn(p)' /\ ~ Waits(p)'
      BY <1>2, <1>3, <1>4, <2>1 DEF Bare, Placed, Saved, Original, Turn, Waits
    <2> QED
      BY <2>2 DEF PartOK
  <1>7. ASSUME NEW q \in Aw!Parts \ v7, q # p PROVE PartOK(q)'
    <2>1. PartOK(q) /\ ~ Turn(q) /\ ~ Turn(q)' /\ ~ Waits(q) /\ ~ Waits(q)'
      BY <1>1, <1>2, <1>4, <1>7 DEF FilesInv, Turn, Waits
    <2> QED
      BY <1>2, <1>3, <1>4, <1>7, <2>1 DEF PartOK, Placed, Saved, Whole, Stale, Original
  <1> QED
    BY <1>2, <1>3, <1>5, <1>6, <1>7 DEF FilesInv

LEMMA FilesWork == ASSUME FilesInv, Aw!Work PROVE FilesInv'
  <1>1. /\ v4.pc = "work" /\ v4 \in Runs /\ v4' = [v4 EXCEPT !.pc = "remove"]
        /\ v1' = v1 /\ v2' = v2 /\ v3' = v3 /\ v7' = v7
    BY DEF Aw!Work, FilesInv, FileTypes
  <1>2. /\ v4' \in Runs /\ v4'.pc = "remove" /\ v4'.todo = v4.todo /\ v4'.links = v4.links
        /\ v4'.puts = v4.puts /\ v4'.clean = v4.clean /\ v4'.backups = v4.backups
    BY <1>1 DEF Runs
  <1>3. RunOK'
    BY <1>1, <1>2 DEF FilesInv, RunOK, Given
  <1>4. ASSUME NEW p \in Aw!Parts \ v7' PROVE PartOK(p)'
    <2>1. PartOK(p) /\ ~ Turn(p) /\ ~ Turn(p)' /\ ~ Waits(p) /\ (Given(p) <=> p \in v4.links)
      BY <1>1, <1>2, <1>4 DEF FilesInv, RunOK, Turn, Waits
    <2> QED
      BY <1>1, <1>2, <2>1 DEF PartOK, Placed, Saved, Whole, Stale, Original, Waits, Given
  <1> QED
    BY <1>1, <1>2, <1>3, <1>4 DEF FilesInv, FileTypes

LEMMA FilesRemove == ASSUME FilesInv, Aw!Remove PROVE FilesInv'
  <1>1. PICK p \in v4.links : p = Aw!First(v4.links)
    BY FirstOf DEF Aw!Remove, FilesInv, FileTypes, Runs
  <1>2. /\ v4.pc = "remove" /\ p \in Aw!Parts /\ v1' = v1 /\ v3' = v3 /\ v4 \in Runs
        /\ v7 \subseteq v7' /\ Given(p)
    BY <1>1 DEF Aw!Remove, FilesInv, RunOK, FileTypes, Runs
  <1>3. /\ FileTypes' /\ v4'.pc = "remove" /\ v4'.todo = v4.todo /\ v4'.links = v4.links \ {p}
        /\ v4'.puts = v4.puts /\ v4'.backups = v4.backups
        /\ \A q \in Aw!Parts \ {p} : v2'[q] = v2[q]
        /\ \/ v2'[p] = "none" /\ v4'.clean = v4.clean
           \/ v2'[p] = v2[p] /\ ~ v4'.clean /\ (p \in v7' \/ ~ Aw!Harm(p))
        /\ v4'.clean => v4.clean
    <2>1. CASE v2' = [v2 EXCEPT ![p] = "none"] /\ v4' = [v4 EXCEPT !.links = @ \ {p}]
      BY <1>2, <2>1 DEF FilesInv, FileTypes, Runs
    <2>2. CASE /\ v2' = v2 /\ v4' = [v4 EXCEPT !.links = @ \ {p}, !.clean = FALSE]
               /\ v7' = v7 \cup { q \in {p} : Aw!Harm(q) }
      BY <1>2, <2>2 DEF FilesInv, FileTypes, Runs
    <2> QED
      BY <1>1, <2>1, <2>2 DEF Aw!Remove
  <1>4. RunOK'
    BY <1>2, <1>3 DEF FilesInv, RunOK, Given
  <1>5. ASSUME p \notin v7' PROVE PartOK(p)'
    <2>1. Placed(p) /\ Saved(p)
      BY <1>1, <1>2, <1>5 DEF FilesInv, PartOK
    <2>2. p \notin v4'.links /\ ~ Turn(p)'
      BY <1>3 DEF Turn
    <2>3. CASE v2'[p] = "none"
      BY <1>2, <1>3, <2>1, <2>2, <2>3 DEF PartOK, Placed, Saved, Bare, Whole, Stale, Original, Waits
    <2>4. CASE v2'[p] = v2[p] /\ ~ v4'.clean /\ ~ Aw!Harm(p)
      BY <1>2, <1>3, <2>1, <2>2, <2>4
      DEF PartOK, Placed, Saved, Bare, Whole, Stale, Original, Waits, Aw!Harm
    <2> QED
      BY <1>3, <1>5, <2>3, <2>4
  <1>6. ASSUME NEW q \in Aw!Parts \ v7', q # p PROVE PartOK(q)'
    <2>1. PartOK(q) /\ ~ Turn(q) /\ ~ Turn(q)'
      BY <1>2, <1>3, <1>6 DEF FilesInv, Turn
    <2> QED
      BY <1>2, <1>3, <1>6, <2>1
      DEF PartOK, Placed, Saved, Bare, Whole, Stale, Original, Waits, Given
  <1> QED
    BY <1>2, <1>3, <1>4, <1>5, <1>6 DEF FilesInv

LEMMA FilesRestore == ASSUME FilesInv, Aw!Restore PROVE FilesInv'
  <1>1. PICK p \in v4.backups : p = Aw!First(v4.backups)
    BY FirstOf DEF Aw!Restore, FilesInv, FileTypes, Runs
  <1>2. /\ v4.pc = "remove" /\ p \in Aw!Parts /\ v1' = v1 /\ v7' = v7 /\ v4 \in Runs
        /\ v4.links = {} /\ v4' = [v4 EXCEPT !.backups = @ \ {p}]
    BY <1>1 DEF Aw!Restore, FilesInv, FileTypes, Runs
  <1>3. /\ FileTypes' /\ \A q \in Aw!Parts \ {p} : v2'[q] = v2[q] /\ v3'[q] = v3[q]
        /\ \/ v2'[p] = v3[p] /\ v3'[p] = "none"
           \/ v2'[p] = v2[p] /\ v3'[p] = v3[p] /\ v2[p] # "none"
    <2>1. v4' \in Runs
      BY <1>2 DEF Runs
    <2>2. CASE v2' = [v2 EXCEPT ![p] = v3[p]] /\ v3' = [v3 EXCEPT ![p] = "none"]
      BY <1>2, <2>1, <2>2 DEF FilesInv, FileTypes
    <2>3. CASE v2' = v2 /\ v3' = v3 /\ v2[p] # "none"
      BY <1>2, <2>1, <2>3 DEF FilesInv, FileTypes
    <2> QED
      BY <1>1, <2>2, <2>3 DEF Aw!Restore
  <1>4. /\ v4'.pc = "remove" /\ v4'.todo = v4.todo /\ v4'.links = {} /\ v4'.puts = v4.puts
        /\ v4'.clean = v4.clean /\ v4'.backups = v4.backups \ {p}
    BY <1>2 DEF Runs
  <1>5. RunOK'
    BY <1>2, <1>4 DEF FilesInv, RunOK, Given
  <1>6. ASSUME p \notin v7 PROVE PartOK(p)'
    <2>1. p \in v1 /\ (Bare(p) \/ (Stale(p) /\ ~ v4.clean))
      BY <1>1, <1>2, <1>6 DEF FilesInv, PartOK, Waits
    <2>2. p \notin v4'.links /\ ~ Turn(p)' /\ ~ Waits(p)'
      BY <1>4 DEF Turn, Waits
    <2> QED
      BY <1>2, <1>3, <1>4, <2>1, <2>2 DEF PartOK, Bare, Whole, Stale, Original
  <1>7. ASSUME NEW q \in Aw!Parts \ v7, q # p PROVE PartOK(q)'
    <2>1. PartOK(q) /\ ~ Turn(q) /\ ~ Turn(q)' /\ (q \in v4'.backups <=> q \in v4.backups)
      BY <1>2, <1>4, <1>7 DEF FilesInv, Turn
    <2> QED
      BY <1>2, <1>3, <1>4, <1>7, <2>1
      DEF PartOK, Placed, Saved, Bare, Whole, Stale, Original, Waits, Given
  <1> QED
    BY <1>2, <1>3, <1>5, <1>6, <1>7 DEF FilesInv

LEMMA FilesEnd == ASSUME FilesInv, Aw!End PROVE FilesInv'
  <1>1. /\ v4.pc = "remove" /\ v4.links = {} /\ v4.backups = {} /\ v4 \in Runs
        /\ v1' = v1 /\ v2' = v2 /\ v3' = v3 /\ v7' = v7
        /\ v4' = [Aw!NoRun EXCEPT !.puts = v4.puts, !.clean = v4.clean]
    BY DEF Aw!End, FilesInv, FileTypes
  <1>2. /\ v4' \in Runs /\ v4'.pc = "idle" /\ v4'.todo = {} /\ v4'.links = {} /\ v4'.backups = {}
        /\ v4'.puts = v4.puts /\ v4'.clean = v4.clean
    BY <1>1 DEF Aw!NoRun, Runs
  <1>3. RunOK'
    BY <1>2 DEF RunOK
  <1>4. ASSUME NEW p \in Aw!Parts \ v7' PROVE PartOK(p)'
    <2>1. PartOK(p) /\ ~ Turn(p) /\ ~ Turn(p)' /\ ~ Waits(p) /\ ~ Waits(p)'
      BY <1>1, <1>2, <1>4 DEF FilesInv, Turn, Waits
    <2> QED
      BY <1>1, <1>2, <2>1 DEF PartOK, Whole, Stale, Original, Given
  <1> QED
    BY <1>1, <1>2, <1>3, <1>4 DEF FilesInv, FileTypes

LEMMA FilesCrash == ASSUME FilesInv, Aw!Crash PROVE FilesInv'
  <1>1. /\ v1' = v1 /\ v2' = v2 /\ v3' = v3 /\ v4' = Aw!NoRun /\ v4.pc # "idle"
        /\ v7' = v7 \cup { p \in Aw!Parts : Aw!Harm(p) }
    BY DEF Aw!Crash
  <1>2. v4' \in Runs /\ RunOK'
    BY <1>1, NoRunTyped DEF Aw!NoRun, RunOK
  <1>3. ASSUME NEW p \in Aw!Parts \ v7' PROVE PartOK(p)'
    <2>1. PartOK(p) /\ ~ Aw!Harm(p)
      BY <1>1, <1>3 DEF FilesInv
    <2>2. Whole(p) \/ Stale(p)
      BY <2>1 DEF PartOK, Placed, Bare, Whole, Stale, Original, Aw!Harm
    <2>3. p \notin v4'.links /\ p \notin v4'.backups /\ ~ Turn(p)' /\ ~ Waits(p)' /\ ~ v4'.clean
      BY <1>1 DEF Aw!NoRun, Turn, Waits
    <2> QED
      BY <1>1, <2>2, <2>3 DEF PartOK, Whole, Stale, Original
  <1> QED
    BY <1>1, <1>2, <1>3 DEF FilesInv, FileTypes

\* No run destroys a part of the repository, and one that ends cleanly has put it back, after
\* however many runs that died; but for the parts one of these left damaged.
THEOREM FilesRestored == AllSpec => []WorkspaceRestored
  <1>1. ASSUME Aw!Init PROVE FilesInv
    <2>1. FileTypes /\ v4 = Aw!NoRun
      BY <1>1, NoRunTyped DEF Aw!Init, FileTypes
    <2> QED
      BY <1>1, <2>1 DEF Aw!Init, Aw!NoRun, FilesInv, RunOK, PartOK, Turn, Waits, Whole, Original
  <1>2. ASSUME FilesInv, [Aw!Next]_(Aw!vars) PROVE FilesInv'
    <2>1. CASE UNCHANGED Aw!vars
      BY <1>2, <2>1 DEF Aw!vars, FilesInv, FileTypes, RunOK, PartOK, Turn, Waits, Whole, Bare,
        Stale, Placed, Saved, Original, Given
    <2> QED
      BY <1>2, <2>1, FilesBegin, FilesBackup, FilesPlace, FilesWork, FilesRemove, FilesRestore,
        FilesEnd, FilesCrash DEF Aw!Next
  <1>3. ASSUME FilesInv PROVE Aw!WorkspaceRestored
    <2>1. ASSUME NEW p \in Aw!Parts \ v7
          PROVE  /\ p \in v1 => "own" \in {v2[p], v3[p]}
                 /\ v4.pc = "idle" /\ v4.clean /\ v4.puts[p] # "none" => v2[p] = Original(p)
      <3>1. PartOK(p)
        BY <1>3, <2>1 DEF FilesInv
      <3>2. p \in v1 => "own" \in {v2[p], v3[p]}
        BY <3>1 DEF PartOK, Placed, Bare, Whole, Stale, Original
      <3>3. ASSUME v4.pc = "idle", v4.clean, v4.puts[p] # "none" PROVE Whole(p)
        BY <1>3, <3>1, <3>3 DEF FilesInv, RunOK, PartOK, Turn, Waits, Given
      <3> QED
        BY <3>2, <3>3 DEF Whole
    <2> QED
      BY <2>1 DEF Aw!WorkspaceRestored, Original
  <1>4. Aw!WorkspaceRestored \/ ~ (part = "files") => WorkspaceRestored
    BY DEF WorkspaceRestored
  <1> QED
    BY <1>1, <1>2, <1>3, <1>4, FilesMoves, FilesRests, PTL DEF Aw!Spec


-----------------------------------------------------------------------------
(* The policy of a run.  v1 is `table`, v2 `env`, v4 `saved`, v5 `run`.    *)

Config(r) == DOMAIN r = {"place", "models", "settings"}

RunRecord(r) ==
  /\ DOMAIN r = {"pc", "cmd", "env", "old", "config", "quiet"}
  /\ r.quiet \in BOOLEAN
  /\ r.old # << >> => Config(r.old[1])

\* A run nothing has disturbed has the deployment's environment, its configuration is that of
\* the table now, and the one of a resumed run is where the saved one was.
Policied(r, env, table) ==
  /\ r.pc # "idle" /\ r.quiet => r.env = env
  /\ r.pc \in {"save", "work"} /\ r.quiet =>
       r.config.models = St!Models(env, table) /\ r.config.settings = table
  /\ r.pc \in {"save", "work"} => Config(r.config)
  /\ r.pc \in {"save", "work"} /\ r.old # << >> => r.config.place = r.old[1].place

PolicyInv ==
  /\ v4 # << >> => Config(v4[1])
  /\ v5 = [c \in St!Containers |-> v5[c]]
  /\ \A c \in St!Containers : RunRecord(v5[c]) /\ Policied(v5[c], v2, v1)

LEMMA JobSet ==
  ASSUME PolicyInv, NEW c \in St!Containers, NEW r, RunRecord(r), Policied(r, v2, v1),
         v5' = [v5 EXCEPT ![c] = r], v1' = v1, v2' = v2,
         v4' = v4 \/ (v4' = << v5[c].config >> /\ Config(v5[c].config))
  PROVE  PolicyInv'
  BY DEF PolicyInv

\* An operator's change disturbs every run.
LEMMA JobsDisturbed == ASSUME PolicyInv, St!Disturbed, v4' = v4 PROVE PolicyInv'
  <1>1. ASSUME NEW c \in St!Containers PROVE RunRecord(v5'[c]) /\ Policied(v5'[c], v2', v1')
    <2>1. RunRecord(v5[c]) /\ v5'[c] = [v5[c] EXCEPT !.quiet = FALSE] /\ Policied(v5[c], v2, v1)
      BY DEF PolicyInv, St!Disturbed
    <2> QED
      BY <2>1 DEF RunRecord, Policied
  <1> QED
    BY <1>1 DEF PolicyInv, St!Disturbed

LEMMA PolicyStep == ASSUME PolicyInv, [St!Next]_(St!vars) PROVE PolicyInv'
  <1>1. CASE UNCHANGED St!vars
    BY <1>1 DEF PolicyInv, St!vars
  <1>2. ASSUME NEW k \in St!Keys, St!Put(k) \/ St!Delete(k) PROVE PolicyInv'
    BY <1>2, JobsDisturbed DEF St!Put, St!Delete
  <1>3. CASE St!Deploy
    BY <1>3, JobsDisturbed DEF St!Deploy
  <1>4. ASSUME NEW c \in St!Containers, NEW cmd, St!Start(c, cmd) PROVE PolicyInv'
    <2> DEFINE r == [St!Idle EXCEPT !.pc = "read", !.cmd = cmd, !.env = v2, !.quiet = TRUE,
                       !.old = IF cmd = "continue" THEN v4 ELSE << >>]
    <2>1. v5' = [v5 EXCEPT ![c] = r] /\ v1' = v1 /\ v2' = v2 /\ v4' = v4
      BY <1>4 DEF St!Start, St!Moves
    <2>2. DOMAIN St!Idle = {"pc", "cmd", "env", "old", "config", "quiet"}
      BY DEF St!Idle
    <2>3. (IF cmd = "continue" THEN v4 ELSE << >>) # << >> =>
            Config((IF cmd = "continue" THEN v4 ELSE << >>)[1])
      BY DEF PolicyInv
    <2>4. RunRecord(r) /\ Policied(r, v2, v1)
      BY <2>2, <2>3 DEF RunRecord, Policied
    <2> QED
      BY <2>1, <2>4, JobSet
  <1>5. ASSUME NEW c \in St!Containers, St!ReadSettings(c) PROVE PolicyInv'
    <2>1. PICK ok \in BOOLEAN :
            LET s == IF ok THEN v1 ELSE St!Nothing
                current == St!Built(v5[c].env, s)
            IN  St!Moves(c, [v5[c] EXCEPT !.pc = IF v5[c].cmd = "run" THEN "save" ELSE "work",
                                     !.config = St!Resumed(v5[c].old, current), !.quiet = @ /\ ok])
      BY <1>5 DEF St!ReadSettings
    <2> DEFINE s == IF ok THEN v1 ELSE St!Nothing
               new == St!Resumed(v5[c].old, St!Built(v5[c].env, s))
               pc == IF v5[c].cmd = "run" THEN "save" ELSE "work"
               r == [v5[c] EXCEPT !.pc = pc, !.config = new, !.quiet = @ /\ ok]
    <2>2. v5[c].pc = "read" /\ RunRecord(v5[c]) /\ Policied(v5[c], v2, v1)
      BY <1>5 DEF St!ReadSettings, PolicyInv
    <2>3. /\ Config(new) /\ new.models = St!Models(v5[c].env, s) /\ new.settings = s
          /\ v5[c].old # << >> => new.place = v5[c].old[1].place
      BY <2>2 DEF St!Resumed, St!Built, Config, RunRecord
    <2> HIDE DEF new, pc
    <2>5. RunRecord(r) /\ Policied(r, v2, v1)
      BY <2>2, <2>3 DEF RunRecord, Policied
    <2>6. v5' = [v5 EXCEPT ![c] = r] /\ v1' = v1 /\ v2' = v2 /\ v4' = v4
      BY <1>5, <2>1 DEF St!Moves, St!ReadSettings, new, pc
    <2> QED
      BY <2>5, <2>6, JobSet
  <1>6. ASSUME NEW c \in St!Containers, St!Save(c) PROVE PolicyInv'
    <2> DEFINE r == [v5[c] EXCEPT !.pc = "work"]
    <2>1. /\ v5[c].pc = "save" /\ RunRecord(v5[c]) /\ Policied(v5[c], v2, v1)
          /\ v4' = << v5[c].config >> /\ v5' = [v5 EXCEPT ![c] = r] /\ v1' = v1 /\ v2' = v2
      BY <1>6 DEF St!Save, St!Moves, PolicyInv
    <2>3. RunRecord(r) /\ Policied(r, v2, v1) /\ Config(v5[c].config)
      BY <2>1 DEF RunRecord, Policied
    <2> QED
      BY <2>1, <2>3, JobSet
  <1>7. ASSUME NEW c \in St!Containers, St!End(c) PROVE PolicyInv'
    <2>1. RunRecord(St!Idle) /\ Policied(St!Idle, v2, v1)
      BY DEF RunRecord, Policied, St!Idle
    <2> QED
      BY <1>7, <2>1, JobSet DEF St!End, St!Moves
  <1> QED
    BY <1>1, <1>2, <1>3, <1>4, <1>5, <1>6, <1>7 DEF St!Next

\* Each agent of a run that nothing has disturbed since its container started works with the
\* model and turns the Config tab shows, resumed or not; a resumed run stays where it was.
\* And a run that the matrix scores was one of its cell, with the arm's levers in effect.
THEOREM PolicyAsShown == AllSpec => []RunsAsShown
  <1>1. ASSUME St!Init PROVE PolicyInv
    <2>1. RunRecord(St!Idle) /\ Policied(St!Idle, v2, v1)
      BY DEF RunRecord, Policied, St!Idle
    <2> QED
      BY <1>1, <2>1 DEF St!Init, PolicyInv
  <1>2. PolicyInv /\ [St!Next]_(St!vars) => PolicyInv'
    BY PolicyStep
  <1>3. PolicyInv => St!RunsAsShown
    BY DEF PolicyInv, Policied, St!RunsAsShown, St!Used, St!Reported, St!Built
  <1>4. Ex!Spec => [](Ex!CompliantInEffect /\ Ex!PromptsAgree)
    BY MatrixAssumption, Ex!CountedInEffect, Ex!BlocksConsistent, PTL
  <1>5. /\ St!RunsAsShown \/ ~ (part = "policy")
        /\ (Ex!CompliantInEffect /\ Ex!PromptsAgree) \/ ~ (part = "matrix")
        => RunsAsShown
    BY DEF RunsAsShown
  <1> QED
    BY <1>1, <1>2, <1>3, <1>4, <1>5, PolicyMoves, PolicyRests, MatrixMoves, MatrixRests, PTL
    DEF St!Spec

-----------------------------------------------------------------------------
(* The registry.  v3 is `rows`, v4 `req`. *)

\* A request that has read its row tells that row, and holds it, or tells that there was none.
Informed(q) ==
  q.pc = "commit" => /\ q.key \in Repos
                     /\ q.before # Rg!None => q.lock /\ q.before = v3[q.key]

RequestRecord(q) ==
  /\ DOMAIN q = {"pc", "at", "key", "value", "before", "lock"}
  /\ q.pc = "select" => q.key \in Repos

AuditInv ==
  /\ DOMAIN v3 = Repos /\ v3 = [k \in Repos |-> v3[k]]
  /\ DOMAIN v4 = Callers /\ v4 = [r \in Callers |-> v4[r]]
  /\ \A r \in Callers : RequestRecord(v4[r]) /\ Informed(v4[r])

LEMMA NoRequestInformed == RequestRecord(Rg!NoRequest) /\ Informed(Rg!NoRequest)
  BY DEF Rg!NoRequest, RequestRecord, Informed

\* A request moves on, and the table stays.
LEMMA RequestSet ==
  ASSUME AuditInv, NEW r \in Callers, NEW q, v4' = [v4 EXCEPT ![r] = q], v3' = v3,
         RequestRecord(q), Informed(q)
  PROVE  AuditInv'
  BY DEF AuditInv, RequestRecord, Informed

\* A row is written, and every request is still informed.
LEMMA TableSet ==
  ASSUME AuditInv, NEW r \in Callers, NEW q, NEW k, NEW c, v4' = [v4 EXCEPT ![r] = q],
         v3' = [v3 EXCEPT ![k] = c],
         RequestRecord(v4'[r]) /\ Informed(v4[r])',
         \A s \in Callers \ {r} : RequestRecord(v4'[s]) /\ Informed(v4[s])'
  PROVE  AuditInv'
  BY DEF AuditInv

LEMMA AuditStep == ASSUME AuditInv, [Rg!Next]_(Rg!vars) PROVE AuditInv'
  <1>1. CASE v3' = v3 /\ v4' = v4
    BY <1>1 DEF AuditInv, RequestRecord, Informed
  <1>2. ASSUME NEW r \in Callers, Rg!Admit(r) PROVE AuditInv'
    <2>1. PICK p \in Procs, k \in Repos, v \in Values \cup {Rg!None} :
            v4' = [v4 EXCEPT ![r] = [Rg!NoRequest EXCEPT !.pc = "select", !.at = p, !.key = k,
                                                        !.value = v]]
      BY <1>2 DEF Rg!Admit
    <2> DEFINE q == [Rg!NoRequest EXCEPT !.pc = "select", !.at = p, !.key = k, !.value = v]
    <2>2. RequestRecord(q) /\ Informed(q)
      BY DEF Rg!NoRequest, RequestRecord, Informed
    <2> QED
      BY <1>2, <2>1, <2>2, RequestSet DEF Rg!Admit
  <1>3. ASSUME NEW r \in Callers, Rg!Select(r) PROVE AuditInv'
    <2> DEFINE q == [v4[r] EXCEPT !.pc = "commit", !.before = v3[v4[r].key], !.lock = Rg!Holds(r)]
    <2>1. /\ v3' = v3 /\ v4[r].pc = "select" /\ RequestRecord(v4[r])
          /\ v4' = [v4 EXCEPT ![r] = Rg!NoRequest] \/ v4' = [v4 EXCEPT ![r] = q]
      BY <1>3 DEF Rg!Select, AuditInv, RequestRecord
    <2>2. RequestRecord(q) /\ Informed(q)
      BY <2>1 DEF RequestRecord, Informed, Rg!Holds
    <2> QED
      BY <2>1, <2>2, RequestSet, NoRequestInformed
  <1>4. ASSUME NEW r \in Callers, Rg!Commit(r) PROVE AuditInv'
    <2> DEFINE q == [v4[r] EXCEPT !.pc = "refresh", !.lock = FALSE]
    <2>1. /\ v4[r].pc = "commit" /\ RequestRecord(v4[r]) /\ Informed(v4[r])
          /\ v4' = [v4 EXCEPT ![r] = q] /\ v3' = [v3 EXCEPT ![v4[r].key] = v4[r].value]
      BY <1>4 DEF Rg!Commit, AuditInv, RequestRecord
    <2>2. RequestRecord(q) /\ q.pc = "refresh"
      BY <2>1 DEF RequestRecord
    <2> HIDE DEF q
    <2>3. RequestRecord(v4'[r]) /\ Informed(v4[r])'
      BY <2>1, <2>2 DEF AuditInv, Informed
    <2>4. ASSUME NEW s \in Callers \ {r} PROVE RequestRecord(v4'[s]) /\ Informed(v4[s])'
      <3>1. v4'[s] = v4[s] /\ RequestRecord(v4[s]) /\ Informed(v4[s])
        BY <2>1 DEF AuditInv
      <3>2. v4[s].pc = "commit" /\ v4[s].lock => v3'[v4[s].key] = v3[v4[s].key]
        BY <1>4, <2>1, <3>1 DEF Rg!Commit, Rg!Free, AuditInv, Informed
      <3> QED
        BY <3>1, <3>2 DEF Informed
    <2> QED
      BY <2>1, <2>3, <2>4, TableSet
  <1>5. ASSUME NEW r \in Callers, Rg!RollBack(r) \/ Rg!Refresh(r) PROVE AuditInv'
    <2>1. v4' = [v4 EXCEPT ![r] = Rg!NoRequest] /\ v3' = v3
      BY <1>5 DEF Rg!RollBack, Rg!Refresh
    <2> QED
      BY <2>1, RequestSet, NoRequestInformed
  <1>6. ASSUME NEW p \in Procs, Rg!SeedInsert(p) PROVE AuditInv'
    <2>1. PICK k \in v5[p].todo :
            /\ \A r \in Callers : ~ (v4[r].lock /\ v4[r].key = k)
            /\ v3' = [v3 EXCEPT ![k] = "manifest"]
      BY <1>6 DEF Rg!SeedInsert
    <2>2. ASSUME NEW r \in Callers PROVE RequestRecord(v4'[r]) /\ Informed(v4[r])'
      <3>1. v4' = v4 /\ RequestRecord(v4[r]) /\ Informed(v4[r])
        BY <1>6 DEF Rg!SeedInsert, AuditInv
      <3>2. v4[r].pc = "commit" /\ v4[r].lock => v3'[v4[r].key] = v3[v4[r].key]
        BY <2>1, <3>1 DEF AuditInv, Informed
      <3> QED
        BY <3>1, <3>2 DEF Informed
    <2> QED
      BY <1>6, <2>1, <2>2 DEF Rg!SeedInsert, AuditInv
  <1>7. ASSUME NEW p \in Procs, Rg!Stop(p) PROVE AuditInv'
    <2>1. v3' = v3 /\ v4' = [r \in Callers |-> IF v4[r].at = p THEN Rg!NoRequest ELSE v4[r]]
      BY <1>7 DEF Rg!Stop
    <2> QED
      BY <2>1, NoRequestInformed DEF AuditInv, Informed, RequestRecord
  <1>8. ASSUME NEW p \in Procs,
               \/ Rg!Start(p) \/ Rg!SeedBegin(p) \/ Rg!List(p) \/ Rg!Hydrate(p) \/ Rg!Apply(p)
               \/ Rg!Expire(p) \/ Rg!Unreachable(p) \/ Rg!SeedFails(p) \/ Rg!ListFails(p)
               \/ Rg!ReadFails(p)
        PROVE  v3' = v3 /\ v4' = v4
    BY <1>8 DEF Rg!Start, Rg!SeedBegin, Rg!List, Rg!Hydrate, Rg!Apply, Rg!Expire,
      Rg!Unreachable, Rg!SeedFails, Rg!ListFails, Rg!ReadFails
  <1> QED
    BY <1>1, <1>2, <1>3, <1>4, <1>5, <1>6, <1>7, <1>8
    DEF Rg!Next, Rg!Edits, Rg!Steps, Rg!vars

\* The entry a commit leaves in the audit tells the configuration it replaced, or that it saw
\* none, whatever requests, seeds, restarts and failures came between its read and itself.
THEOREM AuditsTellBefore == AllSpec => AuditTellsBefore
  <1>1. Rg!Init => AuditInv
    BY NoRequestInformed DEF Rg!Init, Rg!Empty, AuditInv
  <1>2. AuditInv /\ [Rg!Next]_(Rg!vars) => AuditInv'
    BY AuditStep
  <1>3. AuditInv => Rg!EntryTellsBefore
    BY DEF AuditInv, Informed, Rg!EntryTellsBefore
  <1>4. Rg!EntryTellsBefore => [part = "registry" => Rg!EntryTellsBefore]_all
    OBVIOUS
  <1>5. ~ (part = "registry") => [part = "registry" => Rg!EntryTellsBefore]_all
    OBVIOUS
  <1> QED
    BY <1>1, <1>2, <1>3, <1>4, <1>5, RegistryMoves, RegistryRests, PTL
    DEF AuditTellsBefore, Rg!Spec

-----------------------------------------------------------------------------
(* The card of a proposal.  v2 is `list`, v5 `armed`, v6 `selected`, v8     *)
(* `post` and v11 `meant`.                                                  *)

\* An armed button was armed on the proposal that is shown, unless a load mixed in.
CardInv == v5 # Rc!None => v11 \in {0, Rc!Shown}

LEMMA CardStep == ASSUME CardInv, [Rc!Next]_(Rc!vars) PROVE CardInv' /\ Rc!ClickMeant
  <1>1. CASE v2' = v2 /\ v5' = v5 /\ v6' = v6 /\ v11' = v11 /\ (v8' = v8 \/ v8.pc = "sent")
    BY <1>1 DEF CardInv, Rc!Shown, Rc!ClickMeant
  <1>2. CASE v5' = Rc!None /\ v8' = v8
    BY <1>2 DEF CardInv, Rc!ClickMeant
  <1>3. ASSUME NEW d \in Rc!Decisions, Rc!Click(d) PROVE CardInv' /\ Rc!ClickMeant
    <2>1. d # Rc!None /\ v2' = v2 /\ v6' = v6 /\ Rc!Shown' = Rc!Shown
      BY <1>3 DEF Rc!Click, Rc!Decisions, Rc!None, Rc!Shown
    <2>2. CASE Rc!Button(d) = "plain" /\ v5' = d /\ v11' = Rc!Shown /\ v8' = v8
      BY <2>1, <2>2 DEF CardInv, Rc!ClickMeant
    <2>3. CASE Rc!Button(d) = "armed" /\ v5' = Rc!None /\ v8'.id = Rc!Shown
      <3>1. v5 = d
        BY <2>3 DEF Rc!Button
      <3> QED
        BY <2>1, <2>3, <3>1 DEF CardInv, Rc!ClickMeant
    <2>4. CASE v5' = Rc!None /\ v8' = v8
      BY <2>4, <1>2
    <2> QED
      BY <1>3, <2>2, <2>3, <2>4 DEF Rc!Click
  <1>4. ASSUME NEW l, Rc!Loaded(l) PROVE CardInv' /\ Rc!ClickMeant
    BY <1>4 DEF Rc!Loaded, CardInv, Rc!ClickMeant
  <1>5. Rc!Propose \/ Rc!Dismiss \/ Rc!Decide => 
          v2' = v2 /\ v5' = v5 /\ v6' = v6 /\ v11' = v11 /\ (v8' = v8 \/ v8.pc = "sent")
    BY DEF Rc!Propose, Rc!Dismiss, Rc!Decide, Rc!card
  <1>6. ASSUME NEW i, Rc!Elsewhere(i)
        PROVE  v2' = v2 /\ v5' = v5 /\ v6' = v6 /\ v11' = v11 /\ v8' = v8
    BY <1>6 DEF Rc!Elsewhere, Rc!card
  <1>7. ASSUME NEW l, Rc!Query(l)
        PROVE  v2' = v2 /\ v5' = v5 /\ v6' = v6 /\ v11' = v11 /\ v8' = v8
    BY <1>7 DEF Rc!Query
  <1>8. ASSUME NEW i, Rc!Select(i) PROVE v5' = Rc!None /\ v8' = v8
    BY <1>8 DEF Rc!Select
  <1>9. Rc!Mount => v5' = Rc!None /\ v8' = v8
    BY DEF Rc!Mount, Rc!LoadStarts
  <1>10. ASSUME Rc!Decided PROVE CardInv' /\ Rc!ClickMeant
    <2>1. v8'.pc = "idle"
      BY <1>10 DEF Rc!Decided, Rc!NoPost
    <2>2. v5' = Rc!None \/ (v2' = v2 /\ v5' = v5)
      BY <1>10 DEF Rc!Decided, Rc!LoadStarts
    <2>3. v6' = v6 /\ v11' = v11
      BY <1>10 DEF Rc!Decided
    <2> QED
      BY <2>1, <2>2, <2>3 DEF CardInv, Rc!ClickMeant, Rc!Shown
  <1>11. UNCHANGED Rc!vars => v2' = v2 /\ v5' = v5 /\ v6' = v6 /\ v11' = v11 /\ v8' = v8
    BY DEF Rc!vars
  <1> QED
    BY <1>1, <1>2, <1>3, <1>4, <1>5, <1>6, <1>7, <1>8, <1>9, <1>10, <1>11 DEF Rc!Next

\* The decision a click sends is for the proposal on which the button was armed, whatever
\* other admins, loads and failures do between the two clicks, unless a load that was on its
\* way before the first click answered after it.
LEMMA DecisionsMeant == AllSpec => [][part = "card" => Rc!ClickMeant]_all
  <1>1. Rc!Init => CardInv
    BY DEF Rc!Init, CardInv
  <1>2. CardInv /\ [Rc!Next]_(Rc!vars) => CardInv'
    BY CardStep
  <1>3. CardInv /\ [Rc!Next]_(Rc!vars) => Rc!ClickMeant
    BY CardStep
  <1>4. Rc!ClickMeant => [part = "card" => Rc!ClickMeant]_all
    OBVIOUS
  <1>5. ~ (part = "card") => [part = "card" => Rc!ClickMeant]_all
    OBVIOUS
  <1> QED
    BY <1>1, <1>2, <1>3, <1>4, <1>5, CardMoves, CardRests, PTL DEF Rc!Spec

-----------------------------------------------------------------------------
(* The users screen.  v4 is `panel`, v5 `password`, v7 `posts`. *)

\* The field of an open reset holds what was typed for its row, and so does every request.
UsersInv ==
  /\ v4.kind = "passwordReset" /\ v5 # "empty" => v5 = v4.user
  /\ \A p \in v7 : /\ DOMAIN p = {"n", "kind", "user", "value", "note", "state"}
                   /\ p.kind = "password" => p.note = p.user

LEMMA UsersStep == ASSUME UsersInv, [Uf!Next]_(Uf!vars) PROVE UsersInv'
  <1>1. CASE UNCHANGED << v4, v5 >> /\ v7' \subseteq v7
    BY <1>1 DEF UsersInv
  <1>2. CASE (v4'.kind # "passwordReset" \/ v5' = "empty") /\ v7' \subseteq v7
    BY <1>2 DEF UsersInv
  <1>3. ASSUME NEW kind, NEW u, NEW value, NEW typed, Uf!Post(kind, u, value, typed),
               UNCHANGED << v4, v5 >>, kind = "password" => typed = u
        PROVE  UsersInv'
    BY <1>3 DEF Uf!Post, UsersInv
  <1>4. ASSUME NEW p \in v7, NEW state, v7' = (v7 \ {p}) \cup {[p EXCEPT !.state = state]},
               UNCHANGED << v4, v5 >> \/ v4'.kind # "passwordReset"
        PROVE  UsersInv'
    BY <1>4 DEF UsersInv
  <1>5. ASSUME NEW u, Uf!ToggleRole(u) \/ Uf!ToggleDisabled(u) PROVE UsersInv'
    BY <1>3, <1>5 DEF Uf!ToggleRole, Uf!ToggleDisabled
  <1>6. ASSUME NEW u, Uf!OpenPasswordReset(u) PROVE UsersInv'
    BY <1>2, <1>6 DEF Uf!OpenPasswordReset
  <1>7. ASSUME NEW u, Uf!Other(u) PROVE UsersInv'
    BY <1>1, <1>7 DEF Uf!Other
  <1>8. ASSUME Uf!OpenCreateForm \/ Uf!CloseCreateForm \/ Uf!CancelPasswordReset PROVE UsersInv'
    BY <1>2, <1>8 DEF Uf!OpenCreateForm, Uf!CloseCreateForm, Uf!CancelPasswordReset, Uf!Closed
  <1>9. ASSUME NEW u, NEW role, Uf!SubmitCreate(u, role) PROVE UsersInv'
    BY <1>3, <1>9 DEF Uf!SubmitCreate
  <1>10. ASSUME Uf!TypePassword PROVE UsersInv'
    BY <1>10 DEF Uf!TypePassword, UsersInv
  <1>11. ASSUME Uf!SubmitPasswordReset PROVE UsersInv'
    <2>1. v5 = v4.user
      BY <1>11 DEF Uf!SubmitPasswordReset, Uf!ResetShown, UsersInv
    <2> QED
      BY <1>3, <1>11, <2>1 DEF Uf!SubmitPasswordReset
  <1>12. ASSUME NEW p \in v7, Uf!Serve(p) PROVE UsersInv'
    BY <1>4, <1>12 DEF Uf!Serve
  <1>13. ASSUME NEW p \in v7, Uf!ReturnRow(p) PROVE UsersInv'
    BY <1>1, <1>4, <1>13 DEF Uf!ReturnRow, Uf!Reload
  <1>14. ASSUME NEW p \in v7, Uf!ReturnPassword(p) PROVE UsersInv'
    BY <1>1, <1>2, <1>14 DEF Uf!ReturnPassword
  <1>15. ASSUME NEW p \in v7, Uf!ReturnCreate(p) PROVE UsersInv'
    BY <1>1, <1>4, <1>15 DEF Uf!ReturnCreate, Uf!Reload, Uf!Closed
  <1>16. ASSUME NEW l \in v3, Uf!ServeList(l) \/ Uf!ReturnList(l) PROVE UsersInv'
    BY <1>1, <1>16 DEF Uf!ServeList, Uf!ReturnList
  <1>17. CASE UNCHANGED Uf!vars
    BY <1>1, <1>17 DEF Uf!vars
  <1> QED
    BY <1>5, <1>6, <1>7, <1>8, <1>9, <1>10, <1>11, <1>12, <1>13, <1>14, <1>15, <1>16, <1>17
    DEF Uf!Next

\* A password is set for the person it was typed for.
LEMMA PasswordsMeant == AllSpec => [](part = "users" => Uf!PasswordMeant)
  <1>1. Uf!Init => UsersInv
    BY DEF Uf!Init, UsersInv, Uf!Closed
  <1>2. UsersInv /\ [Uf!Next]_(Uf!vars) => UsersInv'
    BY UsersStep
  <1>3. UsersInv => Uf!PasswordMeant
    BY DEF UsersInv, Uf!PasswordMeant
  <1> QED
    BY <1>1, <1>2, <1>3, UsersMoves, UsersRests, PTL DEF Uf!Spec

\* On a list that is up to date the screen blocks what the server would refuse.
LEMMA GuardsMirrored == Uf!GuardsAgree
  BY DEF Uf!GuardsAgree, Uf!IsActive, Uf!GetRoleGuardReason, Uf!GetDisableGuardReason,
    Uf!PutUserRoleRefused, Uf!PutUserDisabledRefused, Uf!CountActiveAdmins, Uf!ActiveAdmins

-----------------------------------------------------------------------------
(* The repositories screen.  v1 is `rows`, v2 `list`, v3 `loads`, v5       *)
(* `form`, v6 `shown`, v7 `edited` and v8 `posts`.                         *)

Registered == Rm!Config \cup {Rm!Gone}

Fields == {"autoReview", "testCases", "url", "env"}

Forms == [autoReview : BOOLEAN, testCases : BOOLEAN, url : {"a", "b", ""},
          env : {"", "given", "broken"}]

Built == [autoReview : {"yes", "no"}, testCases : {"yes", "no"}, url : {"a", "b", ""},
          env : {"absent", "given"}]

\* The fields of a form that nobody changed say what the configuration it was opened on says.
Untouched(f, c, e) == c # Rm!Gone => \A x \in Fields \ e : f[x] = Rm!RepoConfigToFormState(c)[x]

\* A configuration to be saved means, in the fields left alone, what the one shown meant.
Kept(new, c, e) == c # Rm!Gone => \A x \in Fields \ e : Rm!Effect(new)[x] = Rm!Effect(c)[x]

Request(p) ==
  /\ DOMAIN p = {"n", "kind", "key", "config", "shown", "edited", "state"}
  /\ p.shown \in Registered
  /\ \/ p.kind = "put" /\ p.config \in Built /\ Kept(p.config, p.shown, p.edited)
     \/ p.kind = "delete" /\ p.config = Rm!Gone

ReposInv ==
  /\ v1 \in [Repos -> Registered]
  /\ v2.rows \in [Repos -> Registered] /\ DOMAIN v2 = {"status", "rows"}
  /\ \A l \in v3 : DOMAIN l = {"n", "status", "rows"} /\ l.rows \in [Repos -> Registered]
  /\ v5 \in Forms /\ v6 \in Registered /\ Untouched(v5, v6, v7)
  /\ \A p \in v8 : Request(p)

\* What a stored configuration becomes in a form, and a form in a configuration.
LEMMA FormTyped ==
  /\ Rm!EmptyFormState \in Forms
  /\ \A c \in Rm!Config : Rm!RepoConfigToFormState(c) \in Forms
  /\ \A f \in Forms : Rm!Buildable(f) => Rm!BuildRepoConfigFromForm(f) \in Built
  BY DEF Forms, Built, Rm!EmptyFormState, Rm!RepoConfigToFormState, Rm!Buildable,
    Rm!BuildRepoConfigFromForm, Rm!YesNo, Rm!Config, Rm!Flag

\* Both ways and back, no field changes what it means, though a form has no "absent".
LEMMA FormFaithful ==
  ASSUME NEW c \in Rm!Config, NEW f \in Forms, Rm!Buildable(f), NEW x \in Fields,
         f[x] = Rm!RepoConfigToFormState(c)[x]
  PROVE  Rm!Effect(Rm!BuildRepoConfigFromForm(f))[x] = Rm!Effect(c)[x]
  <1> DEFINE old == Rm!RepoConfigToFormState(c)
             new == Rm!BuildRepoConfigFromForm(f)
  <1>1. /\ c.autoReview \in Rm!Flag /\ c.testCases \in Rm!Flag /\ c.env \in {"absent", "given"}
        /\ f.autoReview \in BOOLEAN /\ f.testCases \in BOOLEAN /\ f.env \in {"", "given"}
    BY DEF Forms, Rm!Config, Rm!Buildable
  <1>2. /\ old.autoReview = (c.autoReview # "no") /\ old.testCases = (c.testCases = "yes")
        /\ old.url = c.url /\ old.env = IF c.env = "given" THEN "given" ELSE ""
    BY DEF Rm!RepoConfigToFormState
  <1>3. /\ new.autoReview = Rm!YesNo(f.autoReview) /\ new.testCases = Rm!YesNo(f.testCases)
        /\ new.url = f.url /\ new.env = IF f.env = "" THEN "absent" ELSE f.env
    BY DEF Rm!BuildRepoConfigFromForm
  <1> HIDE DEF old, new
  <1>4. CASE x = "autoReview"
    BY <1>1, <1>2, <1>3, <1>4 DEF old, new, Rm!Effect, Rm!YesNo
  <1>5. CASE x = "testCases"
    BY <1>1, <1>2, <1>3, <1>5 DEF old, new, Rm!Effect, Rm!YesNo
  <1>6. CASE x = "url"
    BY <1>2, <1>3, <1>6 DEF old, new, Rm!Effect
  <1>7. CASE x = "env"
    BY <1>1, <1>2, <1>3, <1>7 DEF old, new, Rm!Effect
  <1> QED
    BY <1>4, <1>5, <1>6, <1>7 DEF Fields, new

LEMMA ReposPost ==
  ASSUME ReposInv, NEW kind, NEW k, NEW new, Rm!Post(kind, k, new),
         \/ kind = "put" /\ new \in Built /\ Kept(new, v6, v7)
         \/ kind = "delete" /\ new = Rm!Gone
  PROVE  \A p \in v8' : Request(p)
  BY DEF ReposInv, Rm!Post, Request

LEMMA ReposLoad ==
  ASSUME ReposInv, NEW from, Rm!LoadRepos(from)
  PROVE  /\ v2'.rows \in [Repos -> Registered] /\ DOMAIN v2' = {"status", "rows"}
         /\ \A l \in v3' : DOMAIN l = {"n", "status", "rows"} /\ l.rows \in [Repos -> Registered]
  BY DEF ReposInv, Rm!LoadRepos

LEMMA ReposStep == ASSUME ReposInv, [Rm!Next]_(Rm!vars) PROVE ReposInv'
  <1> DEFINE Tables == /\ v1 \in [Repos -> Registered]
                       /\ v2.rows \in [Repos -> Registered] /\ DOMAIN v2 = {"status", "rows"}
                       /\ \A l \in v3 : /\ DOMAIN l = {"n", "status", "rows"}
                                        /\ l.rows \in [Repos -> Registered]
             Sent == \A p \in v8 : Request(p)
             Filled == v5 \in Forms /\ v6 \in Registered /\ Untouched(v5, v6, v7)
  <1>a. ReposInv => Tables /\ Sent /\ Filled
    BY DEF ReposInv
  <1>b. Tables' /\ Sent' /\ Filled' => ReposInv'
    BY DEF ReposInv
  <1>c. UNCHANGED << v1, v2, v3 >> => Tables'
    BY <1>a
  <1>d. UNCHANGED << v5, v6, v7 >> => Filled'
    BY <1>a DEF Untouched
  <1>e. v8' \subseteq v8 => Sent'
    BY <1>a
  <1>f. Rm!ClosePanel => Filled'
    BY FormTyped DEF Rm!ClosePanel, Untouched, Registered
  <1>g. ASSUME NEW p \in v8, NEW state, v8' = (v8 \ {p}) \cup {[p EXCEPT !.state = state]}
        PROVE  Sent'
    BY <1>a, <1>g DEF Request
  <1>h. ASSUME NEW from, Rm!LoadRepos(from), v1' = v1 PROVE Tables'
    BY <1>h, ReposLoad DEF ReposInv
  <1> HIDE DEF Tables, Sent, Filled
  <1>1. ASSUME Rm!Remount PROVE ReposInv'
    BY <1>1, <1>b, <1>d, <1>e, <1>h DEF Rm!Remount
  <1>2. ASSUME Rm!OpenCreate PROVE ReposInv'
    <2>1. Filled'
      BY <1>2, FormTyped DEF Rm!OpenCreate, Filled, Untouched, Registered
    <2> QED
      BY <1>2, <2>1, <1>b, <1>c, <1>e DEF Rm!OpenCreate
  <1>3. ASSUME NEW k \in Repos, Rm!OpenEdit(k) PROVE ReposInv'
    <2>1. v2.rows[k] \in Rm!Config
      BY <1>3 DEF Rm!OpenEdit, Rm!Listed, ReposInv, Registered
    <2>2. Filled'
      BY <1>3, <2>1, FormTyped DEF Rm!OpenEdit, Filled, Untouched, Registered
    <2> QED
      BY <1>3, <2>2, <1>b, <1>c, <1>e DEF Rm!OpenEdit
  <1>4. ASSUME NEW k \in Repos, Rm!RequestDelete(k) PROVE ReposInv'
    BY <1>4, <1>b, <1>c, <1>d, <1>e DEF Rm!RequestDelete
  <1>5. ASSUME Rm!Close PROVE ReposInv'
    BY <1>5, <1>b, <1>c, <1>f, <1>e DEF Rm!Close
  <1>6. ASSUME NEW x \in DOMAIN Rm!EmptyFormState, Rm!EditField(x) PROVE ReposInv'
    <2>1. PICK v \in Rm!Inputs[x] : v5' = [v5 EXCEPT ![x] = v]
      BY <1>6 DEF Rm!EditField
    <2>2. v7' = v7 \cup {x} /\ v6' = v6
      BY <1>6 DEF Rm!EditField
    <2>3. v5' \in Forms
      <3>1. x \in Fields /\ v5 \in Forms
        BY <1>a DEF Filled, Fields, Rm!EmptyFormState
      <3>2. CASE x = "autoReview"
        BY <2>1, <3>1, <3>2 DEF Forms, Rm!Inputs
      <3>3. CASE x = "testCases"
        BY <2>1, <3>1, <3>3 DEF Forms, Rm!Inputs
      <3>4. CASE x = "url"
        BY <2>1, <3>1, <3>4 DEF Forms, Rm!Inputs
      <3>5. CASE x = "env"
        BY <2>1, <3>1, <3>5 DEF Forms, Rm!Inputs
      <3> QED
        BY <3>1, <3>2, <3>3, <3>4, <3>5 DEF Fields
    <2>4. Untouched(v5, v6, v7)'
      BY <2>1, <2>2, <1>a DEF Filled, Forms, Fields, Untouched, Rm!EmptyFormState
    <2>5. Filled'
      BY <2>2, <2>3, <2>4, <1>a DEF Filled
    <2> QED
      BY <1>6, <2>5, <1>b, <1>c, <1>e DEF Rm!EditField
  <1>7. ASSUME Rm!SubmitForm PROVE ReposInv'
    <2> DEFINE new == Rm!BuildRepoConfigFromForm(v5)
    <2>1. new \in Built
      BY <1>7, <1>a, FormTyped DEF Filled, Rm!SubmitForm
    <2>2. Kept(new, v6, v7)
      <3> SUFFICES ASSUME v6 # Rm!Gone, NEW x \in Fields \ v7
                   PROVE  Rm!Effect(new)[x] = Rm!Effect(v6)[x]
        BY DEF Kept
      <3> QED
        BY <1>7, <1>a, FormFaithful DEF Filled, Untouched, Registered, Rm!SubmitForm
    <2> HIDE DEF new
    <2>3. Sent'
      BY <1>7, <2>1, <2>2, ReposPost DEF Rm!SubmitForm, Sent, new
    <2> QED
      BY <1>7, <2>3, <1>b, <1>c, <1>d DEF Rm!SubmitForm
  <1>8. ASSUME Rm!ConfirmDelete PROVE ReposInv'
    <2>1. Sent'
      BY <1>8, ReposPost DEF Rm!ConfirmDelete, Sent
    <2> QED
      BY <1>8, <2>1, <1>b, <1>c, <1>d DEF Rm!ConfirmDelete
  <1>9. ASSUME NEW k \in Repos, Rm!Other(k) PROVE ReposInv'
    <2>1. MCConfigs \subseteq Rm!Config
      BY DEF MCConfigs, Rm!Config, Rm!Flag
    <2>2. v1' \in [Repos -> Registered]
      BY <1>9, <2>1, <1>a DEF Rm!Other, Tables, Registered
    <2>3. Tables'
      BY <1>9, <2>2, <1>a DEF Tables, Rm!Other
    <2> QED
      BY <1>9, <2>3, <1>b, <1>d, <1>e DEF Rm!Other
  <1>10. ASSUME NEW p \in v8, Rm!Serve(p) PROVE ReposInv'
    <2>1. Request(p)
      BY DEF ReposInv
    <2>2. Rm!Accepted(p) => p.config \in Registered
      BY <2>1 DEF Rm!Accepted, Request, Registered, Built, Rm!Config, Rm!Flag
    <2>3. v1' \in [Repos -> Registered]
      BY <1>10, <2>2, <1>a DEF Rm!Serve, Tables
    <2>4. Tables'
      BY <1>10, <2>3, <1>a DEF Tables, Rm!Serve
    <2> QED
      BY <1>10, <2>4, <1>b, <1>d, <1>g DEF Rm!Serve
  <1>11. ASSUME NEW p \in v8, Rm!Return(p) PROVE ReposInv'
    <2>1. CASE p.state = "done"
      BY <1>11, <2>1, <1>b, <1>f, <1>g, <1>h DEF Rm!Return
    <2>2. CASE p.state # "done"
      BY <1>11, <2>2, <1>b, <1>c, <1>d, <1>e DEF Rm!Return
    <2> QED
      BY <2>1, <2>2
  <1>12. ASSUME NEW l \in v3, Rm!ServeList(l) PROVE ReposInv'
    <2>1. Tables'
      BY <1>12, <1>a DEF Rm!ServeList, Tables
    <2> QED
      BY <1>12, <2>1, <1>b, <1>d, <1>e DEF Rm!ServeList
  <1>13. ASSUME NEW l \in v3, Rm!ReturnList(l) PROVE ReposInv'
    <2>1. Tables'
      BY <1>13, <1>a DEF Rm!ReturnList, Tables
    <2> QED
      BY <1>13, <2>1, <1>b, <1>d, <1>e DEF Rm!ReturnList
  <1>14. CASE UNCHANGED Rm!vars
    BY <1>14, <1>b, <1>c, <1>d, <1>e DEF Rm!vars
  <1> QED
    BY <1>1, <1>2, <1>3, <1>4, <1>5, <1>6, <1>7, <1>8, <1>9, <1>10, <1>11, <1>12, <1>13, <1>14
    DEF Rm!Next

\* Saving an edit changes what the admin changed, and nothing else, whatever was stored and
\* listed meanwhile.
LEMMA EditsKeepTheRest == AllSpec => [](part = "repos" => Rm!SavesWhatWasShown)
  <1>1. ASSUME Rm!Init PROVE ReposInv
    <2>1. MCConfigs \subseteq Rm!Config
      BY DEF MCConfigs, Rm!Config, Rm!Flag
    <2>2. v1 \in [Repos -> Registered]
      BY <1>1, <2>1 DEF Rm!Init, Registered
    <2> QED
      BY <1>1, <2>2, FormTyped DEF Rm!Init, ReposInv, Untouched, Registered
  <1>2. ReposInv /\ [Rm!Next]_(Rm!vars) => ReposInv'
    BY ReposStep
  <1>3. ASSUME ReposInv PROVE Rm!SavesWhatWasShown
    BY <1>3 DEF ReposInv, Request, Kept, Fields, Rm!SavesWhatWasShown, Rm!Effect
  <1> QED
    BY <1>1, <1>2, <1>3, ReposMoves, ReposRests, PTL DEF Rm!Spec

-----------------------------------------------------------------------------
(* The buttons of the sessions page.  v1 is `row`, v2 `queue`, v5 `posts`, *)
(* v7 `form` and v8 `text`.                                                *)

Written == [item : Items, type : Ap!Types]
Notes == Written \cup {Ap!NoForm}
Actions == [item : Items, type : Ap!Types, note : Notes,
            status : {"pending", "completed", "failed"}]
Posts == [n : 1..PanelPosts, item : Items, type : Ap!Types, note : Notes,
          via : {"bar", "form", "environment"},
          state : {"sent", "queued", "refused"}, id : Nat]

\* Feedback is for what it says.
Addressed(a) == a.note # Ap!NoForm => a.note = [item |-> a.item, type |-> a.type]

PanelInv ==
  /\ v2 \in Seq(Actions) /\ \A a \in DOMAIN v2 : Addressed(v2[a])
  /\ v5 \subseteq Posts /\ IsFiniteSet(v5)
  /\ \A p \in v5 : Addressed(p)
  /\ \A p, q \in v5 : p.n = q.n => p = q
  /\ v7 \in Notes /\ v8 \in {Ap!NoForm, v7}

\* What is offered for a row is what is accepted for it, `continue` for a stalled one excepted.
LEMMA OfferAccepted ==
  ASSUME NEW r, NEW type \in Ap!Types
  PROVE  Ap!ValidateAction(type, r) <=>
           type \in Ap!GetAvailableActions(r) /\ ~ (type = "continue" /\ Ap!IsStalled(r))
  BY DEF Ap!Types, Ap!EnvironmentActions, Ap!GetAvailableActions, Ap!ValidateAction, Ap!IsStalled,
    Ap!PlanningError, Ap!CodingError, Ap!TestCasesError

LEMMA SameSizePanel == ASSUME NEW S PROVE Ap!Cardinality(S) = Cardinality(S)
  BY DEF Ap!Cardinality, Cardinality

\* A post finds a number no other one has.
LEMMA NumberFree ==
  ASSUME PanelPosts \in Nat, IsFiniteSet(v5), Cardinality(v5) < PanelPosts
  PROVE  \E k \in 1..PanelPosts : \A p \in v5 : p.n # k
  <1> SUFFICES ASSUME \A k \in 1..PanelPosts : \E p \in v5 : p.n = k PROVE FALSE
    OBVIOUS
  <1> DEFINE T == {p.n : p \in v5}
             f == [p \in v5 |-> p.n]
  <1>1. f \in Surjection(v5, T)
    BY DEF Surjection
  <1>2. IsFiniteSet(T) /\ Cardinality(T) <= Cardinality(v5)
    BY <1>1, FS_Surjection
  <1>3. 1..PanelPosts \subseteq T
    OBVIOUS
  <1> HIDE DEF T
  <1>4. Cardinality(1..PanelPosts) <= Cardinality(T)
    BY <1>2, <1>3, FS_Subset
  <1>5. Cardinality(1..PanelPosts) = PanelPosts
    <2>1. Cardinality(1..PanelPosts) = IF 1 > PanelPosts THEN 0 ELSE PanelPosts - 1 + 1
      BY FS_Interval
    <2> QED
      BY <2>1
  <1>6. Cardinality(T) \in Nat /\ Cardinality(v5) \in Nat
    BY <1>2, FS_CardinalityType
  <1> QED
    BY <1>2, <1>4, <1>5, <1>6

\* A post is the only new one, with its number.
LEMMA PanelPosted ==
  ASSUME PanelPosts \in Nat, PanelInv, NEW i \in Items, NEW type \in Ap!Types,
         NEW written \in Notes, NEW via \in {"bar", "form", "environment"}, Ap!Post(i, type, written, via),
         written # Ap!NoForm => written = [item |-> i, type |-> type]
  PROVE  /\ v5' \subseteq Posts /\ IsFiniteSet(v5')
         /\ \A p \in v5' : Addressed(p)
         /\ \A p, q \in v5' : p.n = q.n => p = q
         /\ \A p \in v5' : p \in v5 \/ p.state = "sent"
  <1>1. Cardinality(v5) \in Nat /\ Len(v2) \in Nat /\ Cardinality(v5) + Len(v2) < PanelPosts
    BY FS_CardinalityType, SameSizePanel DEF Ap!Post, PanelInv
  <1>2. PICK n \in 1..PanelPosts : \A p \in v5 : p.n # n
    BY <1>1, NumberFree DEF PanelInv
  <1> DEFINE m == CHOOSE k \in 1..PanelPosts : \A p \in v5 : p.n # k
             new == [n |-> m, item |-> i, type |-> type, note |-> written, via |-> via,
                     state |-> "sent", id |-> 0]
  <1>3. m \in 1..PanelPosts /\ \A p \in v5 : p.n # m
    BY <1>2
  <1>4. v5' = v5 \cup {new}
    BY DEF Ap!Post
  <1> HIDE DEF m
  <1>5. new \in Posts /\ Addressed(new)
    BY <1>3 DEF Posts, Addressed
  <1>6. IsFiniteSet(v5 \cup {new})
    BY FS_AddElement DEF PanelInv
  <1> QED
    BY <1>3, <1>4, <1>5, <1>6 DEF PanelInv

\* A post is answered, and keeps its number.
LEMMA PanelAnswered ==
  ASSUME PanelInv, NEW p \in v5, NEW q \in Posts, q.n = p.n, Addressed(q),
         v5' = (v5 \ {p}) \cup {q}
  PROVE  /\ v5' \subseteq Posts /\ IsFiniteSet(v5')
         /\ \A x \in v5' : Addressed(x)
         /\ \A x, y \in v5' : x.n = y.n => x = y
  <1>1. IsFiniteSet(v5 \ {p}) /\ IsFiniteSet((v5 \ {p}) \cup {q})
    BY FS_AddElement, FS_RemoveElement DEF PanelInv
  <1> QED
    BY <1>1 DEF PanelInv

LEMMA PanelStep ==
  ASSUME PanelPosts \in Nat, PanelInv, [Ap!Next]_(Ap!vars)
  PROVE  PanelInv'
  <1> DEFINE Filed == v2 \in Seq(Actions) /\ \A a \in DOMAIN v2 : Addressed(v2[a])
             Sent == /\ v5 \subseteq Posts /\ IsFiniteSet(v5)
                     /\ \A p \in v5 : Addressed(p)
                     /\ \A p, q \in v5 : p.n = q.n => p = q
             Filled == v7 \in Notes /\ v8 \in {Ap!NoForm, v7}
  <1>a. Filed /\ Sent /\ Filled
    BY DEF PanelInv
  <1>b. Filed' /\ Sent' /\ Filled' => PanelInv'
    BY DEF PanelInv, Addressed
  <1>c. v2' = v2 => Filed'
    BY <1>a DEF Addressed
  <1>d. v5' \subseteq v5 => Sent'
    BY <1>a, FS_Subset DEF Addressed
  <1>e. UNCHANGED << v7, v8 >> => Filled'
    BY <1>a
  <1>f. v7' = Ap!NoForm /\ v8' = Ap!NoForm => Filled'
    BY DEF Notes
  <1> HIDE DEF Filed, Sent, Filled
  <1>1. ASSUME NEW a \in DOMAIN v2, Ap!Execute(a) PROVE PanelInv'
    <2>1. PICK st \in {"completed", "failed"} : v2' = [v2 EXCEPT ![a].status = st]
      BY <1>1 DEF Ap!Execute
    <2>2. v2[a] \in Actions /\ Addressed(v2[a]) /\ v2 \in Seq(Actions)
      BY <1>a DEF Filed
    <2> DEFINE new == [v2[a] EXCEPT !.status = st]
    <2>3. new \in Actions /\ Addressed(new)
      BY <2>2 DEF Actions, Addressed
    <2>4. v2' = [v2 EXCEPT ![a] = new]
      BY <2>1
    <2> HIDE DEF new
    <2>5. v2' \in Seq(Actions) /\ DOMAIN v2' = DOMAIN v2
      BY <2>2, <2>3, <2>4
    <2>6. \A b \in DOMAIN v2' : Addressed(v2'[b])
      BY <2>2, <2>3, <2>4, <2>5, <1>a DEF Filed
    <2>7. Filed'
      BY <2>5, <2>6 DEF Filed
    <2> QED
      BY <1>1, <2>7, <1>b, <1>d, <1>e DEF Ap!Execute, Ap!barVars
  <1>2. ASSUME NEW i \in Items, Ap!MoveRow(i) \/ Ap!SessionUpdate(i) PROVE PanelInv'
    BY <1>2, <1>b, <1>c, <1>d, <1>e DEF Ap!MoveRow, Ap!SessionUpdate, Ap!barVars
  <1>3. ASSUME Ap!ActionUpdate \/ Ap!BarClear PROVE PanelInv'
    BY <1>3, <1>b, <1>c, <1>d, <1>e DEF Ap!ActionUpdate, Ap!BarClear, Ap!barVars
  <1>4. ASSUME NEW i \in Items, NEW type \in Ap!Types, Ap!Press(i, type) PROVE PanelInv'
    <2>1. Sent'
      BY <1>4, PanelPosted DEF Ap!Press, Notes, Sent
    <2> QED
      BY <1>4, <2>1, <1>b, <1>c, <1>e DEF Ap!Press
  <1>5. ASSUME NEW i \in Items, NEW type \in Ap!Types, Ap!HandleEnvAction(i, type) PROVE PanelInv'
    <2>1. Sent'
      BY <1>5, PanelPosted DEF Ap!HandleEnvAction, Notes, Sent
    <2> QED
      BY <1>5, <2>1, <1>b, <1>c, <1>e DEF Ap!HandleEnvAction
  <1>6. ASSUME NEW i \in Items, NEW type \in Ap!Types, Ap!OpenFeedback(i, type) PROVE PanelInv'
    <2>1. Filled'
      BY <1>6 DEF Ap!OpenFeedback, Filled, Notes, Written
    <2> QED
      BY <1>6, <2>1, <1>b, <1>c, <1>d DEF Ap!OpenFeedback
  <1>7. ASSUME Ap!TypeFeedback PROVE PanelInv'
    <2>1. Filled'
      BY <1>7, <1>a DEF Ap!TypeFeedback, Filled
    <2> QED
      BY <1>7, <2>1, <1>b, <1>c, <1>d DEF Ap!TypeFeedback
  <1>8. ASSUME Ap!CloseFeedback PROVE PanelInv'
    BY <1>8, <1>b, <1>c, <1>d, <1>f DEF Ap!CloseFeedback
  <1>9. ASSUME Ap!SubmitFeedback PROVE PanelInv'
    <2>1. v7 \in Written /\ v8 = v7
      BY <1>9, <1>a DEF Ap!SubmitFeedback, Ap!FormShown, Filled, Notes
    <2>2. v7.item \in Items /\ v7.type \in Ap!Types /\ v8 = [item |-> v7.item, type |-> v7.type]
      BY <2>1 DEF Written
    <2>3. Sent'
      BY <1>9, <2>1, <2>2, PanelPosted DEF Ap!SubmitFeedback, Notes, Sent
    <2> QED
      BY <1>9, <2>3, <1>b, <1>c, <1>e DEF Ap!SubmitFeedback
  <1>10. ASSUME NEW p \in v5, Ap!Serve(p) PROVE PanelInv'
    <2>1. p \in Posts /\ Addressed(p) /\ v2 \in Seq(Actions)
      BY <1>a DEF Filed, Sent
    <2>2. CASE Ap!ValidateAction(p.type, v1[p.item])
      <3> DEFINE a == [item |-> p.item, type |-> p.type, note |-> p.note, status |-> "pending"]
                 q == [p EXCEPT !.state = "queued", !.id = Len(v2) + 1]
      <3>1. Len(v2) + 1 \in Nat
        BY <2>1
      <3>2. a \in Actions /\ Addressed(a)
        BY <2>1 DEF Actions, Posts, Addressed
      <3>3. q \in Posts /\ Addressed(q) /\ q.n = p.n
        BY <2>1, <3>1 DEF Posts, Addressed
      <3>4. v2' = Append(v2, a) /\ v5' = (v5 \ {p}) \cup {q}
        BY <1>10, <2>2 DEF Ap!Serve
      <3> HIDE DEF a, q
      <3>5. v2' \in Seq(Actions) /\ \A b \in DOMAIN v2' : Addressed(v2'[b])
        BY <2>1, <3>2, <3>4, <1>a DEF Filed
      <3>6. Filed' /\ Sent'
        BY <3>3, <3>4, <3>5, PanelAnswered DEF Filed, Sent
      <3> QED
        BY <1>10, <3>6, <1>b, <1>e DEF Ap!Serve, Ap!barVars
    <2>3. CASE ~ Ap!ValidateAction(p.type, v1[p.item])
      <3> DEFINE q == [p EXCEPT !.state = "refused"]
      <3>1. q \in Posts /\ Addressed(q) /\ q.n = p.n
        BY <2>1 DEF Posts, Addressed
      <3>2. v2' = v2 /\ v5' = (v5 \ {p}) \cup {q}
        BY <1>10, <2>3 DEF Ap!Serve
      <3> HIDE DEF q
      <3>3. Sent'
        BY <3>1, <3>2, PanelAnswered DEF Sent
      <3> QED
        BY <1>10, <3>2, <3>3, <1>b, <1>c, <1>e DEF Ap!Serve, Ap!barVars
    <2> QED
      BY <2>2, <2>3
  <1>11. ASSUME NEW p \in v5, Ap!BarReturn(p) PROVE PanelInv'
    BY <1>11, <1>b, <1>c, <1>d, <1>e, <1>f DEF Ap!BarReturn
  <1>12. ASSUME NEW p \in v5, Ap!EnvironmentReturn(p) PROVE PanelInv'
    BY <1>12, <1>b, <1>c, <1>d, <1>e DEF Ap!EnvironmentReturn
  <1>13. CASE UNCHANGED Ap!vars
    BY <1>13, <1>b, <1>c, <1>d, <1>e DEF Ap!vars
  <1> QED
    BY <1>1, <1>2, <1>3, <1>4, <1>5, <1>6, <1>7, <1>8, <1>9, <1>10, <1>11, <1>12, <1>13
    DEF Ap!Next

LEMMA PanelStarts == Ap!Init => PanelInv
  BY FS_EmptySet DEF Ap!Init, PanelInv, Notes

\* Only the server's step answers a post, and it looks at the row.
LEMMA PanelHonours ==
  ASSUME PanelPosts \in Nat, PanelInv, [Ap!Next]_(Ap!vars)
  PROVE  Ap!OfferHonoured
  <1> SUFFICES ASSUME NEW p \in v5, NEW q \in v5', p.state = "sent", q.n = p.n, q.state # "sent"
               PROVE  q.state = "queued" <=> Ap!Offered(p)
    BY DEF Ap!OfferHonoured
  <1>1. p \in Posts /\ (Ap!ValidateAction(p.type, v1[p.item]) <=> Ap!Offered(p))
    BY OfferAccepted DEF PanelInv, Posts, Ap!Offered
  <1>2. q \notin v5
    BY DEF PanelInv
  <1>3. ASSUME NEW i \in Items, NEW type \in Ap!Types,
               Ap!Press(i, type) \/ Ap!HandleEnvAction(i, type)
        PROVE  FALSE
    BY <1>2, <1>3, PanelPosted DEF Ap!Press, Ap!HandleEnvAction, Notes
  <1>4. ASSUME Ap!SubmitFeedback PROVE FALSE
    <2>1. v7 \in Written /\ v8 = v7
      BY <1>4 DEF Ap!SubmitFeedback, Ap!FormShown, PanelInv, Notes
    <2>2. v7.item \in Items /\ v7.type \in Ap!Types /\ v8 = [item |-> v7.item, type |-> v7.type]
      BY <2>1 DEF Written
    <2> QED
      BY <1>2, <1>4, <2>1, <2>2, PanelPosted DEF Ap!SubmitFeedback, Notes
  <1>5. ASSUME NEW r \in v5, Ap!Serve(r) PROVE q.state = "queued" <=> Ap!Offered(p)
    <2> DEFINE accepted == Ap!ValidateAction(r.type, v1[r.item])
               s == IF accepted THEN [r EXCEPT !.state = "queued", !.id = Len(v2) + 1]
                    ELSE [r EXCEPT !.state = "refused"]
    <2>1. r \in Posts
      BY DEF PanelInv
    <2>2. v5' = (v5 \ {r}) \cup {s}
      BY <1>5 DEF Ap!Serve
    <2>3. s.n = r.n /\ (s.state = "queued" <=> accepted)
      BY <2>1 DEF Posts
    <2> HIDE DEF s
    <2>4. q = s /\ r = p
      BY <1>2, <2>2, <2>3 DEF PanelInv
    <2> QED
      BY <1>1, <2>3, <2>4
  <1>6. ASSUME v5' \subseteq v5 PROVE FALSE
    BY <1>2, <1>6
  <1>7. ASSUME NEW r \in v5, Ap!BarReturn(r) \/ Ap!EnvironmentReturn(r) PROVE v5' \subseteq v5
    BY <1>7 DEF Ap!BarReturn, Ap!EnvironmentReturn
  <1>8. ASSUME NEW i, Ap!MoveRow(i) \/ Ap!SessionUpdate(i) PROVE v5' = v5
    BY <1>8 DEF Ap!MoveRow, Ap!SessionUpdate
  <1>9. ASSUME NEW i, NEW type, Ap!OpenFeedback(i, type) PROVE v5' = v5
    BY <1>9 DEF Ap!OpenFeedback
  <1>10. ASSUME NEW a, Ap!Execute(a) PROVE v5' = v5
    BY <1>10 DEF Ap!Execute
  <1>11. Ap!ActionUpdate \/ Ap!TypeFeedback \/ Ap!CloseFeedback \/ Ap!BarClear => v5' = v5
    BY DEF Ap!ActionUpdate, Ap!TypeFeedback, Ap!CloseFeedback, Ap!BarClear
  <1>12. UNCHANGED Ap!vars => v5' = v5
    BY DEF Ap!vars
  <1> QED
    BY <1>3, <1>4, <1>5, <1>6, <1>7, <1>8, <1>9, <1>10, <1>11, <1>12 DEF Ap!Next

\* Whatever the rows are, a request is accepted just when its action is offered for the row as
\* it is by then, but for `continue` of a stalled one, which is offered and refused; and on a
\* list that is up to date the users screen blocks just what the server would refuse.
THEOREM OffersAccepted ==
  ASSUME PanelPosts \in Nat
  PROVE  AllSpec => OffersHonoured
  <1>1. Ap!Init => PanelInv
    BY PanelStarts
  <1>2. PanelInv /\ [Ap!Next]_(Ap!vars) => PanelInv'
    BY PanelStep
  <1>3. PanelInv /\ [Ap!Next]_(Ap!vars) => Ap!OfferHonoured
    BY PanelHonours
  <1>4. Ap!OfferHonoured => [part = "panel" => Ap!OfferHonoured]_all
    OBVIOUS
  <1>5. ~ (part = "panel") => [part = "panel" => Ap!OfferHonoured]_all
    OBVIOUS
  <1>6. part = "users" => Uf!GuardsAgree
    BY GuardsMirrored
  <1> QED
    BY <1>1, <1>2, <1>3, <1>4, <1>5, <1>6, PanelMoves, PanelRests, PTL
    DEF OffersHonoured, Ap!Spec

\* A click's words and decisions go where they were aimed: the decision on a proposal, the
\* feedback to the item and the command, the password to the person, the form to the row.
THEOREM ClicksAimed ==
  ASSUME PanelPosts \in Nat
  PROVE  AllSpec => ClicksMeant
  <1> DEFINE Screens == /\ part = "panel" => Ap!FeedbackMeant
                        /\ part = "users" => Uf!PasswordMeant
                        /\ part = "repos" => Rm!SavesWhatWasShown
  <1>1. Ap!Init => PanelInv
    BY PanelStarts
  <1>2. PanelInv /\ [Ap!Next]_(Ap!vars) => PanelInv'
    BY PanelStep
  <1>3. PanelInv => Ap!FeedbackMeant
    BY DEF PanelInv, Addressed, Ap!FeedbackMeant
  <1>4. /\ (part = "panel" => Ap!FeedbackMeant) /\ (part = "users" => Uf!PasswordMeant)
        /\ (part = "repos" => Rm!SavesWhatWasShown)
        => Screens
    OBVIOUS
  <1>5. [][part = "card" => Rc!ClickMeant]_all /\ []Screens => ClicksMeant
    BY DEF ClicksMeant
  <1> HIDE DEF Screens
  <1> QED
    BY <1>1, <1>2, <1>3, <1>4, <1>5, PanelMoves, PanelRests, DecisionsMeant, PasswordsMeant,
      EditsKeepTheRest, PTL DEF Ap!Spec

-----------------------------------------------------------------------------
(* The statistics tab.  v1 is `reviews`, v2 `outcomes`, v3 `today`, v4     *)
(* `window`, v5 `population`, v6 `token`, v7 `loads`, v8 `cards` and v9    *)
(* `value`.                                                                *)

Span(w) == MCWindows[w]

Scope(c, p) == CASE c = "ribbon" -> "prod" [] c = "drift" -> "none" [] OTHER -> p

Scoped(a, w, p) == \A c \in Sc!Cards : a[c].window = w /\ a[c].population = Scope(c, p)

\* Findings judged in the window, and reviews of the population that raised them.
Backing(w, p) ==
  /\ \E r \in v1 : r.test = Sc!IsTestFlag(p)
  /\ \E o \in v2 : Sc!Recent(o.day, Span(w))

\* The latest load asks for what is selected; an answer is of what was asked; what the first
\* query of the value card found has reviews behind it while the window stays.
Batch(l) ==
  /\ DOMAIN l = {"n", "window", "population", "step", "rows", "raised", "spend", "edge", "answers"}
  /\ l.n \in Nat /\ l.n <= v6 /\ l.step \in 0..3 /\ l.edge \in BOOLEAN
  /\ IsFiniteSet(l.rows) /\ IsFiniteSet(l.spend) /\ IsFiniteSet(l.raised)
  /\ l.n = v6 => l.window = v4 /\ l.population = v5
  /\ l.step = 3 => Scoped(l.answers, l.window, l.population)
  /\ l.step \in 1..2 /\ ~ l.edge /\ l.rows # {} => Backing(l.window, l.population)
  /\ l.step = 3 /\ ~ l.edge /\ l.rows # {} => l.spend # {}

AddsUp(v) ==
  /\ v.addressed <= v.judged /\ v.judged <= v.traced /\ v.traced <= v.raised
  /\ v.unjudgeable >= 0 /\ (v.perAddressed /\ ~ v.edge => v.reviews > v.missing)

StatsInv ==
  /\ IsFiniteSet(v1) /\ IsFiniteSet(v2)
  /\ \A r \in v1 : Sc!ReviewOK(r)
  /\ \A o \in v2 : DOMAIN o = {"find", "day", "did"}
  /\ v6 \in Nat
  /\ \A l \in v7 : Batch(l)
  /\ \A c \in Sc!Cards : v8[c].status \in {"ready", "empty"} =>
       v8[c].window = v4 /\ v8[c].population = Scope(c, v5)
  /\ v9 # Sc!NoFigures => AddsUp(v9)

LEMMA SameSizeStats == ASSUME NEW S PROVE Sc!Cardinality(S) = Cardinality(S)
  BY DEF Sc!Cardinality, Cardinality

\* The parts of the value card are parts.
LEMMA PartsOfTheWhole ==
  ASSUME NEW rows, IsFiniteSet(rows), NEW raised, IsFiniteSet(raised), NEW spend,
         IsFiniteSet(spend), NEW edge \in BOOLEAN, ~ edge /\ rows # {} => spend # {}
  PROVE  AddsUp(Sc!ComputeReviewValue(rows, raised, spend, edge))
  <1> DEFINE J == { o \in rows : o.did # "none" }
             A == { o \in rows : o.did = "ADDRESSED" }
             M == { r \in spend : ~ r.costed }
             v == Sc!ComputeReviewValue(rows, raised, spend, edge)
  <1>1. /\ IsFiniteSet(J) /\ IsFiniteSet(A) /\ IsFiniteSet(M)
        /\ Cardinality(J) <= Cardinality(rows) /\ Cardinality(M) <= Cardinality(spend)
    BY FS_Subset
  <1>2. Cardinality(A) <= Cardinality(J)
    <2>1. A \subseteq J
      OBVIOUS
    <2> HIDE DEF A, J
    <2> QED
      BY <1>1, <2>1, FS_Subset
  <1>3. /\ Cardinality(rows) \in Nat /\ Cardinality(raised) \in Nat /\ Cardinality(spend) \in Nat
        /\ Cardinality(J) \in Nat /\ Cardinality(A) \in Nat /\ Cardinality(M) \in Nat
    BY <1>1, FS_CardinalityType
  <1> DEFINE all_ == Sc!RaisedCount(raised, Cardinality(rows))
  <1>4. /\ v.addressed = Cardinality(A) /\ v.judged = Cardinality(J)
        /\ v.traced = Cardinality(rows) /\ v.raised = all_ /\ v.unjudgeable = all_ - Cardinality(J)
        /\ v.reviews = Cardinality(spend) /\ v.missing = Cardinality(M) /\ v.edge = edge
        /\ v.perAddressed
             = (Cardinality(A) > 0 /\ ~ (spend # {} /\ Cardinality(M) = Cardinality(spend)))
    BY SameSizeStats DEF Sc!ComputeReviewValue
  <1>5. Cardinality(rows) <= all_ /\ all_ \in Nat
    BY <1>3, SameSizeStats DEF Sc!RaisedCount
  <1>6. Cardinality(A) > 0 => rows # {}
    <2>1. rows = {} => A = {}
      OBVIOUS
    <2> HIDE DEF A
    <2> QED
      BY <2>1, FS_EmptySet
  <1> HIDE DEF A, J, M, v, all_
  <1>7. v.perAddressed /\ ~ v.edge => v.reviews > v.missing
    BY <1>1, <1>3, <1>4, <1>6
  <1> QED
    BY <1>1, <1>2, <1>3, <1>4, <1>5, <1>7 DEF AddsUp, v

LEMMA AnswersScoped ==
  ASSUME NEW l, NEW rows, NEW broken
  PROVE  Scoped(Sc!Answers(l, rows, broken), l.window, l.population)
  BY DEF Scoped, Scope, Sc!Answers, Sc!Card, Sc!Cards

\* A row more in either table leaves what the loads rest on.
LEMMA BackingStays ==
  ASSUME NEW w, NEW p, Backing(w, p), v3' = v3, v1 \subseteq v1',
         \A o \in v2 : \E q \in v2' : q.day = o.day
  PROVE  Backing(w, p)'
  BY DEF Backing, Sc!Recent

LEMMA LoadStays ==
  ASSUME StatsInv, v3' = v3, v1 \subseteq v1', \A o \in v2 : \E q \in v2' : q.day = o.day,
         UNCHANGED << v4, v5, v6 >>, NEW l, Batch(l)
  PROVE  Batch(l)'
  BY BackingStays DEF Batch

\* The tables grow, and the tab rests.
LEMMA TablesGrow ==
  ASSUME StatsInv, UNCHANGED << v3, v4, v5, v6, v7, v8, v9 >>, v1 \subseteq v1',
         IsFiniteSet(v1'), \A r \in v1' : Sc!ReviewOK(r), \A o \in v2 : \E q \in v2' : q.day = o.day,
         IsFiniteSet(v2'), \A o \in v2' : DOMAIN o = {"find", "day", "did"}
  PROVE  StatsInv'
  <1>1. \A l \in v7' : Batch(l)'
    BY LoadStays DEF StatsInv
  <1> QED
    BY <1>1 DEF StatsInv

\* A load begins: the ones before it are superseded.
LEMMA StatsLoad ==
  ASSUME StatsInv, NEW w, NEW p, Sc!LoadStatsForWindow(w, p), v4' = w, v5' = p,
         UNCHANGED << v1, v2, v3 >>
  PROVE  StatsInv'
  <1>1. v6' = v6 + 1 /\ v6 \in Nat
    BY DEF Sc!LoadStatsForWindow, StatsInv
  <1>2. PICK new : /\ new = [n |-> v6', window |-> w, population |-> p, step |-> 0, rows |-> {},
                             raised |-> {}, spend |-> {}, edge |-> FALSE, answers |-> << >>]
                   /\ v7' = v7 \cup {new}
    BY <1>1 DEF Sc!LoadStatsForWindow
  <1>3. Batch(new)'
    BY <1>1, <1>2, FS_EmptySet DEF Batch
  <1>4. ASSUME NEW l \in v7 PROVE Batch(l)'
    <2>1. Batch(l) /\ l.n # v6'
      BY <1>1 DEF StatsInv, Batch
    <2>2. Backing(l.window, l.population) => Backing(l.window, l.population)'
      BY DEF Backing, Sc!Recent
    <2> QED
      BY <1>1, <2>1, <2>2 DEF Batch
  <1>5. \A c \in Sc!Cards : v8'[c].status = "loading"
    BY DEF Sc!LoadStatsForWindow, Sc!Loading
  <1>6. v9' = Sc!NoFigures
    BY DEF Sc!LoadStatsForWindow
  <1>7. \A l \in v7' : Batch(l)'
    BY <1>3, <1>4, <1>2
  <1>8. \A c \in Sc!Cards : v8'[c].status \notin {"ready", "empty"}
    BY <1>5
  <1>9. /\ IsFiniteSet(v1') /\ IsFiniteSet(v2') /\ \A o \in v2' : DOMAIN o = {"find", "day", "did"}
        /\ \A r \in v1' : Sc!ReviewOK(r)
    BY DEF StatsInv
  <1> QED
    BY <1>1, <1>6, <1>7, <1>8, <1>9 DEF StatsInv

\* A query of a load is answered.
LEMMA StatsQuery ==
  ASSUME StatsInv, NEW l \in v7, NEW m, Batch(m), v7' = (v7 \ {l}) \cup {m},
         UNCHANGED << v1, v2, v3, v4, v5, v6, v8, v9 >>
  PROVE  StatsInv'
  <1>1. \A x : Batch(x) => Batch(x)'
    BY LoadStays DEF StatsInv
  <1> QED
    BY <1>1 DEF StatsInv

LEMMA StatsStep == ASSUME StatsInv, [Sc!Next]_(Sc!vars) PROVE StatsInv'
  <1>1. ASSUME NEW k \in ReviewKinds, Sc!SaveReview(k) PROVE StatsInv'
    <2> DEFINE r == [n |-> Sc!Cardinality(v1) + 1, day |-> v3,
       test |-> k.test, costed |-> k.costed, cost |-> k.cost, orchestrator |-> k.orchestrator,
       measured |-> k.measured, roster |-> k.roster, dispatched |-> k.dispatched,
       listed |-> k.listed, finds |-> k.finds, path |-> k.path, verdict |-> k.verdict,
       error |-> k.error, wrapped |-> k.wrapped, sha |-> k.sha]
    <2>1. v1' = v1 \cup {r}
      BY <1>1 DEF Sc!SaveReview
    <2>2. Sc!ReviewOK(k)
      BY StatsAssumption DEF Sc!ParametersOK
    <2>3. /\ r.test = k.test /\ r.costed = k.costed /\ r.sha = k.sha /\ r.cost = k.cost
          /\ r.orchestrator = k.orchestrator /\ r.measured = k.measured
      OBVIOUS
    <2> HIDE DEF r
    <2>4. Sc!ReviewOK(r)
      BY <2>2, <2>3 DEF Sc!ReviewOK
    <2>5. IsFiniteSet(v1')
      BY <2>1, FS_AddElement DEF StatsInv
    <2>6. \A q \in v1' : Sc!ReviewOK(q)
      BY <2>1, <2>4 DEF StatsInv
    <2> QED
      BY <1>1, <2>1, <2>5, <2>6, TablesGrow DEF Sc!SaveReview, StatsInv
  <1>2. ASSUME NEW f \in Sc!Findings, Sc!Trace(f) PROVE StatsInv'
    <2>1. PICK day : v2' = v2 \cup {[find |-> f, day |-> day, did |-> "none"]}
      BY <1>2 DEF Sc!Trace
    <2>2. IsFiniteSet(v2')
      BY <2>1, FS_AddElement DEF StatsInv
    <2>3. \A o \in v2' : DOMAIN o = {"find", "day", "did"}
      BY <2>1 DEF StatsInv
    <2> QED
      BY <1>2, <2>1, <2>2, <2>3, TablesGrow DEF Sc!Trace, StatsInv
  <1>3. ASSUME NEW o \in v2, Sc!Judge(o) PROVE StatsInv'
    <2>1. PICK did \in {"ADDRESSED", "NOT_ADDRESSED"} :
            v2' = (v2 \ {o}) \cup {[o EXCEPT !.did = did]}
      BY <1>3 DEF Sc!Judge
    <2> DEFINE q == [o EXCEPT !.did = did]
    <2>2. DOMAIN q = {"find", "day", "did"} /\ q.day = o.day
      BY DEF StatsInv
    <2> HIDE DEF q
    <2>3. IsFiniteSet((v2 \ {o}) \cup {q})
      BY FS_AddElement, FS_RemoveElement DEF StatsInv
    <2>4. v2' = (v2 \ {o}) \cup {q}
      BY <2>1 DEF q
    <2>5. \A x \in v2 : \E y \in v2' : y.day = x.day
      BY <2>2, <2>4
    <2> QED
      BY <1>3, <2>2, <2>3, <2>4, <2>5, TablesGrow DEF Sc!Judge, StatsInv
  <1>4. ASSUME Sc!Tick PROVE StatsInv'
    <2>1. ASSUME NEW l \in v7 PROVE Batch([l EXCEPT !.edge = l.edge \/ l.step \in 1..2])'
      <3> DEFINE m == [l EXCEPT !.edge = l.edge \/ l.step \in 1..2]
      <3>1. Batch(l)
        BY DEF StatsInv
      <3>2. /\ DOMAIN m = DOMAIN l /\ m.n = l.n /\ m.window = l.window
            /\ m.population = l.population /\ m.step = l.step /\ m.rows = l.rows
            /\ m.raised = l.raised /\ m.spend = l.spend /\ m.answers = l.answers
            /\ m.edge = (l.edge \/ l.step \in 1..2)
        BY <3>1 DEF Batch
      <3> HIDE DEF m
      <3>3. UNCHANGED << v4, v5, v6 >>
        BY <1>4 DEF Sc!Tick
      <3> QED
        BY <3>1, <3>2, <3>3 DEF Batch, m
    <2>2. v7' = { [l EXCEPT !.edge = l.edge \/ l.step \in 1..2] : l \in v7 }
      BY <1>4 DEF Sc!Tick
    <2>3. UNCHANGED << v1, v2, v4, v5, v6, v8, v9 >>
      BY <1>4 DEF Sc!Tick
    <2>4. \A l \in v7' : Batch(l)'
      BY <2>1, <2>2
    <2> QED
      BY <2>3, <2>4 DEF StatsInv
  <1>5. ASSUME NEW w, Sc!SetStatsWindow(w) PROVE StatsInv'
    BY <1>5, StatsLoad DEF Sc!SetStatsWindow
  <1>6. ASSUME NEW p, Sc!SetStatsPopulation(p) PROVE StatsInv'
    BY <1>6, StatsLoad DEF Sc!SetStatsPopulation
  <1>7. ASSUME Sc!RefreshStatsTab PROVE StatsInv'
    BY <1>7, StatsLoad DEF Sc!RefreshStatsTab
  <1>8. CASE Sc!RefreshDone \/ UNCHANGED Sc!vars
    <2>1. UNCHANGED << v1, v2, v3, v4, v5, v6, v7, v8, v9 >>
      BY <1>8 DEF Sc!RefreshDone, Sc!vars
    <2> QED
      BY <2>1, TablesGrow DEF StatsInv
  <1>9. ASSUME NEW l \in v7, Sc!ServeTraced(l) PROVE StatsInv'
    <2> DEFINE rows == Sc!TracedRows(Span(l.window), Sc!IsTestFlag(l.population))
               m == [l EXCEPT !.rows = rows, !.step = l.step + 1]
    <2>1. Batch(l) /\ l.step = 0
      BY <1>9 DEF StatsInv, Sc!ServeTraced
    <2>2. IsFiniteSet(rows)
      <3>1. rows \subseteq v2
        BY DEF Sc!TracedRows
      <3> QED
        BY <3>1, FS_Subset DEF StatsInv
    <2>3. rows # {} => Backing(l.window, l.population)
      BY DEF Sc!TracedRows, Sc!Reviewed, Backing
    <2>4. v7' = (v7 \ {l}) \cup {m}
      BY <1>9 DEF Sc!ServeTraced, Sc!Query, Span
    <2> HIDE DEF rows
    <2>5. Batch(m)
      BY <2>1, <2>2, <2>3 DEF Batch
    <2> HIDE DEF m
    <2> QED
      BY <1>9, <2>4, <2>5, StatsQuery DEF Sc!ServeTraced
  <1>10. ASSUME NEW l \in v7, Sc!ServeRaised(l) PROVE StatsInv'
    <2> DEFINE raised == Sc!Raised(Span(l.window), Sc!IsTestFlag(l.population))
               m == [l EXCEPT !.raised = raised, !.step = l.step + 1]
    <2>1. Batch(l) /\ l.step = 1
      BY <1>10 DEF StatsInv, Sc!ServeRaised
    <2>2. IsFiniteSet(raised)
      <3>1. raised \subseteq Sc!Findings
        BY DEF Sc!Raised
      <3>2. IsFiniteSet({} \cup {"inline"}) /\ IsFiniteSet(({} \cup {"inline"}) \cup {"loose"})
        BY FS_EmptySet, FS_AddElement
      <3>3. Sc!Findings = ({} \cup {"inline"}) \cup {"loose"}
        BY DEF Sc!Findings
      <3> QED
        BY <3>1, <3>2, <3>3, FS_Subset
    <2>4. v7' = (v7 \ {l}) \cup {m}
      BY <1>10 DEF Sc!ServeRaised, Sc!Query, Span
    <2> HIDE DEF raised
    <2>5. Batch(m)
      BY <2>1, <2>2 DEF Batch
    <2> HIDE DEF m
    <2> QED
      BY <1>10, <2>4, <2>5, StatsQuery DEF Sc!ServeRaised
  <1>11. ASSUME NEW l \in v7, Sc!ServeRest(l) PROVE StatsInv'
    <2> DEFINE spend == Sc!Spend(Span(l.window), Sc!IsTestFlag(l.population))
               m(a) == [l EXCEPT !.spend = spend, !.answers = a, !.step = l.step + 1]
    <2>1. Batch(l) /\ l.step = 2
      BY <1>11 DEF StatsInv, Sc!ServeRest
    <2>2. IsFiniteSet(spend)
      <3>1. spend \subseteq v1
        BY DEF Sc!Spend
      <3> QED
        BY <3>1, FS_Subset DEF StatsInv
    <2>3. Backing(l.window, l.population) => spend # {}
      BY DEF Sc!Spend, Backing
    <2>4. PICK broken : v7' = (v7 \ {l}) \cup {m(Sc!Answers(l, l.rows, broken))}
      BY <1>11 DEF Sc!ServeRest, Sc!Query, Span
    <2>5. PICK a : Scoped(a, l.window, l.population) /\ v7' = (v7 \ {l}) \cup {m(a)}
      BY <2>4, AnswersScoped
    <2> HIDE DEF spend
    <2>6. Batch(m(a))
      BY <2>1, <2>2, <2>3, <2>5 DEF Batch
    <2> HIDE DEF m
    <2> QED
      BY <1>11, <2>5, <2>6, StatsQuery DEF Sc!ServeRest
  <1>12. ASSUME NEW l \in v7, Sc!Land(l) PROVE StatsInv'
    <2>1. Batch(l) /\ l.step = 3 /\ v7' = v7 \ {l} /\ UNCHANGED << v1, v2, v3, v4, v5, v6 >>
      BY <1>12 DEF StatsInv, Sc!Land
    <2>2. \A x \in v7' : Batch(x)'
      BY <2>1, LoadStays DEF StatsInv
    <2>3. CASE Sc!Superseded(l)
      BY <1>12, <2>1, <2>2, <2>3 DEF Sc!Land, StatsInv
    <2>4. CASE ~ Sc!Superseded(l)
      <3>1. v8' = l.answers
        BY <1>12, <2>4 DEF Sc!Land
      <3>2. v9' = Sc!NoFigures \/ v9' = Sc!ComputeReviewValue(l.rows, l.raised, l.spend, l.edge)
        BY <1>12, <2>4 DEF Sc!Land
      <3>3. AddsUp(Sc!ComputeReviewValue(l.rows, l.raised, l.spend, l.edge))
        BY <2>1, PartsOfTheWhole DEF Batch
      <3>4. v9' # Sc!NoFigures => AddsUp(v9')
        BY <3>2, <3>3
      <3>5. l.window = v4 /\ l.population = v5 /\ Scoped(l.answers, l.window, l.population)
        BY <2>1, <2>4 DEF Sc!Superseded, Batch
      <3> QED
        BY <2>1, <2>2, <3>1, <3>4, <3>5 DEF StatsInv, Scoped
    <2> QED
      BY <2>3, <2>4
  <1> QED
    BY <1>1, <1>2, <1>3, <1>4, <1>5, <1>6, <1>7, <1>8, <1>9, <1>10, <1>11, <1>12 DEF Sc!Next

\* One unit of f for each of a row's.
Units(R, f) == UNION { {r} \X (1..f[r]) : r \in R }

LEMMA UnitsFinite ==
  ASSUME NEW R, IsFiniteSet(R), NEW f, \A r \in R : f[r] \in Nat
  PROVE  IsFiniteSet(Units(R, f))
  <1> DEFINE g == [r \in R |-> {r} \X (1..f[r])]
             T == { g[r] : r \in R }
  <1>1. IsFiniteSet(T)
    <2>1. g \in Surjection(R, T)
      BY DEF Surjection
    <2> QED
      BY <2>1, FS_Surjection
  <1>2. ASSUME NEW r \in R PROVE IsFiniteSet(g[r])
    <2> DEFINE n == f[r]
    <2>3. n \in Int /\ 1 \in Int
      OBVIOUS
    <2> HIDE DEF n
    <2>4. IsFiniteSet(1..n)
      BY <2>3, FS_Interval
    <2>1. IsFiniteSet({r}) /\ IsFiniteSet(1..f[r])
      BY <2>4, FS_Singleton DEF n
    <2>2. IsFiniteSet({r} \X (1..f[r]))
      BY <2>1, FS_Product
    <2> QED
      BY <2>2
  <1>3. \A t \in T : IsFiniteSet(t)
    BY <1>2
  <1>4. Units(R, f) = UNION T
    BY DEF Units
  <1> HIDE DEF T
  <1> QED
    BY <1>1, <1>3, <1>4, FS_UNION

LEMMA UnitOf ==
  ASSUME NEW R, NEW f
  PROVE  /\ \A u \in Units(R, f) : u[1] \in R /\ u[2] \in 1..f[u[1]] /\ u = << u[1], u[2] >>
         /\ \A r \in R : \A c \in 1..f[r] : << r, c >> \in Units(R, f)
  BY DEF Units

\* The parts of a cost that every row of S covers.
LEMMA UnitsCovered ==
  ASSUME NEW R, IsFiniteSet(R), NEW S \in SUBSET R, NEW c, NEW m, NEW o,
         \A r \in R : c[r] \in Nat /\ m[r] \in Nat /\ o[r] \in Nat,
         \A r \in S : m[r] + o[r] <= c[r], \A r \in R \ S : m[r] = 0
  PROVE  /\ Cardinality(Units(S, c)) \in Nat /\ Cardinality(Units(R, m)) \in Nat
         /\ Cardinality(Units(S, o)) \in Nat
         /\ Cardinality(Units(R, m)) + Cardinality(Units(S, o)) <= Cardinality(Units(S, c))
  <1> DEFINE C == Units(S, c)  M == Units(R, m)  O == Units(S, o)
             f == [u \in M |-> << u[1], u[2] + o[u[1]] >>]
  <1>1. IsFiniteSet(S)
    BY FS_Subset
  <1>2. IsFiniteSet(C) /\ IsFiniteSet(M) /\ IsFiniteSet(O)
    BY <1>1, UnitsFinite
  <1>3. O \subseteq C
    <2> SUFFICES ASSUME NEW u \in O PROVE u \in C
      OBVIOUS
    <2>1. u[1] \in S /\ u[2] \in 1..o[u[1]] /\ u = << u[1], u[2] >>
      BY UnitOf
    <2>2. u[2] \in 1..c[u[1]]
      BY <2>1
    <2> QED
      BY <2>1, <2>2, UnitOf
  <1>4. ASSUME NEW u \in M
        PROVE  /\ u[1] \in S /\ u[2] \in Nat /\ o[u[1]] \in Nat /\ u = << u[1], u[2] >>
               /\ f[u] \in C \ O
    <2>1. u[1] \in R /\ u[2] \in 1..m[u[1]] /\ u = << u[1], u[2] >>
      BY UnitOf
    <2>2. u[1] \in S /\ u[2] \in Nat /\ o[u[1]] \in Nat
      BY <2>1
    <2>3. u[2] + o[u[1]] \in 1..c[u[1]] /\ u[2] + o[u[1]] \notin 1..o[u[1]]
      BY <2>1, <2>2
    <2>4. << u[1], u[2] + o[u[1]] >> \in C
      BY <2>2, <2>3, UnitOf
    <2>5. << u[1], u[2] + o[u[1]] >> \notin O
      <3> SUFFICES ASSUME NEW w \in O, w = << u[1], u[2] + o[u[1]] >> PROVE FALSE
        OBVIOUS
      <3>1. w[1] = u[1] /\ w[2] = u[2] + o[u[1]]
        OBVIOUS
      <3>2. w[2] \in 1..o[w[1]]
        BY UnitOf
      <3> QED
        BY <2>3, <3>1, <3>2
    <2> QED
      BY <2>1, <2>2, <2>4, <2>5
  <1>5. f \in Injection(M, C \ O)
    <2>1. f \in [M -> C \ O]
      BY <1>4
    <2>2. ASSUME NEW u \in M, NEW w \in M, f[u] = f[w] PROVE u = w
      <3>1. f[u] = << u[1], u[2] + o[u[1]] >> /\ f[w] = << w[1], w[2] + o[w[1]] >>
        OBVIOUS
      <3>2. u[1] = w[1] /\ u[2] + o[u[1]] = w[2] + o[w[1]]
        BY <2>2, <3>1
      <3>3. u[2] \in Nat /\ w[2] \in Nat /\ o[u[1]] \in Nat
        BY <1>4
      <3>4. o[u[1]] = o[w[1]]
        BY <3>2
      <3>5. u[2] = w[2]
        BY <3>2, <3>3, <3>4
      <3>6. u = << u[1], u[2] >> /\ w = << w[1], w[2] >>
        BY <1>4
      <3> QED
        BY <3>2, <3>5, <3>6
    <2> QED
      BY <2>1, <2>2 DEF Injection, IsInjective
  <1> HIDE DEF C, M, O, f
  <1>6. C \cap O = O
    BY <1>3
  <1>7. IsFiniteSet(C \ O) /\ Cardinality(C \ O) = Cardinality(C) - Cardinality(O)
    BY <1>2, <1>6, FS_Difference
  <1>8. Cardinality(M) <= Cardinality(C \ O)
    BY <1>5, <1>7, FS_Injection
  <1>9. Cardinality(C) \in Nat /\ Cardinality(M) \in Nat /\ Cardinality(O) \in Nat
    BY <1>2, FS_CardinalityType
  <1>10. Cardinality(M) + Cardinality(O) <= Cardinality(C)
    BY <1>7, <1>8, <1>9
  <1> QED
    BY <1>9, <1>10 DEF C, M, O

\* Two classes of rows.
LEMMA TwoClasses ==
  ASSUME NEW A, IsFiniteSet(A), NEW B, IsFiniteSet(B), A \cap B = {}
  PROVE  /\ IsFiniteSet(A \cup B) /\ Cardinality(A) \in Nat /\ Cardinality(B) \in Nat
         /\ Cardinality(A \cup B) = Cardinality(A) + Cardinality(B)
  <1>1. Cardinality(A) \in Nat /\ Cardinality(B) \in Nat
    BY FS_CardinalityType
  <1>2. /\ IsFiniteSet(A \cup B)
        /\ Cardinality(A \cup B) = Cardinality(A) + Cardinality(B) - Cardinality(A \cap B)
    BY FS_Union
  <1>3. Cardinality(A \cap B) = 0
    BY FS_EmptySet
  <1> QED
    BY <1>1, <1>2, <1>3

\* Four classes of rows.
LEMMA FourClasses ==
  ASSUME NEW R, IsFiniteSet(R), NEW A, NEW B, NEW C, NEW D, R = ((A \cup B) \cup C) \cup D,
         A \cap B = {}, (A \cup B) \cap C = {}, ((A \cup B) \cup C) \cap D = {}
  PROVE  Cardinality(A) + Cardinality(B) + Cardinality(C) + Cardinality(D) = Cardinality(R)
  <1> DEFINE E == A \cup B
             F == E \cup C
  <1>1. IsFiniteSet(A) /\ IsFiniteSet(B) /\ IsFiniteSet(C) /\ IsFiniteSet(D)
    BY FS_Subset
  <1>2. /\ IsFiniteSet(E) /\ Cardinality(A) \in Nat /\ Cardinality(B) \in Nat
        /\ Cardinality(E) = Cardinality(A) + Cardinality(B)
    BY <1>1, TwoClasses
  <1>3. E \cap C = {} /\ F \cap D = {} /\ R = F \cup D
    OBVIOUS
  <1> HIDE DEF E
  <1>4. /\ IsFiniteSet(F) /\ Cardinality(C) \in Nat
        /\ Cardinality(F) = Cardinality(E) + Cardinality(C)
    BY <1>1, <1>2, <1>3, TwoClasses
  <1> HIDE DEF F
  <1>5. Cardinality(D) \in Nat /\ Cardinality(R) = Cardinality(F) + Cardinality(D)
    BY <1>1, <1>3, <1>4, TwoClasses
  <1> QED
    BY <1>2, <1>4, <1>5

\* What the sub-agents and the reviewer are seen to have spent is covered by the costs.
LEMMA CostsCovered ==
  ASSUME StatsInv, NEW w \in DOMAIN MCWindows, NEW p \in Sc!Populations
  PROVE  Sc!CostStats(w, p).orchestratorMax >=
           Sc!SumOf(LAMBDA r : r.orchestrator,
                    { r \in Sc!InPopulation(MCWindows[w], Sc!IsTestFlag(p)) : r.costed })
  <1> DEFINE rows == Sc!InPopulation(MCWindows[w], Sc!IsTestFlag(p))
             paid == { r \in rows : r.costed }
             c == [r \in rows |-> r.cost]
             m == [r \in rows |-> r.measured]
             o == [r \in rows |-> r.orchestrator]
  <1>1. IsFiniteSet(rows) /\ \A r \in rows : Sc!ReviewOK(r)
    <2>1. rows \subseteq v1
      BY DEF Sc!InPopulation
    <2> QED
      BY <2>1, FS_Subset DEF StatsInv
  <1>2. Sc!SumOf(LAMBDA r : r.orchestrator, paid) = Cardinality(Units(paid, o))
    <2>1. UNION { {x} \X (1..x.orchestrator) : x \in paid } = Units(paid, o)
      BY DEF Units
    <2> QED
      BY <2>1, SameSizeStats DEF Sc!SumOf
  <1>3. Sc!SumOf(LAMBDA r : r.cost, paid) = Cardinality(Units(paid, c))
    <2>1. UNION { {x} \X (1..x.cost) : x \in paid } = Units(paid, c)
      BY DEF Units
    <2> QED
      BY <2>1, SameSizeStats DEF Sc!SumOf
  <1>4. Sc!SumOf(Sc!SumApportionedSubAgentCost, rows) = Cardinality(Units(rows, m))
    <2>1. UNION { {x} \X (1..x.measured) : x \in rows } = Units(rows, m)
      BY DEF Units
    <2> QED
      BY <2>1, SameSizeStats DEF Sc!SumOf, Sc!SumApportionedSubAgentCost
  <1>5. /\ \A r \in rows : c[r] \in Nat /\ m[r] \in Nat /\ o[r] \in Nat
        /\ \A r \in paid : m[r] + o[r] <= c[r]
        /\ \A r \in rows \ paid : m[r] = 0
    BY <1>1 DEF Sc!ReviewOK
  <1>6. paid \in SUBSET rows
    OBVIOUS
  <1>7. Sc!CostStats(w, p).orchestratorMax
          = IF Sc!SumOf(LAMBDA r : r.cost, paid) > Sc!SumOf(Sc!SumApportionedSubAgentCost, rows)
            THEN Sc!SumOf(LAMBDA r : r.cost, paid) - Sc!SumOf(Sc!SumApportionedSubAgentCost, rows)
            ELSE 0
    BY DEF Sc!CostStats
  <1> HIDE DEF rows, paid, c, m, o
  <1>8. /\ Cardinality(Units(paid, c)) \in Nat /\ Cardinality(Units(rows, m)) \in Nat
        /\ Cardinality(Units(paid, o)) \in Nat
        /\ Cardinality(Units(rows, m)) + Cardinality(Units(paid, o)) <= Cardinality(Units(paid, c))
    BY <1>1, <1>5, <1>6, UnitsCovered
  <1>9. Sc!CostStats(w, p).orchestratorMax >= Sc!SumOf(LAMBDA r : r.orchestrator, paid)
    BY <1>2, <1>3, <1>4, <1>7, <1>8
  <1> QED
    BY <1>9 DEF paid, rows

\* Each failed review has one category of error.
LEMMA ErrorsCounted ==
  ASSUME StatsInv, NEW w \in DOMAIN MCWindows, NEW p \in Sc!Populations
  PROVE  LET errors == Sc!OperationalStats(w, p).errors IN
         errors["rate-limit"] + errors["no-result"] + errors["schema-validation"] + errors["other"]
           = Sc!IntegrityStats(w, p).errors
  <1> DEFINE rows == Sc!InPopulation(MCWindows[w], Sc!IsTestFlag(p))
             bad == { r \in rows : r.error # "none" }
             Of(k) == { r \in bad : Sc!ClassifyErrorMessage(r) = k }
             errors == Sc!OperationalStats(w, p).errors
  <1>1. IsFiniteSet(bad)
    <2>1. bad \subseteq v1
      BY DEF Sc!InPopulation
    <2> QED
      BY <2>1, FS_Subset DEF StatsInv
  <1>2. \A k \in Sc!ErrorCategories : errors[k] = Cardinality(Of(k))
    BY SameSizeStats DEF Sc!OperationalStats, Sc!ClassifyErrors
  <1>3. Sc!IntegrityStats(w, p).errors = Cardinality(bad)
    BY SameSizeStats DEF Sc!IntegrityStats
  <1>4. \A r \in bad : Sc!ClassifyErrorMessage(r) \in Sc!ErrorCategories
    BY DEF Sc!ClassifyErrorMessage, Sc!ClassifyErrorShape, Sc!ErrorCategories
  <1>5. bad = ((Of("rate-limit") \cup Of("no-result")) \cup Of("schema-validation")) \cup Of("other")
    BY <1>4 DEF Sc!ErrorCategories
  <1>6. /\ Of("rate-limit") \cap Of("no-result") = {}
        /\ (Of("rate-limit") \cup Of("no-result")) \cap Of("schema-validation") = {}
        /\ ((Of("rate-limit") \cup Of("no-result")) \cup Of("schema-validation")) \cap Of("other") = {}
    OBVIOUS
  <1> HIDE DEF bad, Of, errors
  <1>7. Cardinality(Of("rate-limit")) + Cardinality(Of("no-result"))
          + Cardinality(Of("schema-validation")) + Cardinality(Of("other")) = Cardinality(bad)
    BY <1>1, <1>5, <1>6, FourClasses
  <1>8. /\ errors["rate-limit"] = Cardinality(Of("rate-limit"))
        /\ errors["no-result"] = Cardinality(Of("no-result"))
        /\ errors["schema-validation"] = Cardinality(Of("schema-validation"))
        /\ errors["other"] = Cardinality(Of("other"))
    BY <1>2 DEF Sc!ErrorCategories
  <1>9. errors["rate-limit"] + errors["no-result"] + errors["schema-validation"] + errors["other"]
          = Sc!IntegrityStats(w, p).errors
    BY <1>3, <1>7, <1>8
  <1> QED
    BY <1>9 DEF errors

\* Each review of the window has an image of one class, and is of one population.
LEMMA ImagesCounted ==
  ASSUME StatsInv, NEW w \in DOMAIN MCWindows, NEW p \in Sc!Populations
  PROVE  LET drift == Sc!DriftStats(w).distribution  cost == Sc!CostStats(w, p) IN
         drift["sha"] + drift["unknown"] + drift["empty"] + drift["not-recorded"]
           = cost.n + cost.other
  <1> DEFINE rows == { r \in v1 : Sc!Recent(r.day, MCWindows[w]) }
             Of(k) == { r \in rows : r.sha = k }
             drift == Sc!DriftStats(w).distribution
             mine == Sc!InPopulation(MCWindows[w], Sc!IsTestFlag(p))
             theirs == Sc!InPopulation(MCWindows[w], ~ Sc!IsTestFlag(p))
  <1>1. IsFiniteSet(rows) /\ IsFiniteSet(mine) /\ IsFiniteSet(theirs)
    <2>1. rows \in SUBSET v1 /\ mine \in SUBSET v1 /\ theirs \in SUBSET v1
      BY DEF Sc!InPopulation
    <2> HIDE DEF rows, mine, theirs
    <2> QED
      BY <2>1, FS_Subset DEF StatsInv
  <1>2. \A r \in rows : r.sha \in Sc!ImageShaClasses /\ r.test \in BOOLEAN
    BY DEF StatsInv, Sc!ReviewOK
  <1>3. \A k \in Sc!ImageShaClasses : drift[k] = Cardinality(Of(k))
    <2>1. \A k : Of(k) = { r \in v1 : Sc!Recent(r.day, MCWindows[w]) /\ r.sha = k }
      OBVIOUS
    <2>2. drift = [k \in Sc!ImageShaClasses |->
            Cardinality({ r \in v1 : Sc!Recent(r.day, MCWindows[w]) /\ r.sha = k })]
      BY SameSizeStats DEF Sc!DriftStats
    <2> HIDE DEF drift, Of, rows
    <2> QED
      BY <2>1, <2>2
  <1>4. /\ Sc!CostStats(w, p).n = Cardinality(mine)
        /\ Sc!CostStats(w, p).other = Cardinality(theirs)
    BY SameSizeStats DEF Sc!CostStats, Sc!CountInWindowForPopulation
  <1>5. rows = mine \cup theirs /\ mine \cap theirs = {}
    BY <1>2 DEF Sc!InPopulation, Sc!IsTestFlag
  <1>6. rows = ((Of("sha") \cup Of("unknown")) \cup Of("empty")) \cup Of("not-recorded")
    BY <1>2 DEF Sc!ImageShaClasses
  <1>7. /\ Of("sha") \cap Of("unknown") = {}
        /\ (Of("sha") \cup Of("unknown")) \cap Of("empty") = {}
        /\ ((Of("sha") \cup Of("unknown")) \cup Of("empty")) \cap Of("not-recorded") = {}
    OBVIOUS
  <1> HIDE DEF rows, Of, drift, mine, theirs
  <1>8. Cardinality(rows) = Cardinality(mine) + Cardinality(theirs)
    BY <1>1, <1>5, TwoClasses
  <1>9. Cardinality(Of("sha")) + Cardinality(Of("unknown")) + Cardinality(Of("empty"))
          + Cardinality(Of("not-recorded")) = Cardinality(rows)
    BY <1>1, <1>6, <1>7, FourClasses
  <1>10. /\ drift["sha"] = Cardinality(Of("sha")) /\ drift["unknown"] = Cardinality(Of("unknown"))
         /\ drift["empty"] = Cardinality(Of("empty"))
         /\ drift["not-recorded"] = Cardinality(Of("not-recorded"))
    BY <1>3 DEF Sc!ImageShaClasses
  <1>11. drift["sha"] + drift["unknown"] + drift["empty"] + drift["not-recorded"]
           = Sc!CostStats(w, p).n + Sc!CostStats(w, p).other
    BY <1>4, <1>8, <1>9, <1>10
  <1> QED
    BY <1>11 DEF drift

\* The cards of a window agree, whatever is in the tables.
LEMMA CardsConsistent == ASSUME StatsInv PROVE Sc!CardsAgree
  <1> SUFFICES ASSUME NEW w \in DOMAIN MCWindows, NEW p \in Sc!Populations
               PROVE  \A q \in Sc!Populations \ {p} :
                        Sc!CostStats(w, p).other = Sc!QualityStats(w, q).n
    BY CostsCovered, ErrorsCounted, ImagesCounted DEF Sc!CardsAgree
  <1> TAKE q \in Sc!Populations \ {p}
  <1>1. (~ Sc!IsTestFlag(p)) = Sc!IsTestFlag(q)
    BY DEF Sc!Populations, Sc!IsTestFlag
  <1> QED
    BY <1>1 DEF Sc!CostStats, Sc!QualityStats

LEMMA StatsStart == Sc!Init => StatsInv
  BY FS_EmptySet DEF Sc!Init, StatsInv, Sc!Loading

\* The figures on the screen are of the window and the population the selectors show, whatever
\* order the answers come in.
LEMMA StatsSelected == AllSpec => [](part = "stats" => Sc!StatsAsSelected)
  <1>1. StatsInv => Sc!StatsAsSelected
    BY DEF StatsInv, Scope, Sc!StatsAsSelected
  <1>2. StatsInv /\ [Sc!Next]_(Sc!vars) => StatsInv'
    BY StatsStep
  <1> QED
    BY <1>1, <1>2, StatsStart, StatsMoves, StatsRests, PTL DEF Sc!Spec

-----------------------------------------------------------------------------
(* The sentences of the value card.  v1 is `rows`, v2 `listed`, v3         *)
(* `reviews` and v4 `missing`.                                             *)

LEMMA SameSizeValue == ASSUME NEW S PROVE Rv!Cardinality(S) = Cardinality(S)
  BY DEF Rv!Cardinality, Cardinality

\* A part of a finite set is as large as it only if it is all of it.
LEMMA PartCounted ==
  ASSUME NEW R, IsFiniteSet(R), NEW S \in SUBSET R
  PROVE  /\ IsFiniteSet(S) /\ Cardinality(S) \in Nat /\ Cardinality(R) \in Nat
         /\ Cardinality(S) <= Cardinality(R)
         /\ Cardinality(S) = Cardinality(R) => S = R
         /\ Cardinality(S) = 0 <=> S = {}
  BY FS_Subset, FS_CardinalityType, FS_EmptySet

\* What the batch job can leave in a row: a tie has no label, nor has what nobody voted on.
RowOK(r) ==
  /\ r \in Rv!Rows
  /\ r.saidConfidence \in {"split", "null"} => r.said = "null"

ValueInv ==
  /\ IsFiniteSet(v1) /\ \A r \in v1 : RowOK(r)
  /\ \A r \in v1, q \in v1 : r.find = q.find => r = q
  /\ IsFiniteSet(v2) /\ v2 \subseteq Problems
  /\ v3 \in Nat /\ v4 \in 0..v3

LEMMA ValueStart == Rv!Init => ValueInv
  BY FS_EmptySet DEF Rv!Init, ValueInv

\* A row that takes the place of another of the same finding.
LEMMA RowReplaced ==
  ASSUME ValueInv, NEW r \in v1, NEW q, RowOK(q), q.find = r.find, v1' = (v1 \ {r}) \cup {q},
         UNCHANGED << v2, v3, v4 >>
  PROVE  ValueInv'
  <1>1. IsFiniteSet(v1')
    BY FS_RemoveElement, FS_AddElement DEF ValueInv
  <1>2. \A x \in v1' : RowOK(x)
    BY DEF ValueInv
  <1>3. \A x \in v1', y \in v1' : x.find = y.find => x = y
    BY DEF ValueInv
  <1>4. (\A x \in v1 : RowOK(x))'
    BY <1>2 DEF RowOK, Rv!Rows
  <1> QED
    BY <1>1, <1>3, <1>4 DEF ValueInv

LEMMA ValueStep == ASSUME ValueInv, [Rv!Next]_(Rv!vars) PROVE ValueInv'
  <1>0. Rv!ParametersOK
    BY ValueAssumption
  <1>1. ASSUME NEW finds \in SUBSET Problems, NEW costed \in BOOLEAN, Rv!SaveReview(finds, costed)
        PROVE  ValueInv'
    <2>1. IsFiniteSet(finds) /\ IsFiniteSet(v2 \cup finds) /\ v2 \cup finds \subseteq Problems
      <3>1. IsFiniteSet(Problems)
        BY <1>0 DEF Rv!ParametersOK, Rv!IsFiniteSet, IsFiniteSet
      <3> QED
        BY <3>1, FS_Subset DEF ValueInv
    <2>2. v3' = v3 + 1 /\ v4' \in {v4, v4 + 1} /\ v2' = v2 \cup finds /\ v1' = v1
      BY <1>1 DEF Rv!SaveReview
    <2>3. v3' \in Nat /\ v4' \in 0..v3'
      BY <2>2 DEF ValueInv
    <2> QED
      BY <2>1, <2>2, <2>3 DEF ValueInv, RowOK, Rv!Rows
  <1>2. ASSUME NEW f \in WithFile, NEW t \in Swept, Rv!Trace(f, t) PROVE ValueInv'
    <2> DEFINE q == [find |-> f, evidence |-> t.evidence, lead |-> t.lead,
                     did |-> "null", didConfidence |-> "null",
                     said |-> "null", saidConfidence |-> "null"]
    <2>1. v1' = v1 \cup {q} /\ UNCHANGED << v2, v3, v4 >> /\ \A r \in v1 : r.find # f
      BY <1>2 DEF Rv!Trace
    <2>2. q.find = f /\ RowOK(q)
      BY <1>0 DEF Rv!ParametersOK, RowOK, Rv!Rows, Rv!Confidences
    <2> HIDE DEF q
    <2>3. IsFiniteSet(v1')
      BY <2>1, FS_AddElement DEF ValueInv
    <2>4. \A x \in v1' : RowOK(x)
      BY <2>1, <2>2 DEF ValueInv
    <2>5. \A x \in v1', y \in v1' : x.find = y.find => x = y
      BY <2>1, <2>2 DEF ValueInv
    <2>6. (\A x \in v1 : RowOK(x))'
      BY <2>4 DEF RowOK, Rv!Rows
    <2> QED
      BY <2>1, <2>3, <2>5, <2>6 DEF ValueInv
  <1>3. ASSUME NEW r \in v1, NEW b \in DidVotes, Rv!JudgeDid(r, b) PROVE ValueInv'
    <2> DEFINE q == [r EXCEPT !.did = b.did, !.didConfidence = b.confidence]
    <2>1. v1' = (v1 \ {r}) \cup {q} /\ UNCHANGED << v2, v3, v4 >>
      BY <1>3 DEF Rv!JudgeDid
    <2>2. RowOK(r)
      BY DEF ValueInv
    <2>3. q.find = r.find /\ RowOK(q)
      BY <1>0, <2>2 DEF Rv!ParametersOK, RowOK, Rv!Rows
    <2> HIDE DEF q
    <2> QED
      BY <2>1, <2>3, RowReplaced
  <1>4. ASSUME NEW r \in v1, NEW b \in SaidVotes, Rv!JudgeSaid(r, b) PROVE ValueInv'
    <2> DEFINE q == [r EXCEPT !.said = b.said, !.saidConfidence = b.confidence]
    <2>1. v1' = (v1 \ {r}) \cup {q} /\ UNCHANGED << v2, v3, v4 >>
      BY <1>4 DEF Rv!JudgeSaid
    <2>2. RowOK(r)
      BY DEF ValueInv
    <2>3. q.find = r.find /\ RowOK(q)
      BY <1>0, <2>2 DEF Rv!ParametersOK, RowOK, Rv!Rows
    <2> HIDE DEF q
    <2> QED
      BY <2>1, <2>3, RowReplaced
  <1>5. CASE UNCHANGED Rv!vars
    <2>1. UNCHANGED << v1, v2, v3, v4 >>
      BY <1>5 DEF Rv!vars
    <2>2. (\A r \in v1 : RowOK(r))' = \A r \in v1 : RowOK(r)
      BY <2>1 DEF RowOK, Rv!Rows
    <2> QED
      BY <2>1, <2>2 DEF ValueInv
  <1> QED
    BY <1>1, <1>2, <1>3, <1>4, <1>5 DEF Rv!Next

\* A row is of a finding of its own: rows are counted by their findings.
LEMMA FindsCounted ==
  ASSUME ValueInv, NEW S \in SUBSET v1
  PROVE  /\ IsFiniteSet({ r.find : r \in S })
         /\ Cardinality({ r.find : r \in S }) = Cardinality(S)
  <1> DEFINE T == { r.find : r \in S }
             f == [r \in S |-> r.find]
  <1>1. IsFiniteSet(S)
    BY PartCounted DEF ValueInv
  <1>2. f \in Bijection(S, T)
    BY DEF ValueInv, Bijection, Injection, IsInjective, Surjection
  <1> HIDE DEF T, f
  <1>3. IsFiniteSet(T) /\ Cardinality(T) = Cardinality(S)
    BY <1>1, <1>2, FS_Bijection DEF ExistsBijection
  <1> QED
    BY <1>3 DEF T

\* The counts of the card, and when a part of the rows is none or all of them.
LEMMA ValueCounts ==
  ASSUME ValueInv
  PROVE  /\ Rv!Traced = Cardinality(v1) /\ Cardinality(v1) \in Nat /\ Cardinality(v2) \in Nat
         /\ Rv!FindingsRaised
              = IF Cardinality(v2) > Cardinality(v1) THEN Cardinality(v2) ELSE Cardinality(v1)
         /\ Rv!NoFileAnchor = Cardinality(v2 \ WithFile)
         /\ \A S \in SUBSET v1 :
              /\ Rv!Cardinality(S) = Cardinality(S) /\ Cardinality(S) \in 0..Cardinality(v1)
              /\ Cardinality(S) = 0 <=> S = {}
              /\ Cardinality(S) = Cardinality(v1) <=> S = v1
  <1>1. IsFiniteSet(v1) /\ IsFiniteSet(v2)
    BY DEF ValueInv
  <1>2. Cardinality(v1) \in Nat /\ Cardinality(v2) \in Nat
    BY <1>1, FS_CardinalityType
  <1>3. /\ Rv!Cardinality(v1) = Cardinality(v1) /\ Rv!Cardinality(v2) = Cardinality(v2)
        /\ Rv!Cardinality(v2 \ WithFile) = Cardinality(v2 \ WithFile)
    BY SameSizeValue
  <1>4. ASSUME NEW S \in SUBSET v1
        PROVE  /\ Rv!Cardinality(S) = Cardinality(S) /\ Cardinality(S) \in 0..Cardinality(v1)
               /\ Cardinality(S) = 0 <=> S = {}
               /\ Cardinality(S) = Cardinality(v1) <=> S = v1
    BY <1>1, SameSizeValue, PartCounted
  <1> QED
    BY <1>2, <1>3, <1>4 DEF Rv!Traced, Rv!FindingsRaised, Rv!NoFileAnchor

\* With one source the findings without a thread are counted by the gap, and those without a
\* file are among them.
LEMMA GapCounted ==
  ASSUME ValueInv, Rv!OneSource
  PROVE  /\ Rv!FindingsRaised = Cardinality(v2) /\ Cardinality(v1) <= Cardinality(v2)
         /\ Rv!Untraceable = Cardinality(v2 \ Rv!Threaded)
         /\ Cardinality(v2 \ Rv!Threaded) \in Nat
         /\ Cardinality(v2 \ Rv!Threaded) = 0 <=> v2 \ Rv!Threaded = {}
         /\ v2 \ WithFile \subseteq v2 \ Rv!Threaded
         /\ Cardinality(v2 \ WithFile) \in 0..Cardinality(v2 \ Rv!Threaded)
         /\ Cardinality(v2 \ WithFile) = 0 <=> v2 \ WithFile = {}
         /\ Cardinality(v2 \ WithFile) = Cardinality(v2 \ Rv!Threaded)
              => v2 \ WithFile = v2 \ Rv!Threaded
  <1> DEFINE T == Rv!Threaded
             G == v2 \ T
             N == v2 \ WithFile
  <1>1. T \subseteq v2 /\ T = { r.find : r \in v1 }
    BY DEF Rv!OneSource, Rv!Threaded
  <1>2. Cardinality(T) = Cardinality(v1)
    BY <1>1, FindsCounted
  <1>3. T \subseteq WithFile
    BY <1>1 DEF ValueInv, RowOK, Rv!Rows
  <1>4. IsFiniteSet(v2)
    BY DEF ValueInv
  <1> HIDE DEF T
  <1>5. /\ Cardinality(T) \in Nat /\ Cardinality(v2) \in Nat /\ Cardinality(T) <= Cardinality(v2)
        /\ IsFiniteSet(T)
    BY <1>1, <1>4, PartCounted
  <1>6. v2 \cap T = T
    BY <1>1
  <1>7. Cardinality(G) = Cardinality(v2) - Cardinality(T) /\ IsFiniteSet(G)
    BY <1>4, <1>5, <1>6, FS_Difference
  <1>8. N \subseteq G
    BY <1>3
  <1> HIDE DEF G, N
  <1>9. /\ Cardinality(N) \in Nat /\ Cardinality(G) \in Nat /\ Cardinality(N) <= Cardinality(G)
        /\ Cardinality(N) = Cardinality(G) => N = G
        /\ Cardinality(N) = 0 <=> N = {}
    BY <1>7, <1>8, PartCounted
  <1>10. Cardinality(G) = 0 <=> G = {}
    BY <1>7, PartCounted
  <1>11. Rv!FindingsRaised = Cardinality(v2) /\ Rv!Untraceable = Cardinality(G)
    BY <1>2, <1>5, <1>7, ValueCounts DEF Rv!Untraceable
  <1> QED
    BY <1>2, <1>5, <1>8, <1>9, <1>10, <1>11 DEF G, N, T

LEMMA PartSize ==
  ASSUME ValueInv, NEW S, S \subseteq v1
  PROVE  /\ Rv!Cardinality(S) = Cardinality(S) /\ Cardinality(S) \in Nat
         /\ Cardinality(S) <= Cardinality(v1) /\ Cardinality(v1) \in Nat
         /\ Cardinality(S) = 0 <=> S = {}
         /\ Cardinality(S) = Cardinality(v1) <=> S = v1
  BY PartCounted, SameSizeValue DEF ValueInv

LEMMA TraceabilityHolds == ASSUME ValueInv, v1 # {} PROVE Rv!TraceabilityTrue
  <1> DEFINE u == Rv!Untraceable
             a == Rv!NoFileAnchor
             raised == Rv!FindingsRaised
             told == Rv!BuildTraceabilityNote
  <1>1. /\ raised \in Nat /\ raised > 0 /\ u \in Nat
    <2>1. Cardinality(v1) \in Nat /\ Cardinality(v1) # 0
      BY PartCounted DEF ValueInv
    <2> QED
      BY <2>1, ValueCounts DEF Rv!Untraceable
  <1>2. a \in Nat
    BY ValueCounts, PartCounted DEF ValueInv
  <1>3. /\ u = 0 => told = IF a = 0 THEN "all-have-a-thread" ELSE "counting-differently"
        /\ u > 0 => told = IF a > u THEN "counting-differently" ELSE IF a = 0 THEN "unexplained"
                           ELSE IF a = u THEN "accounted-for" ELSE "partly-explained"
    <2>1. CASE u = 0
      BY <1>1, <2>1 DEF Rv!BuildTraceabilityNote
    <2>2. CASE u > 0
      BY <1>1, <2>2 DEF Rv!BuildTraceabilityNote
    <2> QED
      BY <1>1, <2>1, <2>2
  <1>4. told = "counting-differently" <=> a > u
    <2>1. CASE u = 0
      BY <1>2, <1>3, <2>1
    <2>2. CASE u > 0
      BY <1>2, <1>3, <2>2
    <2> QED
      BY <1>1, <2>1, <2>2
  <1>5. ASSUME Rv!OneSource
        PROVE  LET gap == v2 \ Rv!Threaded
               IN /\ told \notin {"nothing-raised", "counting-differently"}
                  /\ told = "all-have-a-thread" => gap = {}
                  /\ told = "unexplained" => gap # {} /\ gap \subseteq WithFile
                  /\ told = "accounted-for" => gap # {} /\ gap = v2 \ WithFile
                  /\ told = "partly-explained" => gap \cap WithFile # {} /\ gap \ WithFile # {}
    <2> DEFINE G == v2 \ Rv!Threaded
               N == v2 \ WithFile
    <2>1. /\ u = Cardinality(G) /\ a = Cardinality(N) /\ N \subseteq G /\ a <= u
          /\ u = 0 <=> G = {}
          /\ a = 0 <=> N = {}
          /\ a = u => N = G
      BY <1>5, GapCounted, ValueCounts
    <2>2. G \ WithFile = N
      BY <2>1
    <2>3. a < u => G \cap WithFile # {}
      BY <1>1, <1>2, <2>1, <2>2
    <2> HIDE DEF u, a, told
    <2>4. CASE u = 0
      BY <1>2, <1>3, <2>1, <2>4
    <2>5. CASE u > 0 /\ a = 0
      BY <1>3, <2>1, <2>2, <2>5
    <2>6. CASE u > 0 /\ a = u
      BY <1>1, <1>2, <1>3, <2>1, <2>6
    <2>7. CASE u > 0 /\ a > 0 /\ a # u
      BY <1>1, <1>2, <1>3, <2>1, <2>2, <2>3, <2>7
    <2> QED
      BY <1>1, <1>2, <2>4, <2>5, <2>6, <2>7
  <1> QED
    BY <1>4, <1>5 DEF Rv!TraceabilityTrue

LEMMA CoverageHolds == ASSUME ValueInv, v1 # {} PROVE Rv!CoverageTrue
  <1> DEFINE n == Cardinality(v1)
             j == Cardinality(Rv!Judged)
             raised == Rv!FindingsRaised
             u == Rv!Untraceable
             line == Rv!DescribeJudgedCoverage
             open == { r.find : r \in v1 \ Rv!Judged }
  <1>1. Rv!Judged \subseteq v1
    BY DEF Rv!Judged
  <1>2. /\ n \in Nat /\ n > 0 /\ j \in 0..n
        /\ j = n <=> Rv!Judged = v1
        /\ raised \in Nat /\ raised >= n /\ u = raised - n
        /\ Rv!Unjudgeable = raised - j /\ Rv!AwaitingDiff = n - j
    <2>1. n # 0
      BY PartCounted DEF ValueInv
    <2> QED
      BY <1>1, <2>1, ValueCounts DEF Rv!Untraceable, Rv!Unjudgeable, Rv!AwaitingDiff
  <1>3. open = {} <=> Rv!Judged = v1
    BY <1>1
  <1> HIDE DEF open
  <1>4. /\ line = IF raised - j = 0 THEN "all-judged"
                  ELSE IF n - j > 0 /\ u > 0 THEN "awaiting-and-never"
                  ELSE IF n - j > 0 THEN "awaiting"
                  ELSE IF ~ Rv!Reconciled THEN "never-not-established" ELSE "never-no-thread"
    BY <1>2 DEF Rv!DescribeJudgedCoverage
  <1>5. /\ line = "all-judged" <=> raised = j
        /\ line = "awaiting-and-never" <=> n > j /\ u > 0
        /\ line = "awaiting" <=> n > j /\ u = 0
        /\ line = "never-no-thread" => Rv!Reconciled
    <2> HIDE DEF line, u, n, j, raised
    <2>1. CASE raised = j
      BY <1>2, <1>4, <2>1
    <2>2. CASE raised # j /\ n > j /\ u > 0
      BY <1>2, <1>4, <2>2
    <2>3. CASE raised # j /\ n > j /\ u = 0
      BY <1>2, <1>4, <2>3
    <2>4. CASE raised # j /\ n = j
      BY <1>2, <1>4, <2>4
    <2> QED
      BY <1>2, <2>1, <2>2, <2>3, <2>4
  <1>6. ASSUME Rv!OneSource
        PROVE  /\ line \in {"all-judged", "awaiting"} <=> v2 \ Rv!Threaded = {}
               /\ line = "never-no-thread" => v2 \ Rv!Threaded = v2 \ WithFile
    <2>1. u = 0 <=> v2 \ Rv!Threaded = {}
      BY <1>6, GapCounted
    <2>2. Rv!Reconciled => v2 \ Rv!Threaded = v2 \ WithFile
      BY <1>6, GapCounted, ValueCounts DEF Rv!Reconciled
    <2> HIDE DEF line, u, n, j, raised
    <2> QED
      BY <1>2, <1>5, <2>1, <2>2
  <1> HIDE DEF line, u, n, j, raised
  <1>7. /\ line = "all-judged" => open = {}
        /\ line \in {"awaiting", "awaiting-and-never"} <=> open # {}
        /\ Rv!Unjudgeable = Rv!AwaitingDiff + u
        /\ line = "awaiting-and-never" => Rv!Unjudgeable >= 2
    BY <1>2, <1>3, <1>5
  <1> QED
    BY <1>6, <1>7 DEF Rv!CoverageTrue, line, u, open

LEMMA CaptionHolds == ASSUME ValueInv PROVE Rv!CaptionTrue
  <1> DEFINE J == Rv!Judged
             Of(l) == { r \in J : r.did = l }
  <1>1. J \subseteq v1 /\ IsFiniteSet(J)
    BY PartCounted DEF ValueInv, Rv!Judged
  <1>2. J = ((Of("ADDRESSED") \cup Of("not")) \cup Of("UNKNOWN")) \cup Of("SPLIT")
    BY <1>1 DEF ValueInv, RowOK, Rv!Rows, Rv!Judged, Rv!DidLabels
  <1>3. Cardinality(Of("ADDRESSED")) + Cardinality(Of("not")) + Cardinality(Of("UNKNOWN"))
          + Cardinality(Of("SPLIT")) = Cardinality(J)
    <2>1. /\ Of("ADDRESSED") \cap Of("not") = {}
          /\ (Of("ADDRESSED") \cup Of("not")) \cap Of("UNKNOWN") = {}
          /\ ((Of("ADDRESSED") \cup Of("not")) \cup Of("UNKNOWN")) \cap Of("SPLIT") = {}
      OBVIOUS
    <2> HIDE DEF Of, J
    <2> QED
      BY <1>1, <1>2, <2>1, FourClasses
  <1>4. \A l \in Rv!DidLabels : Rv!DidBreakdown[l] = Cardinality(Of(l))
    <2>1. \A l \in Rv!DidLabels : Rv!DidBreakdown[l] = Rv!Cardinality(Of(l))
      BY DEF Rv!DidBreakdown
    <2> QED
      BY <2>1, SameSizeValue
  <1>5. Rv!Cardinality(J) = Cardinality(J)
    BY SameSizeValue
  <1>6. /\ Rv!DescribeVerdictCaption = "every-row-agreed" => Rv!Unanimous # {} /\ J = Rv!Unanimous
        /\ Rv!DescribeVerdictCaption = "no-row-agreed" => J # {} /\ Rv!Unanimous = {}
    BY DEF Rv!DescribeVerdictCaption
  <1>7. Rv!DescribeAddressed = "no-rate" => Rv!Addressed = {}
    BY DEF Rv!DescribeAddressed, Rv!Addressed, Rv!Judged
  <1>8. {"ADDRESSED", "not", "UNKNOWN", "SPLIT"} \subseteq Rv!DidLabels
    BY DEF Rv!DidLabels
  <1> HIDE DEF Of, J
  <1> QED
    BY <1>3, <1>4, <1>5, <1>6, <1>7, <1>8 DEF Rv!CaptionTrue, J

LEMMA EngagementHolds == ASSUME ValueInv, v1 # {} PROVE Rv!EngagementTrue
  <1> DEFINE n == Cardinality(v1)
             e == Cardinality(Rv!Engaged)
             s == Cardinality(Rv!Silent)
             raised == Rv!FindingsRaised
             u == Rv!Untraceable
             R == Rv!Engaged \cup Rv!Silent
             line == Rv!DescribeEngagement
  <1>1. R \subseteq v1 /\ Rv!Engaged \subseteq v1 /\ Rv!Silent \subseteq v1
    BY DEF Rv!Engaged, Rv!Silent
  <1>2. Rv!Engaged \cap Rv!Silent = {}
    BY DEF Rv!Engaged, Rv!Silent, Rv!HasEngagedEvidence
  <1>3. Cardinality(R) = e + s /\ e \in Nat /\ s \in Nat
    <2>1. IsFiniteSet(Rv!Engaged) /\ IsFiniteSet(Rv!Silent)
      BY <1>1, PartCounted DEF ValueInv
    <2> QED
      BY <1>2, <2>1, TwoClasses
  <1>4. /\ n \in Nat /\ Cardinality(R) \in 0..n
        /\ Cardinality(R) = n <=> R = v1
        /\ Cardinality(R) = 0 <=> R = {}
        /\ raised \in Nat /\ raised >= n /\ u = raised - n
        /\ Rv!Cardinality(Rv!Engaged) = e /\ Rv!Cardinality(Rv!Silent) = s
        /\ Rv!Unrecorded = n - e - s
    <2>1. raised \in Nat /\ raised >= n /\ u = raised - n /\ Rv!Traced = n
      BY ValueCounts DEF Rv!Untraceable
    <2>2. Rv!Cardinality(Rv!Engaged) = e /\ Rv!Cardinality(Rv!Silent) = s
      BY SameSizeValue
    <2>3. Rv!Unrecorded = n - e - s
      BY <2>1, <2>2 DEF Rv!Unrecorded
    <2> HIDE DEF n, e, s, raised, u, R
    <2>4. /\ n \in Nat /\ Cardinality(R) \in Nat /\ Cardinality(R) <= n
          /\ Cardinality(R) = n <=> R = v1
          /\ Cardinality(R) = 0 <=> R = {}
      BY <1>1, PartSize DEF n
    <2> QED
      BY <2>1, <2>2, <2>3, <2>4
  <1>5. /\ line.value = IF e + s = 0 THEN "no-readable-signal" ELSE "of-the-readable"
        /\ line.contrast <=> e + s > 0 /\ e + s < raised
        /\ line.named = Rv!Unrecorded + u
    BY <1>4 DEF Rv!DescribeEngagement
  <1>6. ASSUME Rv!OneSource, R = v1, u = 0 PROVE v2 = { r.find : r \in R }
    <2>1. v2 \ Rv!Threaded = {}
      BY <1>6, GapCounted
    <2> QED
      BY <1>6, <2>1 DEF Rv!OneSource, Rv!Threaded
  <1>7. R = {} <=> Rv!Engaged = {} /\ Rv!Silent = {}
    OBVIOUS
  <1> HIDE DEF n, e, s, raised, u, line, R
  <1>8. /\ line.value = "no-readable-signal" <=> R = {}
        /\ line.contrast <=> R # {} /\ line.named > 0
        /\ line.named >= 0 /\ Rv!Unrecorded >= 0
        /\ line.named = 0 => R = v1 /\ u = 0
    <2>1. line.value = "no-readable-signal" <=> e + s = 0
      BY <1>5
    <2>2. line.named = raised - e - s
      BY <1>3, <1>4, <1>5
    <2> QED
      BY <1>3, <1>4, <1>5, <2>1, <2>2
  <1> QED
    BY <1>6, <1>7, <1>8 DEF Rv!EngagementTrue, line, R, u

LEMMA DisputeHolds == ASSUME ValueInv, v1 # {} PROVE Rv!DisputeTrue
  <1> DEFINE V == { r \in v1 : r.saidConfidence # "null" }
             line == Rv!DescribeDisputed
             reason == Rv!BuildDisputedNotMeasuredReason
  <1>1. /\ Rv!Tied \subseteq V /\ V \subseteq v1 /\ Rv!NoBallot = v1 \ V
        /\ Rv!Labelled \subseteq V /\ Rv!Tied \cap Rv!Labelled = {}
        /\ Rv!Disputed \subseteq Rv!Labelled
    BY DEF ValueInv, RowOK, Rv!Tied, Rv!NoBallot, Rv!Labelled, Rv!Disputed
  <1>2. Rv!Unrecognized \in Nat /\ (Rv!Unrecognized = 0 <=> Rv!Tied = V)
    <2>1. IsFiniteSet(Rv!Tied) /\ IsFiniteSet(Rv!NoBallot) /\ IsFiniteSet(V)
      BY <1>1, PartCounted DEF ValueInv
    <2>2. v1 = V \cup Rv!NoBallot /\ V \cap Rv!NoBallot = {}
      BY <1>1
    <2> HIDE DEF V
    <2>3. /\ Cardinality(v1) = Cardinality(V) + Cardinality(Rv!NoBallot)
          /\ Cardinality(V) \in Nat /\ Cardinality(Rv!NoBallot) \in Nat
      BY <2>1, <2>2, TwoClasses
    <2>4. /\ Cardinality(Rv!Tied) \in Nat /\ Cardinality(Rv!Tied) <= Cardinality(V)
          /\ Cardinality(Rv!Tied) = Cardinality(V) => Rv!Tied = V
      BY <1>1, <2>1, PartCounted
    <2>5. Rv!Unrecognized = Cardinality(v1) - Cardinality(Rv!Tied) - Cardinality(Rv!NoBallot)
      BY <1>1, ValueCounts DEF Rv!Unrecognized
    <2> QED
      BY <2>3, <2>4, <2>5
  <1>3. /\ Rv!NotYetClassified \cup Rv!NoReply = Rv!NoBallot
        /\ reason.parts = { p \in {"tied", "unread", "no-reply", "unreadable"} :
             CASE p = "tied" -> Rv!Tied # {} [] p = "unread" -> Rv!NotYetClassified # {}
               [] p = "no-reply" -> Rv!NoReply # {} [] p = "unreadable" -> Rv!Unrecognized > 0 }
    BY DEF Rv!NotYetClassified, Rv!NoReply, Rv!BuildDisputedNotMeasuredReason
  <1>4. reason.parts # {}
    <2>1. CASE Rv!Tied # {}
      BY <1>3, <2>1
    <2>2. CASE Rv!NotYetClassified # {}
      BY <1>3, <2>2
    <2>3. CASE Rv!NoReply # {}
      BY <1>3, <2>3
    <2>4. CASE Rv!Unrecognized > 0
      BY <1>3, <2>4
    <2>5. Rv!Tied # {} \/ Rv!NoBallot # {} \/ Rv!Tied # V
      BY <1>1
    <2>6. CASE Rv!NoBallot # {}
      BY <1>3, <2>2, <2>3, <2>6
    <2>7. CASE Rv!Tied # V
      <3>1. Rv!Unrecognized > 0
        BY <1>2, <2>7
      <3> QED
        BY <2>4, <3>1
    <2> QED
      BY <2>1, <2>5, <2>6, <2>7
  <1>5. reason.zero =
          CASE Rv!Tied # {} /\ Rv!Unrecognized > 0 -> "readable-votes-disagreed"
            [] Rv!Tied = {} /\ Rv!Unrecognized > 0 -> "cannot-tell"
            [] Rv!Tied # {} /\ Rv!Unrecognized = 0 -> "votes-disagreed"
            [] Rv!Tied = {} /\ Rv!Unrecognized = 0 -> "nothing-recorded"
    BY DEF Rv!BuildDisputedNotMeasuredReason
  <1>6. /\ reason.zero = "nothing-recorded" <=> V = {}
        /\ reason.zero = "votes-disagreed" <=> V # {} /\ V = Rv!Tied
        /\ reason.zero = "cannot-tell" <=> V # {} /\ Rv!Tied = {}
    <2> HIDE DEF V, reason
    <2>1. CASE Rv!Tied # {} /\ Rv!Unrecognized > 0
      <3>1. reason.zero = "readable-votes-disagreed"
        BY <1>5, <2>1
      <3> QED
        BY <1>1, <1>2, <2>1, <3>1
    <2>2. CASE Rv!Tied = {} /\ Rv!Unrecognized > 0
      <3>1. reason.zero = "cannot-tell"
        BY <1>5, <2>2
      <3> QED
        BY <1>1, <1>2, <2>2, <3>1
    <2>3. CASE Rv!Tied # {} /\ Rv!Unrecognized = 0
      <3>1. reason.zero = "votes-disagreed"
        BY <1>5, <2>3
      <3> QED
        BY <1>1, <1>2, <2>3, <3>1
    <2>4. CASE Rv!Tied = {} /\ Rv!Unrecognized = 0
      <3>1. reason.zero = "nothing-recorded"
        BY <1>5, <2>4
      <3> QED
        BY <1>1, <1>2, <2>4, <3>1
    <2> QED
      BY <1>2, <2>1, <2>2, <2>3, <2>4
  <1>7. CASE Rv!Labelled = {}
    <2>1. line.value = "not-yet-measured" /\ line.reason = reason
      BY <1>7 DEF Rv!DescribeDisputed
    <2> HIDE DEF line, reason, V
    <2> QED
      BY <1>4, <1>6, <1>7, <2>1 DEF Rv!DisputeTrue, line, V
  <1>8. CASE Rv!Labelled # {}
    <2> DEFINE O == { r \in Rv!Disputed : r.did = "null" }
               m == Cardinality(Rv!Labelled)
    <2>1. /\ line.value = "count" /\ line.of = Rv!Cardinality(Rv!Labelled)
          /\ line.zero <=> Rv!Disputed = {}
          /\ line.unlabelled = Rv!FindingsRaised - Rv!Cardinality(Rv!Labelled)
          /\ line.unjudged = IF O = {} THEN "none" ELSE IF O = Rv!Disputed THEN "all" ELSE "some"
      BY <1>8 DEF Rv!DescribeDisputed
    <2>2. /\ Rv!Labelled \subseteq v1 /\ Rv!Cardinality(Rv!Labelled) = m /\ m > 0
          /\ m \in 0..Cardinality(v1)
          /\ m = Cardinality(v1) <=> Rv!Labelled = v1
          /\ Cardinality(v1) \in Nat
          /\ Rv!FindingsRaised \in Nat /\ Rv!FindingsRaised >= Cardinality(v1)
      BY <1>1, <1>8, ValueCounts
    <2>3. line.of + line.unlabelled = Rv!FindingsRaised /\ line.of > 0 /\ line.unlabelled >= 0
      BY <2>1, <2>2
    <2>4. line.zero => line.unjudged = "none"
      BY <2>1
    <2>5. line.unjudged = "all" => Rv!Disputed # {} /\ Rv!Disputed \cap Rv!Judged = {}
      BY <2>1 DEF Rv!Judged
    <2>6. line.unjudged = "none" => Rv!Disputed \subseteq Rv!Judged
      <3>1. Rv!Disputed \subseteq v1
        BY DEF Rv!Disputed
      <3> QED
        BY <2>1, <3>1 DEF Rv!Judged
    <2>7. ASSUME Rv!OneSource, line.unlabelled = 0 PROVE v2 = { r.find : r \in Rv!Labelled }
      <3>1. Rv!FindingsRaised = m
        BY <2>1, <2>2, <2>7
      <3>2. Rv!Labelled = v1 /\ Rv!Untraceable = 0
        BY <2>2, <3>1, ValueCounts DEF Rv!Untraceable
      <3>3. v2 \ Rv!Threaded = {}
        BY <2>7, <3>2, GapCounted
      <3> QED
        BY <2>7, <3>2, <3>3 DEF Rv!OneSource, Rv!Threaded
    <2> HIDE DEF line, m, O
    <2> QED
      BY <1>1, <2>1, <2>3, <2>4, <2>5, <2>6, <2>7 DEF Rv!DisputeTrue, line
  <1> QED
    BY <1>7, <1>8

LEMMA SpendHolds == ASSUME ValueInv, v1 # {}, v3 > 0 PROVE Rv!SpendTrue
  <1> DEFINE j == Cardinality(Rv!Judged)
             raised == Rv!FindingsRaised
  <1>1. v3 \in Nat /\ v4 \in 0..v3
    BY DEF ValueInv
  <1>2. Rv!Judged \subseteq v1 /\ Rv!Addressed \subseteq v1
    BY DEF Rv!Judged, Rv!Addressed
  <1>3. /\ Rv!Cardinality(Rv!Judged) = j /\ j \in 0..Cardinality(v1) /\ Cardinality(v1) \in Nat
        /\ j = Cardinality(v1) <=> Rv!Judged = v1
        /\ raised \in Nat /\ raised >= Cardinality(v1)
        /\ Rv!Untraceable = raised - Cardinality(v1)
    BY <1>2, ValueCounts DEF Rv!Untraceable
  <1>4. Rv!Cardinality(Rv!Addressed) > 0 <=> Rv!Addressed # {}
    <2>1. /\ Rv!Cardinality(Rv!Addressed) = Cardinality(Rv!Addressed)
          /\ Cardinality(Rv!Addressed) = 0 <=> Rv!Addressed = {}
          /\ Cardinality(Rv!Addressed) \in Nat
      BY <1>2, ValueCounts
    <2> QED
      BY <2>1
  <1>5. Rv!PerAddressed <=> Rv!Addressed # {} /\ v4 # v3
    BY <1>1, <1>4 DEF Rv!PerAddressed
  <1>6. Rv!DescribeSpend = IF v4 = v3 THEN "not-recorded"
                           ELSE IF Rv!Addressed = {} THEN "nothing-acted-on" ELSE "per-finding"
    BY <1>1, <1>5 DEF Rv!DescribeSpend
  <1>7. Rv!NumeratorState = IF v4 > 0 THEN "floor" ELSE "exact"
    BY DEF Rv!NumeratorState
  <1>8. Rv!DenominatorState = IF j >= raised THEN "settled" ELSE "will-grow"
    BY <1>3 DEF Rv!DenominatorState
  <1>9. Rv!BuildSpendNote = IF v4 > 0 THEN IF j >= raised THEN "at-least" ELSE "rough"
                            ELSE IF j >= raised THEN "complete" ELSE "at-most"
    BY <1>1, <1>7, <1>8 DEF Rv!BuildSpendNote
  <1>10. Rv!SpendSection = "neutral" <=> v4 = 0 /\ j >= raised
    BY <1>1, <1>7, <1>8 DEF Rv!SpendSection
  <1>11. ASSUME j >= raised PROVE Rv!Judged = v1 /\ (Rv!OneSource => v2 = Rv!Threaded)
    <2>1. Rv!Judged = v1 /\ Rv!Untraceable = 0
      BY <1>3, <1>11
    <2>2. Rv!OneSource => v2 \ Rv!Threaded = {}
      BY <2>1, GapCounted
    <2> QED
      BY <2>1, <2>2 DEF Rv!OneSource
  <1> HIDE DEF j, raised
  <1>12. /\ Rv!DescribeSpend = "not-recorded" <=> v4 = v3
         /\ Rv!DescribeSpend = "nothing-acted-on" => Rv!Addressed = {}
         /\ Rv!DescribeSpend = "per-finding" => Rv!Addressed # {} /\ v4 < v3
    BY <1>1, <1>6
  <1>13. /\ Rv!BuildSpendNote # "zero"
         /\ Rv!BuildSpendNote = "complete" <=> Rv!SpendSection = "neutral"
         /\ Rv!BuildSpendNote \in {"complete", "at-least"} => j >= raised
         /\ Rv!BuildSpendNote \in {"complete", "at-most"} <=> v4 = 0
    <2>1. CASE v4 > 0 /\ j >= raised
      BY <1>1, <1>9, <1>10, <2>1
    <2>2. CASE v4 > 0 /\ ~ (j >= raised)
      BY <1>1, <1>9, <1>10, <2>2
    <2>3. CASE v4 = 0 /\ j >= raised
      BY <1>1, <1>9, <1>10, <2>3
    <2>4. CASE v4 = 0 /\ ~ (j >= raised)
      BY <1>1, <1>9, <1>10, <2>4
    <2> QED
      BY <1>1, <2>1, <2>2, <2>3, <2>4
  <1> QED
    BY <1>11, <1>12, <1>13 DEF Rv!SpendTrue

LEMMA LeadTimeHolds == ASSUME ValueInv, v1 # {} PROVE Rv!LeadTimeTrue
  <1> DEFINE K == Rv!Before \cup Rv!After
             line == Rv!DescribeLeadTime
  <1>1. K \subseteq v1 /\ K = { r \in v1 : r.lead # "null" }
    BY DEF ValueInv, RowOK, Rv!Rows, Rv!Before, Rv!After
  <1>2. /\ Rv!UnrecordedLead \in Nat
        /\ Rv!UnrecordedLead = 0 <=> K = v1
    <2> HIDE DEF K
    <2>1. Rv!UnrecordedLead = Cardinality(v1) - Cardinality(K)
      BY <1>1, ValueCounts DEF Rv!UnrecordedLead, K
    <2>2. /\ Cardinality(K) \in Nat /\ Cardinality(K) <= Cardinality(v1) /\ Cardinality(v1) \in Nat
          /\ Cardinality(K) = Cardinality(v1) <=> K = v1
      BY <1>1, PartSize
    <2> QED
      BY <2>1, <2>2
  <1>3. /\ line.head = IF K = {} THEN IF Rv!UnrecordedLead = 0 THEN "no-findings" ELSE "none-recorded"
                       ELSE IF Rv!Before = {} THEN "no-median" ELSE "median"
        /\ line.unrecorded <=> Rv!UnrecordedLead > 0
    BY DEF Rv!DescribeLeadTime
  <1>4. /\ line.head # "no-findings"
        /\ line.head = "none-recorded" <=> \A r \in v1 : r.lead = "null"
    BY <1>1, <1>2, <1>3
  <1>5. line.head = "no-median" => Rv!After # {} /\ Rv!Before = {}
    BY <1>3
  <1>6. line.unrecorded <=> \E r \in v1 : r.lead = "null"
    BY <1>1, <1>2, <1>3
  <1> HIDE DEF line
  <1> QED
    BY <1>4, <1>5, <1>6 DEF Rv!LeadTimeTrue, line

\* Each sentence holds of every set of findings the batch job can leave.
LEMMA SentencesHold == ASSUME ValueInv PROVE Rv!SentencesTrue
  <1>1. SUFFICES ASSUME v1 # {}, v3 > 0
                 PROVE  /\ Rv!TraceabilityTrue /\ Rv!CoverageTrue /\ Rv!CaptionTrue
                        /\ Rv!EngagementTrue /\ Rv!DisputeTrue /\ Rv!SpendTrue
                        /\ Rv!LeadTimeTrue
    BY DEF Rv!SentencesTrue, Rv!Ready
  <1> QED
    BY <1>1, TraceabilityHolds, CoverageHolds, CaptionHolds, EngagementHolds, DisputeHolds,
       SpendHolds, LeadTimeHolds

-----------------------------------------------------------------------------
(* The status ribbon.  v1 is `head`, v2 `kept`, v3 `mounted`, v4           *)
(* `services`, v5 `image`, v6 `rows`, v7 `load`, v8 `drift`, v9            *)
(* `integrity` and v10 `config`.                                           *)

LEMMA SameSizeRibbon == ASSUME NEW S PROVE Rb!Cardinality(S) = Cardinality(S)
  BY DEF Rb!Cardinality, Cardinality

LEMMA RibbonConstants ==
  /\ IsFiniteSet(Shas) /\ "null" \notin Shas /\ IsFiniteSet(Checkers)
  /\ History \in [Shas -> SUBSET Shas]
  /\ ModelNames \cap {"null", "none"} = {}
  /\ Declared \in [Shas -> [Checkers -> ModelNames \cup {"none"}]]
  /\ \A k \in Doings : Rb!RunOK(k)
  BY RibbonAssumption DEF Rb!ParametersOK, Rb!IsFiniteSet, IsFiniteSet

\* What is built, saved and told: a stamp is the commit of the build or none, and a distance was
\* counted, at some commit, from the stamp of a build.
Stamped(b) == b.from \in Shas /\ b.sha \in {b.from, "null"}

SavedRows(data) == IsFiniteSet(data) /\ \A r \in data : Stamped(r) /\ Rb!RunOK(r)

Latest(l) == l.sha = "null" \/ Stamped(l)

Counted(d, b, top) ==
  \/ d.behind = Rb!NoDistance
  \/ /\ top # "null" /\ b.sha \in Shas /\ d.at \in Shas
     /\ d.behind = Cardinality(History[d.at] \ History[b.sha])

IntegrityRead(i) ==
  /\ i.status \in {"ready", "empty", "loading", "error", "none"}
  /\ i.status = "ready" => SavedRows(i.rows)

DriftRead(d) ==
  d.status = "ready" =>
    /\ Stamped(d.services) /\ Latest(d.latest)
    /\ Counted(d.compose, d.services, d.head) /\ Counted(d.spawned, d.latest, d.head)

BatchRead(l, b) ==
  /\ l = [step |-> l.step, integrity |-> l.integrity, head |-> l.head, latest |-> l.latest,
          compose |-> l.compose, spawned |-> l.spawned]
  /\ IntegrityRead(l.integrity)
  /\ l.step = "counting" =>
       /\ Latest(l.latest)
       /\ l.compose # Rb!NoAnswer => Counted(l.compose, b, l.head)
       /\ l.spawned # Rb!NoAnswer => Counted(l.spawned, l.latest, l.head)
  /\ l.step = "asked" => l.compose = Rb!NoAnswer /\ l.spawned = Rb!NoAnswer

ConfigRead(c) ==
  c \in {Rb!Loading, Rb!Failed} \cup { [status |-> "ready", pins |-> Declared[k]] : k \in Shas }

\* Runs are numbered as they come, so that one is the latest of those with a commit.
Numbered(data) ==
  /\ \A r \in data : r.n \in 1..Cardinality(data)
  /\ \A r \in data : r.sha \in Shas =>
       \E k \in data : k.sha \in Shas /\ \A o \in data : o.sha \in Shas => o.n <= k.n

RibbonInv ==
  /\ Numbered(v6)
  /\ v1 \in Shas /\ Stamped(v4) /\ Stamped(v5) /\ SavedRows(v6)
  /\ BatchRead(v7, v4) /\ DriftRead(v8) /\ IntegrityRead(v9) /\ ConfigRead(v10)

LEMMA NewBatch == \A step : step # "counting" => BatchRead(Rb!Batch(step), v4)
  BY DEF BatchRead, IntegrityRead, Rb!Batch, Rb!NoAnswer

LEMMA RibbonStart == Rb!Init => RibbonInv
  <1> SUFFICES ASSUME Rb!Init PROVE RibbonInv
    OBVIOUS
  <1>1. Stamped(v4) /\ Stamped(v5) /\ v1 \in Shas
    BY DEF Rb!Init, Stamped
  <1>2. SavedRows(v6) /\ Numbered(v6)
    BY FS_EmptySet DEF Rb!Init, SavedRows, Numbered
  <1>3. BatchRead(v7, v4)
    BY NewBatch DEF Rb!Init
  <1> QED
    BY <1>1, <1>2, <1>3 DEF RibbonInv, Rb!Init, Rb!Loading, DriftRead, IntegrityRead, ConfigRead

\* A distance is of the build it is asked for, counted where HEAD is.
LEMMA DistanceCounted ==
  ASSUME v1 \in Shas, NEW b, NEW ok
  PROVE  Counted(Rb!Distance(b.sha, ok), b, v7.head)
  BY SameSizeRibbon DEF Counted, Rb!Distance, Rb!ClassifyImageSha, Rb!ComputeCommitsBehindHead,
    Rb!NoDistance

LEMMA MostRecentStamped == ASSUME SavedRows(v6), Numbered(v6) PROVE Latest(Rb!MostRecent)
  <1> DEFINE known == { r \in v6 : Rb!ClassifyImageSha(r.sha) = "sha" }
  <1>1. CASE known = {}
    BY <1>1 DEF Rb!MostRecent, Latest
  <1>2. CASE known # {}
    <2>1. PICK r : /\ r = (CHOOSE k \in known : \A o \in known : o.n <= k.n)
                   /\ Rb!MostRecent = [status |-> "ready", from |-> r.from, sha |-> r.sha]
      BY <1>2 DEF Rb!MostRecent
    <2>2. \E k \in known : \A o \in known : o.n <= k.n
      BY <1>2 DEF Numbered, Rb!ClassifyImageSha
    <2>3. r \in v6
      BY <2>1, <2>2
    <2> QED
      BY <2>1, <2>3 DEF SavedRows, Latest, Stamped
  <1> QED
    BY <1>1, <1>2

\* A saved run is numbered last and has the image's stamp.
LEMMA RunSaved ==
  ASSUME NEW kind, NEW k, SavedRows(v6), Numbered(v6), Stamped(v5), Rb!RunOK(k), Rb!Save(kind, k)
  PROVE  SavedRows(v6') /\ Numbered(v6')
  <1> DEFINE r == [kind |-> kind, n |-> Rb!Cardinality(v6) + 1, from |-> v5.from, sha |-> v5.sha,
                   usage |-> k.usage, ran |-> k.ran, roster |-> k.roster]
  <1>1. v6' = v6 \cup {r}
    BY DEF Rb!Save
  <1>2. Stamped(r) /\ Rb!RunOK(r) /\ r.n = Cardinality(v6) + 1
    BY SameSizeRibbon DEF Stamped, Rb!RunOK
  <1> HIDE DEF r
  <1>3. SavedRows(v6')
    BY <1>1, <1>2, FS_AddElement DEF SavedRows
  <1>4. Cardinality(v6) \in Nat /\ \A k_ \in v6 : k_.n \in 1..Cardinality(v6)
    BY FS_CardinalityType DEF Numbered, SavedRows
  <1>5. Cardinality(v6') = Cardinality(v6) + 1
    <2>1. r \notin v6
      BY <1>2, <1>4
    <2> QED
      BY <1>1, <2>1, FS_AddElement DEF SavedRows
  <1>6. \A o \in v6' : o.n \in 1..Cardinality(v6') /\ o.n <= r.n
    BY <1>1, <1>2, <1>4, <1>5
  <1>7. Numbered(v6')
    <2>1. CASE r.sha \in Shas
      BY <1>1, <1>6, <2>1 DEF Numbered
    <2>2. CASE r.sha \notin Shas
      BY <1>1, <1>6, <2>2 DEF Numbered
    <2> QED
      BY <2>1, <2>2
  <1> QED
    BY <1>3, <1>7

\* The reviews among them.
LEMMA ReviewsSaved == ASSUME SavedRows(v6) PROVE SavedRows(Rb!Reviews)
  BY FS_Subset DEF SavedRows, Rb!Reviews

LEMMA RibbonStep == ASSUME RibbonInv, [Rb!Next]_(Rb!vars) PROVE RibbonInv'
  <1>0. /\ Numbered(v6) /\ v1 \in Shas /\ Stamped(v4) /\ Stamped(v5) /\ SavedRows(v6)
        /\ BatchRead(v7, v4) /\ DriftRead(v8) /\ IntegrityRead(v9) /\ ConfigRead(v10)
    BY DEF RibbonInv
  <1> DEFINE Same == /\ Numbered(v6') /\ Stamped(v4') /\ Stamped(v5') /\ SavedRows(v6') /\ v1' \in Shas
                     /\ BatchRead(v7', v4') /\ DriftRead(v8') /\ IntegrityRead(v9')
                     /\ ConfigRead(v10')
  <1> SUFFICES Same
    BY DEF RibbonInv
  <1> HIDE DEF Same
  <1>1. ASSUME NEW c \in Shas, NEW pruned \in BOOLEAN, Rb!MoveHead(c, pruned) PROVE Same
    BY <1>0, <1>1 DEF Rb!MoveHead, Same
  <1>2. ASSUME NEW s \in {v1, "null"}, Rb!BuildImage(s) PROVE Same
    BY <1>0, <1>2 DEF Rb!BuildImage, Same, Stamped
  <1>3. ASSUME NEW s \in {v1, "null"}, NEW mount \in BOOLEAN, Rb!Deploy(s, mount) PROVE Same
    <2>1. Stamped(v4')
      BY <1>0, <1>3 DEF Rb!Deploy, Stamped
    <2>2. BatchRead(v7', v4')
      <3>1. CASE v7.step = "none"
        BY <1>0, <1>3, <3>1 DEF Rb!Deploy, BatchRead
      <3>2. CASE v7.step # "none"
        <4>1. v7' = Rb!Batch("broken")
          BY <1>3, <3>2 DEF Rb!Deploy
        <4> QED
          BY <4>1 DEF BatchRead, IntegrityRead, Rb!Batch, Rb!NoAnswer
      <3> QED
        BY <3>1, <3>2
    <2>3. ConfigRead(v10')
      BY <1>0, <1>3 DEF Rb!Deploy, ConfigRead
    <2> QED
      BY <1>0, <1>3, <2>1, <2>2, <2>3 DEF Rb!Deploy, Same
  <1>4. ASSUME NEW k \in Doings, Rb!SaveReview(k) PROVE Same
    BY <1>0, <1>4, RunSaved, RibbonConstants DEF Rb!SaveReview, Rb!Save, Same
  <1>5. CASE Rb!LoadStatsForWindow
    <2>1. BatchRead(v7', v4')
      BY <1>5 DEF Rb!LoadStatsForWindow, BatchRead, IntegrityRead, Rb!Batch, Rb!NoAnswer
    <2> QED
      BY <1>0, <1>5, <2>1 DEF Rb!LoadStatsForWindow, Same, DriftRead, IntegrityRead, Rb!Loading
  <1>6. ASSUME NEW ok \in BOOLEAN, Rb!ServeHead(ok) PROVE Same
    <2>1. v7' = [step |-> "counting", integrity |-> v7.integrity, head |-> Rb!ResolveHeadSha(ok),
                 latest |-> Rb!MostRecent, compose |-> v7.compose, spawned |-> v7.spawned]
      BY <1>0, <1>6 DEF Rb!ServeHead, BatchRead
    <2>2. v7.compose = Rb!NoAnswer /\ v7.spawned = Rb!NoAnswer /\ IntegrityRead(v7.integrity)
      BY <1>0, <1>6 DEF Rb!ServeHead, BatchRead
    <2>3. BatchRead(v7', v4')
      BY <1>0, <2>1, <2>2, MostRecentStamped DEF BatchRead
    <2> QED
      BY <1>0, <1>6, <2>3 DEF Rb!ServeHead, Same
  <1>7. ASSUME NEW ok \in BOOLEAN, Rb!ServeCompose(ok) PROVE Same
    <2> DEFINE d == Rb!Distance(v4.sha, ok)
    <2>1. v7' = [step |-> v7.step, integrity |-> v7.integrity, head |-> v7.head,
                 latest |-> v7.latest, compose |-> d, spawned |-> v7.spawned]
      BY <1>0, <1>7 DEF Rb!ServeCompose, BatchRead
    <2>2. Counted(d, v4, v7.head) /\ v7.step = "counting" /\ v4' = v4
      BY <1>0, <1>7, DistanceCounted DEF Rb!ServeCompose
    <2> HIDE DEF d
    <2>3. BatchRead(v7', v4')
      BY <1>0, <2>1, <2>2 DEF BatchRead
    <2> QED
      BY <1>0, <1>7, <2>3 DEF Rb!ServeCompose, Same
  <1>8. ASSUME NEW ok \in BOOLEAN, Rb!ServeSpawned(ok) PROVE Same
    <2> DEFINE d == Rb!Distance(v7.latest.sha, ok)
    <2>1. v7' = [step |-> v7.step, integrity |-> v7.integrity, head |-> v7.head,
                 latest |-> v7.latest, compose |-> v7.compose, spawned |-> d]
      BY <1>0, <1>8 DEF Rb!ServeSpawned, BatchRead
    <2>2. Counted(d, v7.latest, v7.head) /\ v7.step = "counting" /\ v4' = v4
      BY <1>0, <1>8, DistanceCounted DEF Rb!ServeSpawned
    <2> HIDE DEF d
    <2>3. BatchRead(v7', v4')
      BY <1>0, <2>1, <2>2 DEF BatchRead
    <2> QED
      BY <1>0, <1>8, <2>3 DEF Rb!ServeSpawned, Same
  <1>9. CASE Rb!ServeIntegrity
    <2> DEFINE i == IF Rb!Reviews = {} THEN [status |-> "empty"]
                ELSE [status |-> "ready", rows |-> Rb!Reviews]
    <2>1. v7' = [step |-> v7.step, integrity |-> i, head |-> v7.head,
                 latest |-> v7.latest, compose |-> v7.compose, spawned |-> v7.spawned]
      BY <1>0, <1>9 DEF Rb!ServeIntegrity, BatchRead
    <2>2. IntegrityRead(i)
      BY <1>0, ReviewsSaved DEF IntegrityRead
    <2> HIDE DEF i
    <2>3. BatchRead(v7', v4)
      BY <1>0, <2>1, <2>2 DEF BatchRead
    <2> QED
      BY <1>0, <1>9, <2>3 DEF Rb!ServeIntegrity, Same
  <1>10. ASSUME NEW broken \in SUBSET {"drift", "integrity"}, Rb!Land(broken) PROVE Same
    <2>1. BatchRead(v7', v4')
      BY <1>10 DEF Rb!Land, BatchRead, IntegrityRead, Rb!Batch, Rb!NoAnswer
    <2>2. IntegrityRead(v9')
      BY <1>0, <1>10 DEF Rb!Land, BatchRead, IntegrityRead, Rb!Failed
    <2>3. DriftRead(v8')
      <3>1. CASE "drift" \in broken
        BY <1>10, <3>1 DEF Rb!Land, DriftRead, Rb!Failed
      <3>2. CASE "drift" \notin broken
        <4>1. /\ v7.step = "counting" /\ v7.compose # Rb!NoAnswer /\ v7.spawned # Rb!NoAnswer
              /\ v8' = [status |-> "ready", head |-> v7.head, services |-> v4,
                        latest |-> v7.latest, compose |-> v7.compose, spawned |-> v7.spawned]
          BY <1>10, <3>2 DEF Rb!Land
        <4>2. /\ Latest(v7.latest) /\ Counted(v7.compose, v4, v7.head)
              /\ Counted(v7.spawned, v7.latest, v7.head)
          BY <1>0, <4>1 DEF BatchRead
        <4> QED
          BY <1>0, <4>1, <4>2 DEF DriftRead
      <3> QED
        BY <3>1, <3>2
    <2> QED
      BY <1>0, <1>10, <2>1, <2>2, <2>3 DEF Rb!Land, Same
  <1>11. CASE Rb!LoadConfigReport
    BY <1>0, <1>11 DEF Rb!LoadConfigReport, Same, ConfigRead
  <1>12. ASSUME NEW ok \in BOOLEAN, Rb!LandConfigReport(ok) PROVE Same
    <2>1. ConfigRead(v10')
      BY <1>0, <1>12 DEF Rb!LandConfigReport, ConfigRead, Stamped
    <2> QED
      BY <1>0, <1>12, <2>1 DEF Rb!LandConfigReport, Same
  <1>13. CASE Rb!SaveReflection
    <2> DEFINE k == [usage |-> {}, ran |-> {}, roster |-> {}]
    <2>1. Rb!RunOK(k)
      BY FS_EmptySet DEF Rb!RunOK, Rb!IsFiniteSet, IsFiniteSet
    <2> QED
      BY <1>0, <1>13, <2>1, RunSaved DEF Rb!SaveReflection, Rb!Save, Same
  <1>14. CASE UNCHANGED Rb!vars
    BY <1>0, <1>14 DEF Rb!vars, Same
  <1> QED
    BY <1>1, <1>2, <1>3, <1>4, <1>5, <1>6, <1>7, <1>8, <1>9, <1>10, <1>11, <1>12, <1>13, <1>14
    DEF Rb!Next

\* A distance is told as none just when nothing of HEAD is missing from the build.
LEMMA DistanceTold ==
  ASSUME NEW d, NEW b, NEW top, Latest(b), Counted(d, b, top)
  PROVE  /\ Rb!DistanceTrue(Rb!BuildProvenanceRow(b.sha, d), d, b)
         /\ Rb!BuildProvenanceRow(b.sha, d) = "in-sync"
              <=> top # "null" /\ Rb!ClassifyImageSha(b.sha) = "sha" /\ d.behind = 0
         /\ Rb!BuildProvenanceRow(b.sha, d) \in {"in-sync", "behind", "unknown", "nothing"}
         /\ top = "null" => Rb!BuildProvenanceRow(b.sha, d) \in {"unknown", "nothing"}
         /\ d.behind = Rb!NoDistance \/ d.behind \in Nat
  <1>1. CASE d.behind = Rb!NoDistance
    BY <1>1 DEF Rb!DistanceTrue, Rb!BuildProvenanceRow, Rb!FormatDistance, Rb!NoDistance,
      Rb!ClassifyImageSha
  <1>2. CASE d.behind # Rb!NoDistance
    <2>1. /\ top # "null" /\ b.sha \in Shas /\ d.at \in Shas
          /\ d.behind = Cardinality(History[d.at] \ History[b.sha])
      BY <1>2 DEF Counted
    <2>2. b.sha = b.from /\ Rb!ClassifyImageSha(b.sha) = "sha"
      BY <2>1, RibbonConstants DEF Latest, Stamped, Rb!ClassifyImageSha
    <2> DEFINE gap == History[d.at] \ History[b.sha]
    <2>3. IsFiniteSet(gap)
      <3>1. gap \subseteq Shas
        BY <2>1, RibbonConstants
      <3> QED
        BY <3>1, RibbonConstants, FS_Subset
    <2>4. gap = {} <=> History[d.at] \subseteq History[b.from]
      BY <2>2
    <2> HIDE DEF gap
    <2>5. d.behind \in Nat /\ (d.behind = 0 <=> gap = {})
      BY <2>1, <2>3, FS_CardinalityType, FS_EmptySet DEF gap
    <2> QED
      BY <2>1, <2>2, <2>4, <2>5 DEF Rb!DistanceTrue, Rb!BuildProvenanceRow, Rb!FormatDistance,
        Rb!NoDistance
  <1> QED
    BY <1>1, <1>2

LEMMA DriftHolds == ASSUME RibbonInv PROVE Rb!DriftTrue
  <1> SUFFICES ASSUME v8.status = "ready" PROVE Rb!DriftTrue
    BY DEF Rb!DriftTrue
  <1>1. /\ Stamped(v8.services) /\ Latest(v8.services) /\ Latest(v8.latest)
        /\ Counted(v8.compose, v8.services, v8.head) /\ Counted(v8.spawned, v8.latest, v8.head)
    BY DEF RibbonInv, DriftRead, Latest
  <1> DEFINE compose == Rb!BuildProvenanceRow(v8.services.sha, v8.compose)
             spawned == Rb!BuildProvenanceRow(v8.latest.sha, v8.spawned)
  <1>2. /\ Rb!DistanceTrue(compose, v8.compose, v8.services)
        /\ compose = "in-sync" <=> /\ v8.head # "null" /\ v8.compose.behind = 0
                                   /\ Rb!ClassifyImageSha(v8.services.sha) = "sha"
        /\ v8.head = "null" => compose \in {"unknown", "nothing"}
        /\ v8.compose.behind = Rb!NoDistance \/ v8.compose.behind \in Nat
    BY <1>1, DistanceTold
  <1>3. /\ Rb!DistanceTrue(spawned, v8.spawned, v8.latest)
        /\ v8.head = "null" => spawned \in {"unknown", "nothing"}
    BY <1>1, DistanceTold
  <1> HIDE DEF compose, spawned
  <1>4. Rb!AssessDrift(v8) = "ok" <=> compose = "in-sync"
    BY <1>2 DEF Rb!AssessDrift, Rb!NoDistance
  <1>5. v8.head = "null" => {compose, spawned} \subseteq {"unknown", "nothing"}
    BY <1>2, <1>3
  <1> QED
    BY <1>2, <1>3, <1>4, <1>5 DEF Rb!DriftTrue, compose, spawned

\* The entries of finitely many reviews are finitely many.
LEMMA EntriesFinite ==
  ASSUME NEW data, IsFiniteSet(data), NEW f, \A r \in data : IsFiniteSet(f[r])
  PROVE  IsFiniteSet(UNION { {r.n} \X f[r] : r \in data })
  <1> DEFINE g == [r \in data |-> {r.n} \X f[r]]
             T == { g[r] : r \in data }
  <1>1. IsFiniteSet(T)
    <2>1. g \in Surjection(data, T)
      BY DEF Surjection
    <2> QED
      BY <2>1, FS_Surjection
  <1>2. ASSUME NEW r \in data PROVE IsFiniteSet(g[r])
    <2>1. IsFiniteSet({r.n}) /\ IsFiniteSet(f[r])
      BY FS_Singleton
    <2>2. IsFiniteSet({r.n} \X f[r])
      BY <2>1, FS_Product
    <2> QED
      BY <2>2
  <1>3. \A t \in T : IsFiniteSet(t)
    BY <1>2
  <1>4. UNION { {r.n} \X f[r] : r \in data } = UNION T
    OBVIOUS
  <1> HIDE DEF T
  <1> QED
    BY <1>1, <1>3, <1>4, FS_UNION

\* An entry is one of a review's, and an entry with a model is of a dispatch.
LEMMA EntryOf ==
  ASSUME NEW data, SavedRows(data)
  PROVE  LET entries == Rb!AggregateSubAgentModelAttribution(data)
         IN /\ \A e \in entries : /\ e[2].agent \in Checkers
                                  /\ \E r \in data : e[2] \in r.roster /\ e = << r.n, e[2] >>
            /\ \A r \in data : \A x \in r.roster : << r.n, x >> \in entries
            /\ IsFiniteSet(entries)
            /\ IsFiniteSet(UNION { {r.n} \X r.ran : r \in data })
  <1> DEFINE entries == Rb!AggregateSubAgentModelAttribution(data)
             roster == [r \in data |-> r.roster]
             ran == [r \in data |-> r.ran]
  <1>1. /\ IsFiniteSet(data)
        /\ \A r \in data : /\ IsFiniteSet(r.roster) /\ IsFiniteSet(r.ran)
                           /\ \A x \in r.roster : x.agent \in Checkers
    BY DEF SavedRows, Rb!RunOK, Rb!IsFiniteSet, IsFiniteSet
  <1>2. \A e \in entries : \E r \in data : \E x \in r.roster : e = << r.n, x >>
    BY DEF Rb!AggregateSubAgentModelAttribution
  <1>3. \A r \in data : \A x \in r.roster : << r.n, x >> \in entries
    BY DEF Rb!AggregateSubAgentModelAttribution
  <1>4. IsFiniteSet(entries)
    <2>1. IsFiniteSet(UNION { {r.n} \X roster[r] : r \in data })
      <3>1. \A r \in data : IsFiniteSet(roster[r])
        BY <1>1
      <3> HIDE DEF roster
      <3> QED
        BY <1>1, <3>1, EntriesFinite
    <2>2. UNION { {r.n} \X roster[r] : r \in data } = entries
      BY DEF Rb!AggregateSubAgentModelAttribution
    <2> QED
      BY <2>1, <2>2
  <1>5. IsFiniteSet(UNION { {r.n} \X r.ran : r \in data })
    <2>1. IsFiniteSet(UNION { {r.n} \X ran[r] : r \in data })
      <3>1. \A r \in data : IsFiniteSet(ran[r])
        BY <1>1
      <3> HIDE DEF ran
      <3> QED
        BY <1>1, <3>1, EntriesFinite
    <2>2. UNION { {r.n} \X ran[r] : r \in data } = UNION { {r.n} \X r.ran : r \in data }
      OBVIOUS
    <2> QED
      BY <2>1, <2>2
  <1> HIDE DEF entries
  <1>6. \A e \in entries : /\ e[2].agent \in Checkers
                           /\ \E r \in data : e[2] \in r.roster /\ e = << r.n, e[2] >>
    BY <1>1, <1>2
  <1> QED
    BY <1>3, <1>4, <1>5, <1>6 DEF entries

\* What the sentence says, by the entries it was made of.
LEMMA SentenceTold ==
  ASSUME NEW data, SavedRows(data), NEW pins \in [Checkers -> ModelNames \cup {"none"}]
  PROVE  LET card == Rb!AssessModelIntegrity(data, pins)
             entries == Rb!AggregateSubAgentModelAttribution(data)
         IN /\ card.status = "ok" =>
                 /\ \A r \in data : r.usage \cap Flagged = {}
                 /\ \A e \in entries : pins[e[2].agent] \in {"none", e[2].model}
            /\ card.clear <=> card.off = 0
            /\ card.off <= Cardinality(Rb!RanOffPin(data, pins))
                           + Cardinality({ e \in entries : e[2].model = "null" })
            /\ card.pinned = Cardinality({ a \in Checkers : pins[a] # "none" })
            /\ card.pinned - card.notObserved =
                 Cardinality({ a \in Checkers :
                     pins[a] # "none" /\ \E e \in entries : e[2].agent = a })
  <1> DEFINE card == Rb!AssessModelIntegrity(data, pins)
             entries == Rb!AggregateSubAgentModelAttribution(data)
             off == { e \in entries : pins[e[2].agent] \notin {"none", e[2].model} }
             seen(a) == \E e \in entries : e[2].agent = a
             wrong(a) == \E e \in off : e[2].agent = a
             known == { a \in Checkers : pins[a] # "none" /\ seen(a) }
             unseen == { a \in Checkers : pins[a] # "none" /\ ~ seen(a) }
             bad == { a \in Checkers : pins[a] # "none" /\ seen(a) /\ wrong(a) }
             unread == { e \in entries : e[2].model = "null" }
             dispatches == UNION { {r.n} \X r.ran : r \in data }
             ranOff == { d \in dispatches : pins[d[2].agent] \notin {"none", d[2].model} }
  <1>1. /\ \A e \in entries : /\ e[2].agent \in Checkers
                              /\ \E r \in data : e[2] \in r.roster /\ e = << r.n, e[2] >>
        /\ IsFiniteSet(entries) /\ IsFiniteSet(dispatches)
    BY EntryOf
  <1>2. /\ off = Rb!OffPin(data, pins) /\ ranOff = Rb!RanOffPin(data, pins)
        /\ off \subseteq entries
    BY DEF Rb!OffPin, Rb!RanOffPin
  <1> HIDE DEF entries
  <1>3. \A a \in Checkers :
          /\ Rb!AgentStatus(data, pins, a) = "attention" <=> pins[a] # "none" /\ seen(a) /\ wrong(a)
          /\ Rb!AgentStatus(data, pins, a) = "not-observed" <=> pins[a] # "none" /\ ~ seen(a)
          /\ Rb!AgentStatus(data, pins, a) = "ok" <=> pins[a] # "none" /\ seen(a) /\ ~ wrong(a)
    BY <1>2 DEF Rb!AgentStatus, Rb!Observed, entries
  <1>4. /\ { a \in Checkers : Rb!AgentStatus(data, pins, a) = "attention" } = bad
        /\ { a \in Checkers : Rb!AgentStatus(data, pins, a) = "not-observed" } = unseen
        /\ { a \in Checkers : Rb!AgentStatus(data, pins, a) = "ok" }
             \cup { a \in Checkers : Rb!AgentStatus(data, pins, a) = "attention" } = known
    BY <1>3
  <1> HIDE DEF seen, wrong
  <1>5. /\ card.status = "ok" <=> Rb!FlaggedModels(data) = {} /\ bad = {}
        /\ card.clear <=> bad = {}
        /\ card.off = Cardinality(off) /\ card.notObserved = Cardinality(unseen)
        /\ card.pinned = Cardinality(known) + Cardinality(unseen)
    BY <1>2, <1>4, SameSizeRibbon DEF Rb!AssessModelIntegrity
  <1>6. bad = {} <=> off = {}
    <2>1. \A e \in off : e[2].agent \in bad
      BY <1>1 DEF seen, wrong
    <2>2. \A a \in bad : \E e \in off : e[2].agent = a
      BY DEF wrong
    <2> HIDE DEF bad, off
    <2> QED
      BY <2>1, <2>2
  <1>7. /\ IsFiniteSet(off) /\ IsFiniteSet(unread) /\ IsFiniteSet(ranOff)
        /\ IsFiniteSet(known) /\ IsFiniteSet(unseen)
    BY <1>1, RibbonConstants, FS_Subset
  <1>8. off \subseteq ranOff \cup unread
    <2> SUFFICES ASSUME NEW e \in off, e[2].model # "null" PROVE e \in ranOff
      OBVIOUS
    <2>1. PICK r \in data : e[2] \in r.roster /\ e = << r.n, e[2] >>
      BY <1>1
    <2>2. /\ r.roster \subseteq [agent : Checkers, model : ModelNames \cup {"null"}]
          /\ r.ran \subseteq [agent : Checkers, model : ModelNames]
      BY DEF SavedRows, Rb!RunOK
    <2>3. PICK d \in r.ran : d.agent = e[2].agent /\ e[2].model \in {d.model, "null"}
      BY <2>1 DEF SavedRows, Rb!RunOK
    <2>4. d = e[2]
      BY <2>1, <2>2, <2>3
    <2>5. << r.n, d >> \in dispatches
      OBVIOUS
    <2> QED
      BY <2>1, <2>4, <2>5
  <1>9. { a \in Checkers : pins[a] # "none" } = known \cup unseen /\ known \cap unseen = {}
    OBVIOUS
  <1>10. ASSUME bad = {}, NEW e \in entries PROVE pins[e[2].agent] \in {"none", e[2].model}
    BY <1>6, <1>10
  <1>11. known = { a \in Checkers : pins[a] # "none" /\ \E e \in entries : e[2].agent = a }
    BY DEF seen
  <1>12. Rb!FlaggedModels(data) = {} => \A r \in data : r.usage \cap Flagged = {}
    BY DEF Rb!FlaggedModels
  <1> HIDE DEF card, off, known, unseen, bad, unread, dispatches, ranOff
  <1>13. Cardinality(off) \in Nat /\ (Cardinality(off) = 0 <=> off = {})
    BY <1>7, FS_CardinalityType, FS_EmptySet
  <1>14. Cardinality(off) <= Cardinality(ranOff) + Cardinality(unread)
    <2>1. IsFiniteSet(ranOff \cup unread) /\ Cardinality(off) <= Cardinality(ranOff \cup unread)
      BY <1>7, <1>8, FS_Union, FS_Subset
    <2>2. /\ Cardinality(ranOff \cup unread)
               = Cardinality(ranOff) + Cardinality(unread) - Cardinality(ranOff \cap unread)
          /\ Cardinality(ranOff \cap unread) \in Nat
      BY <1>7, FS_Union, FS_Intersection, FS_CardinalityType
    <2> QED
      BY <1>7, <1>13, <2>1, <2>2, FS_CardinalityType
  <1>15. /\ Cardinality(known \cup unseen) = Cardinality(known) + Cardinality(unseen)
         /\ Cardinality(known) \in Nat /\ Cardinality(unseen) \in Nat
    <2>1. Cardinality(known) \in Nat /\ Cardinality(unseen) \in Nat
      BY <1>7, FS_CardinalityType
    <2>2. Cardinality(known \cap unseen) = 0
      BY <1>9, FS_EmptySet
    <2>3. Cardinality(known \cup unseen)
            = Cardinality(known) + Cardinality(unseen) - Cardinality(known \cap unseen)
      BY <1>7, FS_Union
    <2> QED
      BY <2>1, <2>2, <2>3
  <1>16. card.pinned - card.notObserved = Cardinality(known)
    BY <1>5, <1>15
  <1> QED
    BY <1>2, <1>5, <1>6, <1>9, <1>10, <1>11, <1>12, <1>13, <1>14, <1>15, <1>16
    DEF card, unread, entries

LEMMA ModelsHold == ASSUME RibbonInv PROVE Rb!ModelsTrue
  <1> SUFFICES ASSUME Rb!BuildModelIntegrityCard.status \in {"ok", "attention"}
               PROVE  Rb!ModelsTrue
    BY DEF Rb!ModelsTrue
  <1>1. v9.status = "ready" /\ SavedRows(v9.rows)
    BY DEF RibbonInv, IntegrityRead, Rb!BuildModelIntegrityCard
  <1>2. v10 # Rb!Loading /\ v10 # Rb!Failed
    BY <1>1 DEF Rb!BuildModelIntegrityCard, Rb!Loading
  <1>3. v10.pins \in [Checkers -> ModelNames \cup {"none"}]
    BY <1>2, RibbonConstants DEF RibbonInv, ConfigRead
  <1>4. Rb!BuildModelIntegrityCard = Rb!AssessModelIntegrity(v9.rows, v10.pins)
    BY <1>1, <1>2 DEF Rb!BuildModelIntegrityCard
  <1> DEFINE data == v9.rows
             pins == v10.pins
  <1>5. SavedRows(data) /\ pins \in [Checkers -> ModelNames \cup {"none"}]
    BY <1>1, <1>3
  <1> HIDE DEF data, pins
  <1>6. LET card == Rb!AssessModelIntegrity(data, pins)
            entries == Rb!AggregateSubAgentModelAttribution(data)
        IN /\ card.status = "ok" =>
                /\ \A r \in data : r.usage \cap Flagged = {}
                /\ \A e \in entries : pins[e[2].agent] \in {"none", e[2].model}
           /\ card.clear <=> card.off = 0
           /\ card.off <= Cardinality(Rb!RanOffPin(data, pins))
                          + Cardinality({ e \in entries : e[2].model = "null" })
           /\ card.pinned = Cardinality({ a \in Checkers : pins[a] # "none" })
           /\ card.pinned - card.notObserved =
                Cardinality({ a \in Checkers :
                    pins[a] # "none" /\ \E e \in entries : e[2].agent = a })
    BY <1>5, SentenceTold
  <1> QED
    BY <1>4, <1>6, SameSizeRibbon DEF Rb!ModelsTrue, data, pins

\* The value card never shows more of a part than of the whole, and no price where no cost was
\* recorded, though its counts come from separate queries over two tables and populations,
\* with reviews saved, findings judged and days passing between them; the cards of a window
\* agree with each other whatever is in the tables; each sentence of the card is true of the
\* findings it is about, however far the batch job has come; the ribbon calls nothing fine that
\* is not, wherever HEAD moves meanwhile; and the pools of the matrix's arms are complete for
\* every pull request it is through with.
THEOREM FiguresConsistent == AllSpec => []FiguresHold
  <1>1. StatsInv => Sc!ValueAddsUp /\ Sc!CardsAgree
    BY CardsConsistent DEF StatsInv, AddsUp, Sc!ValueAddsUp
  <1>2. StatsInv /\ [Sc!Next]_(Sc!vars) => StatsInv'
    BY StatsStep
  <1>3. Ex!Spec => []Ex!PoolsComplete
    BY MatrixAssumption, Ex!PoolsStayComplete, PTL
  <1>4. ValueInv => Rv!SentencesTrue
    BY SentencesHold
  <1>5. ValueInv /\ [Rv!Next]_(Rv!vars) => ValueInv'
    BY ValueStep
  <1>6. /\ (Sc!ValueAddsUp /\ Sc!CardsAgree) \/ ~ (part = "stats")
        /\ Ex!PoolsComplete \/ ~ (part = "matrix")
        /\ Rv!SentencesTrue \/ ~ (part = "value")
        /\ Rb!RibbonTrue \/ ~ (part = "ribbon")
        => FiguresHold
    BY DEF FiguresHold
  <1>7. Rv!Spec => []Rv!SentencesTrue
    BY <1>4, <1>5, ValueStart, PTL DEF Rv!Spec
  <1>8. RibbonInv => Rb!RibbonTrue
    BY DriftHolds, ModelsHold DEF Rb!RibbonTrue
  <1>9. RibbonInv /\ [Rb!Next]_(Rb!vars) => RibbonInv'
    BY RibbonStep
  <1>10. Rb!Spec => []Rb!RibbonTrue
    BY <1>8, <1>9, RibbonStart, PTL DEF Rb!Spec
  <1> QED
    BY <1>1, <1>2, <1>3, <1>6, <1>7, <1>10, StatsStart, StatsMoves, StatsRests, MatrixMoves,
       MatrixRests, ValueMoves, ValueRests, RibbonMoves, RibbonRests, PTL DEF Sc!Spec

-----------------------------------------------------------------------------
(* The log viewer.  v1 is `log`, v3 `polls`, v4 `stream`, v5 `viewer` and  *)
(* v6 `fetches`.                                                           *)

LEMMA SameSizeLogs == ASSUME NEW S PROVE Lv!Cardinality(S) = Cardinality(S)
  BY DEF Lv!Cardinality, Cardinality

\* A finite set of ids has a sequence in ascending order: the id with k smaller ones comes
\* after k others.
LEMMA OrderedSeq ==
  ASSUME NEW S \in SUBSET Nat, IsFiniteSet(S)
  PROVE  Lv!Ordered(S) \in [1..Cardinality(S) -> S]
  <1> DEFINE Below(n) == { m \in S : m < n }
             N == Cardinality(S)
             rank == [n \in S |-> Cardinality(Below(n))]
             seq == [k \in 1..N |-> CHOOSE n \in S : rank[n] = k - 1]
  <1>0. \A n \in S : n \in Nat
    OBVIOUS
  <1>1. N \in Nat
    BY FS_CardinalityType
  <1>2. ASSUME NEW n \in S PROVE IsFiniteSet(Below(n)) /\ Cardinality(Below(n)) \in 0..N - 1
    <2>1. Below(n) \subseteq S \ {n}
      OBVIOUS
    <2>2. IsFiniteSet(S \ {n}) /\ Cardinality(S \ {n}) = N - 1
      BY FS_RemoveElement
    <2> HIDE DEF Below, N
    <2>3. IsFiniteSet(Below(n)) /\ Cardinality(Below(n)) <= N - 1
      BY <2>1, <2>2, FS_Subset
    <2>4. Cardinality(Below(n)) \in Nat
      BY <2>3, FS_CardinalityType
    <2> QED
      BY <1>1, <2>3, <2>4
  <1>3. ASSUME NEW m \in S, NEW n \in S, m < n PROVE rank[m] < rank[n]
    <2>1. Below(m) \cup {m} \subseteq Below(n) /\ m \notin Below(m)
      <3>1. m \in Nat /\ n \in Nat /\ \A x \in Below(m) : x \in S /\ x \in Nat /\ x < m
        BY <1>0
      <3>2. ASSUME NEW x \in Below(m) \cup {m} PROVE x \in Below(n)
        <4>1. x \in S /\ x \in Nat /\ (x < m \/ x = m)
          BY <3>1
        <4>2. x < n
          BY <1>3, <3>1, <4>1
        <4> QED
          BY <4>1, <4>2
      <3>3. ~ (m < m)
        BY <3>1
      <3> QED
        BY <3>2, <3>3
    <2>2. IsFiniteSet(Below(m)) /\ IsFiniteSet(Below(n))
      BY <1>2
    <2> HIDE DEF Below
    <2>3. Cardinality(Below(m) \cup {m}) = Cardinality(Below(m)) + 1
      BY <2>1, <2>2, FS_AddElement
    <2>4. Cardinality(Below(m) \cup {m}) <= Cardinality(Below(n))
      BY <2>1, <2>2, FS_Subset
    <2>5. Cardinality(Below(m)) \in Nat /\ Cardinality(Below(n)) \in Nat
      BY <2>2, FS_CardinalityType
    <2> QED
      BY <2>3, <2>4, <2>5
  <1>4. rank \in [S -> 0..N - 1]
    BY <1>2
  <1> HIDE DEF rank, N
  <1>5. rank \in Injection(S, 0..N - 1)
    <2>1. ASSUME NEW m \in S, NEW n \in S, rank[m] = rank[n] PROVE m = n
      <3>1. rank[m] \in Int /\ ~ (m < n) /\ ~ (n < m)
        BY <1>1, <1>3, <1>4, <2>1
      <3> QED
        BY <3>1
    <2> QED
      BY <1>4, <2>1 DEF Injection, IsInjective
  <1>6. IsFiniteSet(0..N - 1) /\ Cardinality(0..N - 1) = N
    <2>1. IsFiniteSet(0..N - 1) /\ Cardinality(0..N - 1) = IF 0 > N - 1 THEN 0 ELSE N - 1 - 0 + 1
      BY <1>1, FS_Interval
    <2> QED
      BY <1>1, <2>1
  <1>7. rank \in Surjection(S, 0..N - 1)
    BY <1>5, <1>6, FS_Injection DEF N
  <1>8. ASSUME NEW k \in 1..N PROVE seq[k] \in S /\ rank[seq[k]] = k - 1
    <2>1. k - 1 \in 0..N - 1
      BY <1>1
    <2>2. \E n \in S : rank[n] = k - 1
      BY <1>7, <2>1 DEF Surjection
    <2> QED
      BY <2>2
  <1>9. seq \in [1..N -> S]
    BY <1>8
  <1>10. ASSUME NEW i \in DOMAIN seq, NEW j \in DOMAIN seq, i < j PROVE seq[i] < seq[j]
    <2>1. /\ seq[i] \in S /\ seq[j] \in S /\ rank[seq[i]] = i - 1 /\ rank[seq[j]] = j - 1
          /\ i \in Int /\ j \in Int
      BY <1>1, <1>8
    <2> HIDE DEF seq
    <2>2. ~ (rank[seq[j]] < rank[seq[i]]) /\ rank[seq[j]] # rank[seq[i]]
      BY <1>10, <2>1
    <2>3. ~ (seq[j] < seq[i]) /\ seq[j] # seq[i]
      BY <1>3, <2>1, <2>2
    <2>4. seq[i] \in Nat /\ seq[j] \in Nat
      BY <1>0, <2>1
    <2> QED
      BY <2>3, <2>4
  <1> HIDE DEF seq
  <1>11. \E s \in [1..N -> S] : \A i, j \in DOMAIN s : i < j => s[i] < s[j]
    BY <1>9, <1>10
  <1> QED
    BY <1>11, SameSizeLogs DEF Lv!Ordered, N

\* The ids are of entries written; those of a view, of the log and the stage on screen.
InTable(s) == s \in Seq(Nat) /\ \A i \in DOMAIN s : s[i] \in DOMAIN v1

Belongs(n, of, stage) == v1[n].of = of /\ stage \in {Lv!None, v1[n].stage}

Pure(s, of, stage) == InTable(s) /\ \A i \in DOMAIN s : Belongs(s[i], of, stage)

Entry == [of : Sources, stage : Stages, in : BOOLEAN]

\* An answer is of what was asked, and a request that is not stale asks for what is on screen.
Fetch(f) ==
  /\ DOMAIN f = {"kind", "of", "stage", "before", "click", "fresh", "answered", "answer"}
  /\ f.kind \in {"stages", "page", "older"}
  /\ f.answered /\ f.kind # "stages" => Pure(f.answer.rows, f.of, f.stage)
  /\ f.fresh \in BOOLEAN /\ f.fresh /\ f.kind # "stages" => f.of = v5.of /\ f.stage = v5.stage

LogsInv ==
  /\ v1 \in Seq(Entry)
  /\ \A p \in v3 : DOMAIN p = {"of", "tick", "mine", "rows"} /\ InTable(p.rows)
  /\ InTable(v4)
  /\ DOMAIN v5 = {"of", "stage", "stages", "entries", "more", "loading"}
  /\ Pure(v5.entries, v5.of, v5.stage)
  /\ \A f \in v6 : Fetch(f)

\* The table grows and commits, and what it says of an entry stays.
LogGrows == /\ v1' \in Seq(Entry) /\ DOMAIN v1 \subseteq DOMAIN v1'
            /\ \A n \in DOMAIN v1 : v1'[n].of = v1[n].of /\ v1'[n].stage = v1[n].stage

LEMMA PureStays ==
  ASSUME LogGrows, NEW s, NEW of, NEW stage
  PROVE  (InTable(s) => InTable(s)') /\ (Pure(s, of, stage) => Pure(s, of, stage)')
  BY DEF LogGrows, InTable, Pure, Belongs

\* A part of a view is a view.
LEMMA PartPure ==
  ASSUME NEW s, NEW of, NEW stage, Pure(s, of, stage), NEW m \in Nat \ {0}, NEW n \in Nat,
         n <= Len(s)
  PROVE  Pure(SubSeq(s, m, n), of, stage)
  <1> DEFINE t == SubSeq(s, m, n)
  <1>1. s \in Seq(Nat)
    BY DEF Pure, InTable
  <1>2. t \in Seq(Nat)
    BY <1>1
  <1>3. ASSUME NEW i \in DOMAIN t PROVE t[i] = s[i + m - 1] /\ i + m - 1 \in DOMAIN s
    BY <1>1
  <1> HIDE DEF t
  <1>4. ASSUME NEW i \in DOMAIN t PROVE t[i] \in DOMAIN v1 /\ Belongs(t[i], of, stage)
    BY <1>3 DEF Pure, InTable
  <1> QED
    BY <1>2, <1>4 DEF Pure, InTable, t

\* Two views of the same make one, and two sequences of ids.
LEMMA Joined ==
  ASSUME NEW s \in Seq(Nat), NEW t \in Seq(Nat), NEW i \in DOMAIN (s \o t)
  PROVE  \/ \E j \in DOMAIN s : (s \o t)[i] = s[j]
         \/ \E j \in DOMAIN t : (s \o t)[i] = t[j]
  <1>1. i \in 1..Len(s) + Len(t) /\ Len(s) \in Nat /\ Len(t) \in Nat
    OBVIOUS
  <1>2. CASE i <= Len(s)
    <2>1. (s \o t)[i] = s[i] /\ i \in DOMAIN s
      BY <1>1, <1>2
    <2> QED
      BY <2>1
  <1>3. CASE ~ (i <= Len(s))
    <2>1. (s \o t)[i] = t[i - Len(s)] /\ i - Len(s) \in 1..Len(t)
      BY <1>1, <1>3
    <2>2. i - Len(s) \in DOMAIN t
      BY <2>1
    <2> QED
      BY <2>1, <2>2
  <1> QED
    BY <1>2, <1>3

LEMMA JoinedPure ==
  ASSUME NEW s, NEW t, NEW of, NEW stage
  PROVE  /\ InTable(s) /\ InTable(t) => InTable(s \o t)
         /\ Pure(s, of, stage) /\ Pure(t, of, stage) => Pure(s \o t, of, stage)
  <1>1. InTable(s) /\ InTable(t) => InTable(s \o t)
    <2> SUFFICES ASSUME InTable(s), InTable(t) PROVE InTable(s \o t)
      OBVIOUS
    <2>1. s \o t \in Seq(Nat)
      BY DEF InTable
    <2>2. \A i \in DOMAIN (s \o t) : (s \o t)[i] \in DOMAIN v1
      BY Joined DEF InTable
    <2> QED
      BY <2>1, <2>2 DEF InTable
  <1>2. ASSUME Pure(s, of, stage), Pure(t, of, stage) PROVE Pure(s \o t, of, stage)
    <2>1. \A i \in DOMAIN (s \o t) : Belongs((s \o t)[i], of, stage)
      BY <1>2, Joined DEF Pure, InTable
    <2> QED
      BY <1>1, <1>2, <2>1 DEF Pure
  <1> QED
    BY <1>1, <1>2

LEMMA EmptyPure == ASSUME NEW of, NEW stage PROVE Pure(<< >>, of, stage) /\ InTable(<< >>)
  BY DEF Pure, InTable

\* The entries of a stage, in order.
LEMMA OrderedPure ==
  ASSUME v1 \in Seq(Entry), NEW of, NEW T, NEW S \in SUBSET Lv!Ids(of, T)
  PROVE  /\ Lv!Ordered(S) \in Seq(Nat) /\ InTable(Lv!Ordered(S))
         /\ \A stage : T = {stage} => Pure(Lv!Ordered(S), of, stage)
  <1>1. S \subseteq 1..Len(v1) /\ \A n \in S : v1[n].of = of /\ v1[n].stage \in T
    BY DEF Lv!Ids
  <1>2. IsFiniteSet(S) /\ S \in SUBSET Nat
    <2>1. IsFiniteSet(1..Len(v1)) /\ Len(v1) \in Nat
      BY FS_Interval
    <2>2. IsFiniteSet(S)
      BY <1>1, <2>1, FS_Subset
    <2> QED
      BY <1>1, <2>1, <2>2
  <1>3. Lv!Ordered(S) \in [1..Cardinality(S) -> S] /\ Cardinality(S) \in Nat
    BY <1>2, OrderedSeq, FS_CardinalityType
  <1>4. Lv!Ordered(S) \in Seq(Nat)
    <2>1. Lv!Ordered(S) \in [1..Cardinality(S) -> Nat]
      BY <1>2, <1>3
    <2> QED
      BY <1>3, <2>1
  <1> QED
    BY <1>1, <1>3, <1>4 DEF InTable, Pure, Belongs

LEMMA PagePure ==
  ASSUME v1 \in Seq(Entry), Page \in Nat, NEW of, NEW stage, NEW S \in SUBSET Lv!Ids(of, {stage})
  PROVE  Pure(Lv!PageOf(S).rows, of, stage)
  <1> DEFINE asc == Lv!Ordered(S)
             kept == IF Len(asc) > Page THEN Page ELSE Len(asc)
  <1>1. Pure(asc, of, stage) /\ asc \in Seq(Nat)
    BY OrderedPure
  <1>2. Lv!PageOf(S).rows = SubSeq(asc, Len(asc) - kept + 1, Len(asc))
    BY DEF Lv!PageOf
  <1> HIDE DEF asc
  <1>3. Len(asc) \in Nat /\ Len(asc) - kept + 1 \in Nat \ {0} /\ Len(asc) <= Len(asc)
    BY <1>1
  <1> HIDE DEF kept
  <1> QED
    BY <1>1, <1>2, <1>3, PartPure

LEMMA LogKept == ASSUME LogsInv, v1' = v1 PROVE LogGrows
  BY DEF LogsInv, LogGrows

\* A request is the same as before, or stale by now.
LEMMA FetchStays ==
  ASSUME LogGrows, NEW f, Fetch(f)
  PROVE  /\ v5'.of = v5.of /\ v5'.stage = v5.stage => Fetch(f)'
         /\ Fetch([f EXCEPT !.fresh = FALSE])'
  <1>1. f.answered /\ f.kind # "stages" => Pure(f.answer.rows, f.of, f.stage)'
    BY PureStays DEF Fetch
  <1> QED
    BY <1>1 DEF Fetch

\* A request goes out for what is on screen.
LEMMA RequestFits ==
  ASSUME NEW kind \in {"stages", "page", "older"}, NEW of, NEW stage, NEW before,
         kind # "stages" => v5'.of = of /\ v5'.stage = stage,
         NEW f, f = Lv!Request(kind, of, stage, before)
  PROVE  Fetch(f)'
  BY DEF Fetch, Lv!Request

LEMMA LogsStep ==
  ASSUME Page \in Nat, Keep \in Nat, LogsInv, [Lv!Next]_(Lv!vars)
  PROVE  LogsInv'
  <1> DEFINE Polls == \A p \in v3 : DOMAIN p = {"of", "tick", "mine", "rows"} /\ InTable(p.rows)
             Fields_ == DOMAIN v5 = {"of", "stage", "stages", "entries", "more", "loading"}
             View == Pure(v5.entries, v5.of, v5.stage)
             Fetches == \A f \in v6 : Fetch(f)
  <1>a. v1 \in Seq(Entry) /\ Polls /\ InTable(v4) /\ Fields_ /\ View /\ Fetches
    BY DEF LogsInv
  <1>b. v1' \in Seq(Entry) /\ Polls' /\ InTable(v4)' /\ Fields_' /\ View' /\ Fetches' => LogsInv'
    BY DEF LogsInv
  <1>c. v1' = v1 => LogGrows /\ v1' \in Seq(Entry)
    BY <1>a, LogKept
  <1>d. LogGrows /\ v3' = v3 => Polls'
    BY <1>a, PureStays
  <1>e. LogGrows /\ v4' = v4 => InTable(v4)'
    BY <1>a, PureStays
  <1>f. LogGrows /\ v5' = v5 => Fields_' /\ View'
    BY <1>a, PureStays
  <1>g. ASSUME LogGrows, v5'.of = v5.of, v5'.stage = v5.stage PROVE \A f \in v6 : Fetch(f)'
    BY <1>a, <1>g, FetchStays
  <1>h. ASSUME LogGrows PROVE \A f \in Lv!Stale(v6) : Fetch(f)'
    <2>1. \A f \in v6 : Fetch([f EXCEPT !.fresh = FALSE])'
      BY <1>a, <1>h, FetchStays
    <2> QED
      BY <2>1 DEF Lv!Stale
  <1>i. LogGrows /\ UNCHANGED << v5, v6 >> => Fetches'
    BY <1>g
  <1>j. LogGrows /\ UNCHANGED << v3, v4, v5, v6 >> => LogsInv'
    BY <1>b, <1>d, <1>e, <1>f, <1>i DEF LogGrows
  <1>k. v1' = v1 /\ UNCHANGED << v3, v4 >> /\ Fields_' /\ View' /\ Fetches' => LogsInv'
    BY <1>b, <1>c, <1>d, <1>e
  <1> HIDE DEF Polls, Fields_, View, Fetches
  <1>1. ASSUME Lv!Write PROVE LogsInv'
    <2>1. PICK of \in Sources, st \in Stages :
            v1' = Append(v1, [of |-> of, stage |-> st, in |-> FALSE])
      BY <1>1 DEF Lv!Write
    <2>2. LogGrows
      <3> DEFINE e == [of |-> of, stage |-> st, in |-> FALSE]
      <3>1. e \in Entry
        BY DEF Entry
      <3>2. v1' = Append(v1, e)
        BY <2>1
      <3> HIDE DEF e
      <3>3. /\ v1' \in Seq(Entry) /\ DOMAIN v1 \subseteq DOMAIN v1'
            /\ \A n \in DOMAIN v1 : v1'[n] = v1[n]
        BY <3>1, <3>2, <1>a
      <3> QED
        BY <3>3 DEF LogGrows
    <2> QED
      BY <1>1, <2>2, <1>j DEF Lv!Write
  <1>2. ASSUME Lv!Commit PROVE LogsInv'
    <2>1. PICK n \in DOMAIN v1 : v1' = [v1 EXCEPT ![n].in = TRUE]
      BY <1>2 DEF Lv!Commit
    <2>2. LogGrows
      <3> DEFINE e == [v1[n] EXCEPT !.in = TRUE]
      <3>0. PICK r \in Entry : v1[n] = r
        BY <1>a
      <3>1. e \in Entry /\ e.of = v1[n].of /\ e.stage = v1[n].stage
        BY <3>0 DEF Entry
      <3>2. v1' = [v1 EXCEPT ![n] = e]
        BY <2>1
      <3> HIDE DEF e
      <3>3. /\ v1' \in Seq(Entry) /\ DOMAIN v1' = DOMAIN v1 /\ v1'[n] = e
            /\ \A k \in DOMAIN v1 : k # n => v1'[k] = v1[k]
        BY <3>1, <3>2, <1>a
      <3> QED
        BY <3>1, <3>3 DEF LogGrows
    <2> QED
      BY <1>2, <2>2, <1>j DEF Lv!Commit
  <1>3. ASSUME Lv!Seed PROVE LogsInv'
    BY <1>3, <1>c, <1>j DEF Lv!Seed
  <1>4. ASSUME Lv!PollRead PROVE LogsInv'
    <2>0. PICK s, p : /\ v3' = v3 \cup {p}
                      /\ p = [of |-> s, tick |-> v8, mine |-> TRUE,
                              rows |-> Lv!Ordered({ n \in Lv!Ids(s, Stages) : n > v2[s].last })]
      BY <1>4 DEF Lv!PollRead
    <2>1. /\ v3' = v3 \cup {p} /\ DOMAIN p = {"of", "tick", "mine", "rows"}
          /\ p.rows = Lv!Ordered({ n \in Lv!Ids(s, Stages) : n > v2[s].last })
      BY <2>0
    <2>2. InTable(p.rows) /\ v1' = v1
      <3>1. { n \in Lv!Ids(s, Stages) : n > v2[s].last } \in SUBSET Lv!Ids(s, Stages)
        OBVIOUS
      <3> QED
        BY <1>4, <2>1, <3>1, <1>a, OrderedPure DEF Lv!PollRead
    <2>3. Polls'
      BY <2>1, <2>2, <1>a DEF Polls, InTable
    <2> QED
      BY <1>4, <2>3, <1>b, <1>c, <1>e, <1>f, <1>i DEF Lv!PollRead
  <1>5. ASSUME Lv!PollSend PROVE LogsInv'
    <2>1. PICK p \in v3 : v3' = v3 \ {p} /\ v4' = v4 \o p.rows
      BY <1>5 DEF Lv!PollSend
    <2>2. v1' = v1 /\ UNCHANGED << v5, v6 >>
      BY <1>5 DEF Lv!PollSend
    <2>3. InTable(v4 \o p.rows)
      BY <1>a, JoinedPure DEF Polls
    <2>4. Polls' /\ InTable(v4)'
      BY <2>1, <2>2, <2>3, <1>a DEF Polls, InTable
    <2> QED
      BY <2>2, <2>4, <1>b, <1>c, <1>f, <1>i
  <1>6. ASSUME Lv!Stop PROVE LogsInv'
    <2>1. PICK s : v3' = { [p EXCEPT !.mine = @ /\ p.of # s] : p \in v3 }
      BY <1>6 DEF Lv!Stop
    <2>2. v1' = v1 /\ UNCHANGED << v4, v5, v6 >>
      BY <1>6 DEF Lv!Stop
    <2>3. Polls'
      BY <2>1, <2>2, <1>a DEF Polls, InTable
    <2> QED
      BY <2>2, <2>3, <1>b, <1>c, <1>e, <1>f, <1>i
  <1>7. ASSUME Lv!Answer PROVE LogsInv'
    <2>0. PICK f \in v6 : \E a \in {Lv!Answers(f), Lv!NoAnswer} :
            v6' = (v6 \ {f}) \cup {[f EXCEPT !.answered = TRUE, !.answer = a]}
      BY <1>7 DEF Lv!Answer
    <2>1. PICK a \in {Lv!Answers(f), Lv!NoAnswer} :
            v6' = (v6 \ {f}) \cup {[f EXCEPT !.answered = TRUE, !.answer = a]}
      BY <2>0
    <2>2. v1' = v1 /\ UNCHANGED << v3, v4, v5 >>
      BY <1>7 DEF Lv!Answer
    <2>3. Fetch(f) /\ Fetch(f)'
      BY <2>2, <1>a, <1>c, <1>g DEF Fetches
    <2>4. f.kind # "stages" => Pure(a.rows, f.of, f.stage)
      <3>1. CASE a = Lv!NoAnswer
        BY <3>1, EmptyPure DEF Lv!NoAnswer
      <3>2. CASE a = Lv!Answers(f) /\ f.kind = "page"
        BY <3>2, <1>a, PagePure DEF Lv!Answers
      <3>3. CASE a = Lv!Answers(f) /\ f.kind = "older"
        BY <3>3, <1>a, PagePure DEF Lv!Answers
      <3> QED
        BY <2>3, <3>1, <3>2, <3>3 DEF Fetch
    <2> DEFINE g == [f EXCEPT !.answered = TRUE, !.answer = a]
    <2>5. /\ DOMAIN g = DOMAIN f /\ g.kind = f.kind /\ g.of = f.of /\ g.stage = f.stage
          /\ g.fresh = f.fresh /\ g.answer = a
      BY <2>3 DEF Fetch
    <2>6. PICK h : h = g
      OBVIOUS
    <2> HIDE DEF g
    <2>7. Fetch(h)'
      BY <2>2, <2>3, <2>4, <2>5, <2>6, <1>c, PureStays DEF Fetch
    <2>8. Fetches'
      BY <2>1, <2>2, <2>6, <2>7, <1>c, <1>g DEF Fetches, g
    <2> QED
      BY <2>2, <2>8, <1>b, <1>c, <1>d, <1>e, <1>f
  <1>8. ASSUME Lv!OpenViewer PROVE LogsInv'
    <2>1. PICK of \in Sources : v5' = [Lv!Closed EXCEPT !.of = of]
      BY <1>8 DEF Lv!OpenViewer
    <2>2. v1' = v1 /\ UNCHANGED << v3, v4 >>
      BY <1>8 DEF Lv!OpenViewer
    <2>3. PICK f : v6' = Lv!Stale(v6) \cup {f} /\ \E s : f = Lv!Request("stages", s, Lv!None, 0)
      BY <1>8 DEF Lv!OpenViewer
    <2>4. Fetches'
      BY <2>2, <2>3, <1>c, <1>h, RequestFits DEF Fetches
    <2>5. Fields_' /\ v5'.entries = << >>
      BY <2>1 DEF Fields_, Lv!Closed
    <2>6. View'
      BY <2>5, EmptyPure DEF View, Pure, InTable
    <2> QED
      BY <2>2, <2>4, <2>5, <2>6, <1>k
  <1>9. ASSUME NEW st, NEW S \in SUBSET v6, Fields_', v5'.of = v5.of, v5'.stage = st,
               v5'.entries = << >>, v6' = Lv!PageRequested(S, st), UNCHANGED << v1, v3, v4 >>
        PROVE  LogsInv'
    <2>1. PICK f : v6' = Lv!Stale(S) \cup {f} /\ f = Lv!Request("page", v5.of, st, 0)
      BY <1>9 DEF Lv!PageRequested
    <2>2. Lv!Stale(S) \subseteq Lv!Stale(v6)
      BY DEF Lv!Stale
    <2>3. Fetches'
      BY <1>9, <2>1, <2>2, <1>c, <1>h, RequestFits DEF Fetches
    <2>4. View'
      BY <1>9, EmptyPure DEF View, Pure, InTable
    <2> QED
      BY <1>9, <2>3, <2>4, <1>k
  <1>10. ASSUME Lv!SelectLogStage PROVE LogsInv'
    <2>1. PICK st : v5' = Lv!OnStage(v5, st) /\ v6' = Lv!PageRequested(v6, st)
      BY <1>10 DEF Lv!SelectLogStage
    <2>2. Fields_' /\ v5'.of = v5.of /\ v5'.stage = st /\ v5'.entries = << >>
      BY <2>1, <1>a DEF Fields_, Lv!OnStage
    <2> QED
      BY <1>9, <1>10, <2>1, <2>2 DEF Lv!SelectLogStage
  <1>11. ASSUME Lv!LoadOlder PROVE LogsInv'
    <2>1. v5' = [v5 EXCEPT !.loading = TRUE] /\ v1' = v1 /\ UNCHANGED << v3, v4 >>
      BY <1>11 DEF Lv!LoadOlder
    <2>2. PICK f : v6' = v6 \cup {f} /\ \E b : f = Lv!Request("older", v5.of, v5.stage, b)
      BY <1>11 DEF Lv!LoadOlder
    <2>3. Fields_' /\ v5'.of = v5.of /\ v5'.stage = v5.stage /\ v5'.entries = v5.entries
      BY <2>1, <1>a DEF Fields_
    <2>4. Fetches'
      BY <2>1, <2>2, <2>3, <1>c, <1>g, RequestFits DEF Fetches
    <2>5. View'
      BY <2>1, <2>3, <1>a, <1>c, PureStays DEF View
    <2> QED
      BY <2>1, <2>3, <2>4, <2>5, <1>k
  <1>12. ASSUME Lv!CloseLogViewer PROVE LogsInv'
    <2>1. v5' = Lv!Closed /\ v6' = Lv!Stale(v6) /\ v1' = v1 /\ UNCHANGED << v3, v4 >>
      BY <1>12 DEF Lv!CloseLogViewer
    <2>2. Fields_' /\ v5'.entries = << >>
      BY <2>1 DEF Fields_, Lv!Closed
    <2>3. View'
      BY <2>2, EmptyPure DEF View, Pure, InTable
    <2>4. Fetches'
      BY <2>1, <1>c, <1>h DEF Fetches
    <2> QED
      BY <2>1, <2>2, <2>3, <2>4, <1>k
  <1>13. ASSUME Lv!Arrive PROVE LogsInv'
    <2> DEFINE Opens(f) ==
                 /\ v5' = [Lv!OnStage(v5, Lv!Last(f.answer.rows)) EXCEPT !.stages = f.answer.rows]
                 /\ v6' = Lv!PageRequested(v6 \ {f}, Lv!Last(f.answer.rows))
               Shows(f) ==
                 /\ f.answered /\ v6' = v6 \ {f}
                 /\ \/ f.kind = "page" /\ f.fresh
                       /\ v5' = [v5 EXCEPT !.entries = f.answer.rows, !.more = f.answer.more]
                    \/ f.kind = "older" /\ f.fresh
                       /\ v5' = [v5 EXCEPT !.entries = Lv!Merged(f.answer.rows),
                                           !.more = f.answer.more, !.loading = FALSE]
               Drops(f) == v6' = v6 \ {f} /\ (v5' = v5 \/ v5' = [v5 EXCEPT !.loading = FALSE])
    <2>1. PICK f \in v6 : Opens(f) \/ Shows(f) \/ Drops(f)
      BY <1>13 DEF Lv!Arrive, Lv!Fresh
    <2>2. UNCHANGED << v1, v3, v4 >> /\ Fetch(f)
      BY <1>13, <1>a DEF Lv!Arrive, Fetches
    <2>3. CASE Opens(f)
      <3>1. /\ Fields_' /\ v5'.of = v5.of /\ v5'.stage = Lv!Last(f.answer.rows)
            /\ v5'.entries = << >>
        BY <2>3, <1>a DEF Fields_, Lv!OnStage
      <3> QED
        BY <2>2, <2>3, <3>1, <1>9
    <2>4. CASE Shows(f)
      <3>1. PICK rows : /\ Fields_' /\ v5'.of = v5.of /\ v5'.stage = v5.stage /\ v5'.entries = rows
                        /\ rows = f.answer.rows \/ rows = Lv!Merged(f.answer.rows)
        BY <2>4, <1>a DEF Fields_
      <3>2. Pure(f.answer.rows, v5.of, v5.stage)
        BY <2>2, <2>4 DEF Fetch
      <3>3. Pure(rows, v5.of, v5.stage)
        <4> DEFINE all_ == f.answer.rows \o v5.entries
        <4>1. Pure(all_, v5.of, v5.stage)
          BY <3>2, <1>a, JoinedPure DEF View
        <4>2. Lv!Merged(f.answer.rows) =
                SubSeq(all_, 1, IF Len(all_) > Keep THEN Keep ELSE Len(all_))
          BY DEF Lv!Merged
        <4>3. all_ \in Seq(Nat)
          BY <4>1 DEF Pure, InTable
        <4> HIDE DEF all_
        <4>4. Len(all_) \in Nat
          BY <4>3
        <4>5. Pure(Lv!Merged(f.answer.rows), v5.of, v5.stage)
          BY <4>1, <4>2, <4>4, PartPure
        <4> QED
          BY <3>1, <3>2, <4>5
      <3>4. View'
        BY <2>2, <3>1, <3>3, <1>c, PureStays DEF View
      <3>5. Fetches'
        BY <2>2, <2>4, <3>1, <1>c, <1>g DEF Fetches
      <3> QED
        BY <2>2, <3>1, <3>4, <3>5, <1>k
    <2>5. CASE Drops(f)
      <3>1. Fields_' /\ v5'.of = v5.of /\ v5'.stage = v5.stage /\ v5'.entries = v5.entries
        BY <2>5, <1>a DEF Fields_
      <3>2. View'
        BY <2>2, <3>1, <1>a, <1>c, PureStays DEF View
      <3>3. Fetches'
        BY <2>2, <2>5, <3>1, <1>c, <1>g DEF Fetches
      <3> QED
        BY <2>2, <3>1, <3>2, <3>3, <1>k
    <2> QED
      BY <2>1, <2>3, <2>4, <2>5
  <1>14. ASSUME Lv!Receive PROVE LogsInv'
    <2> DEFINE n == Head(v4)
               all_ == Append(v5.entries, n)
               rows == SubSeq(all_,
                              1 + (IF Len(all_) > Keep THEN Len(all_) - Keep ELSE 0), Len(all_))
    <2>1. /\ v4 # << >> /\ v4' = Tail(v4) /\ v1' = v1 /\ UNCHANGED << v3, v6 >>
          /\ v5' = v5 \/ (Lv!Shown(n) /\ v5' = [v5 EXCEPT !.entries = rows])
      BY <1>14 DEF Lv!Receive
    <2>2. v4 \in Seq(Nat) /\ \A i \in DOMAIN v4 : v4[i] \in DOMAIN v1
      BY <1>a DEF InTable
    <2>3. n \in Nat /\ n \in DOMAIN v1
      BY <2>1, <2>2
    <2>4. InTable(v4)'
      <3>1. /\ Tail(v4) \in Seq(Nat)
            /\ \A i \in DOMAIN Tail(v4) : Tail(v4)[i] = v4[i + 1] /\ i + 1 \in DOMAIN v4
        BY <2>1, <2>2
      <3> QED
        BY <2>1, <2>2, <3>1 DEF InTable
    <2>5. Lv!Shown(n) => Pure(rows, v5.of, v5.stage)
      <3> SUFFICES ASSUME Lv!Shown(n) PROVE Pure(rows, v5.of, v5.stage)
        OBVIOUS
      <3>1. Belongs(n, v5.of, v5.stage)
        BY DEF Lv!Shown, Belongs
      <3>2. Pure(all_, v5.of, v5.stage)
        <4>1. v5.entries \in Seq(Nat) /\ all_ \in Seq(Nat) /\ Len(all_) = Len(v5.entries) + 1
          BY <2>3, <1>a DEF View, Pure, InTable
        <4>2. ASSUME NEW i \in DOMAIN all_ 
              PROVE all_[i] = n \/ (i \in DOMAIN v5.entries /\ all_[i] = v5.entries[i])
          BY <2>3, <4>1
        <4> HIDE DEF all_, n
        <4> QED
          BY <2>3, <3>1, <4>1, <4>2, <1>a DEF View, Pure, InTable
      <3>3. Len(all_) \in Nat
        BY <3>2 DEF Pure, InTable
      <3> HIDE DEF all_, n
      <3>4. 1 + (IF Len(all_) > Keep THEN Len(all_) - Keep ELSE 0) \in Nat \ {0}
        BY <3>3
      <3> QED
        BY <3>2, <3>3, <3>4, PartPure
    <2> HIDE DEF rows
    <2>6. Fields_' /\ v5'.of = v5.of /\ v5'.stage = v5.stage
      BY <2>1, <1>a DEF Fields_
    <2>7. Pure(v5'.entries, v5.of, v5.stage)
      BY <2>1, <2>5, <1>a DEF View, Fields_
    <2>8. View'
      BY <2>1, <2>6, <2>7 DEF View, Pure, InTable, Belongs
    <2>9. Fetches'
      BY <2>1, <2>6, <1>c, <1>g DEF Fetches
    <2> QED
      BY <2>1, <2>4, <2>6, <2>8, <2>9, <1>b, <1>c, <1>d
  <1>15. CASE UNCHANGED Lv!vars
    BY <1>15, <1>c, <1>j DEF Lv!vars
  <1> QED
    BY <1>1, <1>2, <1>3, <1>4, <1>5, <1>6, <1>7, <1>8, <1>10, <1>11, <1>12, <1>13, <1>14, <1>15
    DEF Lv!Next, Lv!Server, Lv!Browser

\* What is on screen belongs to what was selected, and to nothing else: the entries to the log
\* and the stage that are open, the figures to the window and the population of the selectors,
\* whatever order requests, polls and clicks are answered in.
THEOREM ViewsStayPure ==
  ASSUME Stored \in Seq(Sources \X Stages), Page \in Nat, Keep \in Nat
  PROVE  AllSpec => []ViewsPure
  <1>1. ASSUME Lv!Init PROVE LogsInv
    <2>1. v1 \in Seq(Entry)
      <3>1. DOMAIN Stored = 1..Len(Stored) /\ Len(Stored) \in Nat
        OBVIOUS
      <3>2. v1 = [n \in 1..Len(Stored) |->
                    [of |-> Stored[n][1], stage |-> Stored[n][2], in |-> TRUE]]
        BY <1>1, <3>1 DEF Lv!Init
      <3>3. \A n \in 1..Len(Stored) : Stored[n] \in Sources \X Stages
        BY <3>1
      <3>4. v1 \in [1..Len(Stored) -> Entry]
        BY <3>2, <3>3 DEF Entry
      <3> QED
        BY <3>1, <3>4
    <2>2. v3 = {} /\ v6 = {} /\ v4 = << >> /\ v5 = Lv!Closed
      BY <1>1 DEF Lv!Init
    <2>3. DOMAIN v5 = {"of", "stage", "stages", "entries", "more", "loading"} /\ v5.entries = << >>
      BY <2>2 DEF Lv!Closed
    <2> QED
      BY <2>1, <2>2, <2>3, EmptyPure DEF LogsInv
  <1>2. LogsInv /\ [Lv!Next]_(Lv!vars) => LogsInv'
    BY LogsStep
  <1>3. LogsInv => Lv!LogViewPure
    BY DEF LogsInv, Pure, Belongs, Lv!LogViewPure, Lv!ToSet
  <1>4. Lv!LogViewPure \/ ~ (part = "logs") => (part = "logs" => Lv!LogViewPure)
    OBVIOUS
  <1>5. (part = "logs" => Lv!LogViewPure) /\ (part = "stats" => Sc!StatsAsSelected) => ViewsPure
    BY DEF ViewsPure
  <1> QED
    BY <1>1, <1>2, <1>3, <1>4, <1>5, LogsMoves, LogsRests, StatsSelected, PTL DEF Lv!Spec
=============================================================================
