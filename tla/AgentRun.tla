------------------------------ MODULE AgentRun ------------------------------
(***************************************************************************)
(* One stage's agent: the attempts of runAgent (src/sdk/run-agent.ts), the *)
(* messages of one attempt's stream (src/sdk/agent-stream.ts), the output  *)
(* found in them and what the stage records (src/pipeline/stage.ts).       *)
(*                                                                         *)
(* The SDK is external: it sends messages in any order the code is ready   *)
(* for.  A text is known by what the code makes of it, a sub-agent by its  *)
(* name, one model response by an id, which its fragments share.           *)
(***************************************************************************)
EXTENDS FiniteSets, Naturals

CONSTANTS
  SubAgents,     \* names of sub-agents
  Ids,           \* bound: model responses of each sub-agent
  MaxRetries,    \* maxRetries
  MaxMessages    \* bound: messages of one attempt

VARIABLES
  pc,         \* "stream", "judge", "failed" or "ended"
  attempt,
  stream,     \* what consumeAgentStream has gathered in this attempt
  result,     \* the result message, if there was one
  failure,    \* why this attempt failed
  outcome,    \* how the stage ended
  left,       \* messages still to come
  heard       \* per sub-agent, the responses the code could tell were its own

vars == << pc, attempt, stream, result, failure, outcome, left, heard >>

-----------------------------------------------------------------------------
None == "none"

\* "quota" and "api": an API error in an assistant's text, of a usage limit or another.
Texts == {"prose", "json", "bad json", "api", "quota"}

NoEntry == [source |-> None, turns |-> 0, coarse |-> 0]

NewStream == [session |-> FALSE, text |-> "prose", limit |-> FALSE, known |-> {}, tasks |-> {},
              counted |-> {}, roster |-> [s \in SubAgents |-> NoEntry]]

NoResult == [subtype |-> None, structured |-> None, json |-> None]

\* What the SDK may report, with its own name for a spent budget (pipeline.types.ts:424).
Subtypes == {"success", "error_max_turns", "error_max_budget_usd", "error_during_execution"}
Results == [subtype : Subtypes, structured : {None, "json", "bad json"},
            json : {None, "json", "bad json"}]

NewAttempt ==
  /\ stream' = NewStream /\ result' = NoResult /\ failure' = None /\ left' = MaxMessages
  /\ heard' = [s \in SubAgents |-> {}]

Init ==
  /\ pc = "stream" /\ attempt = 1 /\ outcome = [kind |-> None, session |-> FALSE]
  /\ stream = NewStream /\ result = NoResult /\ failure = None /\ left = MaxMessages
  /\ heard = [s \in SubAgents |-> {}]

-----------------------------------------------------------------------------
(* consumeAgentStream. *)

Message == pc = "stream" /\ left > 0 /\ left' = left - 1
Kept == UNCHANGED << pc, attempt, result, failure, outcome >>

\* system/init; a required tool that is not registered ends the run.
SessionBegins ==
  /\ Message /\ ~ stream.session
  /\ \/ stream' = [stream EXCEPT !.session = TRUE] /\ Kept
     \/ /\ stream' = [stream EXCEPT !.session = TRUE]
        /\ pc' = "failed" /\ failure' = "required_tool_missing"
        /\ UNCHANGED << attempt, result, outcome >>
  /\ UNCHANGED heard

\* The entry is made anew.
StartedMutant(s) == [NoEntry EXCEPT !.source = "background_task"]

\* An entry that exists is left alone.
Started(s) == IF stream.roster[s] = NoEntry THEN [NoEntry EXCEPT !.source = "background_task"]
              ELSE stream.roster[s]

\* task_started of a sub-agent.
TaskStarted(s) ==
  /\ Message /\ Kept /\ UNCHANGED heard
  /\ stream' = [stream EXCEPT !.tasks = @ \cup {s}, !.known = @ \cup {s},
                              !.roster[s] = Started(s)]

\* task_progress or task_notification: a running total, joined on the name or the task.
TaskUsage(s, total) ==
  /\ Message /\ Kept /\ UNCHANGED heard
  /\ total > stream.roster[s].coarse
  /\ \E named \in BOOLEAN :
       stream' = IF (named \/ s \in stream.tasks) /\ stream.roster[s].source = "background_task"
                 THEN [stream EXCEPT !.roster[s].coarse = total] ELSE stream

RateLimitEvent ==
  /\ Message /\ Kept /\ UNCHANGED heard
  /\ ~ stream.limit /\ stream' = [stream EXCEPT !.limit = TRUE]

\* Every fragment counts as a turn.
CountsMutant(s, id) == TRUE

\* A response split over several messages counts once.
Counts(s, id) == << s, id >> \notin stream.counted

\* An assistant message of sub-agent s, which names it or only its dispatch.  Text of a
\* sub-agent replaces the last text too.
SubAgentTurn(s, id, named, text) ==
  /\ Message /\ Kept
  /\ IF named \/ s \in stream.known
     THEN /\ heard' = [heard EXCEPT ![s] = @ \cup {id}]
          /\ stream' = [stream EXCEPT
               !.text = text, !.counted = @ \cup {<< s, id >>},
               !.roster[s].source = "stream",
               !.roster[s].turns = IF Counts(s, id) THEN @ + 1 ELSE @]
     ELSE stream' = [stream EXCEPT !.text = text] /\ UNCHANGED heard

\* The agent's own message, with the dispatch of sub-agents.
OwnTurn(some, text) ==
  /\ Message /\ Kept /\ UNCHANGED heard
  /\ stream' = [stream EXCEPT !.text = text, !.known = @ \cup some]

ResultArrives ==
  /\ pc = "stream" /\ pc' = "judge"
  /\ \E r \in Results : result' = r
  /\ UNCHANGED << attempt, stream, failure, outcome, left, heard >>

\* The process dies, or the stream ends without a result.
StreamEnds ==
  /\ pc = "stream" /\ pc' = "failed"
  /\ failure' \in {"process", "no result"}
  /\ UNCHANGED << attempt, stream, result, outcome, left, heard >>

-----------------------------------------------------------------------------
(* runAgent. *)

\* parseAgentOutput.
Output == CASE result.structured # None -> result.structured
            [] result.structured = None /\ result.json # None -> result.json
            [] OTHER -> IF stream.text \in {"json", "bad json"} THEN stream.text ELSE None

\* What the result message and the last text come to: None is an output.
Verdict ==
  CASE result.structured = None /\ stream.text = "quota" -> "rate limit"
    [] result.structured = None /\ stream.text = "api" -> "api_error"
    [] OTHER -> IF result.subtype # "success" THEN result.subtype
                ELSE CASE Output = "json" -> None
                       [] Output = "bad json" -> "validation"
                       [] Output = None -> IF stream.limit THEN "rate limit" ELSE "success"

\* The stage's telemetry has the transcript of a run that gave its output.
Judge ==
  /\ pc = "judge"
  /\ IF Verdict = None
     THEN /\ pc' = "ended" /\ outcome' = [kind |-> "output", session |-> stream.session]
          /\ UNCHANGED failure
     ELSE pc' = "failed" /\ failure' = Verdict /\ UNCHANGED outcome
  /\ UNCHANGED << attempt, stream, result, left, heard >>

\* NON_RETRYABLE_SUBTYPES, which does not have the SDK's name for a spent budget.
NonRetryableSubtypes == {"error_max_turns", "error_max_budget", "required_tool_missing"}
IsRetryable == failure \notin NonRetryableSubtypes \cup {"validation", "rate limit"}

\* The backoff, and another stream from nothing.
Retry ==
  /\ pc = "failed" /\ IsRetryable /\ attempt < MaxRetries
  /\ pc' = "stream" /\ attempt' = attempt + 1
  /\ NewAttempt /\ UNCHANGED outcome

\* agentStage keeps the session of an AgentExecutionError that carries details: not of a
\* retryable one, which arrives wrapped in a TransientAgentError.
GiveUp ==
  /\ pc = "failed" /\ (~ IsRetryable \/ attempt = MaxRetries)
  /\ pc' = "ended"
  /\ outcome' = [kind |-> IF IsRetryable THEN "transient" ELSE failure,
                 session |-> stream.session /\ failure = "error_max_turns"]
  /\ UNCHANGED << attempt, stream, result, failure, left, heard >>

-----------------------------------------------------------------------------
Stream ==
  \/ SessionBegins \/ RateLimitEvent \/ ResultArrives \/ StreamEnds
  \/ \E s \in SubAgents :
       \/ TaskStarted(s) \/ \E total \in 1..2 : TaskUsage(s, total)
       \/ \E id \in 1..Ids, named \in BOOLEAN, text \in Texts : SubAgentTurn(s, id, named, text)
  \/ \E some \in SUBSET SubAgents, text \in Texts : OwnTurn(some, text)

Next == Stream \/ Judge \/ Retry \/ GiveUp

Spec == Init /\ [][Next]_vars

-----------------------------------------------------------------------------
\* A sub-agent's turns are the responses heard from it, each once, although responses come
\* in fragments and one sub-agent may run in the foreground, then as a background task; and
\* nothing coarse is taken once its own messages were heard (agent-stream.ts:109, 226).
UsageOnce ==
  \A s \in SubAgents :
    /\ stream.roster[s].turns = Cardinality(heard[s])
    /\ heard[s] # {} <=> stream.roster[s].source = "stream"
=============================================================================
