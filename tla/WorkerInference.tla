--------------------------- MODULE WorkerInference ---------------------------
(***************************************************************************)
(* What the compatibility worker does between the lease of a run and its   *)
(* completion: the attempts of a batch with their fallback, the streamed   *)
(* answer with its reasoning budget, the outage loop with its release and  *)
(* new lease, and the score.  In EnrichmentPipeline all of it is Infer and *)
(* Outage.                                                                 *)
(*                                                                         *)
(* Scores are in tenths.  A text is reduced to whether it is there.        *)
(* Limitation: what the inference server itself does is not modelled; each *)
(* of its answers is any that the client can tell apart.                   *)
(***************************************************************************)
EXTENDS Integers, Sequences, FiniteSetsExt

CONSTANTS Delays,            \* number of retry delays in a batch
          Budget,            \* thinking_budget_tokens, if there is one
          Margin,            \* REASONING_CONTROL_FALLBACK_MARGIN_TOKENS
          RawScores,         \* what a model may put down as a score
          Languages,
          Levels,            \* language levels a model may put down
          MaxFailures        \* bound: failed calls and refused probes

NoNumber == -999      \* absent, or not a number
NaN == 999            \* the JSON decoder accepts it

ASSUME InferenceAssumption ==
    /\ Delays \in Nat /\ MaxFailures \in Nat
    /\ Budget \in Nat \ {0} /\ Margin \in Nat
    /\ RawScores \subseteq Int
    /\ Levels \subseteq 0 .. 6

VARIABLES
    pc,
    budgeted,      \* whether requests carry a reasoning budget, and are streamed
    attempt,       \* calls made in this batch
    usedFallback,  \* this batch has gone over to the fallback prompt
    token,         \* the lease in use
    stream,        \* what has been read of the streamed answer
    raw,           \* the answer as the client returns it
    result,        \* the score that is reported
    told,          \* what the Gateway has been told under each lease
    failures,
    cause          \* history: why the last call failed

vars == <<pc, budgeted, attempt, usedFallback, token, stream, raw, result, told,
          failures, cause>>

-----------------------------------------------------------------------------
(* The score (compatibility.py).                                           *)

Unknown == 0                          \* a level the table does not know
NormalizeLevel(l) == IF l = Unknown THEN 3 ELSE l      \* B1

\* Mutant: a model that scores up to 100 is taken at its word.
MutantCoerceScore(v) == IF v = NoNumber \/ v < 0 THEN 0 ELSE v

CoerceScore(v) ==
    CASE v = NoNumber -> 0
      [] v = NaN      -> NaN
      [] v < 0        -> 0
      [] v > 100 /\ v # NaN -> 100
      [] OTHER        -> v

\* The best level of an applicant in a language; 0 if there is none.
Best(applicant, lang) ==
    Max({0} \union {NormalizeLevel(a[2]) : a \in {x \in applicant : x[1] = lang}})

Missing(applicant, mandatory) ==
    {m \in mandatory : Best(applicant, m[1]) < NormalizeLevel(m[2])}

\* A weighted mean in hundredths of a tenth, rounded; a tie may go either way, as the
\* binary fractions of the weights decide it.
Rounded(x) == {r \in x \div 100 .. x \div 100 + 1 : 100 * r - x \in -50 .. 50}

FinalScores(h, e, s, disqualified) ==
    IF disqualified THEN {5}
    ELSE IF NaN \in {h, e, s} THEN {NaN}
    ELSE Rounded(60 * h + 25 * e + 15 * s)

-----------------------------------------------------------------------------
NoStream == [id |-> 0, reasoning |-> FALSE, content |-> FALSE, finished |-> FALSE,
             controls |-> 0, late |-> FALSE]

NoAnswer == [kind |-> "none", complete |-> FALSE]

NoResult == [score |-> NoNumber, sections |-> {}, applicant |-> {}, mandatory |-> {}]

Init ==
    /\ pc = "call"
    /\ budgeted \in BOOLEAN
    /\ attempt = 0
    /\ usedFallback = FALSE
    /\ token = 1
    /\ stream = NoStream
    /\ raw = NoAnswer
    /\ result = NoResult
    /\ told = <<"nothing">>
    /\ failures = 0
    /\ cause = "none"

Call ==
    /\ pc = "call"
    /\ attempt' = attempt + 1
    /\ pc' = "request"
    /\ UNCHANGED <<budgeted, usedFallback, token, stream, raw, result, told, failures,
                   cause>>

\* How a call can fail.  "cut" is a stream that breaks, ends early or makes no sense;
\* read timeouts and refused connections are "unreachable" also amid a stream.
Temporary(kind) == kind \in {"500", "503", "unreachable"}
AllowsFallback(kind) == ~usedFallback /\ kind \in {"400", "500"}

Retried(kind) == (Temporary(kind) \/ AllowsFallback(kind)) /\ attempt <= Delays

CallFails(kind) ==
    /\ failures < MaxFailures
    /\ failures' = failures + 1
    /\ cause' = kind
    /\ stream' = NoStream
    /\ IF Retried(kind)
       THEN usedFallback' = TRUE /\ pc' = "call"
       ELSE /\ UNCHANGED usedFallback
            /\ pc' = IF Temporary(kind) THEN "release" ELSE "reportError"
    /\ UNCHANGED <<budgeted, attempt, token, raw, result, told>>

RequestFails ==
    /\ pc = "request"
    /\ \E kind \in {"400", "500", "503", "401", "unreachable"} : CallFails(kind)

Answers == {"object", "unparsable", "empty"}

Complete(kind) == [kind |-> kind, complete |-> TRUE]

\* What the client makes of an error that is not its own or the network's: an answer.
Garbled == [kind |-> "unparsable", complete |-> FALSE]

\* The answer in one piece.  A body that breaks off is an answer too.
SyncAnswer ==
    /\ pc = "request" /\ ~budgeted
    /\ raw' \in {Complete(kind) : kind \in Answers} \union {Garbled}
    /\ pc' = "score"
    /\ UNCHANGED <<budgeted, attempt, usedFallback, token, stream, result, told,
                   failures, cause>>

StreamBegins ==
    /\ pc = "request" /\ budgeted
    /\ pc' = "stream"
    /\ UNCHANGED <<budgeted, attempt, usedFallback, token, stream, raw, result, told,
                   failures, cause>>

-----------------------------------------------------------------------------
(* The streamed answer (llama_cpp_client.py).                              *)

\* What one event may carry: an id (0: none), the number of tokens so far, and, if it
\* has choices at all, a piece of reasoning, a piece of content, a reason to finish.
Chunks == [id : 0 .. 2, tokens : {NoNumber, Budget, Budget + Margin}, choices : BOOLEAN,
           reasoning : BOOLEAN, content : BOOLEAN, finish : BOOLEAN]

\* The stream after an event has been taken in.
Taken(c) ==
    LET id == IF c.id = 0 THEN stream.id ELSE c.id
    IN  IF ~c.choices THEN [stream EXCEPT !.id = id]
        ELSE [stream EXCEPT !.id = id,
                            !.reasoning = @ \/ c.reasoning,
                            !.content = @ \/ c.content,
                            !.finished = @ \/ c.finish]

\* Mutant: that it has been told is not remembered.
MutantShouldEndReasoning(c, s) ==
    /\ c.choices
    /\ ~s.content /\ s.reasoning
    /\ s.id # 0
    /\ c.tokens # NoNumber /\ c.tokens >= Budget + Margin

\* The server has not kept to its budget: it is told, once, to end the reasoning.
ShouldEndReasoning(c, s) ==
    /\ c.choices
    /\ s.controls = 0
    /\ ~s.content /\ s.reasoning
    /\ s.id # 0
    /\ c.tokens # NoNumber /\ c.tokens >= Budget + Margin

\* Whether the control request succeeds makes no difference to the stream.
ReadChunk(c) ==
    /\ pc = "stream"
    /\ c.id \in {0, stream.id} \/ stream.id = 0
    /\ LET s == Taken(c)
       IN  stream' = IF ShouldEndReasoning(c, s)
                     THEN [s EXCEPT !.controls = @ + 1, !.late = stream.content]
                     ELSE s
    /\ UNCHANGED <<pc, budgeted, attempt, usedFallback, token, raw, result, told,
                   failures, cause>>

\* Mutant: a stream that ends is an answer.
MutantStreamEnds ==
    /\ pc = "stream"
    /\ \E kind \in IF stream.content THEN Answers ELSE {"empty"} :
          raw' = [kind |-> kind, complete |-> stream.finished]
    /\ stream' = NoStream
    /\ pc' = "score"
    /\ UNCHANGED <<budgeted, attempt, usedFallback, token, result, told, failures, cause>>

\* The end, "[DONE]" or the close of the connection, after a reason to finish.
StreamEnds ==
    /\ pc = "stream"
    /\ stream.finished
    /\ \E kind \in IF stream.content THEN Answers ELSE {"empty"} :
          raw' = [kind |-> kind, complete |-> stream.finished]
    /\ stream' = NoStream
    /\ pc' = "score"
    /\ UNCHANGED <<budgeted, attempt, usedFallback, token, result, told, failures, cause>>

\* An event that is not text.
StreamGarbled ==
    /\ pc = "stream"
    /\ raw' = Garbled
    /\ stream' = NoStream
    /\ pc' = "score"
    /\ UNCHANGED <<budgeted, attempt, usedFallback, token, result, told, failures, cause>>

\* An event that is not JSON or names another completion, an end without a reason, a
\* connection that is closed amid an event; or a read that times out.
StreamFails ==
    /\ pc = "stream"
    /\ \E kind \in {"cut", "unreachable"} : CallFails(kind)

-----------------------------------------------------------------------------
(* An outage (inference_resilience.py).                                    *)

Escapes == pc' = "escaped"     \* the error leaves the loop; the message is not settled

\* The run goes back to Core before the wait.
ReleaseUnavailable ==
    /\ pc = "release"
    /\ told' = [told EXCEPT ![token] = "unavailable"]
    /\ pc' = "cooldown"
    /\ UNCHANGED <<budgeted, attempt, usedFallback, token, stream, raw, result, failures,
                   cause>>

ProbeRefused ==
    /\ pc = "cooldown"
    /\ failures < MaxFailures
    /\ failures' = failures + 1
    /\ UNCHANGED <<pc, budgeted, attempt, usedFallback, token, stream, raw, result, told,
                   cause>>

\* Mutant: the worker goes on when health returns, with the lease it had.
MutantProbeHealthy ==
    /\ pc = "cooldown"
    /\ pc' = "call"
    /\ attempt' = 0
    /\ usedFallback' = FALSE
    /\ UNCHANGED <<budgeted, token, stream, raw, result, told, failures, cause>>

ProbeHealthy ==
    /\ pc = "cooldown"
    /\ pc' = "reacquire"
    /\ UNCHANGED <<budgeted, attempt, usedFallback, token, stream, raw, result, told,
                   failures, cause>>

\* Mutant: the attempts of the batch before are still counted.
MutantReacquire ==
    /\ pc = "reacquire"
    /\ token' = token + 1
    /\ told' = Append(told, "nothing")
    /\ usedFallback' = FALSE
    /\ pc' = "call"
    /\ UNCHANGED <<budgeted, attempt, stream, raw, result, failures, cause>>

\* A new batch begins under a new lease, with the primary prompt.
Reacquire ==
    /\ pc = "reacquire"
    /\ token' = token + 1
    /\ told' = Append(told, "nothing")
    /\ attempt' = 0
    /\ usedFallback' = FALSE
    /\ pc' = "call"
    /\ UNCHANGED <<budgeted, stream, raw, result, failures, cause>>

ReacquireFails ==
    /\ pc = "reacquire"
    /\ Escapes
    /\ UNCHANGED <<budgeted, attempt, usedFallback, token, stream, raw, result, told,
                   failures, cause>>

-----------------------------------------------------------------------------
(* The completion (main.py).                                               *)

\* Without an object there are no languages and no sections: their scores are zero.
Score ==
    /\ pc = "score"
    /\ LET values == IF raw.kind = "object" THEN RawScores ELSE {NoNumber}
           langs  == IF raw.kind = "object" THEN SUBSET (Languages \X Levels) ELSE {{}}
       IN  \E h, e, s \in {CoerceScore(v) : v \in values}, a, m \in langs :
              \E score \in FinalScores(h, e, s, Missing(a, m) # {}) :
                 result' = [score |-> score, sections |-> {h, e, s},
                            applicant |-> a, mandatory |-> m]
    /\ pc' = "report"
    /\ UNCHANGED <<budgeted, attempt, usedFallback, token, stream, raw, told, failures,
                   cause>>

\* The error of a batch that cannot go on is reported under the lease in use.  A NaN
\* cannot be sent: the request is refused before it leaves.
Verdict == IF pc = "report" THEN "result" ELSE "error"

Report ==
    /\ pc \in {"report", "reportError"}
    /\ IF pc = "report" /\ result.score = NaN THEN UNCHANGED told /\ Escapes
       ELSE told' = [told EXCEPT ![token] = Verdict] /\ pc' = "done"
    /\ UNCHANGED <<budgeted, attempt, usedFallback, token, stream, raw, result, failures,
                   cause>>

\* The Gateway cannot be reached or refuses; or it has taken the call and its answer
\* is lost.
GatewayFails ==
    /\ pc \in {"release", "report", "reportError"}
    /\ \/ UNCHANGED told
       \/ pc = "release" /\ told' = [told EXCEPT ![token] = "unavailable"]
       \/ /\ pc # "release" /\ ~(pc = "report" /\ result.score = NaN)
          /\ told' = [told EXCEPT ![token] = Verdict]
    /\ Escapes
    /\ UNCHANGED <<budgeted, attempt, usedFallback, token, stream, raw, result, failures,
                   cause>>

Next == \/ Call \/ RequestFails \/ SyncAnswer
        \/ StreamBegins \/ StreamEnds \/ StreamGarbled \/ StreamFails
        \/ \E c \in Chunks : ReadChunk(c)
        \/ ReleaseUnavailable \/ ProbeRefused \/ ProbeHealthy
        \/ Reacquire \/ ReacquireFails
        \/ Score \/ Report \/ GatewayFails

Spec == Init /\ [][Next]_vars

-----------------------------------------------------------------------------
(* Properties.                                                             *)

TypeOK ==
    /\ pc \in {"call", "request", "stream", "release", "cooldown", "reacquire", "score",
              "report", "reportError", "done", "escaped"}
    /\ budgeted \in BOOLEAN
    /\ usedFallback \in BOOLEAN
    /\ attempt \in 0 .. Delays + 1
    /\ token \in 1 .. MaxFailures + 1
    /\ told \in [1 .. token -> {"nothing", "unavailable", "result", "error"}]
    /\ failures \in 0 .. MaxFailures
    /\ stream.id \in 0 .. 2
    /\ raw.kind \in Answers \union {"none"}
    /\ pc # "stream" => stream = NoStream

\* The server is told at most once in a stream to end its reasoning, and never after
\* the answer proper has begun, whatever the order in which the events bring their
\* ids, token counts and pieces (_read_budgeted_stream).
OneReasoningEnd == stream.controls <= 1 /\ ~stream.late

\* Nothing of an answer that was cut short is scored: what a stream without an end or
\* a body that broke off has brought is never part of a result
\* (test_stream_without_finish_reason_does_not_return_partial_result).
NoPartialResult ==
    pc \in {"report", "done"} /\ raw.kind # "none" /\ ~raw.complete =>
        result.score = 0 /\ result.sections = {0}

\* A run is failed for good only by an answer of the server.  A request it refuses as
\* malformed (400) counts only once the fallback prompt has been tried in this batch, be
\* it the first or one after an outage, unless no retries are configured; a request it
\* refuses otherwise (401) and a stream that breaks off or cannot be read (cut) count at
\* once, on either prompt.  An overload (500, 503) and silence never do (_attempt_batch).
FallbackBeforeFailure ==
    pc = "reportError" =>
        /\ cause \in {"400", "401", "cut"}
        /\ cause = "400" => usedFallback \/ Delays = 0

\* A score that is sent is 0.5 for an applicant without one of the mandatory languages
\* and otherwise lies between the lowest and the highest of the three sections, on the
\* scale from 0 to 10 (calculate_final_score, evaluate_language_disqualification).
Speaks(applicant, m) ==
    \E a \in applicant : a[1] = m[1] /\ NormalizeLevel(a[2]) >= NormalizeLevel(m[2])

ScoreIsFair ==
    pc = "done" /\ told[token] = "result" =>
        /\ result.score \in 0 .. 100
        /\ IF \A m \in result.mandatory : Speaks(result.applicant, m)
           THEN result.score \in Min(result.sections) .. Max(result.sections)
           ELSE result.score = 5

\* Under one lease the worker says one thing: a result, a terminal error, or that it
\* gives the run back, after which it says no more until it has leased the run again
\* (run_with_outage_recovery).  The Gateway and Core build on no more than that.
Holds ==
    CASE told[token] \in {"result", "error"} -> "answered"
      [] told[token] = "unavailable" /\ pc # "escaped" -> "returned"
      [] told[token] = "nothing" /\ pc # "escaped" -> "held"
      [] OTHER -> "silent"

Core == INSTANCE LeaseHolder WITH lease <- token, state <- Holds
KeepsLeaseContract == Core!Spec
=============================================================================
