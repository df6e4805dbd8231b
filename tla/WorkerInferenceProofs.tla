------------------------ MODULE WorkerInferenceProofs ------------------------
(***************************************************************************)
(* Proofs about WorkerInference, for any number of retry delays, any       *)
(* budget and margin, and any number of failures.                          *)
(***************************************************************************)
EXTENDS WorkerInference, SequenceTheorems, TLAPS

\* A failed batch has used one failure, which pays for the next lease.
Spent == IF pc \in {"release", "cooldown", "reacquire"} THEN 1 ELSE 0

LeasesArePaid == token + Spent <= failures + 1

Reports == {"nothing", "unavailable", "result", "error"}

ToldIsSeq == told \in Seq(Reports) /\ Len(told) = token

\* What the Gateway knows of the lease in use follows from where the worker is.
ToldOfLease ==
    /\ pc \in {"call", "request", "stream", "release", "score", "report", "reportError"}
           => told[token] = "nothing"
    /\ pc \in {"cooldown", "reacquire"} => told[token] = "unavailable"
    /\ pc = "done" => told[token] \in {"result", "error"}

\* A batch has called once before it turns to the fallback, and a batch that is to
\* call has a call left.
CallsLeft ==
    /\ ~usedFallback => attempt <= 1
    /\ pc = "call" => attempt <= Delays /\ (usedFallback \/ attempt = 0)

StreamOK ==
    stream \in [id : 0 .. 2, reasoning : BOOLEAN, content : BOOLEAN, finished : BOOLEAN,
                controls : 0 .. 1, late : {FALSE}]

\* There is an answer from the end of the call on, and one that was cut short is no
\* object.
AnswerOK ==
    /\ raw \in {NoAnswer, Garbled} \cup {Complete(kind) : kind \in Answers}
    /\ pc \notin {"score", "report", "done", "escaped"} => raw = NoAnswer

\* The inductive invariant.
IInv ==
    /\ TypeOK /\ LeasesArePaid /\ ToldIsSeq /\ ToldOfLease /\ CallsLeft
    /\ StreamOK /\ AnswerOK
    /\ FallbackBeforeFailure /\ NoPartialResult

-----------------------------------------------------------------------------
LEMMA SeqIsFunction ==
    ASSUME NEW S, NEW n \in Nat, NEW s \in Seq(S), Len(s) = n
    PROVE  s \in [1 .. n -> S]
  BY LenProperties

LEMMA IInvInit == Init => IInv
<1>. SUFFICES ASSUME Init PROVE IInv
  OBVIOUS
<1>1. ToldIsSeq
  BY DEF Init, ToldIsSeq, Reports
<1>2. told \in [1 .. token -> Reports]
  BY <1>1, SeqIsFunction DEF Init, ToldIsSeq
<1>3. TypeOK
  <2>1. stream.id = 0 /\ raw.kind = "none"
    BY DEF Init, NoStream, NoAnswer
  <2>2. attempt \in 0 .. Delays + 1 /\ token \in 1 .. MaxFailures + 1
        /\ failures \in 0 .. MaxFailures
    BY InferenceAssumption DEF Init
  <2>3. pc = "call" /\ budgeted \in BOOLEAN /\ usedFallback \in BOOLEAN /\ stream = NoStream
    BY DEF Init
  <2>. QED
    BY <1>2, <2>1, <2>2, <2>3 DEF TypeOK, Reports
<1>4. StreamOK /\ AnswerOK
  BY DEF Init, StreamOK, AnswerOK, NoStream, NoAnswer
<1>. QED
  BY <1>1, <1>3, <1>4, InferenceAssumption
  DEF Init, IInv, LeasesArePaid, Spent, ToldOfLease, CallsLeft, FallbackBeforeFailure,
      NoPartialResult, NoAnswer

\* What the worker tells under the lease in use keeps what it has told before.
LEMMA TellingKeepsType ==
    ASSUME IInv, NEW r \in Reports, told' = [told EXCEPT ![token] = r], UNCHANGED token
    PROVE  /\ told' \in [1 .. token -> Reports] /\ ToldIsSeq'
           /\ told'[token] = r
<1>1. token \in 1 .. Len(told) /\ token \in Nat
  BY DEF IInv, TypeOK, ToldIsSeq
<1>2. told' \in Seq(Reports) /\ Len(told') = Len(told)
  BY <1>1, ExceptSeq DEF IInv, ToldIsSeq
<1>3. ToldIsSeq'
  BY <1>2 DEF IInv, ToldIsSeq
<1>4. told' \in [1 .. token -> Reports]
  BY <1>1, <1>3, SeqIsFunction DEF ToldIsSeq
<1>5. told'[token] = r
  BY <1>1, LenProperties DEF IInv, ToldIsSeq
<1>. QED
  BY <1>3, <1>4, <1>5

-----------------------------------------------------------------------------
(* One lemma per group of actions.                                         *)

LEMMA CallKeepsIInv ==
    ASSUME IInv, Call
    PROVE  IInv'
<1>1. attempt' \in 0 .. Delays + 1
  BY InferenceAssumption DEF IInv, TypeOK, CallsLeft, Call
<1>2. TypeOK'
  BY <1>1 DEF IInv, TypeOK, Call
<1>3. LeasesArePaid'
  BY DEF IInv, LeasesArePaid, Spent, Call
<1>4. ToldIsSeq' /\ ToldOfLease'
  BY DEF IInv, ToldIsSeq, ToldOfLease, Call
<1>5. CallsLeft'
  BY DEF IInv, TypeOK, CallsLeft, Call
<1>6. StreamOK' /\ AnswerOK'
  BY DEF IInv, StreamOK, AnswerOK, Call
<1>7. FallbackBeforeFailure' /\ NoPartialResult'
  BY DEF FallbackBeforeFailure, NoPartialResult, Call
<1>. QED
  BY <1>2, <1>3, <1>4, <1>5, <1>6, <1>7 DEF IInv

\* A batch goes on, gives the run back, or fails for good.
LEMMA CallFailsKeepsIInv ==
    ASSUME IInv, NEW kind \in {"400", "500", "503", "401", "unreachable", "cut"},
           pc \in {"request", "stream"}, CallFails(kind)
    PROVE  IInv'
<1>. USE DEF CallFails
<1>1. pc' \in {"call", "release", "reportError"}
  BY DEF CallFails
<1>2. TypeOK'
  <2>1. failures' \in 0 .. MaxFailures
    BY InferenceAssumption DEF IInv, TypeOK
  <2>2. usedFallback' \in BOOLEAN
    <3>1. CASE Retried(kind)
      BY <3>1
    <3>2. CASE ~Retried(kind)
      BY <3>2 DEF IInv, TypeOK
    <3>. QED
      BY <3>1, <3>2
  <2>3. stream'.id \in 0 .. 2 /\ stream' = NoStream
    BY DEF NoStream
  <2>. QED
    BY <1>1, <2>1, <2>2, <2>3 DEF IInv, TypeOK
<1>3. LeasesArePaid'
  BY <1>1 DEF IInv, LeasesArePaid, TypeOK, Spent
<1>4. ToldIsSeq' /\ ToldOfLease'
  BY <1>1 DEF IInv, ToldIsSeq, ToldOfLease
<1>5. CallsLeft'
  BY DEF IInv, CallsLeft, Retried, TypeOK
<1>6. StreamOK' /\ AnswerOK'
  BY <1>1 DEF IInv, StreamOK, NoStream, AnswerOK
<1>7. FallbackBeforeFailure'
  BY InferenceAssumption
  DEF IInv, FallbackBeforeFailure, CallsLeft, TypeOK, Retried, Temporary, AllowsFallback
<1>8. NoPartialResult'
  BY <1>1 DEF NoPartialResult
<1>. QED
  BY <1>2, <1>3, <1>4, <1>5, <1>6, <1>7, <1>8 DEF IInv

LEMMA FailuresKeepIInv == IInv /\ (RequestFails \/ StreamFails) => IInv'
  BY CallFailsKeepsIInv DEF RequestFails, StreamFails

\* A call ends with an answer.
LEMMA AnswersKeepIInv ==
    ASSUME IInv, SyncAnswer \/ StreamEnds \/ StreamGarbled
    PROVE  IInv'
<1>1. /\ pc \in {"request", "stream"} /\ pc' = "score"
      /\ UNCHANGED <<budgeted, attempt, usedFallback, token, result, told, failures, cause>>
  BY DEF SyncAnswer, StreamEnds, StreamGarbled
<1>2. stream' = NoStream
  BY DEF IInv, TypeOK, SyncAnswer, StreamEnds, StreamGarbled
<1>3. raw' \in {Garbled} \cup {Complete(kind) : kind \in Answers}
  <2>1. CASE SyncAnswer
    BY <2>1 DEF SyncAnswer
  <2>2. CASE StreamGarbled
    BY <2>2 DEF StreamGarbled
  <2>3. CASE StreamEnds
    BY <2>3 DEF StreamEnds, Complete, Answers, IInv, StreamOK
  <2>. QED
    BY <2>1, <2>2, <2>3
<1>4. TypeOK'
  <2>1. raw'.kind \in Answers
    BY <1>3 DEF Garbled, Complete, Answers
  <2>. QED
    BY <1>1, <1>2, <2>1 DEF IInv, TypeOK, NoStream
<1>5. StreamOK' /\ AnswerOK'
  BY <1>1, <1>2, <1>3 DEF StreamOK, NoStream, AnswerOK
<1>6. LeasesArePaid' /\ ToldIsSeq' /\ ToldOfLease' /\ CallsLeft'
  BY <1>1 DEF IInv, LeasesArePaid, Spent, TypeOK, ToldIsSeq, ToldOfLease, CallsLeft
<1>7. FallbackBeforeFailure' /\ NoPartialResult'
  BY <1>1 DEF FallbackBeforeFailure, NoPartialResult
<1>. QED
  BY <1>4, <1>5, <1>6, <1>7 DEF IInv

\* The end of reasoning is asked for only while there is no answer proper.
LEMMA ChunkKeepsStream ==
    ASSUME IInv, NEW c \in Chunks, ReadChunk(c)
    PROVE  StreamOK'
<1>1. Taken(c) \in [id : 0 .. 2, reasoning : BOOLEAN, content : BOOLEAN, finished : BOOLEAN,
                    controls : {stream.controls}, late : {FALSE}]
  BY DEF IInv, StreamOK, Taken, Chunks
<1>2. stream.content => Taken(c).content
  BY DEF IInv, StreamOK, Taken, Chunks
<1>3. CASE ShouldEndReasoning(c, Taken(c))
  <2>1. ~stream.content /\ Taken(c).controls = 0
    BY <1>2, <1>3 DEF ShouldEndReasoning
  <2>2. stream.content = FALSE
    BY <2>1 DEF IInv, StreamOK
  <2>3. stream' = [Taken(c) EXCEPT !.controls = Taken(c).controls + 1, !.late = stream.content]
    BY <1>3 DEF ReadChunk
  <2>4. Taken(c).controls + 1 = 1
    BY <2>1
  <2>5. stream' = [Taken(c) EXCEPT !.controls = 1, !.late = FALSE]
    BY <2>2, <2>3, <2>4, Zenon
  <2>6. stream' = [id |-> Taken(c).id, reasoning |-> Taken(c).reasoning,
                   content |-> Taken(c).content, finished |-> Taken(c).finished,
                   controls |-> 1, late |-> FALSE]
    BY <1>1, <2>5
  <2>. QED
    BY <1>1, <2>6 DEF StreamOK
<1>4. CASE ~ShouldEndReasoning(c, Taken(c))
  BY <1>1, <1>4 DEF ReadChunk, StreamOK, IInv
<1>. QED
  BY <1>3, <1>4

LEMMA ReadChunkKeepsIInv ==
    ASSUME IInv, NEW c \in Chunks, ReadChunk(c)
    PROVE  IInv'
<1>1. StreamOK'
  BY ChunkKeepsStream
<1>2. pc = "stream" /\ UNCHANGED <<pc, budgeted, attempt, usedFallback, token, raw, result,
                                   told, failures, cause>>
  BY DEF ReadChunk
<1>. QED
  BY <1>1, <1>2 DEF IInv, TypeOK, StreamOK, LeasesArePaid, Spent, ToldIsSeq, ToldOfLease,
                    CallsLeft, AnswerOK, FallbackBeforeFailure, NoPartialResult

LEMMA StreamBeginsKeepsIInv ==
    ASSUME IInv, StreamBegins
    PROVE  IInv'
<1>1. TypeOK'
  BY DEF IInv, TypeOK, StreamBegins
<1>2. LeasesArePaid' /\ CallsLeft'
  BY DEF IInv, LeasesArePaid, Spent, CallsLeft, StreamBegins
<1>3. ToldIsSeq' /\ ToldOfLease'
  BY DEF IInv, ToldIsSeq, ToldOfLease, StreamBegins
<1>4. StreamOK' /\ AnswerOK'
  BY DEF IInv, StreamOK, AnswerOK, StreamBegins
<1>5. FallbackBeforeFailure' /\ NoPartialResult'
  BY DEF FallbackBeforeFailure, NoPartialResult, StreamBegins
<1>. QED
  BY <1>1, <1>2, <1>3, <1>4, <1>5 DEF IInv

\* The steps of an outage that tell nobody.
LEMMA ProbesKeepIInv ==
    ASSUME IInv, ProbeRefused \/ ProbeHealthy \/ ReacquireFails
    PROVE  IInv'
<1>1. /\ pc \in {"cooldown", "reacquire"} /\ pc' \in {"cooldown", "reacquire", "escaped"}
      /\ failures' \in {failures, failures + 1} /\ failures' <= MaxFailures
      /\ UNCHANGED <<budgeted, attempt, usedFallback, token, stream, raw, result, told, cause>>
  BY InferenceAssumption
  DEF IInv, TypeOK, ProbeRefused, ProbeHealthy, ReacquireFails, Escapes
<1>2. TypeOK'
  <2>1. failures' \in 0 .. MaxFailures
    BY <1>1, InferenceAssumption DEF IInv, TypeOK
  <2>. QED
    BY <1>1, <2>1 DEF IInv, TypeOK
<1>3. LeasesArePaid'
  <2>1. Spent = 1 /\ Spent' \in {0, 1}
    BY <1>1 DEF Spent
  <2>2. token \in Nat /\ failures \in Nat /\ token + 1 <= failures + 1
    BY <2>1, InferenceAssumption DEF IInv, TypeOK, LeasesArePaid
  <2>3. token' + Spent' <= failures' + 1
    <3>. DEFINE s == Spent'
                g == failures'
    <3>1. token' = token /\ s \in {0, 1} /\ g \in {failures, failures + 1}
      BY <1>1, <2>1
    <3>. HIDE DEF s, g
    <3>2. token + s <= g + 1
      BY <2>2, <3>1
    <3>. QED
      BY <3>1, <3>2 DEF s, g
  <2>. QED
    BY <2>3 DEF LeasesArePaid
<1>4. ToldIsSeq' /\ ToldOfLease' /\ CallsLeft'
  BY <1>1 DEF IInv, ToldIsSeq, ToldOfLease, CallsLeft
<1>5. StreamOK' /\ AnswerOK'
  BY <1>1 DEF IInv, StreamOK, AnswerOK
<1>6. FallbackBeforeFailure' /\ NoPartialResult'
  BY <1>1 DEF FallbackBeforeFailure, NoPartialResult
<1>. QED
  BY <1>2, <1>3, <1>4, <1>5, <1>6 DEF IInv

LEMMA ReleaseKeepsIInv ==
    ASSUME IInv, ReleaseUnavailable
    PROVE  IInv'
<1>1. told' \in [1 .. token -> Reports] /\ ToldIsSeq' /\ told'[token] = "unavailable"
  BY TellingKeepsType DEF ReleaseUnavailable, Reports
<1>. QED
  BY <1>1 DEF IInv, ReleaseUnavailable, TypeOK, Reports, LeasesArePaid, Spent, ToldOfLease,
              CallsLeft, StreamOK, AnswerOK, FallbackBeforeFailure, NoPartialResult

LEMMA ReacquireKeepsIInv ==
    ASSUME IInv, Reacquire
    PROVE  IInv'
<1>1. token \in Nat /\ Len(told) = token /\ told \in Seq(Reports)
  BY DEF IInv, TypeOK, ToldIsSeq
<1>2. /\ told' \in Seq(Reports) /\ Len(told') = token + 1
      /\ told'[token + 1] = "nothing"
  BY <1>1, AppendProperties DEF Reacquire, Reports
<1>3. ToldIsSeq' /\ token' \in Nat
  BY <1>1, <1>2 DEF Reacquire, ToldIsSeq
<1>4. told' \in [1 .. token' -> Reports]
  BY <1>3, SeqIsFunction DEF ToldIsSeq
<1>5. LeasesArePaid'
  BY <1>1 DEF IInv, TypeOK, LeasesArePaid, Spent, Reacquire
<1>6. TypeOK'
  <2>1. token' \in 1 .. MaxFailures + 1
    BY InferenceAssumption DEF IInv, TypeOK, LeasesArePaid, Spent, Reacquire
  <2>2. attempt' \in 0 .. Delays + 1
    BY InferenceAssumption DEF Reacquire
  <2>. QED
    BY <1>4, <2>1, <2>2 DEF IInv, TypeOK, Reacquire, Reports
<1>7. ToldOfLease'
  BY <1>2 DEF ToldOfLease, Reacquire
<1>8. CallsLeft'
  BY InferenceAssumption DEF CallsLeft, Reacquire
<1>9. StreamOK' /\ AnswerOK'
  BY DEF IInv, StreamOK, AnswerOK, Reacquire
<1>10. FallbackBeforeFailure' /\ NoPartialResult'
  BY DEF FallbackBeforeFailure, NoPartialResult, Reacquire
<1>. QED
  BY <1>3, <1>5, <1>6, <1>7, <1>8, <1>9, <1>10 DEF IInv

\* Without an object every section is zero, and so is the score.
LEMMA NoObjectNoScore ==
    /\ CoerceScore(NoNumber) = 0
    /\ FinalScores(0, 0, 0, Missing({}, {}) # {}) = {0}
<1>1. CoerceScore(NoNumber) = 0
  BY DEF CoerceScore, NoNumber, NaN
<1>2. Missing({}, {}) = {}
  BY DEF Missing
<1>3. Rounded(0) = {0}
  BY DEF Rounded
<1>4. NaN \notin {0, 0, 0} /\ 60 * 0 + 25 * 0 + 15 * 0 = 0
  BY DEF NaN
<1>. QED
  BY <1>1, <1>2, <1>3, <1>4 DEF FinalScores

LEMMA ScoreKeepsIInv ==
    ASSUME IInv, Score
    PROVE  IInv'
<1>1. NoPartialResult'
  <2>. SUFFICES ASSUME raw.kind # "none", ~raw.complete
                PROVE  result'.score = 0 /\ result'.sections = {0}
    BY DEF Score, NoPartialResult
  <2>1. raw.kind # "object"
    BY DEF IInv, AnswerOK, NoAnswer, Garbled, Complete
  <2>2. PICK h, e, s \in {CoerceScore(v) : v \in {NoNumber}}, a, m \in {{}} :
            \E score \in FinalScores(h, e, s, Missing(a, m) # {}) :
                result' = [score |-> score, sections |-> {h, e, s},
                           applicant |-> a, mandatory |-> m]
    BY <2>1 DEF Score
  <2>3. h = 0 /\ e = 0 /\ s = 0 /\ a = {} /\ m = {}
    BY NoObjectNoScore
  <2>4. PICK score \in FinalScores(0, 0, 0, Missing({}, {}) # {}) :
            result' = [score |-> score, sections |-> {0}, applicant |-> {}, mandatory |-> {}]
    BY <2>2, <2>3
  <2>. QED
    BY <2>4, NoObjectNoScore
<1>2. /\ pc = "score" /\ pc' = "report"
      /\ UNCHANGED <<budgeted, attempt, usedFallback, token, stream, raw, told, failures, cause>>
  BY DEF Score
<1>. QED
  BY <1>1, <1>2 DEF IInv, TypeOK, LeasesArePaid, Spent, ToldIsSeq, ToldOfLease, CallsLeft,
                    StreamOK, AnswerOK, FallbackBeforeFailure

LEMMA ReportKeepsIInv ==
    ASSUME IInv, Report
    PROVE  IInv'
<1>1. CASE UNCHANGED told /\ pc' = "escaped"
  <2>1. TypeOK' /\ ToldIsSeq' /\ ToldOfLease'
    BY <1>1 DEF IInv, TypeOK, ToldIsSeq, ToldOfLease, Report
  <2>2. LeasesArePaid' /\ CallsLeft'
    BY <1>1 DEF IInv, LeasesArePaid, Spent, CallsLeft, Report
  <2>3. StreamOK' /\ AnswerOK'
    BY <1>1 DEF IInv, StreamOK, AnswerOK, Report
  <2>4. FallbackBeforeFailure' /\ NoPartialResult'
    BY <1>1 DEF FallbackBeforeFailure, NoPartialResult
  <2>. QED
    BY <2>1, <2>2, <2>3, <2>4 DEF IInv
<1>2. CASE told' = [told EXCEPT ![token] = Verdict] /\ pc' = "done"
  <2>1. Verdict \in {"result", "error"}
    BY DEF Verdict
  <2>2. told' \in [1 .. token -> Reports] /\ ToldIsSeq' /\ told'[token] = Verdict
    BY <1>2, <2>1, TellingKeepsType DEF Report, Reports
  <2>3. NoPartialResult'
    BY <1>2 DEF IInv, Report, NoPartialResult, AnswerOK, NoAnswer
  <2>4. TypeOK' /\ ToldOfLease'
    BY <1>2, <2>1, <2>2 DEF IInv, Report, TypeOK, Reports, ToldOfLease
  <2>5. LeasesArePaid' /\ CallsLeft'
    BY <1>2 DEF IInv, LeasesArePaid, Spent, CallsLeft, Report
  <2>6. StreamOK' /\ AnswerOK'
    BY <1>2 DEF IInv, StreamOK, AnswerOK, Report
  <2>7. FallbackBeforeFailure'
    BY <1>2 DEF FallbackBeforeFailure
  <2>. QED
    BY <2>2, <2>3, <2>4, <2>5, <2>6, <2>7 DEF IInv
<1>. QED
  BY <1>1, <1>2 DEF Report, Escapes

LEMMA GatewayFailsKeepsIInv ==
    ASSUME IInv, GatewayFails
    PROVE  IInv'
<1>1. /\ pc' = "escaped" /\ pc \in {"release", "report", "reportError"}
      /\ UNCHANGED <<budgeted, attempt, usedFallback, token, stream, raw, result, failures, cause>>
  BY DEF GatewayFails, Escapes
<1>2. told' \in [1 .. token -> Reports] /\ ToldIsSeq'
  <2>1. CASE UNCHANGED told
    BY <2>1, <1>1 DEF IInv, TypeOK, ToldIsSeq, Reports
  <2>2. ASSUME NEW r \in {"unavailable", "result", "error"}, told' = [told EXCEPT ![token] = r]
        PROVE  told' \in [1 .. token -> Reports] /\ ToldIsSeq'
    BY <1>1, <2>2, TellingKeepsType DEF Reports
  <2>. QED
    BY <2>1, <2>2 DEF GatewayFails, Verdict
<1>3. TypeOK' /\ ToldOfLease'
  BY <1>1, <1>2 DEF IInv, TypeOK, Reports, ToldOfLease
<1>4. LeasesArePaid' /\ CallsLeft'
  BY <1>1 DEF IInv, TypeOK, LeasesArePaid, Spent, CallsLeft
<1>5. StreamOK' /\ AnswerOK'
  BY <1>1 DEF IInv, StreamOK, AnswerOK
<1>6. FallbackBeforeFailure' /\ NoPartialResult'
  BY <1>1 DEF FallbackBeforeFailure, NoPartialResult
<1>. QED
  BY <1>2, <1>3, <1>4, <1>5, <1>6 DEF IInv

LEMMA IInvNext == IInv /\ [Next]_vars => IInv'
<1>. SUFFICES ASSUME IInv, [Next]_vars PROVE IInv'
  OBVIOUS
<1>1. CASE UNCHANGED vars
  <2>1. TypeOK' /\ ToldIsSeq' /\ ToldOfLease'
    BY <1>1 DEF vars, IInv, TypeOK, ToldIsSeq, ToldOfLease
  <2>2. LeasesArePaid' /\ CallsLeft'
    BY <1>1 DEF vars, IInv, LeasesArePaid, Spent, CallsLeft
  <2>3. StreamOK' /\ AnswerOK'
    BY <1>1 DEF vars, IInv, StreamOK, AnswerOK
  <2>4. FallbackBeforeFailure' /\ NoPartialResult'
    BY <1>1 DEF vars, IInv, FallbackBeforeFailure, NoPartialResult
  <2>. QED
    BY <2>1, <2>2, <2>3, <2>4 DEF IInv
<1>2. CASE Next
  BY <1>2, CallKeepsIInv, FailuresKeepIInv, AnswersKeepIInv, StreamBeginsKeepsIInv,
     ReadChunkKeepsIInv, ProbesKeepIInv, ReleaseKeepsIInv, ReacquireKeepsIInv, ScoreKeepsIInv,
     ReportKeepsIInv, GatewayFailsKeepsIInv DEF Next
<1>. QED
  BY <1>1, <1>2

\* The invariant holds of every behaviour.
THEOREM Invariance == Spec => []IInv
BY IInvInit, IInvNext, PTL DEF Spec

\* Type correctness (inference_resilience.py, llama_cpp_client.py, main.py).
THEOREM TypeCorrect == Spec => []TypeOK
<1>1. IInv => TypeOK
  BY DEF IInv
<1>. QED
  BY <1>1, Invariance, PTL

\* A server is told at most once in a stream to end its reasoning, and never amid the
\* answer proper, for any budget and margin (_read_budgeted_stream).
THEOREM ReasoningEndsOnce == Spec => []OneReasoningEnd
<1>1. ASSUME IInv PROVE OneReasoningEnd
  <2>1. stream.controls <= 1
    BY <1>1 DEF IInv, StreamOK
  <2>2. stream.late = FALSE
    BY <1>1 DEF IInv, StreamOK
  <2>. QED
    BY <2>1, <2>2, Zenon DEF OneReasoningEnd
<1>. QED
  BY <1>1, Invariance, PTL

\* No part of an answer that was cut short is in a score, whatever a model may put down
\* (call_model, build_completion).
THEOREM PartialResultsUnused == Spec => []NoPartialResult
<1>1. IInv => NoPartialResult
  BY DEF IInv
<1>. QED
  BY <1>1, Invariance, PTL

\* No run fails for good over an overload or over silence of the server, and none over a
\* malformed request (400) while its fallback prompt is untried, for any number of retry
\* delays and after any number of outages.  What fails at once is a request refused
\* otherwise (401) or a stream cut short (_attempt_batch).
THEOREM FallbackIsTried == Spec => []FallbackBeforeFailure
<1>1. IInv => FallbackBeforeFailure
  BY DEF IInv
<1>. QED
  BY <1>1, Invariance, PTL

-----------------------------------------------------------------------------
(* The worker implements the contract of a lease.                          *)

LEMMA InitIsHolder == Init => Core!Init
  BY DEF Init, Core!Init, Holds

\* A step that leaves the lease in use and what has been told under it alone.
LEMMA QuietStep ==
    ASSUME UNCHANGED <<token, told>>, pc # "escaped", pc' # "escaped"
    PROVE  UNCHANGED <<token, Holds>>
  BY DEF Holds

\* An error that leaves the loop: the worker may have told before, or not.
LEMMA EscapingStep ==
    ASSUME IInv, pc \notin {"done", "escaped"}, pc' = "escaped", UNCHANGED <<token, told>>
    PROVE  [Core!Next]_<<token, Holds>>
<1>1. told[token] \in {"nothing", "unavailable"}
  BY DEF IInv, TypeOK, ToldOfLease
<1>2. Holds \in {"held", "returned"}
  BY <1>1 DEF Holds
<1>3. Holds' = "silent"
  BY <1>1 DEF Holds
<1>. QED
  BY <1>2, <1>3 DEF Core!Next, Core!FallSilent

\* The worker tells for the first time under its lease; it may go on or escape after.
LEMMA TellingStep ==
    ASSUME IInv, pc \in {"release", "report", "reportError"},
           NEW r \in {"unavailable", "result", "error"},
           told' = [told EXCEPT ![token] = r], UNCHANGED token,
           pc' \in {"cooldown", "done", "escaped"}
    PROVE  [Core!Next]_<<token, Holds>>
<1>1. Holds = "held"
  BY DEF IInv, ToldOfLease, Holds
<1>2. told'[token'] = r
  BY TellingKeepsType DEF Reports
<1>3. CASE r = "unavailable" /\ pc' = "escaped"
  BY <1>1, <1>2, <1>3 DEF Holds, Core!Next, Core!FallSilent
<1>4. CASE r = "unavailable" /\ pc' # "escaped"
  BY <1>1, <1>2, <1>4 DEF Holds, Core!Next, Core!GiveBack
<1>5. CASE r # "unavailable"
  BY <1>1, <1>2, <1>5 DEF Holds, Core!Next, Core!Answer
<1>. QED
  BY <1>3, <1>4, <1>5

LEMMA NextIsHolder == IInv /\ [Next]_vars => [Core!Next]_<<token, Holds>>
<1>. SUFFICES ASSUME IInv, [Next]_vars PROVE [Core!Next]_<<token, Holds>>
  OBVIOUS
<1>1. CASE UNCHANGED vars
  BY <1>1 DEF vars, Holds
<1>2. CASE \/ Call \/ RequestFails \/ SyncAnswer \/ StreamBegins \/ StreamEnds
           \/ StreamGarbled \/ StreamFails \/ (\E c \in Chunks : ReadChunk(c))
           \/ ProbeRefused \/ ProbeHealthy \/ Score
  <2>1. UNCHANGED <<token, told>> /\ pc # "escaped" /\ pc' # "escaped"
    BY <1>2 DEF Call, RequestFails, SyncAnswer, StreamBegins, StreamEnds, StreamGarbled,
                StreamFails, ReadChunk, ProbeRefused, ProbeHealthy, Score, CallFails
  <2>. QED
    BY <2>1, QuietStep
<1>3. CASE ReleaseUnavailable
  BY <1>3, TellingStep DEF ReleaseUnavailable
<1>4. CASE Reacquire
  <2>1. Holds = "returned"
    BY <1>4 DEF IInv, ToldOfLease, Holds, Reacquire
  <2>2. told'[token'] = "nothing" /\ pc' = "call" /\ token' = token + 1
    BY <1>4, AppendProperties DEF IInv, ToldIsSeq, Reacquire, Reports
  <2>. QED
    BY <2>1, <2>2 DEF Holds, Core!Next, Core!Renew
<1>5. CASE ReacquireFails
  BY <1>5, EscapingStep DEF ReacquireFails, Escapes
<1>6. CASE Report
  <2>1. CASE pc = "report" /\ result.score = NaN
    BY <1>6, <2>1, EscapingStep DEF Report, Escapes
  <2>2. CASE ~(pc = "report" /\ result.score = NaN)
    BY <1>6, <2>2, TellingStep DEF Report, Verdict
  <2>. QED
    BY <2>1, <2>2
<1>7. CASE GatewayFails
  <2>1. CASE UNCHANGED told
    BY <1>7, <2>1, EscapingStep DEF GatewayFails, Escapes
  <2>2. CASE ~UNCHANGED told
    <3>1. PICK r \in {"unavailable", "result", "error"} : told' = [told EXCEPT ![token] = r]
      BY <1>7, <2>2 DEF GatewayFails, Verdict
    <3>2. /\ pc \in {"release", "report", "reportError"} /\ pc' = "escaped"
          /\ UNCHANGED token
      BY <1>7 DEF GatewayFails, Escapes
    <3>. QED
      BY <3>1, <3>2, TellingStep
  <2>. QED
    BY <2>1, <2>2
<1>. QED
  BY <1>1, <1>2, <1>3, <1>4, <1>5, <1>6, <1>7 DEF Next

\* Under each lease the worker answers once, or gives the run back and then says no
\* more until it has leased the run again, however often and at whatever point calls,
\* probes, leases and reports fail (run_with_outage_recovery).
THEOREM LeaseContractKept == Spec => KeepsLeaseContract
<1>1. Init => Core!Init
  BY InitIsHolder
<1>2. IInv /\ [Next]_vars => [Core!Next]_<<token, Holds>>
  BY NextIsHolder
<1>. QED
  BY <1>1, <1>2, Invariance, PTL DEF Spec, KeepsLeaseContract, Core!Spec

-----------------------------------------------------------------------------
(* The score.                                                              *)

LEMMA GreatestLevel ==
  ASSUME NEW S \in SUBSET (0 .. 6), S # {}
  PROVE  Max(S) \in S /\ \A y \in S : Max(S) >= y
<1>1. \E x \in S : \A y \in S : x >= y
  <2>. DEFINE Top(n) == S \subseteq 0 .. n => \E x \in S : \A y \in S : x >= y
  <2>1. ASSUME NEW n \in Nat, S \subseteq 0 .. n, n \in S PROVE \E x \in S : \A y \in S : x >= y
    BY <2>1
  <2>2. ASSUME NEW n \in Nat, S \subseteq 0 .. n + 1, n + 1 \notin S PROVE S \subseteq 0 .. n
    BY <2>2
  <2>3. ASSUME S \subseteq 0 .. 0 PROVE 0 \in S
    <3>1. PICK y \in S : TRUE
      OBVIOUS
    <3>2. y = 0
      BY <2>3
    <3>. QED BY <3>2
  <2>4. ASSUME NEW n \in Nat, Top(n) PROVE Top(n + 1)
    <3>1. CASE n + 1 \in S
      <4>1. n + 1 \in Nat
        OBVIOUS
      <4>. QED BY <2>1, <3>1, <4>1
    <3>2. CASE n + 1 \notin S
      BY <2>2, <2>4, <3>2
    <3>. QED BY <3>1, <3>2
  <2>5. Top(0)
    BY <2>1, <2>3
  <2>. HIDE DEF Top
  <2>6. Top(1) /\ Top(2)
    <3>1. Top(0 + 1)
      BY <2>4, <2>5
    <3>2. Top(1)
      BY <3>1
    <3>3. Top(1 + 1)
      BY <2>4, <3>2
    <3>. QED BY <3>2, <3>3
  <2>7. Top(3) /\ Top(4)
    <3>1. Top(2 + 1)
      BY <2>4, <2>6
    <3>2. Top(3)
      BY <3>1
    <3>3. Top(3 + 1)
      BY <2>4, <3>2
    <3>. QED BY <3>2, <3>3
  <2>8. Top(5) /\ Top(6)
    <3>1. Top(4 + 1)
      BY <2>4, <2>7
    <3>2. Top(5)
      BY <3>1
    <3>3. Top(5 + 1)
      BY <2>4, <3>2
    <3>. QED BY <3>2, <3>3
  <2>. QED BY <2>8 DEF Top
<1>. QED BY <1>1 DEF Max

\* The best level misses what is asked for just if no entry reaches it; the level
\* zero of an applicant who does not speak the language reaches none.
LEMMA BestIsSpoken ==
  ASSUME NEW a \in SUBSET (Languages \X Levels), NEW m \in Languages \X Levels
  PROVE  Best(a, m[1]) < NormalizeLevel(m[2]) <=> ~Speaks(a, m)
<1>. DEFINE L == {NormalizeLevel(x[2]) : x \in {y \in a : y[1] = m[1]}}
            n == NormalizeLevel(m[2])
<1>1. \A l \in Levels : NormalizeLevel(l) \in 1 .. 6
  BY InferenceAssumption DEF NormalizeLevel, Unknown
<1>2. n \in 1 .. 6 /\ L \subseteq 1 .. 6
  BY <1>1
<1>3. Speaks(a, m) <=> \E l \in L : l >= n
  BY DEF Speaks
<1>4. Best(a, m[1]) = Max({0} \cup L)
  BY DEF Best
<1>. HIDE DEF L, n
<1>5. {0} \cup L \in SUBSET (0 .. 6) /\ {0} \cup L # {}
  BY <1>2
<1>6. Max({0} \cup L) \in {0} \cup L /\ \A y \in {0} \cup L : Max({0} \cup L) >= y
  BY <1>5, GreatestLevel
<1>7. Max({0} \cup L) < n <=> ~\E l \in L : l >= n
  <2>. PICK b : b = Max({0} \cup L)
    OBVIOUS
  <2>1. b \in {0} \cup L /\ \A y \in {0} \cup L : b >= y
    BY <1>6
  <2>2. n \in Int /\ n > 0 /\ \A l \in L : l \in Int
    BY <1>2
  <2>3. CASE b = 0
    <3>1. ASSUME NEW l \in L PROVE ~(l >= n)
      <4>1. 0 >= l /\ l \in Int
        BY <2>1, <2>2, <2>3, <3>1
      <4>. QED BY <2>2, <4>1
    <3>. QED BY <2>2, <2>3, <3>1
  <2>4. CASE b \in L
    BY <2>1, <2>2, <2>4
  <2>. QED BY <2>1, <2>3, <2>4
<1>. QED BY <1>3, <1>4, <1>7 DEF n

\* A rounded mean lies between what it is the mean of.
LEMMA MeanIsBetween ==
  ASSUME NEW h \in 0 .. 100, NEW e \in 0 .. 100, NEW s \in 0 .. 100,
         NEW r \in Rounded(60 * h + 25 * e + 15 * s)
  PROVE  r \in Min({h, e, s}) .. Max({h, e, s}) /\ r \in 0 .. 100
<1>1. r \in Int /\ 100 * r - (60 * h + 25 * e + 15 * s) \in -50 .. 50
  BY DEF Rounded
<1>2. ASSUME NEW l \in 0 .. 100, l <= h, l <= e, l <= s PROVE l <= r
  BY <1>1, <1>2
<1>3. ASSUME NEW g \in 0 .. 100, h <= g, e <= g, s <= g PROVE r <= g
  BY <1>1, <1>3
<1>4. Min({h, e, s}) \in {h, e, s} /\ \A y \in {h, e, s} : Min({h, e, s}) <= y
  <2>1. \E x \in {h, e, s} : \A y \in {h, e, s} : x <= y
    OBVIOUS
  <2>. QED BY <2>1 DEF Min
<1>5. Max({h, e, s}) \in {h, e, s} /\ \A y \in {h, e, s} : Max({h, e, s}) >= y
  <2>1. \E x \in {h, e, s} : \A y \in {h, e, s} : x >= y
    OBVIOUS
  <2>. QED BY <2>1 DEF Max
<1>. QED BY <1>1, <1>2, <1>3, <1>4, <1>5

\* What is reported, unless it is no number.
Fair(r) ==
    /\ r.score \in 0 .. 100
    /\ IF \A m \in r.mandatory : Speaks(r.applicant, m)
       THEN r.score \in Min(r.sections) .. Max(r.sections)
       ELSE r.score = 5
ReportIsFair == pc = "report" => result.score = NaN \/ Fair(result)

LEMMA ScoringIsFair ==
  ASSUME IInv, Score
  PROVE  ReportIsFair'
<1>. DEFINE values == IF raw.kind = "object" THEN RawScores ELSE {NoNumber}
            langs  == IF raw.kind = "object" THEN SUBSET (Languages \X Levels) ELSE {{}}
<1>1. PICK h \in {CoerceScore(v) : v \in values}, e \in {CoerceScore(v) : v \in values},
           s \in {CoerceScore(v) : v \in values}, a \in langs, m \in langs :
        \E score \in FinalScores(h, e, s, Missing(a, m) # {}) :
           result' = [score |-> score, sections |-> {h, e, s}, applicant |-> a, mandatory |-> m]
  BY DEF Score
<1>2. PICK score \in FinalScores(h, e, s, Missing(a, m) # {}) :
        result' = [score |-> score, sections |-> {h, e, s}, applicant |-> a, mandatory |-> m]
  BY <1>1
<1>3. \A v \in values : CoerceScore(v) \in 0 .. 100 \cup {NaN}
  BY InferenceAssumption DEF CoerceScore, NoNumber, NaN
<1>4. {h, e, s} \subseteq 0 .. 100 \cup {NaN}
  BY <1>3
<1>5. a \in SUBSET (Languages \X Levels) /\ m \in SUBSET (Languages \X Levels)
  OBVIOUS
<1>. HIDE DEF values, langs
<1>6. Missing(a, m) = {} <=> \A x \in m : Speaks(a, x)
  BY <1>5, BestIsSpoken DEF Missing
<1>7. CASE Missing(a, m) # {}
  <2>1. score = 5
    BY <1>7 DEF FinalScores
  <2>. QED BY <1>2, <1>6, <1>7, <2>1 DEF ReportIsFair, Fair
<1>8. CASE Missing(a, m) = {} /\ NaN \in {h, e, s}
  <2>1. score = NaN
    BY <1>8 DEF FinalScores
  <2>. QED BY <1>2, <2>1 DEF ReportIsFair
<1>9. CASE Missing(a, m) = {} /\ NaN \notin {h, e, s}
  <2>1. score \in Rounded(60 * h + 25 * e + 15 * s)
    BY <1>9 DEF FinalScores
  <2>2. h \in 0 .. 100 /\ e \in 0 .. 100 /\ s \in 0 .. 100
    BY <1>4, <1>9
  <2>3. score \in Min({h, e, s}) .. Max({h, e, s}) /\ score \in 0 .. 100
    BY <2>1, <2>2, MeanIsBetween
  <2>. QED BY <1>2, <1>6, <1>9, <2>3 DEF ReportIsFair, Fair
<1>. QED BY <1>7, <1>8, <1>9

LEMMA FairInit == Init => ReportIsFair /\ ScoreIsFair
BY DEF Init, ReportIsFair, ScoreIsFair

LEMMA FairStep ==
  IInv /\ ReportIsFair /\ ScoreIsFair /\ [Next]_vars => ReportIsFair' /\ ScoreIsFair'
<1>. SUFFICES ASSUME IInv, ReportIsFair, ScoreIsFair, [Next]_vars
              PROVE  ReportIsFair' /\ ScoreIsFair'
  OBVIOUS
<1>1. CASE Score
  <2>1. pc' # "done"
    BY <1>1 DEF Score
  <2>. QED BY <1>1, <2>1, ScoringIsFair DEF ScoreIsFair
<1>2. CASE Report
  <2>1. pc' # "report" /\ UNCHANGED <<token, result>>
    BY <1>2 DEF Report, Escapes
  <2>2. ASSUME pc' = "done", told'[token] = "result" PROVE Fair(result)
    <3>1. pc \in {"report", "reportError"} /\ told' = [told EXCEPT ![token] = Verdict]
          /\ ~(pc = "report" /\ result.score = NaN)
      BY <1>2, <2>2 DEF Report, Escapes
    <3>2. told'[token] = Verdict
      BY <3>1 DEF IInv, TypeOK
    <3>3. pc = "report"
      BY <2>2, <3>1, <3>2 DEF Verdict
    <3>. QED BY <3>1, <3>3 DEF ReportIsFair
  <2>. QED BY <2>1, <2>2 DEF ReportIsFair, ScoreIsFair, Fair
<1>3. CASE UNCHANGED vars
  BY <1>3 DEF vars, ReportIsFair, ScoreIsFair
<1>4. CASE Next /\ ~Score /\ ~Report
  <2>1. pc' \notin {"report", "done"}
    BY <1>4 DEF Next, Call, RequestFails, CallFails, SyncAnswer, StreamBegins, StreamEnds,
       StreamGarbled, StreamFails, ReadChunk, ReleaseUnavailable, ProbeRefused, ProbeHealthy,
       Reacquire, ReacquireFails, GatewayFails, Escapes
  <2>. QED BY <2>1 DEF ReportIsFair, ScoreIsFair
<1>. QED BY <1>1, <1>2, <1>3, <1>4

\* A score that is sent lies between its sections and on the scale, or is the one of an
\* applicant without a mandatory language, for any scores and levels a model puts down.
THEOREM ScoresAreFair == Spec => []ScoreIsFair
<1>1. Spec => [](ReportIsFair /\ ScoreIsFair)
  BY FairInit, FairStep, Invariance, PTL DEF Spec
<1>. QED BY <1>1, PTL
=============================================================================
