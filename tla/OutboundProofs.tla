--------------------------- MODULE OutboundProofs ---------------------------
(***************************************************************************)
(* Proofs about the process's outbound traffic: the HTTP clients of the    *)
(* uss, mcs and wps services and the Kafka producer.                       *)
(***************************************************************************)
EXTENDS HttpClient, KafkaProducer, TLAPS

------------------------------------------------------------------------------
(* What a call through an outbound client may do, for every number of          *)
(* attempts.  The invariant counts the requests that have left: one for each   *)
(* attempt made so far, wherever it is now.                                    *)

(* Requests that were sent and may be, or have been, carried out. *)
Flying == IF inNet THEN 1 ELSE 0

Out == applied + late + Flying

(* No more requests than attempts, one less before the attempt sends its own,  *)
(* none without a usable URL.                                                  *)
Counted ==
    /\ attempt <= maxRetries
    /\ Out <= attempt
    /\ step = "idle" => attempt = 0
    /\ step = "attempt" => Out < attempt
    /\ step = "wait" => attempt < maxRetries
    /\ ~goodURL => Out = 0

(* A request of the current attempt is under way only while it is waited for,  *)
(* and an answer with status 200 and a whole body ends the loop.               *)
Waiting ==
    /\ inNet => step = "sent" /\ answer = "none"
    /\ answer \in Bodies => applied > 0 /\ step \in {"sent", "decode", "returned"}
    /\ step = "decode" => answer \in Bodies

(* The outcome is set when the call returns, and is true from then on. *)
Judged ==
    /\ step # "returned" => outcome = NoOutcome
    /\ CauseIsTrue
    /\ ValueIsTrue

HttpInv == HttpTypeOK /\ Counted /\ Waiting /\ Judged

(* The invariant holds before a client is built. *)
LEMMA HttpInvInit == HttpInit => HttpInv
  <1> SUFFICES ASSUME HttpInit PROVE HttpInv
    OBVIOUS
  <1> USE DEF HttpInit
  <1>1. HttpTypeOK
    BY DEF HttpTypeOK, Methods, MCS, Answers, Bodies, Outcomes, Causes, NoOutcome
  <1>2. Counted
    BY RetriesAssumption DEF Counted, Out, Flying
  <1>3. Waiting
    BY DEF Waiting, Bodies
  <1>4. Judged
    BY DEF Judged, CauseIsTrue, ValueIsTrue, NoOutcome
  <1> QED
    BY <1>1, <1>2, <1>3, <1>4 DEF HttpInv

(* What a method hands back is an outcome. *)
LEMMA OutcomesTyped ==
    /\ \A m \in Methods, c \in Causes : Failure(m, c) \in Outcomes
    /\ \A b \in Bodies : Value(b) \in Outcomes
  BY DEF Failure, Value, Outcomes

(* Every step of the loop, of the caller and of the network keeps the types. *)
LEMMA HttpTypes == HttpTypeOK /\ Waiting /\ [HttpNext]_httpVars => HttpTypeOK'
  <1> SUFFICES ASSUME HttpTypeOK, Waiting, [HttpNext]_httpVars PROVE HttpTypeOK'
    OBVIOUS
  <1> USE DEF HttpTypeOK
  <1> DEFINE F(c) == Failure(api, c)
  <1>0. /\ F("build") \in Outcomes /\ F("exhausted") \in Outcomes /\ F("cancelled") \in Outcomes
        /\ F("decode") \in Outcomes /\ F("refused") \in Outcomes
    BY OutcomesTyped DEF Causes
  <1> HIDE DEF F
  <1>1. ASSUME NEW h \in Hosts, NewClient(h) PROVE HttpTypeOK'
    BY <1>1 DEF NewClient
  <1>2. CASE CloseClient
    BY <1>2 DEF CloseClient
  <1>3. ASSUME NEW m \in Methods, NEW ok \in BOOLEAN, CallMethod(m, ok) PROVE HttpTypeOK'
    BY <1>3 DEF CallMethod
  <1>4. CASE Cancel
    BY <1>4 DEF Cancel
  <1>5. CASE SendRequest
    BY <1>5 DEF SendRequest
  <1>6. CASE NotSent
    BY <1>0, <1>6 DEF NotSent, ReturnCall, F
  <1>7. CASE AttemptFails
    <2>1. late' \in Nat
      BY <1>7 DEF AttemptFails
    <2> QED
      BY <1>7, <2>1 DEF AttemptFails
  <1>8. CASE AttemptSucceeds
    BY <1>8 DEF AttemptSucceeds
  <1>9. CASE Retry
    BY <1>0, <1>9 DEF Retry, ReturnCall, F
  <1>10. CASE RetryTimer
    BY <1>10 DEF RetryTimer
  <1>11. CASE WaitCancelled
    BY <1>0, <1>11 DEF WaitCancelled, ReturnCall, F
  <1>12. CASE Decode
    <2>1. Value(answer) \in Outcomes
      BY <1>12, OutcomesTyped DEF Decode, Waiting
    <2> QED
      BY <1>0, <1>12, <2>1 DEF Decode, ReturnCall, F
  <1>13. CASE Serve
    <2>1. answer' \in Answers \cup {"none"} /\ applied' \in Nat
      BY <1>13 DEF Serve
    <2> QED
      BY <1>13, <2>1 DEF Serve
  <1>14. CASE ServeLate
    BY <1>14 DEF ServeLate
  <1>15. CASE UNCHANGED httpVars
    BY <1>15 DEF httpVars
  <1> QED
    BY <1>1, <1>2, <1>3, <1>4, <1>5, <1>6, <1>7, <1>8, <1>9, <1>10, <1>11, <1>12, <1>13, <1>14, <1>15
    DEF HttpNext, Loop, CallOver

(* The actions, one name each: every step is one of them or changes nothing. *)
LEMMA HttpSteps ==
    ASSUME [HttpNext]_httpVars
    PROVE  \/ \E h \in Hosts : NewClient(h)
           \/ \E m \in Methods, ok \in BOOLEAN : CallMethod(m, ok)
           \/ CloseClient \/ Cancel \/ SendRequest \/ NotSent \/ AttemptFails \/ AttemptSucceeds
           \/ Retry \/ RetryTimer \/ WaitCancelled \/ Decode \/ Serve \/ ServeLate
           \/ UNCHANGED httpVars
  BY DEF HttpNext, Loop, CallOver

(* Sending is paid for by the attempt that was begun, and what the network     *)
(* does to a request moves it from one place to the next.                      *)
LEMMA CountedStep == HttpInv /\ [HttpNext]_httpVars => Counted'
  <1> SUFFICES ASSUME HttpInv, [HttpNext]_httpVars PROVE Counted'
    OBVIOUS
  <1> USE RetriesAssumption DEF HttpInv, HttpTypeOK, Counted, Out, Flying, Waiting
  <1>1. ASSUME NEW h \in Hosts, NewClient(h) PROVE Counted'
    BY <1>1 DEF NewClient
  <1>2. CASE CloseClient
    BY <1>2 DEF CloseClient
  <1>3. ASSUME NEW m \in Methods, NEW ok \in BOOLEAN, CallMethod(m, ok) PROVE Counted'
    BY <1>3 DEF CallMethod
  <1>4. CASE Cancel
    BY <1>4 DEF Cancel
  <1>5. CASE SendRequest
    <2>1. goodURL /\ ~inNet /\ step = "attempt" /\ applied + late < attempt
      BY <1>5 DEF SendRequest, Sendable
    <2>2. inNet' /\ applied' = applied /\ late' = late /\ attempt' = attempt /\ step' = "sent" /\ goodURL'
      BY <1>5, <2>1 DEF SendRequest
    <2>3. Out' = applied + late + 1
      BY <2>2
    <2> QED
      BY <2>1, <2>2, <2>3
  <1>6. CASE NotSent
    BY <1>6 DEF NotSent, ReturnCall
  <1>7. CASE AttemptFails
    BY <1>7 DEF AttemptFails
  <1>8. CASE AttemptSucceeds
    BY <1>8 DEF AttemptSucceeds
  <1>9. CASE Retry
    BY <1>9 DEF Retry, ReturnCall, MoreAttempts
  <1>10. CASE RetryTimer
    BY <1>10 DEF RetryTimer
  <1>11. CASE WaitCancelled
    BY <1>11 DEF WaitCancelled, ReturnCall
  <1>12. CASE Decode
    BY <1>12 DEF Decode, ReturnCall
  <1>13. CASE Serve
    <2>1. inNet /\ ~inNet' /\ (applied' = applied \/ applied' = applied + 1)
      BY <1>13 DEF Serve
    <2>2. late' = late /\ attempt' = attempt /\ step' = step
      BY <1>13 DEF Serve
    <2>3. goodURL
      BY <2>1
    <2>4. goodURL'
      BY <1>13, <2>3, Zenon DEF Serve
    <2>5. Flying = 1 /\ Flying' = 0
      BY <2>1
    <2>6. step = "sent"
      BY <2>1
    <2>7. Out = applied + late + 1 /\ Out' = applied' + late'
      BY <2>1, <2>2, <2>5
    <2>8. Out' <= attempt
      BY <2>1, <2>2, <2>7
    <2> QED
      BY <2>2, <2>4, <2>6, <2>8
  <1>14. CASE ServeLate
    <2>1. late > 0 /\ late' = late - 1 /\ (applied' = applied \/ applied' = applied + 1)
      BY <1>14 DEF ServeLate
    <2>2. attempt' = attempt /\ step' = step
      BY <1>14 DEF ServeLate
    <2>3. goodURL
      BY <2>1
    <2>4. goodURL'
      BY <1>14, <2>3, Zenon DEF ServeLate
    <2>5. Flying' = Flying
      BY <1>14, Zenon DEF ServeLate
    <2>6. Flying \in Nat
      OBVIOUS
    <2> HIDE DEF Flying
    <2>7. applied' + late' <= applied + late
      BY <2>1
    <2>8. Out' <= Out /\ Out \in Nat /\ Out' \in Nat
      BY <2>1, <2>5, <2>6, <2>7
    <2> HIDE DEF Out
    <2> QED
      BY <2>2, <2>4, <2>8
  <1>15. CASE UNCHANGED httpVars
    BY <1>15 DEF httpVars
  <1> HIDE DEF HttpInv, HttpTypeOK, Counted, Out, Flying, Waiting
  <1> QED
    BY HttpSteps, <1>1, <1>2, <1>3, <1>4, <1>5, <1>6, <1>7, <1>8, <1>9, <1>10, <1>11, <1>12, <1>13,
       <1>14, <1>15

(* An answer belongs to the attempt that waits for it. *)
LEMMA WaitingStep == HttpInv /\ [HttpNext]_httpVars => Waiting'
  <1> SUFFICES ASSUME HttpInv, [HttpNext]_httpVars PROVE Waiting'
    OBVIOUS
  <1> USE DEF HttpInv, HttpTypeOK, Waiting
  <1>1. ASSUME NEW h \in Hosts, NewClient(h) PROVE Waiting'
    BY <1>1 DEF NewClient
  <1>2. CASE CloseClient
    BY <1>2 DEF CloseClient
  <1>3. ASSUME NEW m \in Methods, NEW ok \in BOOLEAN, CallMethod(m, ok) PROVE Waiting'
    BY <1>3 DEF CallMethod
  <1>4. CASE Cancel
    BY <1>4 DEF Cancel
  <1>5. CASE SendRequest
    BY <1>5 DEF SendRequest, Bodies
  <1>6. CASE NotSent
    BY <1>6 DEF NotSent, ReturnCall
  <1>7. CASE AttemptFails
    BY <1>7 DEF AttemptFails, AttemptOver, Succeeded
  <1>8. CASE AttemptSucceeds
    BY <1>8 DEF AttemptSucceeds, Succeeded, Bodies
  <1>9. CASE Retry
    BY <1>9 DEF Retry, ReturnCall
  <1>10. CASE RetryTimer
    BY <1>10 DEF RetryTimer
  <1>11. CASE WaitCancelled
    BY <1>11 DEF WaitCancelled, ReturnCall
  <1>12. CASE Decode
    BY <1>12 DEF Decode, ReturnCall
  <1>13. CASE Serve
    <2>1. ~inNet' /\ step' = step /\ step = "sent"
      BY <1>13 DEF Serve
    <2>2. answer' \in Bodies => applied' = applied + 1
      BY <1>13 DEF Serve, Bodies
    <2> QED
      BY <2>1, <2>2
  <1>14. CASE ServeLate
    BY <1>14 DEF ServeLate
  <1>15. CASE UNCHANGED httpVars
    BY <1>15 DEF httpVars
  <1> HIDE DEF HttpInv, HttpTypeOK, Waiting
  <1> QED
    BY HttpSteps, <1>1, <1>2, <1>3, <1>4, <1>5, <1>6, <1>7, <1>8, <1>9, <1>10, <1>11, <1>12, <1>13,
       <1>14, <1>15

(* A call that has not returned has no outcome; one that returns gets a true   *)
(* one; after that only late requests move.                                    *)
LEMMA JudgedStep == HttpInv /\ [HttpNext]_httpVars => Judged'
  <1> SUFFICES ASSUME HttpInv, [HttpNext]_httpVars PROVE Judged'
    OBVIOUS
  <1> USE RetriesAssumption DEF HttpInv, HttpTypeOK, Judged, CauseIsTrue, ValueIsTrue, NoOutcome
  <1>1. ASSUME NEW h \in Hosts, NewClient(h) PROVE Judged'
    BY <1>1 DEF NewClient
  <1>2. CASE CloseClient
    BY <1>2 DEF CloseClient
  <1>3. ASSUME NEW m \in Methods, NEW ok \in BOOLEAN, CallMethod(m, ok) PROVE Judged'
    BY <1>3 DEF CallMethod
  <1>4. CASE Cancel
    BY <1>4 DEF Cancel
  <1>5. CASE SendRequest
    BY <1>5 DEF SendRequest
  <1>6. CASE NotSent
    BY <1>6 DEF NotSent, ReturnCall, Failure, Counted, Out, Flying
  <1>7. CASE AttemptFails
    BY <1>7 DEF AttemptFails
  <1>8. CASE AttemptSucceeds
    BY <1>8 DEF AttemptSucceeds
  <1>9. CASE Retry
    BY <1>9 DEF Retry, ReturnCall, Failure, MoreAttempts, Counted, Waiting
  <1>10. CASE RetryTimer
    BY <1>10 DEF RetryTimer
  <1>11. CASE WaitCancelled
    BY <1>11 DEF WaitCancelled, ReturnCall, Failure, Counted
  <1>12. CASE Decode
    BY <1>12 DEF Decode, ReturnCall, Failure, Value, Refuses, Waiting, Bodies, ChecksSuccess, Silent
  <1>13. CASE Serve
    BY <1>13 DEF Serve, Waiting
  <1>14. CASE ServeLate
    BY <1>14 DEF ServeLate, Counted, Out, Flying
  <1>15. CASE UNCHANGED httpVars
    BY <1>15 DEF httpVars
  <1> HIDE DEF HttpInv, HttpTypeOK, Judged, CauseIsTrue, ValueIsTrue, NoOutcome
  <1> QED
    BY HttpSteps, <1>1, <1>2, <1>3, <1>4, <1>5, <1>6, <1>7, <1>8, <1>9, <1>10, <1>11, <1>12, <1>13,
       <1>14, <1>15

------------------------------------------------------------------------------
(* The invariant of every behaviour of the client. *)
LEMMA HttpInvariant == HttpSpec => []HttpInv
  <1>1. HttpInv /\ [HttpNext]_httpVars => HttpInv'
    BY HttpTypes, CountedStep, WaitingStep, JudgedStep DEF HttpInv
  <1> QED
    BY HttpInvInit, <1>1, PTL DEF HttpSpec

(* However requests and answers are lost or delayed, the service carries one   *)
(* call out at most maxRetries times (doWithRetry of uss, mcs and wps).        *)
THEOREM RetriesBoundEffects == HttpSpec => []AppliedWithinRetries
  <1>1. HttpInv => AppliedWithinRetries
    BY RetriesAssumption DEF HttpInv, HttpTypeOK, Counted, Out, Flying, AppliedWithinRetries
  <1> QED
    BY HttpInvariant, <1>1, PTL

(* What a call returns is what happened: its reason when it gives up, and a    *)
(* value only when the service confirmed the operation.                        *)
THEOREM OutcomesAreTrue == HttpSpec => []OutcomeIsTrue
  <1>1. HttpInv => OutcomeIsTrue
    BY DEF HttpInv, Judged, OutcomeIsTrue
  <1> QED
    BY HttpInvariant, <1>1, PTL

(* Only an attempt whose context is still alive sends, and only one that has   *)
(* no confirmation yet.                                                        *)
LEMMA WhoSends == HttpInv /\ [HttpNext]_httpVars /\ Sends => ~cancelled /\ answer \notin Bodies
  <1> SUFFICES ASSUME HttpInv, [HttpNext]_httpVars, Sends PROVE ~cancelled /\ answer \notin Bodies
    OBVIOUS
  <1>1. SendRequest => ~cancelled /\ answer \notin Bodies
    BY DEF SendRequest, Sendable, HttpInv, Waiting
  <1>2. ~\E h \in Hosts : NewClient(h)
    BY DEF NewClient, Sends
  <1>3. ~\E m \in Methods, ok \in BOOLEAN : CallMethod(m, ok)
    BY DEF CallMethod, Sends
  <1>4. ~(CloseClient \/ Cancel \/ NotSent \/ AttemptFails \/ AttemptSucceeds)
    BY DEF CloseClient, Cancel, NotSent, AttemptFails, AttemptSucceeds, Sends
  <1>5. ~(Retry \/ RetryTimer \/ WaitCancelled \/ Decode)
    BY DEF Retry, RetryTimer, WaitCancelled, Decode, Sends
  <1>6. ~(Serve \/ ServeLate \/ UNCHANGED httpVars)
    BY DEF Serve, ServeLate, httpVars, Sends
  <1> QED
    BY HttpSteps, <1>1, <1>2, <1>3, <1>4, <1>5, <1>6

(* No request leaves the process after the caller has cancelled, whichever     *)
(* case of the select wins (uss/client.go:171), and none after the service has *)
(* confirmed the operation.                                                    *)
THEOREM NothingNeedlessSent == HttpSpec => StopsSending
  <1>1. HttpInv /\ [HttpNext]_httpVars => [(cancelled \/ answer \in Bodies) => ~Sends]_httpVars
    BY WhoSends
  <1> QED
    BY HttpInvariant, <1>1, PTL DEF HttpSpec, StopsSending

------------------------------------------------------------------------------
(* What the producer's options guarantee, for every set of records and of      *)
(* configurations: the invariant ties a record's report to the log of the      *)
(* leader and to what the replicas have.                                       *)

States == {"new", "buffered", "sent", "appended", "retry", "acked", "failed", "dropped"}

ProdTypes ==
    /\ pcfg \in Configs \cup {NoConfig}
    /\ pstate \in {"none", "open", "flushing", "closed"}
    /\ rec \in [Records -> States]
    /\ tries \in [Records -> Nat]
    /\ log \in [Records -> Nat]
    /\ safe \subseteq Records

(* Without a producer nothing has been sent; with one its options are known. *)
Unopened ==
    /\ pstate = "none" <=> pcfg = NoConfig
    /\ pcfg = NoConfig => \A r \in Records : rec[r] = "new" /\ log[r] = 0

(* What the replicas have is in the log, and stays there. *)
SafeIsLogged == \A r \in safe : log[r] > 0

(* An idempotent producer's report waits for the replicas. *)
AckedIsSafe ==
    pcfg # NoConfig /\ pcfg.EnableIdempotence =>
        \A r \in Records : rec[r] = "acked" => r \in safe

(* An idempotent producer's repeated request is recognised. *)
NoDuplicates ==
    pcfg # NoConfig /\ pcfg.EnableIdempotence => \A r \in Records : log[r] <= 1

ProdInv ==
    ProdTypes /\ Unopened /\ SafeIsLogged /\ AckedIsSafe /\ NoDuplicates /\ CloseDropsNothing

(* The invariant holds before a producer is built. *)
LEMMA ProdInvInit == ProdInit => ProdInv
  BY DEF ProdInit, ProdInv, ProdTypes, States, Unopened, SafeIsLogged, AckedIsSafe, NoDuplicates,
         CloseDropsNothing

(* A step that leaves configuration and records' states alone, or only moves a *)
(* record towards its report, is covered by the types.                         *)
LEMMA ProdTypesStep == ProdTypes /\ [ProdNext]_prodVars => ProdTypes'
  <1> SUFFICES ASSUME ProdTypes, [ProdNext]_prodVars PROVE ProdTypes'
    OBVIOUS
  <1> USE DEF ProdTypes, States
  <1>1. ASSUME NEW c \in Configs, InitProducer(c) PROVE ProdTypes'
    BY <1>1 DEF InitProducer
  <1>2. ASSUME NEW r \in Records, Deliver(r) PROVE ProdTypes'
    BY <1>2 DEF Deliver, SendMessage, Request, AppendToLog, Replicate, Acknowledge, Lose,
                RetryRecord, TimePasses, TimesOut
  <1>3. CASE LeaderFails
    BY <1>3 DEF LeaderFails
  <1>4. CASE CloseProducer \/ Flushed \/ FlushExpires
    BY <1>4 DEF CloseProducer, Flushed, FlushExpires
  <1>5. CASE UNCHANGED prodVars
    BY <1>5 DEF prodVars
  <1> HIDE DEF ProdTypes
  <1> QED
    BY <1>1, <1>2, <1>3, <1>4, <1>5 DEF ProdNext, ProducerOver

(* Once set, the configuration stays. *)
LEMMA UnopenedStep == ProdTypes /\ Unopened /\ [ProdNext]_prodVars => Unopened'
  <1> SUFFICES ASSUME ProdTypes, Unopened, [ProdNext]_prodVars PROVE Unopened'
    OBVIOUS
  <1> USE ConfigsAssumption DEF ProdTypes, Unopened
  <1>1. ASSUME NEW c \in Configs, InitProducer(c) PROVE Unopened'
    BY <1>1 DEF InitProducer
  <1>2. ASSUME NEW r \in Records, Deliver(r) PROVE Unopened'
    <2>1. pcfg' = pcfg /\ pstate' = pstate
      BY <1>2 DEF Deliver, SendMessage, Request, AppendToLog, Replicate, Acknowledge, Lose,
                  RetryRecord, TimePasses, TimesOut
    <2>2. pcfg # NoConfig
      BY <1>2 DEF Deliver, SendMessage, Request, AppendToLog, Replicate, Acknowledge, Lose,
                  RetryRecord, TimePasses, TimesOut, Working
    <2> QED
      BY <2>1, <2>2
  <1>3. CASE LeaderFails
    BY <1>3 DEF LeaderFails
  <1>4. CASE CloseProducer \/ Flushed \/ FlushExpires
    BY <1>4 DEF CloseProducer, Flushed, FlushExpires
  <1>5. CASE UNCHANGED prodVars
    BY <1>5 DEF prodVars
  <1> HIDE DEF ProdTypes, Unopened
  <1> QED
    BY <1>1, <1>2, <1>3, <1>4, <1>5 DEF ProdNext, ProducerOver

(* The log loses only what was not replicated, and an idempotent record is     *)
(* appended once.                                                              *)
LEMMA LogStep ==
    ProdTypes /\ Unopened /\ SafeIsLogged /\ NoDuplicates /\ [ProdNext]_prodVars
        => SafeIsLogged' /\ NoDuplicates'
  <1> SUFFICES ASSUME ProdTypes, Unopened, SafeIsLogged, NoDuplicates, [ProdNext]_prodVars
               PROVE  SafeIsLogged' /\ NoDuplicates'
    OBVIOUS
  <1> USE DEF ProdTypes, SafeIsLogged, NoDuplicates
  <1>1. ASSUME NEW c \in Configs, InitProducer(c) PROVE SafeIsLogged' /\ NoDuplicates'
    BY <1>1 DEF InitProducer, Unopened
  <1>2. ASSUME NEW r \in Records, AppendToLog(r) PROVE SafeIsLogged' /\ NoDuplicates'
    BY <1>2 DEF AppendToLog, Idempotent, Unopened
  <1>3. ASSUME NEW r \in Records, Replicate(r) PROVE SafeIsLogged' /\ NoDuplicates'
    BY <1>3 DEF Replicate
  <1>4. ASSUME NEW r \in Records, Deliver(r), ~AppendToLog(r), ~Replicate(r)
        PROVE  SafeIsLogged' /\ NoDuplicates'
    <2>1. UNCHANGED <<log, safe, pcfg>>
      BY <1>4 DEF Deliver, SendMessage, Request, Acknowledge, Lose, RetryRecord, TimePasses, TimesOut
    <2> QED
      BY <2>1
  <1>5. CASE LeaderFails
    BY <1>5 DEF LeaderFails
  <1>6. CASE CloseProducer \/ Flushed \/ FlushExpires
    BY <1>6 DEF CloseProducer, Flushed, FlushExpires
  <1>7. CASE UNCHANGED prodVars
    BY <1>7 DEF prodVars
  <1> HIDE DEF ProdTypes, SafeIsLogged, NoDuplicates
  <1> QED
    BY <1>1, <1>2, <1>3, <1>4, <1>5, <1>6, <1>7 DEF ProdNext, ProducerOver, Deliver

(* A report of success by an idempotent producer comes when every replica has  *)
(* the record, whatever acks the topic asks for.                               *)
LEMMA AckedStep ==
    ProdTypes /\ Unopened /\ AckedIsSafe /\ [ProdNext]_prodVars => AckedIsSafe'
  <1> SUFFICES ASSUME ProdTypes, Unopened, AckedIsSafe, [ProdNext]_prodVars PROVE AckedIsSafe'
    OBVIOUS
  <1> USE DEF ProdTypes, AckedIsSafe
  <1>1. ASSUME NEW c \in Configs, InitProducer(c) PROVE AckedIsSafe'
    BY <1>1 DEF InitProducer, Unopened
  <1>2. ASSUME NEW r \in Records, Acknowledge(r) PROVE AckedIsSafe'
    <2>1. pcfg' = pcfg /\ safe' = safe /\ rec' = [rec EXCEPT ![r] = "acked"]
      BY <1>2 DEF Acknowledge
    <2>2. pcfg.EnableIdempotence => r \in safe
      BY <1>2 DEF Acknowledge, Acks
    <2> QED
      BY <2>1, <2>2
  <1>3. ASSUME NEW r \in Records, Deliver(r), ~Acknowledge(r) PROVE AckedIsSafe'
    <2>1. pcfg' = pcfg /\ safe \subseteq safe'
      BY <1>3 DEF Deliver, SendMessage, Request, AppendToLog, Replicate, Lose, RetryRecord,
                  TimePasses, TimesOut
    <2>2. \A s \in Records : rec'[s] = "acked" => rec[s] = "acked"
      BY <1>3 DEF Deliver, SendMessage, Request, AppendToLog, Replicate, Lose, RetryRecord,
                  TimePasses, TimesOut
    <2> QED
      BY <2>1, <2>2
  <1>4. CASE LeaderFails
    BY <1>4 DEF LeaderFails
  <1>5. CASE CloseProducer \/ Flushed \/ FlushExpires
    BY <1>5 DEF CloseProducer, Flushed, FlushExpires
  <1>6. CASE UNCHANGED prodVars
    BY <1>6 DEF prodVars
  <1> HIDE DEF ProdTypes, AckedIsSafe
  <1> QED
    BY <1>1, <1>2, <1>3, <1>4, <1>5, <1>6 DEF ProdNext, ProducerOver

(* The default flush outlasts a delivery, so what the flush gives up are       *)
(* records that no timeout may end.                                            *)
LEMMA DropStep ==
    ProdTypes /\ Unopened /\ CloseDropsNothing /\ [ProdNext]_prodVars => CloseDropsNothing'
  <1> SUFFICES ASSUME ProdTypes, Unopened, CloseDropsNothing, [ProdNext]_prodVars
               PROVE  CloseDropsNothing'
    OBVIOUS
  <1> USE DEF ProdTypes, CloseDropsNothing
  <1>1. ASSUME NEW c \in Configs, InitProducer(c) PROVE CloseDropsNothing'
    BY <1>1 DEF InitProducer, Unopened
  <1>2. ASSUME NEW r \in Records, Deliver(r) PROVE CloseDropsNothing'
    <2>1. pcfg' = pcfg
      BY <1>2 DEF Deliver, SendMessage, Request, AppendToLog, Replicate, Acknowledge, Lose,
                  RetryRecord, TimePasses, TimesOut
    <2>2. \A s \in Records : rec'[s] = "dropped" => rec[s] = "dropped"
      BY <1>2 DEF Deliver, SendMessage, Request, AppendToLog, Replicate, Acknowledge, Lose,
                  RetryRecord, TimePasses, TimesOut
    <2> QED
      BY <2>1, <2>2
  <1>3. CASE LeaderFails \/ CloseProducer \/ Flushed
    BY <1>3 DEF LeaderFails, CloseProducer, Flushed
  <1>4. CASE FlushExpires
    <2>1. pcfg \in Configs /\ pcfg' = pcfg
      BY <1>4 DEF FlushExpires, Unopened
    <2>2. ASSUME NEW r \in Records, rec'[r] = "dropped"
          PROVE  pcfg.FlushTimeout > 0 \/ (pcfg.EnableIdempotence /\ ~pcfg.HardDeliveryBound)
      <3>1. CASE rec[r] = "dropped"
        BY <3>1
      <3>2. CASE Open(r) /\ ~(pcfg.FlushTimeout > 0)
        <4>1. FlushTimeout(pcfg) = DeliveryTimeout(pcfg) + 5 /\ DeliveryTimeout(pcfg) \in Nat
          BY <2>1, <3>2, ConfigsAssumption DEF FlushTimeout, DeliveryTimeout, Or
        <4>2. ~Ends(r)
          BY <1>4, <3>2, <4>1 DEF FlushExpires
        <4> QED
          BY <4>2 DEF Ends, Bounded
      <3> QED
        BY <1>4, <2>2, <3>1, <3>2 DEF FlushExpires
    <2> QED
      BY <2>1, <2>2
  <1>5. CASE UNCHANGED prodVars
    BY <1>5 DEF prodVars
  <1> HIDE DEF ProdTypes, CloseDropsNothing
  <1> QED
    BY <1>1, <1>2, <1>3, <1>4, <1>5 DEF ProdNext, ProducerOver

------------------------------------------------------------------------------
(* The invariant of every behaviour of the producer. *)
LEMMA ProdInvariant == ProdSpec => []ProdInv
  <1>1. ProdInv /\ [ProdNext]_prodVars => ProdInv'
    BY ProdTypesStep, UnopenedStep, LogStep, AckedStep, DropStep DEF ProdInv
  <1> QED
    BY ProdInvInit, <1>1, PTL DEF ProdSpec

(* An idempotent producer loses no record that it reported as delivered, also  *)
(* when the leader fails (producer.go:108), and writes none twice.             *)
THEOREM DeliveredExactlyOnce == ProdSpec => []DeliveredOnce
  <1>1. ASSUME ProdInv, pcfg # NoConfig, pcfg.EnableIdempotence, NEW r \in Records
        PROVE  log[r] <= 1 /\ (rec[r] = "acked" => log[r] = 1)
    <2>1. log[r] \in Nat /\ log[r] <= 1
      BY <1>1 DEF ProdInv, ProdTypes, NoDuplicates
    <2>2. rec[r] = "acked" => log[r] > 0
      BY <1>1 DEF ProdInv, AckedIsSafe, SafeIsLogged
    <2> QED
      BY <2>1, <2>2
  <1>2. ProdInv => DeliveredOnce
    BY <1>1 DEF DeliveredOnce
  <1> QED
    BY ProdInvariant, <1>2, PTL

(* Close drops only what a short flush_timeout_ms, or the missing hard bound,  *)
(* lets it drop (producer.go:276).                                             *)
THEOREM FlushCoversDelivery == ProdSpec => []CloseDropsNothing
  <1>1. ProdInv => CloseDropsNothing
    BY DEF ProdInv
  <1> QED
    BY ProdInvariant, <1>1, PTL
=============================================================================
