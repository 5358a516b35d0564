----------------------------- MODULE HttpClient -----------------------------
(***************************************************************************)
(* One call through an outbound client (internal/client/uss, mcs, wps):    *)
(* the retry loop with its per-attempt timeout and its delay, the caller   *)
(* that may cancel at any moment, a network that loses or delays requests  *)
(* and answers, and the decoding of the answer by the method called.  The  *)
(* three clients share the loop; mcs alone builds the request outside the  *)
(* retried function.                                                       *)
(***************************************************************************)
EXTENDS Integers

CONSTANTS
    maxRetries,   \* attempts of one call (3 in every client)
    Hosts,        \* hosts the configurations name
    NoHost        \* no client built yet

ASSUME RetriesAssumption == maxRetries \in Nat \ {0}

VARIABLES
    host,         \* globalClient: the host it was built for
    idle,         \* the client still has its idle connections
    api,          \* the method called
    goodURL,      \* http.NewRequestWithContext accepts the URL
    step,         \* idle, attempt, sent, failed, wait, decode, returned
    attempt,      \* the loop variable
    cancelled,    \* the caller's context is done
    inNet,        \* the request of the current attempt is still under way
    late,         \* requests of earlier attempts still under way
    applied,      \* requests the service has carried out
    answer,       \* what came back for the current attempt
    outcome       \* what the call returned

httpVars == <<host, idle, api, goodURL, step, attempt, cancelled, inNet, late, applied,
              answer, outcome>>

------------------------------------------------------------------------------
(* The methods *)

MCS == {"VerifyPlayerInfo", "GetRegisterIP"}

Methods ==
    {"GetCustomer", "GeneratePasswordResetToken", "GetRegisteredPlayerCount",
     "GetCustomerByID", "GetCustomerPersonalInfo", "GetResetPasswordStatus"} \cup MCS

(* Methods that turn success=false into a failure; the others hand the        *)
(* decoded answer to the caller.                                              *)
ChecksSuccess == {"GetRegisteredPlayerCount", "GetCustomerByID", "GetRegisterIP"}

(* Methods whose failures come back as an empty value. *)
Silent == {"GetRegisterIP"}

Bodies == {"good", "refused", "garbled"}

(* A 200 with a body, a 200 whose body breaks off, or another status. *)
Answers == Bodies \cup {"broken", "status"}

Causes == {"build", "cancelled", "exhausted", "decode", "refused"}

Value(b) == [kind |-> "value", cause |-> "none", body |-> b]

Failure(m, c) ==
    [kind |-> IF m \in Silent THEN "empty" ELSE "error", cause |-> c, body |-> "none"]

Outcomes ==
    [kind : {"none", "value", "empty", "error"}, cause : Causes \cup {"none"},
     body : Bodies \cup {"none"}]

NoOutcome == [kind |-> "none", cause |-> "none", body |-> "none"]

------------------------------------------------------------------------------
HttpInit ==
    /\ host = NoHost /\ idle = FALSE
    /\ api = "GetCustomer" /\ goodURL = TRUE
    /\ step = "idle" /\ attempt = 0 /\ cancelled = FALSE
    /\ inNet = FALSE /\ late = 0 /\ applied = 0
    /\ answer = "none" /\ outcome = NoOutcome

(* globalOnce: the first caller's host is kept, whatever later callers ask for. *)
NewClient(h) ==
    /\ host = NoHost
    /\ host' = h /\ idle' = TRUE
    /\ UNCHANGED <<api, goodURL, step, attempt, cancelled, inNet, late, applied, answer, outcome>>

(* Close drops idle connections, once; calls under way keep theirs. *)
CloseClient ==
    /\ host # NoHost /\ idle
    /\ idle' = FALSE
    /\ UNCHANGED <<host, api, goodURL, step, attempt, cancelled, inNet, late, applied, answer, outcome>>

CallMethod(m, ok) ==
    /\ host # NoHost /\ step = "idle"
    /\ api' = m /\ goodURL' = ok
    /\ step' = "attempt" /\ attempt' = 1
    /\ UNCHANGED <<host, idle, cancelled, inNet, late, applied, answer, outcome>>

Cancel ==
    /\ ~cancelled /\ step # "returned"
    /\ cancelled' = TRUE
    /\ UNCHANGED <<host, idle, api, goodURL, step, attempt, inNet, late, applied, answer, outcome>>

ReturnCall(o) == step' = "returned" /\ outcome' = o

(* Mutant: the attempt runs under a context of its own. *)
Sendable_detached == goodURL

(* The attempt's context is derived from the caller's, and a context that is   *)
(* done keeps net/http from sending.                                           *)
Sendable == goodURL /\ ~cancelled

SendRequest ==
    /\ step = "attempt" /\ Sendable
    /\ inNet' = TRUE /\ answer' = "none"
    /\ step' = "sent"
    /\ UNCHANGED <<host, idle, api, goodURL, attempt, cancelled, late, applied, outcome>>

(* mcs gives up when the request cannot be built; uss and wps count it as a    *)
(* failed attempt.                                                             *)
NotSent ==
    /\ step = "attempt" /\ ~Sendable
    /\ IF ~goodURL /\ api \in MCS
       THEN ReturnCall(Failure(api, "build"))
       ELSE step' = "failed" /\ outcome' = outcome
    /\ UNCHANGED <<host, idle, api, goodURL, attempt, cancelled, inNet, late, applied, answer>>

Succeeded == answer \in Bodies

(* Mutant: the attempt has no timeout of its own. *)
AttemptOver_untimed == answer \in {"broken", "status"} \/ cancelled

(* With the attempt's timeout, every attempt ends that does not succeed. *)
AttemptOver == ~Succeeded

(* fn returns an error: no connection, an attempt timeout, a done context, a   *)
(* status other than 200, a body that breaks off.                              *)
AttemptFails ==
    /\ step = "sent" /\ AttemptOver
    /\ step' = "failed"
    /\ late' = IF inNet THEN late + 1 ELSE late
    /\ inNet' = FALSE
    /\ UNCHANGED <<host, idle, api, goodURL, attempt, cancelled, applied, answer, outcome>>

AttemptSucceeds ==
    /\ step = "sent" /\ Succeeded
    /\ step' = "decode"
    /\ UNCHANGED <<host, idle, api, goodURL, attempt, cancelled, inNet, late, applied, answer, outcome>>

(* Mutant: the loop goes round once more. *)
MoreAttempts_off_by_one == attempt <= maxRetries

MoreAttempts == attempt < maxRetries

Retry ==
    /\ step = "failed"
    /\ IF MoreAttempts
       THEN step' = "wait" /\ outcome' = outcome
       ELSE ReturnCall(Failure(api, "exhausted"))
    /\ UNCHANGED <<host, idle, api, goodURL, attempt, cancelled, inNet, late, applied, answer>>

(* The two cases of the select: either may win when both are ready. *)
RetryTimer ==
    /\ step = "wait"
    /\ attempt' = attempt + 1
    /\ step' = "attempt"
    /\ UNCHANGED <<host, idle, api, goodURL, cancelled, inNet, late, applied, answer, outcome>>

WaitCancelled ==
    /\ step = "wait" /\ cancelled
    /\ ReturnCall(Failure(api, "cancelled"))
    /\ UNCHANGED <<host, idle, api, goodURL, attempt, cancelled, inNet, late, applied, answer>>

(* Mutant: success=false is not looked at. *)
Refuses_ignored(m, b) == FALSE

Refuses(m, b) == b = "refused" /\ m \in ChecksSuccess

Decode ==
    /\ step = "decode"
    /\ \/ answer = "garbled" /\ ReturnCall(Failure(api, "decode"))
       \/ Refuses(api, answer) /\ ReturnCall(Failure(api, "refused"))
       \/ answer # "garbled" /\ ~Refuses(api, answer) /\ ReturnCall(Value(answer))
    /\ UNCHANGED <<host, idle, api, goodURL, attempt, cancelled, inNet, late, applied, answer>>

------------------------------------------------------------------------------
(* The network and the service *)

(* The request arrives: the service carries it out, unless its status says it  *)
(* may not have, and the answer arrives or gets lost.                          *)
Serve ==
    /\ inNet
    /\ inNet' = FALSE
    /\ \E a \in Answers \cup {"none"} :
          /\ answer' = a
          /\ applied' \in {applied + 1} \cup (IF a = "status" THEN {applied} ELSE {})
    /\ UNCHANGED <<host, idle, api, goodURL, step, attempt, cancelled, late, outcome>>

(* A request whose attempt was given up arrives after all, or never. *)
ServeLate ==
    /\ late > 0
    /\ late' = late - 1
    /\ applied' \in {applied, applied + 1}
    /\ UNCHANGED <<host, idle, api, goodURL, step, attempt, cancelled, inNet, answer, outcome>>

Loop ==
    SendRequest \/ NotSent \/ AttemptFails \/ AttemptSucceeds \/ Retry \/ RetryTimer
        \/ WaitCancelled \/ Decode

CallOver == step = "returned" /\ ~idle /\ late = 0 /\ UNCHANGED httpVars

HttpNext ==
    \/ \E h \in Hosts : NewClient(h)
    \/ \E m \in Methods, ok \in BOOLEAN : CallMethod(m, ok)
    \/ CloseClient \/ Cancel \/ Loop \/ Serve \/ ServeLate \/ CallOver

HttpSpec == HttpInit /\ [][HttpNext]_httpVars

(* The calling goroutine keeps running; timeouts and timers do fire. *)
HttpFairness == WF_httpVars(Loop)

------------------------------------------------------------------------------
(* Properties *)

(* The variables keep their types. *)
HttpTypeOK ==
    /\ host \in Hosts \cup {NoHost} /\ idle \in BOOLEAN
    /\ api \in Methods /\ goodURL \in BOOLEAN
    /\ step \in {"idle", "attempt", "sent", "failed", "wait", "decode", "returned"}
    /\ attempt \in Nat /\ late \in Nat /\ applied \in Nat
    /\ cancelled \in BOOLEAN /\ inNet \in BOOLEAN
    /\ answer \in Answers \cup {"none"}
    /\ outcome \in Outcomes

(* However many answers get lost or come late, the service carries out one     *)
(* call (a password-reset PUT, a finance check) at most maxRetries times, also *)
(* long after the call returned (uss/client.go doWithRetry).                   *)
AppliedWithinRetries == applied + late <= maxRetries

Sends == inNet' /\ ~inNet

(* After the caller's context is done no further request leaves the process,   *)
(* even when the retry timer wins the select (uss/client.go:171); nor after an *)
(* answer with status 200 whose body was read to its end, whatever that body   *)
(* says: what the service has confirmed is never sent again.  A 200 whose body *)
(* breaks off is no such answer and is retried (uss/client.go doWithRetry).    *)
StopsSending == [][(cancelled \/ answer \in Bodies) => ~Sends]_httpVars

(* The reason a call gives up for is what happened: "all attempts failed"      *)
(* after maxRetries of them, cancellation only where attempts were left, a     *)
(* build error before anything was sent.                                       *)
CauseIsTrue ==
    /\ outcome.cause = "exhausted" => attempt = maxRetries /\ answer \notin Bodies
    /\ outcome.cause = "cancelled" => cancelled /\ attempt < maxRetries
    /\ outcome.cause = "build" => applied = 0 /\ late = 0

(* A call returns a value only after the service carried the operation out and *)
(* confirmed it, the methods that look at success only when it says so, and    *)
(* GetRegisterIP never fails its caller (mcs/client.go GetRegisterIP).         *)
ValueIsTrue ==
    /\ outcome.kind = "value" =>
          /\ applied > 0
          /\ answer \in Bodies \ {"garbled"}
          /\ api \in ChecksSuccess => answer = "good"
    /\ outcome.kind = "error" => api \notin Silent

(* What a call returns is what happened, for its reasons and for its values,   *)
(* in every method of the three clients.                                       *)
OutcomeIsTrue == CauseIsTrue /\ ValueIsTrue

(* Every call returns, also when the service never answers (singleReqTimeout). *)
CallReturns == (step # "idle") ~> (step = "returned")
=============================================================================
