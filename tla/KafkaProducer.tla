---------------------------- MODULE KafkaProducer ----------------------------
(***************************************************************************)
(* The Kafka producer (pkg/kafka/producer.go, config.go): how the global   *)
(* configuration and a topic's overrides become client options, and what   *)
(* those options make of records sent through a client and a partition     *)
(* leader that lose requests, answers and, once, the leader.  The client   *)
(* (franz-go) and the brokers are external.  Times are in seconds.         *)
(***************************************************************************)
EXTENDS Naturals

CONSTANTS
    Records,      \* records the application sends
    Configs,      \* producer configurations; 0 and "" where a field is not set
    NoConfig,     \* no producer yet
    MaxTries      \* bound: requests per record where the options set no limit

ASSUME MaxTriesAssumption == MaxTries \in Nat
ASSUME ConfigsAssumption ==
    /\ NoConfig \notin Configs
    /\ \A c \in Configs :
          /\ c.EnableIdempotence \in BOOLEAN /\ c.HardDeliveryBound \in BOOLEAN
          /\ c.DeliveryTimeout \in Nat /\ c.FlushTimeout \in Nat

VARIABLES
    pcfg,         \* configuration of the global KafkaProducer
    pstate,       \* none, open, flushing, closed
    rec,          \* rec[r]: new, buffered, sent, appended, retry, acked, failed, dropped
    tries,        \* tries[r]: requests made for r
    log,          \* log[r]: copies of r in the leader's log
    safe,         \* records every in-sync replica has
    due,          \* records whose delivery timeout has passed
    leaderLost    \* the partition has changed its leader

prodVars == <<pcfg, pstate, rec, tries, log, safe, due, leaderLost>>

------------------------------------------------------------------------------
(* Options *)

Or(x, y) == IF x > 0 THEN x ELSE y

(* EffectiveTopicConfig, for the fields that decide how a record is delivered; *)
(* the global acks setting is not among them.                                  *)
EffectiveTopicConfig(c) == [Acks |-> c.topic.Acks, Retries |-> c.topic.Retries]

requiredAcks(t) == IF t.Acks \in {"0", "1"} THEN t.Acks ELSE "all"

recordRetries(c, t) == Or(t.Retries, Or(c.RecordRetries, 5))

DeliveryTimeout(c) == Or(c.DeliveryTimeout, 30)

(* Mutant: the default does not cover the delivery timeout. *)
FlushTimeout_short(c) == Or(c.FlushTimeout, 5)

FlushTimeout(c) == Or(c.FlushTimeout, DeliveryTimeout(c) + 5)

(* Mutant: the topic's acks are honoured in any case. *)
Acks_by_topic(c) == requiredAcks(EffectiveTopicConfig(c))

Acks(c) == IF c.EnableIdempotence THEN "all" ELSE requiredAcks(EffectiveTopicConfig(c))

Idempotent(c) == c.EnableIdempotence

(* Mutant: AllowIdempotentProduceCancellation is left out. *)
Bounded_loose(c) == ~c.EnableIdempotence

(* Timeout and retries end an idempotent record only if that is allowed.       *)
Bounded(c) == ~c.EnableIdempotence \/ c.HardDeliveryBound

buildTLSConfig(t) == ~t.Enable \/ (t.CAFile # "bad" /\ (t.CertFile = "") = (t.KeyFile = ""))

buildSASL(s) ==
    ~s.Enable \/ (s.User # "" /\ s.Pass # "" /\ s.Mechanism \in {"PLAIN", "SCRAM-SHA-256", "SCRAM-SHA-512"})

buildProducerOpts(c) == buildTLSConfig(c.TLS) /\ buildSASL(c.SASL)

------------------------------------------------------------------------------
ProdInit ==
    /\ pcfg = NoConfig /\ pstate = "none"
    /\ rec = [r \in Records |-> "new"]
    /\ tries = [r \in Records |-> 0]
    /\ log = [r \in Records |-> 0]
    /\ safe = {} /\ due = {} /\ leaderLost = FALSE

Reported(r) == rec[r] \in {"acked", "failed", "dropped"}

Open(r) == rec[r] # "new" /\ ~Reported(r)

(* InitProducer keeps the first producer that could be built; unusable options *)
(* or a broker that does not answer leave none, to be tried again.             *)
InitProducer(c) ==
    /\ pstate = "none" /\ c.Brokers # {} /\ buildProducerOpts(c)
    /\ pcfg' = c /\ pstate' = "open"
    /\ UNCHANGED <<rec, tries, log, safe, due, leaderLost>>

(* SendMessage hands the record over; SendMessageSync also waits for the report. *)
SendMessage(r) ==
    /\ pstate = "open" /\ rec[r] = "new"
    /\ rec' = [rec EXCEPT ![r] = "buffered"]
    /\ UNCHANGED <<pcfg, pstate, tries, log, safe, due, leaderLost>>

------------------------------------------------------------------------------
(* The client and the brokers *)

Working == pstate \in {"open", "flushing"}

Request(r) ==
    /\ Working /\ rec[r] = "buffered" /\ tries[r] < MaxTries
    /\ rec' = [rec EXCEPT ![r] = "sent"]
    /\ tries' = [tries EXCEPT ![r] = @ + 1]
    /\ UNCHANGED <<pcfg, pstate, log, safe, due, leaderLost>>

(* The leader appends, except a copy that it knows by its sequence number. *)
AppendToLog(r) ==
    /\ rec[r] = "sent"
    /\ log' = [log EXCEPT ![r] = IF Idempotent(pcfg) /\ @ > 0 THEN @ ELSE @ + 1]
    /\ rec' = [rec EXCEPT ![r] = "appended"]
    /\ UNCHANGED <<pcfg, pstate, tries, safe, due, leaderLost>>

Replicate(r) ==
    /\ log[r] > 0 /\ r \notin safe
    /\ safe' = safe \cup {r}
    /\ UNCHANGED <<pcfg, pstate, rec, tries, log, due, leaderLost>>

(* A new leader has what was replicated; a request under way fails. *)
LeaderFails ==
    /\ ~leaderLost /\ pcfg # NoConfig
    /\ leaderLost' = TRUE
    /\ log' = [r \in Records |-> IF r \in safe THEN log[r] ELSE 0]
    /\ rec' = [r \in Records |-> IF rec[r] = "appended" THEN "retry" ELSE rec[r]]
    /\ UNCHANGED <<pcfg, pstate, tries, safe, due>>

Acknowledge(r) ==
    /\ Working
    /\ \/ Acks(pcfg) = "all" /\ rec[r] = "appended" /\ r \in safe
       \/ Acks(pcfg) = "1" /\ rec[r] = "appended"
       \/ Acks(pcfg) = "0" /\ rec[r] \in {"sent", "appended"}
    /\ rec' = [rec EXCEPT ![r] = "acked"]
    /\ UNCHANGED <<pcfg, pstate, tries, log, safe, due, leaderLost>>

(* The request or its answer is lost. *)
Lose(r) ==
    /\ Working /\ rec[r] \in {"sent", "appended"}
    /\ rec' = [rec EXCEPT ![r] = "retry"]
    /\ UNCHANGED <<pcfg, pstate, tries, log, safe, due, leaderLost>>

RetryRecord(r) ==
    /\ Working /\ rec[r] = "retry"
    /\ rec' = [rec EXCEPT ![r] =
                  IF Bounded(pcfg) /\ tries[r] > recordRetries(pcfg, EffectiveTopicConfig(pcfg))
                  THEN "failed" ELSE "buffered"]
    /\ UNCHANGED <<pcfg, pstate, tries, log, safe, due, leaderLost>>

TimePasses(r) ==
    /\ Working /\ Open(r) /\ r \notin due
    /\ due' = due \cup {r}
    /\ UNCHANGED <<pcfg, pstate, rec, tries, log, safe, leaderLost>>

Ends(r) == Bounded(pcfg) \/ tries[r] = 0

TimesOut(r) ==
    /\ Working /\ Open(r) /\ r \in due /\ Ends(r)
    /\ rec' = [rec EXCEPT ![r] = "failed"]
    /\ UNCHANGED <<pcfg, pstate, tries, log, safe, due, leaderLost>>

------------------------------------------------------------------------------
(* Producer.Close *)

CloseProducer ==
    /\ pstate = "open"
    /\ pstate' = "flushing"
    /\ UNCHANGED <<pcfg, rec, tries, log, safe, due, leaderLost>>

Flushed ==
    /\ pstate = "flushing" /\ \A r \in Records : ~Open(r)
    /\ pstate' = "closed"
    /\ UNCHANGED <<pcfg, rec, tries, log, safe, due, leaderLost>>

(* The flush gives up, and client.Close drops what is left.  The flush began   *)
(* after the last record was sent: if it lasts longer than a delivery, every   *)
(* record that can time out has done so by then.                               *)
FlushExpires ==
    /\ pstate = "flushing"
    /\ FlushTimeout(pcfg) > DeliveryTimeout(pcfg) => \A r \in Records : Open(r) => ~Ends(r)
    /\ pstate' = "closed"
    /\ rec' = [r \in Records |-> IF Open(r) THEN "dropped" ELSE rec[r]]
    /\ UNCHANGED <<pcfg, tries, log, safe, due, leaderLost>>

Deliver(r) ==
    \/ SendMessage(r) \/ Request(r) \/ AppendToLog(r) \/ Replicate(r) \/ Acknowledge(r)
    \/ Lose(r) \/ RetryRecord(r) \/ TimePasses(r) \/ TimesOut(r)

ProducerOver == pstate = "closed" /\ UNCHANGED prodVars

ProdNext ==
    \/ \E c \in Configs : InitProducer(c)
    \/ \E r \in Records : Deliver(r)
    \/ LeaderFails \/ CloseProducer \/ Flushed \/ FlushExpires \/ ProducerOver

ProdSpec == ProdInit /\ [][ProdNext]_prodVars

(* Timeouts pass and the client acts on them. *)
ProdFairness ==
    \A r \in Records : WF_prodVars(TimePasses(r)) /\ WF_prodVars(TimesOut(r))

------------------------------------------------------------------------------
(* Properties *)

(* With idempotence on, whatever the topic's acks say, a record that was       *)
(* reported as delivered is in the log, also after the leader is lost          *)
(* ("we enforce acks=all", producer.go:108), and no record is there twice,     *)
(* however often its request is repeated (producer.go:107).                    *)
DeliveredOnce ==
    pcfg # NoConfig /\ pcfg.EnableIdempotence =>
        \A r \in Records : log[r] <= 1 /\ (rec[r] = "acked" => log[r] = 1)

(* Closing gives no record up that would have been reported in time, unless    *)
(* flush_timeout_ms was set so ("default DeliveryTimeout + 5s",                *)
(* producer.go:276).                                                           *)
CloseDropsNothing ==
    \A r \in Records : rec[r] = "dropped" =>
        pcfg.FlushTimeout > 0 \/ (pcfg.EnableIdempotence /\ ~pcfg.HardDeliveryBound)

(* With hard_delivery_bound the callback of every record fires, though the     *)
(* brokers never answer: it makes the timeouts "a hard bound and lets the      *)
(* delivery callback fire" (producer.go:115).                                  *)
HardBoundReports ==
    \A r \in Records :
        (pcfg # NoConfig /\ Open(r) /\ pcfg.EnableIdempotence /\ pcfg.HardDeliveryBound) ~> Reported(r)
==============================================================================
