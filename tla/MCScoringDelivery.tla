-------------------------- MODULE MCScoringDelivery --------------------------
(* The scoring requests and the Kafka consumer share no state: a behaviour     *)
(* runs one of them and leaves the other in its initial state.                 *)
EXTENDS MCScoring, KafkaConsumer

VARIABLE part     \* the one that runs

scoringDeliveryVars == <<part, sysVars, kvars>>

ScoringDeliveryInit == part \in {"scoring", "consumer"} /\ ScoreInit /\ KInit

ScoringDeliveryNext ==
    \/ part = "scoring" /\ ScoreNext /\ UNCHANGED <<part, kvars>>
    \/ part = "consumer" /\ KNext /\ UNCHANGED <<part, sysVars>>

(* The fairness of FairScoreSpec and DeliverySpec; the process is only started *)
(* where the consumer runs.                                                    *)
ScoringDeliverySpec ==
    /\ ScoringDeliveryInit /\ [][ScoringDeliveryNext]_scoringDeliveryVars
    /\ ScoreFairness /\ Scheduled
    /\ \A i \in Instances : WF_kvars(part = "consumer" /\ Subscribe(i))
    /\ Delivered
==============================================================================
