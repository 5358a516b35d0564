--------------------------- MODULE MCAdminConsumer ---------------------------
(* The rule manager and the Kafka consumer share no state: a behaviour runs    *)
(* one of them and leaves the other in its initial state.                      *)
EXTENDS MCRuleManager, KafkaConsumer

VARIABLE part     \* the one that runs

adminConsumerVars == <<part, allVars, kvars>>

AdminConsumerInit == part \in {"manager", "consumer"} /\ MgrInit /\ KInit

AdminConsumerNext ==
    \/ part = "manager" /\ MgrNext /\ UNCHANGED <<part, kvars>>
    \/ part = "consumer" /\ KNext /\ UNCHANGED <<part, allVars>>

AdminConsumerSpec == AdminConsumerInit /\ [][AdminConsumerNext]_adminConsumerVars

(* With the fairness of CloseSpec. *)
FairAdminConsumerSpec == AdminConsumerSpec /\ Scheduled
==============================================================================
