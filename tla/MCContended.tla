---------------------------- MODULE MCContended ----------------------------
(* The rule manager, one rule in the pipeline and the Kafka consumer share no *)
(* state: a behaviour runs one of them and leaves the others in their initial *)
(* states.                                                                    *)
EXTENDS MCRuleManager, MCRulePipeline, KafkaConsumer

VARIABLE part     \* the one that runs

contendedVars == <<part, allVars, pipeVars, kvars>>

ContendedInit ==
    /\ part \in {"manager", "rule", "consumer"}
    /\ MgrInit /\ PipeInit /\ KInit
    /\ part # "rule" => row = CHOOSE r \in Rows : TRUE

(* A rule that has been judged stays so. *)
RuleJudged == exit # "running" /\ UNCHANGED pipeVars

ContendedNext ==
    \/ part = "manager" /\ MgrNext /\ UNCHANGED <<part, pipeVars, kvars>>
    \/ part = "rule" /\ (PipeNext \/ RuleJudged) /\ UNCHANGED <<part, allVars, kvars>>
    \/ part = "consumer" /\ KNext /\ UNCHANGED <<part, allVars, pipeVars>>

ContendedSpec == ContendedInit /\ [][ContendedNext]_contendedVars

(* What a step or one of the run's invariants reads: all but the consumer's   *)
(* history variables other than the offsets handled.                          *)
ContendedView ==
    <<part, allVars, pipeVars, broker, loopVars, callback, work, chanVars, handled>>
============================================================================
