---------------------------- MODULE MCComponents ----------------------------
(* The components that work without each other, in one instance: a behaviour  *)
(* runs one of them and leaves the others in their initial state.             *)
EXTENDS MCRuleCache, MCWorkerPool, Evaluation, LatencyRing, HttpClient, WithTx, Watcher,
        Lifecycle, KafkaProducer

VARIABLE which    \* the component that runs

Parts == {"rules", "pool", "ring", "http", "tx", "watcher", "process", "producer"}

ruleVars == <<vars, evalVars>>

cvars == <<which, ruleVars, poolVars, ringVars, httpVars, txVars, watchVars, lifeVars, prodVars>>

CompInit ==
    /\ which \in Parts
    /\ Init /\ EvalInit /\ PoolInit /\ RingInit /\ HttpInit /\ TxInit /\ WatchInit /\ LifeInit
    /\ ProdInit

(* A step of the component that runs; the variables of the others do not change. *)
CompNext ==
    \/ /\ which = "rules" /\ EvalNext
       /\ UNCHANGED <<which, poolVars, ringVars, httpVars, txVars, watchVars, lifeVars, prodVars>>
    \/ /\ which = "pool" /\ PoolNext
       /\ UNCHANGED <<which, ruleVars, ringVars, httpVars, txVars, watchVars, lifeVars, prodVars>>
    \/ /\ which = "ring" /\ RingNext
       /\ UNCHANGED <<which, ruleVars, poolVars, httpVars, txVars, watchVars, lifeVars, prodVars>>
    \/ /\ which = "http" /\ HttpNext
       /\ UNCHANGED <<which, ruleVars, poolVars, ringVars, txVars, watchVars, lifeVars, prodVars>>
    \/ /\ which = "tx" /\ TxNext
       /\ UNCHANGED <<which, ruleVars, poolVars, ringVars, httpVars, watchVars, lifeVars, prodVars>>
    \/ /\ which = "watcher" /\ WatchNext
       /\ UNCHANGED <<which, ruleVars, poolVars, ringVars, httpVars, txVars, lifeVars, prodVars>>
    \/ /\ which = "process" /\ LifeNext
       /\ UNCHANGED <<which, ruleVars, poolVars, ringVars, httpVars, txVars, watchVars, prodVars>>
    \/ /\ which = "producer" /\ ProdNext
       /\ UNCHANGED <<which, ruleVars, poolVars, ringVars, httpVars, txVars, watchVars, lifeVars>>

(* The fairness of each component; a goroutine that is ready from the start is *)
(* only scheduled where its component runs.                                    *)
CompFairness ==
    /\ WF_poolVars(which = "pool" /\ Main) /\ \A w \in Workers : WF_poolVars(Worker(w))
    /\ WF_watchVars(which = "watcher" /\ Watching) /\ WF_watchVars(SaveEnds)
    /\ HttpFairness /\ TxFairness /\ LifeFairness /\ ProdFairness

CompSpec == CompInit /\ [][CompNext]_cvars /\ CompFairness

------------------------------------------------------------------------------
(* Producer configurations: idempotent with and without the hard bound, acks   *)
(* of the topic, a flush timeout that is too short, a half TLS key pair, SASL.  *)

NoTLS == [Enable |-> FALSE, CAFile |-> "", CertFile |-> "", KeyFile |-> ""]

NoSASL == [Enable |-> FALSE, User |-> "", Pass |-> "", Mechanism |-> ""]

Cfg(idem, hard, acks, flush) ==
    [Brokers |-> {"b"}, TLS |-> NoTLS, SASL |-> NoSASL, EnableIdempotence |-> idem,
     HardDeliveryBound |-> hard, topic |-> [Acks |-> acks, Retries |-> 1],
     RecordRetries |-> 0, DeliveryTimeout |-> 0, FlushTimeout |-> flush]

MCConfigs ==
    {Cfg(TRUE, TRUE, "1", 0), Cfg(TRUE, FALSE, "all", 0), Cfg(FALSE, FALSE, "1", 2),
     Cfg(FALSE, FALSE, "0", 0),
     [Cfg(TRUE, TRUE, "all", 0) EXCEPT !.TLS = [@ EXCEPT !.Enable = TRUE, !.CertFile = "c"]],
     [Cfg(TRUE, TRUE, "all", 0) EXCEPT
         !.SASL = [Enable |-> TRUE, User |-> "u", Pass |-> "p", Mechanism |-> "PLAIN"]]}
=============================================================================
