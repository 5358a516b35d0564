------------------------ MODULE KafkaConsumerProofs -------------------------
(* Proofs about KafkaConsumer for any number of instances, partitions,         *)
(* records, batch sizes, channel capacities and retries.                       *)
EXTENDS KafkaConsumer, TLAPS

Tasks == [sync : BOOLEAN, part : Partitions \cup {Nil}, upTo : Nat]

Places == {"down", "check", "polling", "process", "allow", "drain", "draining", "closed"}

WorkPlaces == {"idle", "sem", "loop", "handle", "enqueue", "flush", "done"}

KTypes ==
    /\ committed \in [Partitions -> Nat]
    /\ at \in [Instances -> Places]
    /\ ctxDone \in [Instances -> BOOLEAN]
    /\ cb \in [Instances -> {"idle", "send", "flushing"}]
    /\ pos \in [Instances -> [Partitions -> Nat]]
    /\ work \in [Instances -> [Partitions -> [pc : WorkPlaces, lo : Nat, next : Nat, end : Nat]]]
    /\ commitCh \in [Instances -> Seq(Tasks)]
    /\ closing \in [Instances -> BOOLEAN]
    /\ cw \in [Instances -> [pc : {"idle", "committing", "backoff", "exited"},
                             task : Tasks, attempt : Nat]]
    /\ revokes \in [Instances -> Nat]
    /\ handled \in [Partitions -> SUBSET Nat]

(* Every record of p below offset k has been handled, unless a poll may drop   *)
(* what it fetched.                                                            *)
HandledTo(p, k) == "fetch" \notin Faults => \A o \in Nat : o < k => o \in handled[p]

Sound(t) == ~t.sync => t.part \in Partitions /\ HandledTo(t.part, t.upTo)

(* What the goroutine for p knows: all before its next record was handled, and  *)
(* it only stops short of the end of the fetch when the context is done.        *)
WorkerOK(i, p) ==
    work[i][p].pc # "idle" =>
        /\ at[i] = "process"
        /\ HandledTo(p, work[i][p].next)
        /\ work[i][p].next <= work[i][p].end
        /\ work[i][p].end = pos[i][p]
        /\ work[i][p].pc = "handle" => work[i][p].next < work[i][p].end
        /\ work[i][p].pc \in {"flush", "done"} =>
               work[i][p].next = work[i][p].end \/ ctxDone[i]

(* Where the loop can still get to a poll, nothing fetched was left unhandled. *)
PositionOK(i, p) ==
    \/ HandledTo(p, pos[i][p])
    \/ at[i] \in {"drain", "draining", "closed"}
    \/ at[i] \in {"check", "allow", "process"} /\ ctxDone[i]
    \/ at[i] = "process" /\ work[i][p].pc # "idle"

CommitsOK(i) ==
    /\ \A k \in 1..Len(commitCh[i]) : Sound(commitCh[i][k])
    /\ cw[i].pc \in {"committing", "backoff"} => ~cw[i].task.sync /\ Sound(cw[i].task)

ClosingOK(i) == closing[i] => at[i] \in {"draining", "closed"}

(* The callback never runs beside the goroutines of a poll. *)
CallbackOK(i) == cb[i] # "idle" => CanRebalance(i)

InstanceOK(i) ==
    /\ \A p \in Partitions : WorkerOK(i, p) /\ PositionOK(i, p)
    /\ CommitsOK(i) /\ ClosingOK(i) /\ CallbackOK(i)

KInv ==
    /\ KTypes
    /\ \A p \in Partitions : HandledTo(p, committed[p])
    /\ \A i \in Instances : InstanceOK(i)

------------------------------------------------------------------------------
Grows == \A p \in Partitions : handled[p] \subseteq handled'[p]

LEMMA HandledToGrows ==
    ASSUME Grows, NEW p \in Partitions, NEW k, HandledTo(p, k)
    PROVE  HandledTo(p, k)'
    BY DEF Grows, HandledTo

LEMMA SoundGrows == ASSUME Grows, NEW t, Sound(t) PROVE ~t.sync => t.part \in Partitions /\ HandledTo(t.part, t.upTo)'
    BY HandledToGrows DEF Sound

LEMMA KStart == KInit => KInv
<1> SUFFICES ASSUME KInit PROVE KInv OBVIOUS
<1>1. KTypes
  BY DEF KInit, KTypes, IdleWork, IdleWorker, Barrier, Tasks, Places, WorkPlaces
<1>2. \A p \in Partitions : HandledTo(p, committed[p]) BY DEF KInit, HandledTo
<1>3. ASSUME NEW i \in Instances PROVE InstanceOK(i)
  <2>1. \A p \in Partitions : WorkerOK(i, p) BY DEF KInit, WorkerOK, IdleWork
  <2>2. \A p \in Partitions : PositionOK(i, p) BY DEF KInit, PositionOK, HandledTo
  <2>3. CommitsOK(i) BY DEF KInit, CommitsOK, IdleWorker
  <2>4. ClosingOK(i) /\ CallbackOK(i) BY DEF KInit, ClosingOK, CallbackOK
  <2> QED BY <2>1, <2>2, <2>3, <2>4 DEF InstanceOK
<1> QED BY <1>1, <1>2, <1>3 DEF KInv

------------------------------------------------------------------------------
(* What a step leaves alone. *)
SameLoop(i) == at'[i] = at[i] /\ ctxDone'[i] = ctxDone[i] /\ pos'[i] = pos[i] /\ work'[i] = work[i]

SameCommits(i) == commitCh'[i] = commitCh[i] /\ cw'[i] = cw[i]

LEMMA LoopFrame ==
    ASSUME Grows, NEW i \in Instances, InstanceOK(i), SameLoop(i)
    PROVE  \A p \in Partitions : WorkerOK(i, p)' /\ PositionOK(i, p)'
<1> SUFFICES ASSUME NEW p \in Partitions PROVE WorkerOK(i, p)' /\ PositionOK(i, p)' OBVIOUS
<1>1. WorkerOK(i, p) /\ PositionOK(i, p) BY DEF InstanceOK
<1>2. WorkerOK(i, p)' BY <1>1, HandledToGrows DEF WorkerOK, SameLoop
<1>3. PositionOK(i, p)' BY <1>1, HandledToGrows DEF PositionOK, SameLoop
<1> QED BY <1>2, <1>3

LEMMA CommitsFrame ==
    ASSUME Grows, NEW i \in Instances, InstanceOK(i), SameCommits(i)
    PROVE  CommitsOK(i)'
<1>1. CommitsOK(i) BY DEF InstanceOK
<1>2. ASSUME NEW t, Sound(t) PROVE ~t.sync => t.part \in Partitions /\ HandledTo(t.part, t.upTo)'
  BY <1>2, SoundGrows
<1> QED BY <1>1, <1>2 DEF CommitsOK, SameCommits, Sound

LEMMA InstanceFrame ==
    ASSUME Grows, NEW i \in Instances, InstanceOK(i), SameLoop(i), SameCommits(i),
           closing'[i] = closing[i], cb'[i] = cb[i]
    PROVE  InstanceOK(i)'
<1>1. ClosingOK(i)' /\ CallbackOK(i)'
  BY DEF InstanceOK, ClosingOK, CallbackOK, CanRebalance, SameLoop
<1> QED BY <1>1, LoopFrame, CommitsFrame DEF InstanceOK

OthersKept(i) ==
    \A j \in Instances \ {i} :
        SameLoop(j) /\ SameCommits(j) /\ closing'[j] = closing[j] /\ cb'[j] = cb[j]

CommittedOK == \A p \in Partitions : HandledTo(p, committed[p])

LEMMA OneInstance ==
    ASSUME KInv, Grows, NEW i \in Instances, OthersKept(i), KTypes', CommittedOK', InstanceOK(i)'
    PROVE  KInv'
<1>1. ASSUME NEW j \in Instances PROVE InstanceOK(j)'
  <2>1. CASE j = i BY <2>1
  <2>2. CASE j # i BY <2>2, InstanceFrame DEF OthersKept, KInv
  <2> QED BY <2>1, <2>2
<1> QED BY <1>1 DEF KInv, CommittedOK

(* A step of the poll loop: it moves on, and neither fetches nor handles.       *)
LEMMA LoopStep ==
    ASSUME KInv, NEW i \in Instances,
           \/ Subscribe(i) \/ Close(i) \/ CheckCtx(i) \/ PollNothing(i) \/ PollCancelled(i)
           \/ BatchDone(i) \/ AllowRebalance(i) \/ BeginDrain(i) \/ ShutdownDone(i)
    PROVE  KInv'
<1> USE DEF KInv, KTypes
<1>1. committed' = committed /\ handled' = handled /\ pos' = pos /\ work' = work
      /\ commitCh' = commitCh /\ cw' = cw /\ cb' = cb /\ revokes' = revokes
  BY DEF Subscribe, Close, CheckCtx, PollNothing, PollCancelled, BatchDone, AllowRebalance,
         BeginDrain, ShutdownDone, broker, callback, chanVars, history
<1>2. Grows BY <1>1 DEF Grows
<1>3. /\ at' \in [Instances -> Places] /\ ctxDone' \in [Instances -> BOOLEAN]
      /\ closing' \in [Instances -> BOOLEAN]
      /\ \A j \in Instances \ {i} : at'[j] = at[j] /\ ctxDone'[j] = ctxDone[j]
                                     /\ closing'[j] = closing[j]
  <2>1. at' = at \/ \E x \in Places : at' = [at EXCEPT ![i] = x]
    BY DEF Subscribe, Close, CheckCtx, PollNothing, PollCancelled, BatchDone, AllowRebalance,
           BeginDrain, ShutdownDone, Goto, Places
  <2>2. ctxDone' = ctxDone \/ ctxDone' = [ctxDone EXCEPT ![i] = TRUE]
    BY DEF Subscribe, Close, CheckCtx, PollNothing, PollCancelled, BatchDone, AllowRebalance,
           BeginDrain, ShutdownDone
  <2>3. closing' = closing \/ closing' = [closing EXCEPT ![i] = TRUE]
    BY DEF Subscribe, Close, CheckCtx, PollNothing, PollCancelled, BatchDone, AllowRebalance,
           BeginDrain, ShutdownDone, chanVars
  <2>4. at' \in [Instances -> Places] /\ \A j \in Instances \ {i} : at'[j] = at[j] BY <2>1
  <2>5. ctxDone' \in [Instances -> BOOLEAN] /\ \A j \in Instances \ {i} : ctxDone'[j] = ctxDone[j]
    BY <2>2
  <2>6. closing' \in [Instances -> BOOLEAN] /\ \A j \in Instances \ {i} : closing'[j] = closing[j]
    BY <2>3
  <2> QED BY <2>4, <2>5, <2>6
<1>4. KTypes' BY <1>1, <1>3
<1>5. OthersKept(i) BY <1>1, <1>3 DEF OthersKept, SameLoop, SameCommits
<1>6. CommittedOK' BY <1>1 DEF CommittedOK, HandledTo
<1>7. InstanceOK(i) OBVIOUS
<1>8. CommitsOK(i)' BY <1>1, <1>2, <1>7, CommitsFrame DEF SameCommits
<1>9. ASSUME NEW p \in Partitions PROVE WorkerOK(i, p)' /\ PositionOK(i, p)'
  <2>1. WorkerOK(i, p) /\ PositionOK(i, p) BY <1>7 DEF InstanceOK
  <2>2. HandledTo(p, pos[i][p])' <=> HandledTo(p, pos[i][p]) BY <1>1 DEF HandledTo
  <2>3. HandledTo(p, work[i][p].next)' <=> HandledTo(p, work[i][p].next) BY <1>1 DEF HandledTo
  <2>4. CASE Close(i) BY <2>4, <2>1, <2>2, <2>3, <1>1 DEF Close, WorkerOK, PositionOK
  <2>5. CASE BatchDone(i)
    BY <2>5, <2>1, <2>2, <2>3, <1>1 DEF BatchDone, Processed, Goto, WorkerOK, PositionOK
  <2>6. CASE \/ Subscribe(i) \/ CheckCtx(i) \/ PollNothing(i) \/ PollCancelled(i)
             \/ AllowRebalance(i) \/ BeginDrain(i) \/ ShutdownDone(i)
    <3>1. at[i] # "process" /\ ctxDone' = ctxDone
      BY <2>6 DEF Subscribe, CheckCtx, PollNothing, PollCancelled, AllowRebalance,
                  BeginDrain, ShutdownDone
    <3>2. WorkerOK(i, p)' BY <3>1, <2>1, <1>1 DEF WorkerOK
    <3>3. PositionOK(i, p)'
      BY <3>1, <2>1, <2>2, <2>6, <1>1 DEF PositionOK, Subscribe, CheckCtx, PollNothing, PollCancelled,
             AllowRebalance, BeginDrain, ShutdownDone, Goto
    <3> QED BY <3>2, <3>3
  <2> QED BY <2>4, <2>5, <2>6
<1>10. ClosingOK(i)'
  BY <1>7 DEF InstanceOK, ClosingOK, Subscribe, Close, CheckCtx, PollNothing, PollCancelled,
         BatchDone, AllowRebalance, BeginDrain, ShutdownDone, Goto, chanVars
<1>11. CallbackOK(i)'
  BY <1>1, <1>7 DEF InstanceOK, CallbackOK, CanRebalance, Subscribe, Close, CheckCtx, PollNothing,
         PollCancelled, BatchDone, AllowRebalance, BeginDrain, ShutdownDone, Goto
<1> QED BY <1>2, <1>4, <1>5, <1>6, <1>8, <1>9, <1>10, <1>11, OneInstance DEF InstanceOK

(* A step of the callback beside the barrier it sends; the loop does not move.  *)
LEMMA CallbackStep ==
    ASSUME KInv, NEW i \in Instances,
           \/ \E ps \in SUBSET Partitions : Revoke(i, ps) \/ RevokeWhileClosing(i, ps)
           \/ FlushDone(i) \/ FlushTimedOut(i)
    PROVE  KInv'
<1> USE DEF KInv, KTypes
<1>1. /\ committed' = committed /\ handled' = handled /\ pos' = pos /\ work' = work /\ at' = at
      /\ ctxDone' = ctxDone /\ closing' = closing /\ commitCh' = commitCh /\ cw' = cw
  BY DEF Revoke, RevokeWhileClosing, FlushDone, FlushTimedOut, broker, loopVars, chanVars, history
<1>2. Grows BY <1>1 DEF Grows
<1>3. \/ cb' = cb
      \/ cb' = [cb EXCEPT ![i] = "idle"]
      \/ cb' = [cb EXCEPT ![i] = "send"] /\ CanRebalance(i)
  BY DEF Revoke, RevokeWhileClosing, Revocable, FlushDone, FlushTimedOut, Handover, SetCallback,
         callback
<1>4. revokes' = revokes \/ \E x \in Nat : revokes' = [revokes EXCEPT ![i] = x]
  BY DEF Revoke, RevokeWhileClosing, FlushDone, FlushTimedOut, chanVars
<1>5. KTypes'
  <2>1. cb' \in [Instances -> {"idle", "send", "flushing"}] BY <1>3
  <2>2. revokes' \in [Instances -> Nat] BY <1>4
  <2> QED BY <2>1, <2>2, <1>1
<1>6. OthersKept(i) BY <1>1, <1>3 DEF OthersKept, SameLoop, SameCommits
<1>7. CommittedOK' BY <1>1 DEF CommittedOK, HandledTo
<1>8. InstanceOK(i) OBVIOUS
<1>9. CommitsOK(i)' BY <1>1, <1>2, <1>8, CommitsFrame DEF SameCommits
<1>10. \A p \in Partitions : WorkerOK(i, p)' /\ PositionOK(i, p)'
  BY <1>1, <1>2, <1>8, LoopFrame DEF SameLoop
<1>11. ClosingOK(i)' BY <1>1, <1>8 DEF InstanceOK, ClosingOK
<1>12. CallbackOK(i)' BY <1>1, <1>3, <1>8 DEF InstanceOK, CallbackOK, CanRebalance
<1> QED BY <1>2, <1>5, <1>6, <1>7, <1>9, <1>10, <1>11, <1>12, OneInstance DEF InstanceOK

(* A new position: assigned, fetched, or none after a crash. *)
LEMMA AssignStep == ASSUME KInv, NEW i \in Instances, NEW q \in Partitions, Assign(i, q) PROVE KInv'
<1> USE DEF KInv, KTypes
<1>1. /\ committed' = committed /\ handled' = handled /\ work' = work /\ at' = at
      /\ ctxDone' = ctxDone /\ commitCh' = commitCh /\ cw' = cw /\ closing' = closing
      /\ revokes' = revokes /\ cb' = cb /\ pos' = [pos EXCEPT ![i][q] = committed[q]]
  BY DEF Assign, callback, chanVars
<1>2. Grows BY <1>1 DEF Grows
<1>3. KTypes' BY <1>1
<1>4. OthersKept(i) BY <1>1 DEF OthersKept, SameLoop, SameCommits
<1>5. CommittedOK' BY <1>1 DEF CommittedOK, HandledTo
<1>6. InstanceOK(i) OBVIOUS
<1>7. CommitsOK(i)' BY <1>1, <1>2, <1>6, CommitsFrame DEF SameCommits
<1>8. ASSUME NEW p \in Partitions PROVE WorkerOK(i, p)' /\ PositionOK(i, p)'
  <2>1. WorkerOK(i, p) /\ PositionOK(i, p) BY <1>6 DEF InstanceOK
  <2>2. WorkerOK(i, p)' BY <2>1, <1>1 DEF WorkerOK, Assign
  <2>3. CASE p = q
    <3>1. HandledTo(p, committed[p]) OBVIOUS
    <3>2. HandledTo(p, pos[i][p])' BY <3>1, <2>3, <1>1 DEF HandledTo
    <3> QED BY <2>2, <3>2 DEF PositionOK
  <2>4. CASE p # q
    <3>1. HandledTo(p, pos[i][p])' <=> HandledTo(p, pos[i][p]) BY <2>4, <1>1 DEF HandledTo
    <3> QED BY <2>1, <2>2, <3>1, <1>1 DEF PositionOK
  <2> QED BY <2>3, <2>4
<1>9. ClosingOK(i)' /\ CallbackOK(i)'
  BY <1>6, <1>1 DEF InstanceOK, ClosingOK, CallbackOK, CanRebalance
<1> QED BY <1>2, <1>3, <1>4, <1>5, <1>7, <1>8, <1>9, OneInstance DEF InstanceOK

LEMMA DeathStep == ASSUME KInv, NEW i \in Instances, ProcessDies(i) PROVE KInv'
<1> USE DEF KInv, KTypes
<1>1. /\ committed' = committed /\ handled' = handled /\ revokes' = revokes
      /\ work' = [work EXCEPT ![i] = [p \in Partitions |-> IdleWork]]
      /\ at' = [at EXCEPT ![i] = "down"] /\ ctxDone' = [ctxDone EXCEPT ![i] = FALSE]
      /\ commitCh' = [commitCh EXCEPT ![i] = <<>>] /\ cw' = [cw EXCEPT ![i] = IdleWorker]
      /\ closing' = [closing EXCEPT ![i] = FALSE] /\ cb' = [cb EXCEPT ![i] = "idle"]
      /\ pos' = [pos EXCEPT ![i] = [p \in Partitions |-> 0]]
  BY DEF ProcessDies, Goto
<1>2. Grows BY <1>1 DEF Grows
<1>a. [p \in Partitions |-> IdleWork]
          \in [Partitions -> [pc : WorkPlaces, lo : Nat, next : Nat, end : Nat]]
  BY DEF IdleWork, WorkPlaces
<1>b. IdleWorker \in [pc : {"idle", "committing", "backoff", "exited"}, task : Tasks, attempt : Nat]
  BY DEF IdleWorker, Barrier, Tasks
<1>3. KTypes'
  <2>1. work' \in [Instances -> [Partitions -> [pc : WorkPlaces, lo : Nat, next : Nat, end : Nat]]]
    BY <1>1, <1>a
  <2>2. cw' \in [Instances -> [pc : {"idle", "committing", "backoff", "exited"},
                               task : Tasks, attempt : Nat]]
    BY <1>1, <1>b
  <2>3. commitCh' \in [Instances -> Seq(Tasks)] /\ pos' \in [Instances -> [Partitions -> Nat]]
    BY <1>1
  <2>4. at' \in [Instances -> Places] BY <1>1 DEF Places
  <2> QED BY <2>1, <2>2, <2>3, <2>4, <1>1
<1>4. OthersKept(i) BY <1>1 DEF OthersKept, SameLoop, SameCommits
<1>5. CommittedOK' BY <1>1 DEF CommittedOK, HandledTo
<1>6. CommitsOK(i)' BY <1>1 DEF CommitsOK, IdleWorker
<1>7. \A p \in Partitions : WorkerOK(i, p)' /\ PositionOK(i, p)'
  BY <1>1 DEF WorkerOK, PositionOK, HandledTo, IdleWork
<1>8. ClosingOK(i)' /\ CallbackOK(i)' BY <1>1 DEF ClosingOK, CallbackOK
<1> QED BY <1>2, <1>3, <1>4, <1>5, <1>6, <1>7, <1>8, OneInstance DEF InstanceOK

LEMMA PollStep ==
    ASSUME KInv, NEW i \in Instances, NEW to \in Positions, PollRecords(i, to)
    PROVE  KInv'
<1> USE DEF KInv, KTypes
<1> DEFINE w == [p \in Partitions |->
                   IF to[p] = pos[i][p] THEN IdleWork
                   ELSE [pc |-> "sem", lo |-> pos[i][p], next |-> pos[i][p], end |-> to[p]]]
<1>1. /\ committed' = committed /\ handled' = handled /\ revokes' = revokes
      /\ at[i] = "polling" /\ at' = [at EXCEPT ![i] = "process"] /\ ctxDone' = ctxDone
      /\ commitCh' = commitCh /\ cw' = cw /\ closing' = closing /\ cb' = cb /\ cb[i] = "idle"
      /\ pos' = [pos EXCEPT ![i] = to] /\ work' = [work EXCEPT ![i] = w]
      /\ \A p \in Partitions : pos[i][p] <= to[p]
  BY DEF PollRecords, Goto, Fetchable, broker, callback, chanVars, history
<1>2. Grows BY <1>1 DEF Grows
<1>a. to \in [Partitions -> Nat] BY KafkaNumbers DEF Positions
<1>b. w \in [Partitions -> [pc : WorkPlaces, lo : Nat, next : Nat, end : Nat]]
  BY <1>a DEF IdleWork, WorkPlaces
<1>3. KTypes'
  <2>1. at' \in [Instances -> Places] BY <1>1 DEF Places
  <2>2. pos' \in [Instances -> [Partitions -> Nat]] BY <1>1, <1>a
  <2>3. work' \in [Instances -> [Partitions -> [pc : WorkPlaces, lo : Nat, next : Nat, end : Nat]]]
    <3> HIDE DEF w
    <3> QED BY <1>1, <1>b
  <2> HIDE DEF w
  <2> QED BY <2>1, <2>2, <2>3, <1>1
<1>4. OthersKept(i) BY <1>1 DEF OthersKept, SameLoop, SameCommits
<1>5. CommittedOK' BY <1>1 DEF CommittedOK, HandledTo
<1>6. InstanceOK(i) OBVIOUS
<1>7. CommitsOK(i)' BY <1>1, <1>2, <1>6, CommitsFrame DEF SameCommits
<1>8. ASSUME NEW p \in Partitions PROVE WorkerOK(i, p)' /\ PositionOK(i, p)'
  <2>1. PositionOK(i, p) BY <1>6 DEF InstanceOK
  <2>2. HandledTo(p, pos[i][p]) BY <2>1, <1>1 DEF PositionOK
  <2>3. work'[i][p] = w[p] /\ pos'[i][p] = to[p] /\ at'[i] = "process"
    <3> HIDE DEF w
    <3> QED BY <1>1
  <2>4. CASE to[p] = pos[i][p]
    <3>1. work'[i][p] = IdleWork BY <2>3, <2>4
    <3>2. HandledTo(p, pos[i][p])' BY <2>2, <2>3, <2>4, <1>1 DEF HandledTo
    <3> QED BY <3>1, <3>2 DEF WorkerOK, PositionOK, IdleWork
  <2>5. CASE to[p] # pos[i][p]
    <3>1. work'[i][p] = [pc |-> "sem", lo |-> pos[i][p], next |-> pos[i][p], end |-> to[p]]
      BY <2>3, <2>5
    <3>2. HandledTo(p, work[i][p].next)' BY <2>2, <3>1, <1>1 DEF HandledTo
    <3> QED BY <3>1, <3>2, <2>3, <1>1, <1>a DEF WorkerOK, PositionOK
  <2> QED BY <2>4, <2>5
<1>9. ClosingOK(i)' /\ CallbackOK(i)'
  BY <1>6, <1>1 DEF InstanceOK, ClosingOK, CallbackOK, CanRebalance
<1> QED BY <1>2, <1>3, <1>4, <1>5, <1>7, <1>8, <1>9, OneInstance DEF InstanceOK

(* A poll that drops what it fetched, which HandledTo makes no claim about. *)
LEMMA LostPollStep ==
    ASSUME KInv, NEW i \in Instances, NEW to \in Positions, PollPartlyFailed(i, to)
    PROVE  KInv'
<1> USE DEF KInv, KTypes
<1>1. /\ committed' = committed /\ handled' = handled /\ revokes' = revokes
      /\ at[i] = "polling" /\ at' = [at EXCEPT ![i] = "allow"] /\ ctxDone' = ctxDone
      /\ commitCh' = commitCh /\ cw' = cw /\ closing' = closing /\ cb' = cb /\ cb[i] = "idle"
      /\ pos' = [pos EXCEPT ![i] = to] /\ work' = work /\ "fetch" \in Faults
  BY DEF PollPartlyFailed, Goto, broker, callback, chanVars, history
<1>2. Grows BY <1>1 DEF Grows
<1>3. KTypes'
  <2>1. to \in [Partitions -> Nat] BY KafkaNumbers DEF Positions
  <2>2. at' \in [Instances -> Places] BY <1>1 DEF Places
  <2>3. pos' \in [Instances -> [Partitions -> Nat]] BY <1>1, <2>1
  <2> QED BY <2>2, <2>3, <1>1
<1>4. OthersKept(i) BY <1>1 DEF OthersKept, SameLoop, SameCommits
<1>5. CommittedOK' BY <1>1 DEF CommittedOK, HandledTo
<1>6. InstanceOK(i) OBVIOUS
<1>7. CommitsOK(i)' BY <1>1, <1>2, <1>6, CommitsFrame DEF SameCommits
<1>8. ASSUME NEW p \in Partitions PROVE WorkerOK(i, p)' /\ PositionOK(i, p)'
  <2>1. WorkerOK(i, p) BY <1>6 DEF InstanceOK
  <2>2. work'[i][p].pc = "idle" BY <2>1, <1>1 DEF WorkerOK
  <2> QED BY <2>2, <1>1 DEF WorkerOK, PositionOK, HandledTo
<1>9. ClosingOK(i)' /\ CallbackOK(i)'
  BY <1>6, <1>1 DEF InstanceOK, ClosingOK, CallbackOK, CanRebalance
<1> QED BY <1>2, <1>3, <1>4, <1>5, <1>7, <1>8, <1>9, OneInstance DEF InstanceOK

------------------------------------------------------------------------------
(* A step of the goroutine for q: the others of the instance do not notice.     *)
LEMMA GoroutineFrame ==
    ASSUME KInv, Grows, NEW i \in Instances, NEW q \in Partitions, NEW w,
           w \in [pc : WorkPlaces, lo : Nat, next : Nat, end : Nat],
           work' = [work EXCEPT ![i][q] = w],
           at' = at, ctxDone' = ctxDone, pos' = pos, cw' = cw, closing' = closing, cb' = cb,
           \A j \in Instances \ {i} : commitCh'[j] = commitCh[j],
           committed' = committed, KTypes', WorkerOK(i, q)', PositionOK(i, q)', CommitsOK(i)'
    PROVE  KInv'
<1> USE DEF KInv, KTypes
<1>1. OthersKept(i) BY DEF OthersKept, SameLoop, SameCommits
<1>2. CommittedOK'
  <2> SUFFICES ASSUME NEW p \in Partitions PROVE HandledTo(p, committed[p])' BY DEF CommittedOK
  <2>1. HandledTo(p, committed[p]) OBVIOUS
  <2> QED BY <2>1 DEF Grows, HandledTo
<1>3. InstanceOK(i) OBVIOUS
<1>4. ASSUME NEW p \in Partitions, p # q PROVE WorkerOK(i, p)' /\ PositionOK(i, p)'
  <2>1. WorkerOK(i, p) /\ PositionOK(i, p) BY <1>3 DEF InstanceOK
  <2>2. work'[i][p] = work[i][p] BY <1>4
  <2>3. HandledTo(p, work[i][p].next) => HandledTo(p, work[i][p].next)'
    BY <2>2 DEF HandledTo, Grows
  <2>4. HandledTo(p, pos[i][p]) => HandledTo(p, pos[i][p])' BY DEF HandledTo, Grows
  <2>5. WorkerOK(i, p)' BY <2>1, <2>2, <2>3 DEF WorkerOK
  <2>6. PositionOK(i, p)' BY <2>1, <2>2, <2>4 DEF PositionOK
  <2> QED BY <2>5, <2>6
<1>5. ClosingOK(i)' /\ CallbackOK(i)' BY <1>3 DEF InstanceOK, ClosingOK, CallbackOK, CanRebalance
<1> HIDE DEF KInv, KTypes
<1>6. InstanceOK(i)' BY <1>4, <1>5 DEF InstanceOK
<1> QED BY <1>1, <1>2, <1>6, OneInstance

LEMMA GoroutineStep ==
    ASSUME KInv, NEW i \in Instances, NEW q \in Partitions,
           AcquireSem(i, q) \/ NextRecord(i, q) \/ EnqueueDropped(i, q) \/ PartitionDone(i, q)
    PROVE  KInv'
<1> USE DEF KInv, KTypes
<1> DEFINE Works == [pc : WorkPlaces, lo : Nat, next : Nat, end : Nat]
<1>1. /\ committed' = committed /\ handled' = handled /\ revokes' = revokes /\ at' = at
      /\ ctxDone' = ctxDone /\ pos' = pos /\ commitCh' = commitCh /\ cw' = cw /\ closing' = closing
      /\ cb' = cb
  BY DEF AcquireSem, NextRecord, EnqueueDropped, PartitionDone, broker, loopVars, callback, chanVars,
         history
<1>2. Grows BY <1>1 DEF Grows
<1>0. work[i][q] \in Works /\ InstanceOK(i) OBVIOUS
<1>3. WorkerOK(i, q) /\ PositionOK(i, q) BY <1>0 DEF InstanceOK
<1>4. CommitsOK(i)' BY <1>0, <1>1, <1>2, CommitsFrame DEF SameCommits
<1>5. ASSUME NEW w \in Works, work' = [work EXCEPT ![i][q] = w],
             w.pc # "idle" => /\ w.next = work[i][q].next /\ w.end = work[i][q].end
                              /\ work[i][q].pc # "idle"
                              /\ (w.pc = "handle" => w.next < w.end)
                              /\ (w.pc \in {"flush", "done"} => w.next = w.end \/ ctxDone[i]),
             w.pc = "idle" => work[i][q].pc = "done"
      PROVE  KInv'
  <2>1. KTypes' BY <1>1, <1>5
  <2>2. work'[i][q] = w BY <1>5
  <2>3. WorkerOK(i, q)' BY <2>2, <1>1, <1>3, <1>5 DEF WorkerOK, HandledTo
  <2>4. PositionOK(i, q)'
    <3>1. HandledTo(q, pos[i][q]) => HandledTo(q, pos[i][q])' BY <1>1 DEF HandledTo
    <3>2. CASE w.pc = "idle"
      <4>1. HandledTo(q, pos[i][q]) \/ (at[i] = "process" /\ ctxDone[i])
        BY <3>2, <1>5, <1>3 DEF WorkerOK
      <4> QED BY <4>1, <3>1, <1>1 DEF PositionOK
    <3>3. CASE w.pc # "idle" BY <3>3, <3>1, <2>2, <1>1, <1>3, <1>5 DEF PositionOK, WorkerOK
    <3> QED BY <3>2, <3>3
  <2> QED BY <2>1, <2>3, <2>4, <1>1, <1>2, <1>4, <1>5, GoroutineFrame
<1>6. CASE AcquireSem(i, q)
  <2> DEFINE w == [work[i][q] EXCEPT !.pc = "loop"]
  <2>1. w \in Works /\ w.pc = "loop" /\ w.next = work[i][q].next /\ w.end = work[i][q].end
    BY <1>0 DEF WorkPlaces
  <2>2. work' = [work EXCEPT ![i][q] = w] /\ work[i][q].pc = "sem"
    BY <1>6 DEF AcquireSem, SetWork
  <2> HIDE DEF w
  <2> QED BY <2>1, <2>2, <1>5
<1>7. CASE NextRecord(i, q)
  <2> DEFINE x == IF work[i][q].next < work[i][q].end /\ ~ctxDone[i] THEN "handle"
                  ELSE IF work[i][q].lo < work[i][q].next THEN "flush" ELSE "done"
             w == [work[i][q] EXCEPT !.pc = x]
  <2>1. work' = [work EXCEPT ![i][q] = w] /\ work[i][q].pc = "loop"
    BY <1>7 DEF NextRecord, SetWork
  <2>2. x \in {"handle", "flush", "done"} /\ (x = "handle" => work[i][q].next < work[i][q].end)
    OBVIOUS
  <2>3. x \in {"flush", "done"} => work[i][q].next = work[i][q].end \/ ctxDone[i]
    BY <2>1, <1>0, <1>3 DEF WorkerOK
  <2> HIDE DEF x
  <2>4. w \in Works /\ w.pc = x /\ w.next = work[i][q].next /\ w.end = work[i][q].end
    BY <1>0, <2>2 DEF WorkPlaces
  <2> HIDE DEF w
  <2> QED BY <2>1, <2>2, <2>3, <2>4, <1>5
<1>8. CASE EnqueueDropped(i, q)
  <2> DEFINE x == AfterEnqueue(work[i][q])
             w == [work[i][q] EXCEPT !.lo = work[i][q].next, !.pc = x]
  <2>1. work' = [work EXCEPT ![i][q] = w] /\ work[i][q].pc \in {"enqueue", "flush"}
    BY <1>8 DEF EnqueueDropped, SetWork
  <2>2. x \in {"loop", "done"} /\ (x = "done" => work[i][q].pc = "flush")
    BY <2>1 DEF AfterEnqueue
  <2> HIDE DEF x
  <2>3. w \in Works /\ w.pc = x /\ w.next = work[i][q].next /\ w.end = work[i][q].end
    BY <1>0, <2>2 DEF WorkPlaces
  <2>4. x = "done" => work[i][q].next = work[i][q].end \/ ctxDone[i]
    BY <2>2, <1>3 DEF WorkerOK
  <2> HIDE DEF w
  <2> QED BY <2>1, <2>2, <2>3, <2>4, <1>5
<1>9. CASE PartitionDone(i, q)
  <2>1. work' = [work EXCEPT ![i][q] = IdleWork] /\ work[i][q].pc = "done"
    BY <1>9 DEF PartitionDone, SetWork
  <2>2. IdleWork \in Works /\ IdleWork.pc = "idle" BY DEF IdleWork, WorkPlaces
  <2> QED BY <2>1, <2>2, <1>5
<1> QED BY <1>6, <1>7, <1>8, <1>9

(* The handler returned: one more record is handled. *)
LEMMA HandleStep ==
    ASSUME KInv, NEW i \in Instances, NEW q \in Partitions, Handle(i, q) PROVE KInv'
<1> USE DEF KInv, KTypes
<1> DEFINE old == work[i][q]
           w == AfterHandle(old)
           Works == [pc : WorkPlaces, lo : Nat, next : Nat, end : Nat]
<1>1. /\ committed' = committed /\ revokes' = revokes /\ at' = at /\ ctxDone' = ctxDone
      /\ pos' = pos /\ commitCh' = commitCh /\ cw' = cw /\ closing' = closing
      /\ old.pc = "handle" /\ handled' = [handled EXCEPT ![q] = @ \cup {old.next}]
      /\ work' = [work EXCEPT ![i][q] = w] /\ cb' = cb
  BY DEF Handle, SetWork, broker, loopVars, callback, chanVars
<1>0. old \in Works /\ InstanceOK(i) OBVIOUS
<1>2. Grows BY <1>1 DEF Grows
<1>3. WorkerOK(i, q) /\ PositionOK(i, q) BY <1>0 DEF InstanceOK
<1>4. CommitsOK(i)' BY <1>0, <1>1, <1>2, CommitsFrame DEF SameCommits
<1>5. w \in Works /\ w.next = old.next + 1 /\ w.end = old.end /\ w.pc \in {"enqueue", "loop"}
  <2>1. old.lo \in Nat /\ old.next + 1 \in Nat /\ old.end \in Nat BY <1>0
  <2> HIDE DEF old
  <2> QED BY ONLY <2>1 DEF AfterHandle, WorkPlaces
<1> HIDE DEF w
<1>b. work'[i][q] = w BY <1>1
<1>6. KTypes'
  <2>1. handled' \in [Partitions -> SUBSET Nat] BY <1>0, <1>1
  <2>2. work' \in [Instances -> [Partitions -> Works]] BY <1>1, <1>5
  <2> QED BY <2>1, <2>2, <1>1
<1>7. WorkerOK(i, q)'
  <2>1. HandledTo(q, old.next) /\ old.next < old.end /\ old.end = pos[i][q] /\ at[i] = "process"
    BY <1>1, <1>3 DEF WorkerOK
  <2>2. HandledTo(q, work[i][q].next)'
    <3>1. \A o \in Nat : o < old.next + 1 => o < old.next \/ o = old.next BY <1>0
    <3> QED BY <3>1, <2>1, <1>b, <1>5, <1>1 DEF HandledTo
  <2> QED BY <2>1, <2>2, <1>b, <1>5, <1>1, <1>0 DEF WorkerOK
<1>8. PositionOK(i, q)'
  <2>1. at[i] = "process" BY <1>1, <1>3 DEF WorkerOK
  <2> QED BY <2>1, <1>b, <1>5, <1>1 DEF PositionOK
<1> QED BY <1>1, <1>2, <1>4, <1>5, <1>6, <1>7, <1>8, GoroutineFrame

(* A batch handed to the commit worker names only handled records. *)
LEMMA EnqueueStep ==
    ASSUME KInv, NEW i \in Instances, NEW q \in Partitions, EnqueueCommit(i, q) PROVE KInv'
<1> USE DEF KInv, KTypes
<1> DEFINE old == work[i][q]
           x == AfterEnqueue(old)
           w == [old EXCEPT !.lo = old.next, !.pc = x]
           b == Batch(q, old.next)
           Works == [pc : WorkPlaces, lo : Nat, next : Nat, end : Nat]
<1>1. /\ committed' = committed /\ revokes' = revokes /\ at' = at /\ ctxDone' = ctxDone
      /\ pos' = pos /\ cw' = cw /\ closing' = closing /\ handled' = handled
      /\ old.pc \in {"enqueue", "flush"} /\ work' = [work EXCEPT ![i][q] = w]
      /\ commitCh' = [commitCh EXCEPT ![i] = Append(@, b)] /\ cb' = cb
  BY DEF EnqueueCommit, BatchOf, SetWork, broker, loopVars, callback, history
<1>0. old \in Works /\ InstanceOK(i) OBVIOUS
<1>2. Grows BY <1>1 DEF Grows
<1>3. WorkerOK(i, q) /\ PositionOK(i, q) /\ CommitsOK(i) BY <1>0 DEF InstanceOK
<1>a. x \in {"loop", "done"} /\ (x = "done" => old.pc = "flush") BY <1>1 DEF AfterEnqueue
<1> HIDE DEF x
<1>5. w \in Works /\ w.pc = x /\ w.next = old.next /\ w.end = old.end
  BY <1>0, <1>a DEF WorkPlaces
<1> HIDE DEF w
<1>b. work'[i][q] = w BY <1>1
<1>c. b \in Tasks /\ ~b.sync /\ b.part = q /\ b.upTo = old.next BY <1>0 DEF Batch, Tasks
<1> HIDE DEF b
<1>6. KTypes'
  <2>1. commitCh' \in [Instances -> Seq(Tasks)] BY <1>1, <1>c
  <2>2. work' \in [Instances -> [Partitions -> Works]] BY <1>1, <1>5
  <2> QED BY <2>1, <2>2, <1>1
<1>d. /\ HandledTo(q, old.next) /\ at[i] = "process" /\ old.next <= old.end /\ old.end = pos[i][q]
      /\ (old.pc = "flush" => old.next = old.end \/ ctxDone[i])
  BY <1>1, <1>3 DEF WorkerOK
<1>7. WorkerOK(i, q)'
  <2>1. HandledTo(q, work[i][q].next)' BY <1>d, <1>b, <1>5, <1>1 DEF HandledTo
  <2> QED BY <2>1, <1>d, <1>b, <1>5, <1>a, <1>1 DEF WorkerOK
<1>8. PositionOK(i, q)' BY <1>d, <1>b, <1>5, <1>a, <1>1 DEF PositionOK
<1>9. CommitsOK(i)'
  <2>1. \A t : Sound(t) => Sound(t)' BY <1>1 DEF Sound, HandledTo
  <2>2. Sound(b) BY <1>c, <1>d DEF Sound
  <2>3. commitCh'[i] = Append(commitCh[i], b) /\ commitCh[i] \in Seq(Tasks) BY <1>1
  <2>4. ASSUME NEW k \in 1..Len(commitCh'[i]) PROVE Sound(commitCh'[i][k])
    BY <2>2, <2>3, <1>3 DEF CommitsOK
  <2>5. ASSUME NEW k \in 1..Len(commitCh'[i]) PROVE Sound(commitCh[i][k])'
    BY <2>4, <2>1, <1>1 DEF Sound, HandledTo
  <2>6. cw[i].pc \in {"committing", "backoff"} => ~cw[i].task.sync /\ Sound(cw[i].task)
    BY <1>3 DEF CommitsOK
  <2> QED BY <2>5, <2>6, <1>1 DEF CommitsOK, Sound, HandledTo
<1> QED BY <1>1, <1>2, <1>5, <1>6, <1>7, <1>8, <1>9, GoroutineFrame

------------------------------------------------------------------------------
(* A step that touches only the channel, the commit worker and the broker.     *)
LEMMA CommitFrame ==
    ASSUME KInv, NEW i \in Instances, handled' = handled, work' = work, pos' = pos,
           ctxDone' = ctxDone, at' = at, closing' = closing, cb' = cb,
           \A j \in Instances \ {i} : SameCommits(j),
           KTypes', CommittedOK', CommitsOK(i)'
    PROVE  KInv'
<1> USE DEF KInv
<1>1. Grows BY DEF Grows
<1>2. OthersKept(i) BY DEF OthersKept, SameLoop
<1>3. InstanceOK(i) OBVIOUS
<1>4. \A p \in Partitions : WorkerOK(i, p)' /\ PositionOK(i, p)'
  BY <1>1, <1>3, LoopFrame DEF SameLoop
<1>5. ClosingOK(i)' /\ CallbackOK(i)' BY <1>3 DEF InstanceOK, ClosingOK, CallbackOK, CanRebalance
<1> QED BY <1>1, <1>2, <1>4, <1>5, OneInstance DEF InstanceOK

LEMMA TakeStep == ASSUME KInv, NEW i \in Instances, TakeTask(i) PROVE KInv'
<1> USE DEF KInv, KTypes
<1> DEFINE q == commitCh[i]
           t == Head(q)
<1>1. /\ committed' = committed /\ handled' = handled /\ work' = work /\ pos' = pos /\ at' = at
      /\ ctxDone' = ctxDone /\ closing' = closing /\ revokes' = revokes
      /\ cb' = cb /\ q # <<>> /\ commitCh' = [commitCh EXCEPT ![i] = Tail(q)]
      /\ \/ cw' = cw
         \/ ~t.sync /\ cw' = [cw EXCEPT ![i] = [pc |-> "committing", task |-> t, attempt |-> 0]]
  BY DEF TakeTask, Received, SetWorker, broker, loopVars, callback, history
<1>0. q \in Seq(Tasks) /\ InstanceOK(i) OBVIOUS
<1>2. /\ t = q[1] /\ 1 \in 1..Len(q) /\ t \in Tasks /\ Tail(q) \in Seq(Tasks)
      /\ \A k \in 1..Len(Tail(q)) : k + 1 \in 1..Len(q) /\ Tail(q)[k] = q[k + 1]
  BY <1>0, <1>1
<1>3. CommitsOK(i) BY <1>0 DEF InstanceOK
<1>4. Sound(t) BY <1>2, <1>3 DEF CommitsOK
<1>5. \A k \in 1..Len(Tail(q)) : Sound(Tail(q)[k]) BY <1>2, <1>3 DEF CommitsOK
<1>6. commitCh'[i] = Tail(q) /\ (\A j \in Instances \ {i} : commitCh'[j] = commitCh[j]) BY <1>1
<1> HIDE DEF t, q
<1>7. /\ cw' \in [Instances -> [pc : {"idle", "committing", "backoff", "exited"},
                               task : Tasks, attempt : Nat]]
      /\ \A j \in Instances \ {i} : cw'[j] = cw[j]
      /\ cw'[i] = cw[i] \/ (~t.sync /\ cw'[i].task = t)
  <2>1. CASE cw' = cw BY <2>1
  <2>2. CASE ~t.sync /\ cw' = [cw EXCEPT ![i] = [pc |-> "committing", task |-> t, attempt |-> 0]]
    BY <2>2, <1>2
  <2> QED BY <2>1, <2>2, <1>1
<1>8. KTypes'
  <2>1. commitCh' \in [Instances -> Seq(Tasks)] BY <1>1, <1>2
  <2> QED BY <2>1, <1>1, <1>7
<1>9. CommittedOK' BY <1>1 DEF CommittedOK, HandledTo
<1>10. CommitsOK(i)'
  <2>1. \A k \in 1..Len(commitCh'[i]) : Sound(commitCh[i][k])'
    BY <1>5, <1>6, <1>1 DEF Sound, HandledTo
  <2>2. cw'[i].pc \in {"committing", "backoff"} => ~cw'[i].task.sync /\ Sound(cw'[i].task)
    BY <1>3, <1>4, <1>7 DEF CommitsOK
  <2>3. Sound(cw'[i].task) => Sound(cw[i].task)' BY <1>1 DEF Sound, HandledTo
  <2> QED BY <2>1, <2>2, <2>3 DEF CommitsOK
<1> QED BY <1>1, <1>6, <1>7, <1>8, <1>9, <1>10, CommitFrame DEF SameCommits

LEMMA SendBarrierStep == ASSUME KInv, NEW i \in Instances, SendBarrier(i) PROVE KInv'
<1> USE DEF KInv, KTypes
<1> DEFINE b == Barrier(revokes[i] + 1)
<1>1. /\ committed' = committed /\ handled' = handled /\ work' = work /\ pos' = pos
      /\ ctxDone' = ctxDone /\ closing' = closing /\ cw' = cw /\ at' = at
      /\ cb[i] = "send" /\ cb' = [cb EXCEPT ![i] = "flushing"]
      /\ revokes' = [revokes EXCEPT ![i] = @ + 1]
      /\ commitCh' = [commitCh EXCEPT ![i] = Append(@, b)]
  BY DEF SendBarrier, SetCallback, broker, loopVars, history
<1>0. InstanceOK(i) OBVIOUS
<1>2. Grows BY <1>1 DEF Grows
<1>3. b \in Tasks /\ b.sync BY DEF Barrier, Tasks
<1> HIDE DEF b
<1>4. KTypes'
  <2>1. commitCh' \in [Instances -> Seq(Tasks)] BY <1>1, <1>3
  <2> QED BY <2>1, <1>1
<1>5. OthersKept(i) BY <1>1 DEF OthersKept, SameLoop, SameCommits
<1>6. CommittedOK' BY <1>1 DEF CommittedOK, HandledTo
<1>7. CommitsOK(i)'
  <2>1. CommitsOK(i) BY <1>0 DEF InstanceOK
  <2>2. commitCh'[i] = Append(commitCh[i], b) /\ commitCh[i] \in Seq(Tasks) BY <1>1
  <2>3. \A k \in 1..Len(commitCh'[i]) : Sound(commitCh'[i][k])
    BY <2>1, <2>2, <1>3 DEF CommitsOK, Sound
  <2>4. \A k \in 1..Len(commitCh'[i]) : Sound(commitCh[i][k])'
    BY <2>3, <1>1 DEF Sound, HandledTo
  <2> QED BY <2>1, <2>4, <1>1 DEF CommitsOK, Sound, HandledTo
<1>8. \A p \in Partitions : WorkerOK(i, p)' /\ PositionOK(i, p)'
  BY <1>0, <1>1, <1>2, LoopFrame DEF SameLoop
<1>9. ClosingOK(i)' /\ CallbackOK(i)'
  BY <1>0, <1>1 DEF InstanceOK, ClosingOK, CallbackOK, CanRebalance
<1> QED BY <1>2, <1>4, <1>5, <1>6, <1>7, <1>8, <1>9, OneInstance DEF InstanceOK

(* What reaches the broker is a sound task; the rest only changes the worker.  *)
LEMMA CommitStep ==
    ASSUME KInv, NEW i \in Instances,
           CommitRecords(i) \/ CommitFails(i) \/ RetryCommit(i) \/ AbandonCommit(i) \/ WorkerExit(i)
    PROVE  KInv'
<1> USE DEF KInv, KTypes
<1> DEFINE W == [pc : {"idle", "committing", "backoff", "exited"}, task : Tasks, attempt : Nat]
           t == cw[i].task
<1>0. cw[i] \in W /\ t \in Tasks /\ InstanceOK(i) OBVIOUS
<1>3. CommitsOK(i) BY <1>0 DEF InstanceOK
<1>1. /\ handled' = handled /\ work' = work /\ pos' = pos /\ at' = at
      /\ ctxDone' = ctxDone /\ closing' = closing /\ revokes' = revokes /\ commitCh' = commitCh
      /\ cb' = cb
  BY DEF CommitRecords, CommitFails, RetryCommit, AbandonCommit, WorkerExit, broker, loopVars,
         callback, history
<1>2. \/ committed' = committed
      \/ cw[i].pc = "committing" /\ committed' = [committed EXCEPT ![t.part] = t.upTo]
  BY DEF CommitRecords, CommitFails, RetryCommit, AbandonCommit, WorkerExit, StoreOffset, broker
<1>4. \/ \E x : cw' = [cw EXCEPT ![i] = x] /\ x \in W /\ x.pc \notin {"committing", "backoff"}
      \/ \E x : cw' = [cw EXCEPT ![i] = x] /\ x \in W /\ x.task = t
                /\ cw[i].pc \in {"committing", "backoff"}
  <2>1. IdleWorker \in W /\ IdleWorker.pc = "idle" BY DEF IdleWorker, Barrier, Tasks
  <2>2. [pc |-> "exited", task |-> Barrier(0), attempt |-> 0] \in W BY DEF Barrier, Tasks
  <2>3. \A n \in Nat, x \in {"committing", "backoff"} : [pc |-> x, task |-> t, attempt |-> n] \in W
    BY <1>0
  <2>4. CASE CommitRecords(i) BY <2>4, <2>1 DEF CommitRecords
  <2>5. CASE AbandonCommit(i) BY <2>5, <2>1 DEF AbandonCommit
  <2>6. CASE WorkerExit(i) BY <2>6, <2>2 DEF WorkerExit, SetWorker
  <2>7. CASE RetryCommit(i)
    <3>1. cw' = [cw EXCEPT ![i] = [pc |-> "committing", task |-> t, attempt |-> cw[i].attempt]]
          /\ cw[i].pc = "backoff"
      BY <2>7 DEF RetryCommit, SetWorker
    <3> QED BY <3>1, <2>3, <1>0
  <2>8. CASE CommitFails(i)
    <3>1. CASE GivesUp(i) BY <3>1, <2>8, <2>1 DEF CommitFails, AfterFailure
    <3>2. CASE ~GivesUp(i)
      <4>1. cw' = [cw EXCEPT ![i] = [pc |-> "backoff", task |-> t, attempt |-> cw[i].attempt + 1]]
            /\ cw[i].pc = "committing"
        BY <3>2, <2>8 DEF CommitFails, AfterFailure, SetWorker
      <4>2. cw[i].attempt + 1 \in Nat BY <1>0
      <4> QED BY <4>1, <4>2, <2>3
    <3> QED BY <3>1, <3>2
  <2> QED BY <2>4, <2>5, <2>6, <2>7, <2>8
<1>5. cw[i].pc = "committing" => t.part \in Partitions /\ HandledTo(t.part, t.upTo) /\ t.upTo \in Nat
  BY <1>0, <1>3 DEF CommitsOK, Sound, Tasks
<1> HIDE DEF t
<1>6. CommittedOK' /\ committed' \in [Partitions -> Nat]
  <2>1. CASE committed' = committed BY <2>1, <1>1 DEF CommittedOK, HandledTo
  <2>2. CASE cw[i].pc = "committing" /\ committed' = [committed EXCEPT ![t.part] = t.upTo]
    <3>1. committed' \in [Partitions -> Nat] BY <2>2, <1>5
    <3>2. ASSUME NEW p \in Partitions PROVE HandledTo(p, committed[p])'
      <4>1. HandledTo(p, committed'[p]) BY <2>2, <1>5
      <4> QED BY <4>1, <1>1 DEF HandledTo
    <3> QED BY <3>1, <3>2 DEF CommittedOK
  <2> QED BY <2>1, <2>2, <1>2
<1>7. /\ cw' \in [Instances -> W] /\ (\A j \in Instances \ {i} : cw'[j] = cw[j])
      /\ \/ cw'[i].pc \notin {"committing", "backoff"}
         \/ cw'[i].task = t /\ cw[i].pc \in {"committing", "backoff"}
  <2>0. cw \in [Instances -> W] OBVIOUS
  <2> HIDE DEF W
  <2>1. PICK x : /\ cw' = [cw EXCEPT ![i] = x] /\ x \in W
                 /\ \/ x.pc \notin {"committing", "backoff"}
                    \/ x.task = t /\ cw[i].pc \in {"committing", "backoff"}
    BY <1>4
  <2>2. cw'[i] = x /\ (\A j \in Instances \ {i} : cw'[j] = cw[j]) BY <2>0, <2>1
  <2> QED BY <2>0, <2>1, <2>2
<1>8. KTypes' BY <1>1, <1>6, <1>7
<1>9. CommitsOK(i)'
  <2>1. \A k \in 1..Len(commitCh'[i]) : Sound(commitCh[i][k])'
    BY <1>3, <1>1 DEF CommitsOK, Sound, HandledTo
  <2>2. cw'[i].pc \in {"committing", "backoff"} => ~cw'[i].task.sync /\ Sound(cw'[i].task)
    BY <1>3, <1>7 DEF CommitsOK, t
  <2>3. Sound(cw'[i].task) => Sound(cw[i].task)' BY <1>1 DEF Sound, HandledTo
  <2> QED BY <2>1, <2>2, <2>3 DEF CommitsOK
<1> QED BY <1>1, <1>6, <1>7, <1>8, <1>9, CommitFrame DEF SameCommits

------------------------------------------------------------------------------
LEMMA KStep == KInv /\ [KNext]_kvars => KInv'
<1> SUFFICES ASSUME KInv, [KNext]_kvars PROVE KInv' OBVIOUS
<1>1. CASE UNCHANGED kvars
  <2>1. /\ committed' = committed /\ handled' = handled /\ work' = work /\ pos' = pos /\ at' = at
        /\ ctxDone' = ctxDone /\ closing' = closing /\ revokes' = revokes /\ commitCh' = commitCh
        /\ cw' = cw /\ cb' = cb
    BY <1>1 DEF kvars, broker, loopVars, callback, chanVars, history
  <2>2. Grows /\ \A i \in Instances : SameLoop(i) /\ SameCommits(i)
    BY <2>1 DEF Grows, SameLoop, SameCommits
  <2>3. \A i \in Instances : InstanceOK(i)' BY <2>1, <2>2, InstanceFrame DEF KInv
  <2>4. KTypes' BY <2>1 DEF KInv, KTypes
  <2>5. \A p \in Partitions : HandledTo(p, committed[p])' BY <2>1 DEF KInv, HandledTo
  <2> QED BY <2>3, <2>4, <2>5 DEF KInv
<1>2. ASSUME NEW i \in Instances, Group(i) PROVE KInv'
  BY <1>2, LoopStep, CallbackStep, AssignStep, DeathStep DEF Group, Crash
<1>3. ASSUME NEW i \in Instances, run(i) PROVE KInv'
  BY <1>3, LoopStep, PollStep, LostPollStep DEF run, Poll
<1>a. ASSUME NEW i \in Instances, OnPartitionsRevoked(i) PROVE KInv'
  BY <1>a, CallbackStep, SendBarrierStep, DeathStep DEF OnPartitionsRevoked, SendPanics
<1>4. ASSUME NEW i \in Instances, CommitWorker(i) PROVE KInv'
  BY <1>4, TakeStep, CommitStep DEF CommitWorker
<1>5. ASSUME NEW i \in Instances, NEW p \in Partitions, ProcessPartition(i, p) PROVE KInv'
  BY <1>5, GoroutineStep, HandleStep, EnqueueStep DEF ProcessPartition
<1> QED BY <1>1, <1>2, <1>3, <1>a, <1>4, <1>5 DEF KNext, Stopped

LEMMA KInvariant == KSpec => []KInv
    BY KStart, KStep, PTL DEF KSpec

(* Unless a poll drops records it fetched, delivery is at least once: through   *)
(* crashes, time-outs, failed commits, rebalances and shutdown, no offset is    *)
(* committed over a record that no handler has returned from                    *)
(* (processPartition, commitWithRetry).                                         *)
THEOREM AtLeastOnce ==
    ASSUME "fetch" \notin Faults PROVE KSpec => []CommittedWasHandled
<1>1. KInv => CommittedWasHandled
  <2> SUFFICES ASSUME KInv, NEW p \in Partitions, NEW o \in 0..(committed[p] - 1)
               PROVE  o \in handled[p]
    BY DEF CommittedWasHandled
  <2>1. committed[p] \in Nat /\ HandledTo(p, committed[p]) BY DEF KInv, KTypes
  <2> QED BY <2>1 DEF HandledTo
<1> QED BY KInvariant, <1>1, PTL

(* No goroutine that handles records is at its send when shutdown closes        *)
(* commitCh, or later: run returns to the head of its loop, and from there to   *)
(* shutdown, only after the goroutines of the poll (consumer.go:443-446).       *)
THEOREM NoWorkerAtClosedChannel == KSpec => []WorkersLeaveBeforeClose
<1>1. KInv => WorkersLeaveBeforeClose
  <2> SUFFICES ASSUME KInv, NEW i \in Instances, closing[i]
               PROVE  \A p \in Partitions : work[i][p].pc \notin {"enqueue", "flush"}
    BY DEF WorkersLeaveBeforeClose, Sending
  <2>1. InstanceOK(i) BY DEF KInv
  <2>2. at[i] \in {"draining", "closed"} BY <2>1 DEF InstanceOK, ClosingOK
  <2>3. \A p \in Partitions : work[i][p].pc = "idle" BY <2>1, <2>2 DEF InstanceOK, WorkerOK
  <2> QED BY <2>3
<1> QED BY KInvariant, <1>1, PTL

------------------------------------------------------------------------------
(* Order and coverage of the commits *)

ForPart(t, p) == ~t.sync /\ t.part = p

InCommit(i, p) == cw[i].pc \in {"committing", "backoff"} /\ cw[i].task.part = p

(* Where the next batch of p begins, and one past the last record handed on. *)
Sent(i, p)  == IF work[i][p].pc = "idle" THEN pos[i][p] ELSE work[i][p].lo
Front(i, p) == IF work[i][p].pc = "idle" THEN pos[i][p] ELSE work[i][p].next

OTypes ==
    /\ owner \in [Partitions -> Instances \cup {Nil}]
    /\ taken \in [Instances -> SUBSET Partitions]
    /\ flushed \in [Instances -> Nat]
    /\ reached \in [Instances -> [Partitions -> Nat]]
    /\ dropped \in [Instances -> BOOLEAN]
    /\ failed \in [Instances -> BOOLEAN]

(* Only the owner of p has batches of p, and they climb from the committed      *)
(* offset through the worker's hands and the channel to the open batch.         *)
HeldOK(i, p) ==
    /\ InCommit(i, p) =>
           owner[p] = i /\ committed[p] <= cw[i].task.upTo /\ cw[i].task.upTo <= Sent(i, p)
    /\ \A k \in 1..Len(commitCh[i]) : ForPart(commitCh[i][k], p) =>
           /\ owner[p] = i /\ committed[p] <= commitCh[i][k].upTo
           /\ commitCh[i][k].upTo <= Sent(i, p)
           /\ InCommit(i, p) => cw[i].task.upTo <= commitCh[i][k].upTo
    /\ \A k, l \in 1..Len(commitCh[i]) :
           k < l /\ ForPart(commitCh[i][k], p) /\ ForPart(commitCh[i][l], p)
               => commitCh[i][k].upTo <= commitCh[i][l].upTo
    /\ work[i][p].pc # "idle" =>
           /\ owner[p] = i /\ work[i][p].lo <= work[i][p].next
           /\ work[i][p].pc = "done" => work[i][p].lo = work[i][p].next
    /\ owner[p] = i => committed[p] <= Sent(i, p)

(* What i handled of p and has not given up is committed, or in the open batch, *)
(* the worker's hands or the channel.                                           *)
CoveredOK(i, p) ==
    ~failed[i] /\ ~dropped[i] =>
        \/ reached[i][p] <= committed[p]
        \/ work[i][p].pc # "idle" /\ work[i][p].lo < work[i][p].next
        \/ InCommit(i, p) /\ reached[i][p] <= cw[i].task.upTo
        \/ \E k \in 1..Len(commitCh[i]) :
               ForPart(commitCh[i][k], p) /\ reached[i][p] <= commitCh[i][k].upTo

ReachedOK(i, p) == reached[i][p] <= Front(i, p)

(* The barrier of the flush under way is the last task in the channel, and the  *)
(* channel and the worker are empty once it was reached.                        *)
FlushOK(i) ==
    /\ flushed[i] <= revokes[i]
    /\ cb[i] # "flushing" => \A k \in 1..Len(commitCh[i]) : ~commitCh[i][k].sync
    /\ cb[i] = "flushing" =>
           \/ commitCh[i] = <<>> /\ cw[i].pc \in {"idle", "exited"}
           \/ /\ Len(commitCh[i]) > 0 /\ flushed[i] < revokes[i]
              /\ commitCh[i][Len(commitCh[i])] = Barrier(revokes[i])
              /\ \A k \in 1..(Len(commitCh[i]) - 1) : ~commitCh[i][k].sync
    /\ cb[i] # "idle" => \A p \in taken[i] : owner[p] = i
    /\ cw[i].pc = "exited" => closing[i] /\ commitCh[i] = <<>>
    /\ at[i] = "closed" => cw[i].pc = "exited"

OrderInv ==
    /\ OTypes
    /\ \A i \in Instances : FlushOK(i)
    /\ \A i \in Instances, p \in Partitions : HeldOK(i, p) /\ CoveredOK(i, p) /\ ReachedOK(i, p)

(* While nothing is given up, what was handled is committed or was handled by   *)
(* the owner.                                                                   *)
OnceOK(p) ==
    \A o \in handled[p] : o < committed[p] \/ (owner[p] \in Instances /\ o < reached[owner[p]][p])

Calm(i) == ~failed[i] /\ ~dropped[i] /\ ~ctxDone[i] /\ at[i] \notin {"drain", "draining", "closed"}

OnceInv ==
    /\ ~again /\ ~skipped
    /\ \A i \in Instances : Calm(i)
    /\ \A p \in Partitions : OnceOK(p)

PairOK(i, p) == HeldOK(i, p) /\ CoveredOK(i, p) /\ ReachedOK(i, p)

LEMMA TaskTypes ==
    ASSUME KTypes, NEW i \in Instances
    PROVE  /\ commitCh[i] \in Seq(Tasks) /\ cw[i].task \in Tasks /\ cw[i].task.upTo \in Nat
           /\ \A k \in 1..Len(commitCh[i]) : commitCh[i][k] \in Tasks /\ commitCh[i][k].upTo \in Nat
<1>1. commitCh[i] \in Seq(Tasks) /\ cw[i].task \in Tasks BY DEF KTypes
<1>2. \A k \in 1..Len(commitCh[i]) : commitCh[i][k] \in Tasks BY <1>1
<1>3. \A t \in Tasks : t.upTo \in Nat BY DEF Tasks
<1> QED BY <1>1, <1>2, <1>3

LEMMA OStart == KInit => OrderInv
<1> SUFFICES ASSUME KInit PROVE OrderInv OBVIOUS
<1>1. OTypes BY DEF KInit, OTypes
<1>2. ASSUME NEW i \in Instances PROVE FlushOK(i) BY DEF KInit, FlushOK, IdleWorker
<1>3. ASSUME NEW i \in Instances, NEW p \in Partitions PROVE PairOK(i, p)
  <2>1. /\ commitCh[i] = <<>> /\ cw[i].pc = "idle" /\ work[i][p].pc = "idle" /\ owner[p] # i
        /\ pos[i][p] = 0 /\ committed[p] = 0 /\ reached[i][p] = 0
    BY KafkaNone DEF KInit, IdleWorker, IdleWork
  <2> QED BY <2>1 DEF PairOK, HeldOK, CoveredOK, ReachedOK, InCommit, Sent, Front
<1> QED BY <1>1, <1>2, <1>3 DEF OrderInv, PairOK

------------------------------------------------------------------------------
(* What a step leaves alone. *)
SamePair(i, p) ==
    /\ work'[i][p] = work[i][p] /\ pos'[i][p] = pos[i][p]
    /\ commitCh'[i] = commitCh[i] /\ cw'[i] = cw[i] /\ committed'[p] = committed[p]
    /\ (owner'[p] = i) <=> (owner[p] = i)
    /\ reached'[i][p] = reached[i][p] /\ failed'[i] = failed[i] /\ dropped'[i] = dropped[i]

LEMMA PairFrame ==
    ASSUME NEW i \in Instances, NEW p \in Partitions, PairOK(i, p), SamePair(i, p)
    PROVE  PairOK(i, p)'
<1>1. /\ InCommit(i, p)' <=> InCommit(i, p)
      /\ Sent(i, p)' = Sent(i, p) /\ Front(i, p)' = Front(i, p)
  BY DEF SamePair, InCommit, Sent, Front
<1>2. HeldOK(i, p)' BY <1>1 DEF PairOK, HeldOK, SamePair, ForPart
<1>3. CoveredOK(i, p)' BY <1>1 DEF PairOK, CoveredOK, SamePair, ForPart
<1>4. ReachedOK(i, p)' BY <1>1 DEF PairOK, ReachedOK, SamePair
<1> QED BY <1>2, <1>3, <1>4 DEF PairOK

SameFlush(i) ==
    /\ at'[i] = at[i] /\ cb'[i] = cb[i] /\ commitCh'[i] = commitCh[i] /\ cw'[i] = cw[i]
    /\ closing'[i] = closing[i] /\ revokes'[i] = revokes[i] /\ flushed'[i] = flushed[i] /\ taken'[i] = taken[i]
    /\ \A p \in Partitions : owner[p] = i => owner'[p] = i

LEMMA FlushFrame ==
    ASSUME OTypes, NEW i \in Instances, FlushOK(i), SameFlush(i) PROVE FlushOK(i)'
<1>1. \A p \in taken[i] : p \in Partitions BY DEF OTypes
<1> QED BY <1>1 DEF FlushOK, SameFlush, Barrier

LEMMA OrderBy ==
    ASSUME OTypes', \A i \in Instances : FlushOK(i)',
           \A i \in Instances, p \in Partitions : PairOK(i, p)'
    PROVE  OrderInv'
    BY DEF OrderInv, PairOK

LEMMA OrderParts ==
    ASSUME OrderInv
    PROVE  /\ OTypes /\ (\A i \in Instances : FlushOK(i))
           /\ \A i \in Instances, p \in Partitions : PairOK(i, p)
    BY DEF OrderInv, PairOK

(* The poll loop moves on, and nothing is fetched, handled or released. *)
LEMMA OLoopStep ==
    ASSUME KInv, OrderInv, NEW i \in Instances,
           \/ Subscribe(i) \/ Close(i) \/ CheckCtx(i) \/ PollNothing(i) \/ PollCancelled(i)
           \/ BatchDone(i) \/ AllowRebalance(i) \/ BeginDrain(i)
    PROVE  OrderInv'
<1> USE OrderParts
<1>1. /\ owner' = owner /\ committed' = committed /\ pos' = pos /\ work' = work
      /\ commitCh' = commitCh /\ cw' = cw /\ revokes' = revokes /\ flushed' = flushed
      /\ reached' = reached /\ dropped' = dropped /\ failed' = failed
      /\ cb' = cb /\ taken' = taken
  BY DEF Subscribe, Close, CheckCtx, PollNothing, PollCancelled, BatchDone, AllowRebalance,
         BeginDrain, broker, callback, chanVars, history
<1>2. /\ at'[i] # at[i] => at'[i] # "closed"
      /\ closing[i] => closing'[i]
      /\ \A j \in Instances \ {i} : at'[j] = at[j] /\ closing'[j] = closing[j]
  BY DEF Subscribe, Close, CheckCtx, PollNothing, PollCancelled, BatchDone, AllowRebalance,
         BeginDrain, Goto, chanVars, KInv, KTypes
<1>3. OTypes' BY <1>1 DEF OTypes
<1>4. ASSUME NEW j \in Instances PROVE FlushOK(j)'
  <2>1. CASE j # i BY <2>1, <1>1, <1>2, FlushFrame DEF SameFlush
  <2>2. CASE j = i
    <3>1. FlushOK(i) OBVIOUS
    <3> QED BY <2>2, <3>1, <1>1, <1>2 DEF FlushOK, Barrier
  <2> QED BY <2>1, <2>2
<1>5. ASSUME NEW j \in Instances, NEW p \in Partitions PROVE PairOK(j, p)'
  BY <1>1, PairFrame DEF SamePair
<1> QED BY <1>3, <1>4, <1>5, OrderBy

(* The callback begins, with partitions the instance has. *)
LEMMA ORevokeStep ==
    ASSUME KInv, OrderInv, NEW i \in Instances, NEW ps \in SUBSET Partitions, Revoke(i, ps)
    PROVE  OrderInv'
<1> USE OrderParts
<1>1. /\ owner' = owner /\ committed' = committed /\ pos' = pos /\ work' = work /\ at' = at
      /\ commitCh' = commitCh /\ cw' = cw /\ closing' = closing /\ revokes' = revokes
      /\ flushed' = flushed /\ reached' = reached /\ dropped' = dropped /\ failed' = failed
      /\ cb[i] = "idle" /\ cb' = [cb EXCEPT ![i] = "send"] /\ taken' = [taken EXCEPT ![i] = ps]
      /\ \A p \in ps : owner[p] = i
  BY DEF Revoke, Revocable, SetCallback, Owned, broker, loopVars, chanVars, history
<1>0. KTypes BY DEF KInv
<1>2. OTypes' BY <1>1 DEF OTypes
<1>3. ASSUME NEW j \in Instances PROVE FlushOK(j)'
  <2>1. CASE j # i
    <3>1. cb'[j] = cb[j] /\ taken'[j] = taken[j] BY <2>1, <1>0, <1>1 DEF KTypes, OTypes
    <3> QED BY <3>1, <1>1, FlushFrame DEF SameFlush
  <2>2. CASE j = i
    <3>1. FlushOK(i) OBVIOUS
    <3>2. cb'[i] = "send" /\ taken'[i] = ps BY <1>0, <1>1 DEF KTypes, OTypes
    <3> QED BY <2>2, <3>1, <3>2, <1>1 DEF FlushOK
  <2> QED BY <2>1, <2>2
<1>4. ASSUME NEW j \in Instances, NEW p \in Partitions PROVE PairOK(j, p)'
  BY <1>1, PairFrame DEF SamePair
<1> QED BY <1>2, <1>3, <1>4, OrderBy

LEMMA OAssignStep ==
    ASSUME KInv, OrderInv, NEW i \in Instances, NEW q \in Partitions, Assign(i, q) PROVE OrderInv'
<1> USE OrderParts
<1>1. /\ owner[q] = Nil /\ owner' = [owner EXCEPT ![q] = i]
      /\ pos' = [pos EXCEPT ![i][q] = committed[q]] /\ reached' = [reached EXCEPT ![i][q] = 0]
      /\ committed' = committed /\ work' = work /\ at' = at /\ closing' = closing
      /\ commitCh' = commitCh /\ cw' = cw /\ revokes' = revokes /\ flushed' = flushed
      /\ cb' = cb /\ taken' = taken /\ dropped' = dropped /\ failed' = failed
  BY DEF Assign, callback, chanVars
<1>0. committed \in [Partitions -> Nat] /\ pos \in [Instances -> [Partitions -> Nat]]
  BY DEF KInv, KTypes
<1>2. OTypes' BY <1>1 DEF OTypes
<1>3. ASSUME NEW j \in Instances PROVE FlushOK(j)'
  <2>1. \A p \in Partitions : owner[p] = j => owner'[p] = j BY <1>1, KafkaNone DEF OTypes
  <2> QED BY <2>1, <1>1, FlushFrame DEF SameFlush
<1>4. ASSUME NEW j \in Instances, NEW p \in Partitions PROVE PairOK(j, p)'
  <2>1. CASE j = i /\ p = q
    <3>1. PairOK(i, q) OBVIOUS
    <3>2. owner[q] # i /\ owner'[q] = i /\ pos'[i][q] = committed[q] /\ reached'[i][q] = 0
      BY <1>0, <1>1, KafkaNone DEF OTypes
    <3>3. /\ work[i][q].pc = "idle" /\ ~InCommit(i, q)
          /\ \A k \in 1..Len(commitCh[i]) : ~ForPart(commitCh[i][k], q)
      BY <3>1, <3>2 DEF PairOK, HeldOK
    <3>4. committed[q] \in Nat BY <1>0
    <3>5. ~InCommit(i, q)' /\ (\A k \in 1..Len(commitCh[i]) : ~ForPart(commitCh[i][k], q))'
      BY <3>3, <1>1 DEF InCommit
    <3>6. HeldOK(i, q)' BY <3>2, <3>3, <3>4, <3>5, <1>1 DEF HeldOK, Sent
    <3>7. CoveredOK(i, q)' /\ ReachedOK(i, q)'
      BY <3>2, <3>3, <3>4, <1>1 DEF CoveredOK, ReachedOK, Front
    <3> QED BY <2>1, <3>6, <3>7 DEF PairOK
  <2>2. CASE ~(j = i /\ p = q)
    <3>1. /\ (owner'[p] = j) <=> (owner[p] = j)
          /\ pos'[j][p] = pos[j][p] /\ reached'[j][p] = reached[j][p]
      BY <2>2, <1>0, <1>1, KafkaNone DEF OTypes
    <3> QED BY <3>1, <1>1, PairFrame DEF SamePair
  <2> QED BY <2>1, <2>2
<1> QED BY <1>2, <1>3, <1>4, OrderBy

LEMMA ODeathStep ==
    ASSUME KInv, OrderInv, NEW i \in Instances, ProcessDies(i) PROVE OrderInv'
<1> USE OrderParts
<1>1. /\ at' = [at EXCEPT ![i] = "down"]
      /\ owner' = [p \in Partitions |-> IF owner[p] = i THEN Nil ELSE owner[p]]
      /\ pos' = [pos EXCEPT ![i] = [p \in Partitions |-> 0]]
      /\ cb' = [cb EXCEPT ![i] = "idle"] /\ taken' = [taken EXCEPT ![i] = {}]
      /\ work' = [work EXCEPT ![i] = [p \in Partitions |-> IdleWork]]
      /\ commitCh' = [commitCh EXCEPT ![i] = <<>>] /\ closing' = [closing EXCEPT ![i] = FALSE]
      /\ cw' = [cw EXCEPT ![i] = IdleWorker]
      /\ reached' = [reached EXCEPT ![i] = [p \in Partitions |-> 0]]
      /\ dropped' = [dropped EXCEPT ![i] = FALSE] /\ failed' = [failed EXCEPT ![i] = FALSE]
      /\ committed' = committed /\ revokes' = revokes /\ flushed' = flushed
  BY DEF ProcessDies, Goto
<1>0. KTypes BY DEF KInv
<1>2. OTypes' BY <1>1 DEF OTypes
<1>3. ASSUME NEW j \in Instances PROVE FlushOK(j)'
  <2>1. CASE j = i
    <3>1. commitCh'[i] = <<>> /\ cw'[i].pc = "idle" /\ at'[i] = "down" /\ cb'[i] = "idle"
      BY <1>0, <1>1 DEF KTypes, IdleWorker
    <3>2. flushed'[i] <= revokes'[i] BY <1>1 DEF FlushOK
    <3> QED BY <2>1, <3>1, <3>2 DEF FlushOK
  <2>2. CASE j # i
    <3>1. SameFlush(j) BY <2>2, <1>0, <1>1 DEF SameFlush, KTypes, OTypes
    <3> QED BY <3>1, FlushFrame
  <2> QED BY <2>1, <2>2
<1>4. ASSUME NEW j \in Instances, NEW p \in Partitions PROVE PairOK(j, p)'
  <2>1. CASE j = i
    <3>1. /\ commitCh'[i] = <<>> /\ cw'[i].pc = "idle" /\ work'[i][p].pc = "idle" /\ owner'[p] # i
          /\ pos'[i][p] = 0 /\ reached'[i][p] = 0 /\ committed'[p] \in Nat
      BY <1>0, <1>1, KafkaNone DEF KTypes, OTypes, IdleWorker, IdleWork
    <3> QED BY <2>1, <3>1 DEF PairOK, HeldOK, CoveredOK, ReachedOK, InCommit, Sent, Front
  <2>2. CASE j # i
    <3>1. (owner'[p] = j) <=> (owner[p] = j) BY <2>2, <1>1, KafkaNone
    <3>2. /\ work'[j] = work[j] /\ pos'[j] = pos[j] /\ commitCh'[j] = commitCh[j] /\ cw'[j] = cw[j]
          /\ reached'[j] = reached[j] /\ failed'[j] = failed[j] /\ dropped'[j] = dropped[j]
      BY <2>2, <1>0, <1>1 DEF KTypes, OTypes
    <3>3. SamePair(j, p) BY <3>1, <3>2, <1>1 DEF SamePair
    <3> QED BY <3>3, PairFrame
  <2> QED BY <2>1, <2>2
<1> QED BY <1>2, <1>3, <1>4, OrderBy

(* A poll: the client's position moves, and new goroutines start there. *)
LEMMA OPollStep ==
    ASSUME KInv, OrderInv, NEW i \in Instances, NEW to \in Positions,
           PollRecords(i, to) \/ PollPartlyFailed(i, to)
    PROVE  OrderInv'
<1> USE OrderParts
<1> DEFINE w == [p \in Partitions |->
                   IF to[p] = pos[i][p] THEN IdleWork
                   ELSE [pc |-> "sem", lo |-> pos[i][p], next |-> pos[i][p], end |-> to[p]]]
<1>1. /\ at[i] = "polling" /\ pos' = [pos EXCEPT ![i] = to]
      /\ at' = [at EXCEPT ![i] = "process"] \/ at' = [at EXCEPT ![i] = "allow"]
      /\ \A p \in Partitions : pos[i][p] <= to[p] /\ (owner[p] # i => to[p] = pos[i][p])
      /\ work' = work \/ work' = [work EXCEPT ![i] = w]
      /\ owner' = owner /\ committed' = committed /\ closing' = closing
      /\ commitCh' = commitCh /\ cw' = cw /\ revokes' = revokes /\ flushed' = flushed
      /\ cb' = cb /\ taken' = taken /\ reached' = reached /\ dropped' = dropped /\ failed' = failed
  BY DEF PollRecords, PollPartlyFailed, Goto, Fetchable, broker, callback, chanVars, history
<1>0. KTypes BY DEF KInv
<1>2. OTypes' BY <1>1 DEF OTypes
<1>3. ASSUME NEW j \in Instances PROVE FlushOK(j)'
  <2>1. CASE j = i
    <3>1. at'[i] \in {"process", "allow"} BY <1>0, <1>1 DEF KTypes
    <3>2. FlushOK(i) OBVIOUS
    <3> QED BY <2>1, <3>1, <3>2, <1>1 DEF FlushOK
  <2>2. CASE j # i
    <3>1. at'[j] = at[j] BY <2>2, <1>0, <1>1 DEF KTypes
    <3> QED BY <3>1, <1>1, FlushFrame DEF SameFlush
  <2> QED BY <2>1, <2>2
<1>4. ASSUME NEW j \in Instances, NEW p \in Partitions PROVE PairOK(j, p)'
  <2>1. CASE j = i
    <3>1. WorkerOK(i, p) BY DEF KInv, InstanceOK
    <3>2. work[i][p].pc = "idle" BY <3>1, <1>1 DEF WorkerOK
    <3>3. \/ work'[i][p] = work[i][p]
          \/ work'[i][p] = IdleWork
          \/ /\ work'[i][p] = [pc |-> "sem", lo |-> pos[i][p], next |-> pos[i][p], end |-> to[p]]
             /\ to[p] # pos[i][p]
      <4>1. w[p] = IdleWork
            \/ /\ w[p] = [pc |-> "sem", lo |-> pos[i][p], next |-> pos[i][p], end |-> to[p]]
               /\ to[p] # pos[i][p]
        OBVIOUS
      <4> HIDE DEF w
      <4>2. work' = [work EXCEPT ![i] = w] => work'[i][p] = w[p] BY <1>0 DEF KTypes
      <4> QED BY <4>1, <4>2, <1>1
    <3> HIDE DEF w
    <3>4. pos'[i][p] = to[p] /\ pos[i][p] \in Nat /\ to[p] \in Nat /\ committed[p] \in Nat
          /\ reached[i][p] \in Nat
      BY <1>0, <1>1, KafkaNumbers DEF KTypes, OTypes, Positions
    <3>5. /\ Sent(i, p)' >= Sent(i, p) /\ Front(i, p)' >= Front(i, p)
          /\ Sent(i, p) = pos[i][p] /\ Front(i, p) = pos[i][p]
          /\ Sent(i, p)' \in {pos[i][p], to[p]} /\ Front(i, p)' \in {pos[i][p], to[p]}
      BY <3>2, <3>3, <3>4, <1>1 DEF Sent, Front, IdleWork
    <3>6. InCommit(i, p)' <=> InCommit(i, p) BY <1>1 DEF InCommit
    <3>7. PairOK(i, p) OBVIOUS
    <3>8. cw[i].task.upTo \in Nat /\ \A k \in 1..Len(commitCh[i]) : commitCh[i][k].upTo \in Nat
      BY <1>0, TaskTypes
    <3>9. work'[i][p].pc # "idle" => /\ owner[p] = i /\ work'[i][p].lo = work'[i][p].next
                                     /\ work'[i][p].pc = "sem"
      BY <3>2, <3>3, <1>1 DEF IdleWork
    <3>10. HeldOK(i, p)'
      <4>1. HeldOK(i, p) BY <3>7 DEF PairOK
      <4>2. work'[i][p].pc # "idle" => work'[i][p].lo \in Nat
        BY <3>2, <3>3, <3>4 DEF IdleWork
      <4> QED BY <4>1, <4>2, <3>4, <3>5, <3>6, <3>8, <3>9, <1>1 DEF HeldOK, ForPart
    <3>11. CoveredOK(i, p)' BY <3>7, <3>6, <3>2, <1>1 DEF PairOK, CoveredOK, ForPart
    <3>12. ReachedOK(i, p)' BY <3>7, <3>5, <3>4, <1>1 DEF PairOK, ReachedOK
    <3> QED BY <2>1, <3>10, <3>11, <3>12 DEF PairOK
  <2>2. CASE j # i
    <3> HIDE DEF w
    <3>1. work'[j] = work[j] /\ pos'[j] = pos[j] BY <2>2, <1>0, <1>1 DEF KTypes
    <3> QED BY <3>1, <1>1, PairFrame DEF SamePair
  <2> QED BY <2>1, <2>2
<1> QED BY <1>2, <1>3, <1>4, OrderBy

------------------------------------------------------------------------------
(* A step of the goroutine for q that enqueues nothing. *)
LEMMA GoroutineOrder ==
    ASSUME KInv, OrderInv, NEW i \in Instances, NEW q \in Partitions, NEW w, NEW n \in Nat,
           work' = [work EXCEPT ![i][q] = w], reached' = [reached EXCEPT ![i][q] = n],
           owner' = owner, committed' = committed, at' = at, pos' = pos, cb' = cb, taken' = taken,
           commitCh' = commitCh, closing' = closing, cw' = cw, revokes' = revokes,
           flushed' = flushed, failed' = failed,
           dropped' = dropped \/ dropped' = [dropped EXCEPT ![i] = TRUE],
           PairOK(i, q)'
    PROVE  OrderInv'
<1> USE OrderParts
<1>0. KTypes BY DEF KInv
<1>2. OTypes' BY DEF OTypes
<1>3. ASSUME NEW j \in Instances PROVE FlushOK(j)' BY FlushFrame DEF SameFlush
<1>4. ASSUME NEW j \in Instances, NEW p \in Partitions PROVE PairOK(j, p)'
  <2>1. CASE j = i /\ p = q BY <2>1
  <2>2. CASE ~(j = i /\ p = q)
    <3>a. work'[j][p] = work[j][p]
      <4>1. work \in [Instances -> [Partitions -> [pc : WorkPlaces, lo : Nat, next : Nat, end : Nat]]]
        BY <1>0 DEF KTypes
      <4> QED BY <4>1, <2>2
    <3>b. reached'[j][p] = reached[j][p]
      <4>1. reached \in [Instances -> [Partitions -> Nat]] BY DEF OTypes
      <4> QED BY <4>1, <2>2
    <3>1. work'[j][p] = work[j][p] /\ reached'[j][p] = reached[j][p] BY <3>a, <3>b
    <3>2. CASE dropped'[j] = dropped[j]
      <4>1. SamePair(j, p) BY <3>1, <3>2 DEF SamePair
      <4>2. PairOK(j, p) OBVIOUS
      <4> QED BY <4>1, <4>2, PairFrame
    <3>3. CASE dropped'[j]
      <4>1. PairOK(j, p) OBVIOUS
      <4>2. InCommit(j, p)' <=> InCommit(j, p) BY DEF InCommit
      <4>3. Sent(j, p)' = Sent(j, p) /\ Front(j, p)' = Front(j, p) BY <3>1 DEF Sent, Front
      <4>4. HeldOK(j, p)' BY <4>1, <4>2, <4>3, <3>1 DEF PairOK, HeldOK, ForPart
      <4>5. CoveredOK(j, p)' BY <3>3 DEF CoveredOK
      <4>6. ReachedOK(j, p)' BY <4>1, <4>3, <3>1 DEF PairOK, ReachedOK
      <4> QED BY <4>4, <4>5, <4>6 DEF PairOK
    <3> QED BY <3>2, <3>3 DEF OTypes
  <2> QED BY <2>1, <2>2
<1> QED BY <1>2, <1>3, <1>4, OrderBy

(* What the goroutine for q may do to its record: move on, keeping the open     *)
(* batch; end, with the batch empty; give the batch up; or handle one more.     *)
LEMMA RecordOrder ==
    ASSUME KInv, OrderInv, NEW i \in Instances, NEW q \in Partitions, NEW w, NEW n \in Nat,
           work' = [work EXCEPT ![i][q] = w], reached' = [reached EXCEPT ![i][q] = n],
           owner' = owner, committed' = committed, at' = at, pos' = pos, cb' = cb, taken' = taken,
           commitCh' = commitCh, closing' = closing, cw' = cw, revokes' = revokes,
           flushed' = flushed, failed' = failed,
           dropped' = dropped \/ dropped' = [dropped EXCEPT ![i] = TRUE],
           work[i][q].pc # "idle",
           \/ /\ w.pc = "idle" /\ work[i][q].pc = "done" /\ n = reached[i][q]
           \/ /\ w.pc # "idle" /\ w.lo \in Nat /\ w.next \in Nat
              /\ work[i][q].lo <= w.lo /\ w.lo <= w.next /\ (w.pc = "done" => w.lo = w.next)
              /\ work[i][q].next <= w.next /\ n <= w.next
              /\ \/ w.lo < w.next /\ n = w.next
                 \/ w.lo = work[i][q].lo /\ w.next = work[i][q].next /\ n = reached[i][q]
                 \/ dropped'[i] = TRUE
    PROVE  OrderInv'
<1> USE OrderParts
<1>0. KTypes BY DEF KInv
<1>1. PairOK(i, q) /\ WorkerOK(i, q) BY DEF KInv, InstanceOK
<1>2. work'[i][q] = w /\ reached'[i][q] = n BY <1>0 DEF KTypes, OTypes
<1>3. /\ work[i][q].lo \in Nat /\ work[i][q].next \in Nat /\ pos[i][q] \in Nat
      /\ committed[q] \in Nat /\ cw[i].task.upTo \in Nat
      /\ \A k \in 1..Len(commitCh[i]) : commitCh[i][k].upTo \in Nat
  BY <1>0, TaskTypes DEF KTypes
<1>4. work[i][q].next <= pos[i][q] BY <1>0, <1>1 DEF WorkerOK, KTypes
<1>5. /\ Sent(i, q) = work[i][q].lo /\ Front(i, q) = work[i][q].next
      /\ Sent(i, q)' = IF w.pc = "idle" THEN pos[i][q] ELSE w.lo
      /\ Front(i, q)' = IF w.pc = "idle" THEN pos[i][q] ELSE w.next
  BY <1>2 DEF Sent, Front
<1>6. InCommit(i, q)' <=> InCommit(i, q) BY DEF InCommit
<1>7. HeldOK(i, q) /\ CoveredOK(i, q) /\ ReachedOK(i, q) BY <1>1 DEF PairOK
<1>8. /\ owner[q] = i /\ work[i][q].lo <= work[i][q].next
      /\ work[i][q].pc = "done" => work[i][q].lo = work[i][q].next
  BY <1>7 DEF HeldOK
<1>9. Sent(i, q) \in Nat /\ Sent(i, q)' \in Nat /\ Sent(i, q) <= Sent(i, q)'
  BY <1>3, <1>4, <1>5, <1>8
<1>10. HeldOK(i, q)'
  BY <1>2, <1>3, <1>6, <1>7, <1>8, <1>9 DEF HeldOK, ForPart
<1>11. CoveredOK(i, q)' BY <1>2, <1>3, <1>6, <1>7, <1>8 DEF CoveredOK, ForPart, OTypes
<1>12. ReachedOK(i, q)' BY <1>2, <1>3, <1>4, <1>5, <1>7 DEF ReachedOK, OTypes
<1>13. PairOK(i, q)' BY <1>10, <1>11, <1>12 DEF PairOK
<1> QED BY <1>13, GoroutineOrder

LEMMA OGoroutineStep ==
    ASSUME KInv, OrderInv, NEW i \in Instances, NEW q \in Partitions,
           \/ AcquireSem(i, q) \/ NextRecord(i, q) \/ Handle(i, q)
           \/ EnqueueDropped(i, q) \/ PartitionDone(i, q)
    PROVE  OrderInv'
<1> USE OrderParts
<1> DEFINE old == work[i][q]
           Works == [pc : WorkPlaces, lo : Nat, next : Nat, end : Nat]
<1>0. KTypes /\ old \in Works /\ reached[i][q] \in Nat BY DEF KInv, KTypes, OTypes
<1>1. /\ owner' = owner /\ committed' = committed /\ at' = at /\ pos' = pos /\ taken' = taken
      /\ commitCh' = commitCh /\ closing' = closing /\ cw' = cw /\ revokes' = revokes
      /\ cb' = cb /\ flushed' = flushed /\ failed' = failed
      /\ dropped' = dropped \/ dropped' = [dropped EXCEPT ![i] = TRUE]
  BY DEF AcquireSem, NextRecord, Handle, EnqueueDropped, PartitionDone, broker, loopVars,
         callback, chanVars, history
<1>2. reached' = reached => reached' = [reached EXCEPT ![i][q] = reached[i][q]] BY DEF OTypes
<1>3. /\ old.pc # "idle" => old.lo <= old.next /\ (old.pc = "done" => old.lo = old.next)
                            /\ reached[i][q] <= old.next
  BY DEF PairOK, HeldOK, ReachedOK, Front
<1>4. CASE AcquireSem(i, q)
  <2> DEFINE w == [old EXCEPT !.pc = "loop"]
  <2>1. work' = [work EXCEPT ![i][q] = w] /\ old.pc = "sem" /\ reached' = reached
    BY <1>4 DEF AcquireSem, SetWork, history
  <2>2. w.pc = "loop" /\ w.lo = old.lo /\ w.next = old.next /\ w.lo \in Nat /\ w.next \in Nat
    BY <1>0
  <2> HIDE DEF w
  <2>3. old.lo <= w.lo /\ w.lo <= w.next /\ old.next <= w.next /\ reached[i][q] <= w.next
    BY <2>1, <2>2, <1>0, <1>3
  <2> HIDE DEF old
  <2> QED BY <2>1, <2>2, <2>3, <1>0, <1>1, <1>2, RecordOrder DEF old
<1>5. CASE NextRecord(i, q)
  <2> DEFINE x == IF old.next < old.end /\ ~ctxDone[i] THEN "handle"
                  ELSE IF old.lo < old.next THEN "flush" ELSE "done"
             w == [old EXCEPT !.pc = x]
  <2>1. work' = [work EXCEPT ![i][q] = w] /\ old.pc = "loop" /\ reached' = reached
    BY <1>5 DEF NextRecord, SetWork, history
  <2>2. x # "idle" /\ (x = "done" => ~(old.lo < old.next)) OBVIOUS
  <2> HIDE DEF x
  <2>3. w.pc = x /\ w.lo = old.lo /\ w.next = old.next /\ w.lo \in Nat /\ w.next \in Nat
    BY <1>0
  <2> HIDE DEF w
  <2>4. /\ old.lo <= w.lo /\ w.lo <= w.next /\ old.next <= w.next /\ reached[i][q] <= w.next
        /\ w.pc = "done" => w.lo = w.next
    BY <2>1, <2>2, <2>3, <1>0, <1>3
  <2> HIDE DEF old
  <2> QED BY <2>1, <2>2, <2>3, <2>4, <1>0, <1>1, <1>2, RecordOrder DEF old
<1>6. CASE Handle(i, q)
  <2> DEFINE w == AfterHandle(old)
  <2>1. /\ work' = [work EXCEPT ![i][q] = w] /\ old.pc = "handle"
        /\ reached' = [reached EXCEPT ![i][q] = old.next + 1]
    BY <1>6 DEF Handle, SetWork
  <2>2. w.pc \in {"enqueue", "loop"} /\ w.lo = old.lo /\ w.next = old.next + 1
    BY DEF AfterHandle
  <2> HIDE DEF w
  <2>3. /\ w.lo \in Nat /\ w.next \in Nat /\ w.lo < w.next /\ old.next <= w.next
        /\ old.next + 1 \in Nat /\ old.lo <= w.lo /\ w.lo <= w.next /\ w.next <= w.next
    BY <2>1, <2>2, <1>0, <1>3
  <2>4. w.pc # "idle" /\ w.pc # "done" /\ old.pc # "idle" BY <2>1, <2>2
  <2>5. reached' = [reached EXCEPT ![i][q] = w.next] /\ w.next \in Nat BY <2>1, <2>2, <2>3
  <2> HIDE DEF old
  <2> QED BY <2>1, <2>3, <2>4, <2>5, <1>1, RecordOrder DEF old
<1>7. CASE EnqueueDropped(i, q)
  <2> DEFINE x == AfterEnqueue(old)
             w == [old EXCEPT !.lo = old.next, !.pc = x]
  <2>1. /\ work' = [work EXCEPT ![i][q] = w] /\ old.pc \in {"enqueue", "flush"}
        /\ reached' = reached /\ dropped' = [dropped EXCEPT ![i] = TRUE]
    BY <1>7 DEF EnqueueDropped, SetWork
  <2>2. x \in {"loop", "done"} BY DEF AfterEnqueue
  <2> HIDE DEF x
  <2>3. w.pc = x /\ w.lo = old.next /\ w.next = old.next /\ w.lo \in Nat /\ w.next \in Nat
    BY <1>0
  <2>4. dropped'[i] = TRUE BY <2>1 DEF OTypes
  <2> HIDE DEF w
  <2>5. old.lo <= w.lo /\ w.lo <= w.next /\ old.next <= w.next /\ reached[i][q] <= w.next
    BY <2>1, <2>3, <1>0, <1>3
  <2>6. w.pc # "idle" /\ (w.pc = "done" => w.lo = w.next) /\ old.pc # "idle" BY <2>1, <2>2, <2>3
  <2>7. /\ work' = [work EXCEPT ![i][q] = w]
        /\ reached' = [reached EXCEPT ![i][q] = reached[i][q]]
        /\ dropped' = dropped \/ dropped' = [dropped EXCEPT ![i] = TRUE]
        /\ w.lo \in Nat /\ w.next \in Nat /\ reached[i][q] \in Nat
    BY <2>1, <2>3, <1>0, <1>2
  <2> HIDE DEF old
  <2> QED BY <2>4, <2>5, <2>6, <2>7, <1>1, RecordOrder DEF old
<1>8. CASE PartitionDone(i, q)
  <2>1. work' = [work EXCEPT ![i][q] = IdleWork] /\ old.pc = "done" /\ reached' = reached
    BY <1>8 DEF PartitionDone, SetWork, history
  <2>2. IdleWork.pc = "idle" BY DEF IdleWork
  <2> QED BY <2>1, <2>2, <1>0, <1>1, <1>2, RecordOrder
<1> QED BY <1>4, <1>5, <1>6, <1>7, <1>8

------------------------------------------------------------------------------
(* A task of another partition, or a barrier, joins the channel. *)
LEMMA JoinFrame ==
    ASSUME KInv, NEW i \in Instances, NEW p \in Partitions, PairOK(i, p), NEW t \in Tasks,
           ~ForPart(t, p), commitCh'[i] = Append(commitCh[i], t),
           work'[i][p] = work[i][p], pos'[i][p] = pos[i][p], cw'[i] = cw[i],
           committed'[p] = committed[p], (owner'[p] = i) <=> (owner[p] = i),
           reached'[i][p] = reached[i][p], failed'[i] = failed[i], dropped'[i] = dropped[i]
    PROVE  PairOK(i, p)'
<1> DEFINE q == commitCh[i]
           r == commitCh'[i]
<1>0. q \in Seq(Tasks) BY DEF KInv, KTypes
<1>1. /\ Len(q) \in Nat /\ Len(r) = Len(q) + 1 /\ r[Len(q) + 1] = t
      /\ \A k \in 1..Len(q) : k \in 1..Len(r) /\ r[k] = q[k]
      /\ \A k \in 1..Len(r) : k \in 1..Len(q) \/ k = Len(q) + 1
  BY <1>0
<1>2. \A k \in 1..Len(r) : ForPart(r[k], p) => k \in 1..Len(q) /\ r[k] = q[k] BY <1>1
<1>3. /\ InCommit(i, p)' <=> InCommit(i, p)
      /\ Sent(i, p)' = Sent(i, p) /\ Front(i, p)' = Front(i, p)
  BY DEF InCommit, Sent, Front
<1> HIDE DEF r
<1>4. HeldOK(i, p) /\ CoveredOK(i, p) /\ ReachedOK(i, p) BY DEF PairOK
<1>5. HeldOK(i, p)' BY <1>2, <1>3, <1>4 DEF HeldOK, ForPart, r
<1>6. CoveredOK(i, p)' BY <1>1, <1>3, <1>4 DEF CoveredOK, ForPart, r
<1>7. ReachedOK(i, p)' BY <1>3, <1>4 DEF ReachedOK
<1> QED BY <1>5, <1>6, <1>7 DEF PairOK

(* The open batch is handed to the commit worker. *)
LEMMA OEnqueueStep ==
    ASSUME KInv, OrderInv, NEW i \in Instances, NEW q \in Partitions, EnqueueCommit(i, q)
    PROVE  OrderInv'
<1> USE OrderParts
<1> DEFINE old == work[i][q]
           x == AfterEnqueue(old)
           w == [old EXCEPT !.lo = old.next, !.pc = x]
           b == Batch(q, old.next)
           ch == commitCh[i]
<1>1. /\ old.pc \in {"enqueue", "flush"} /\ ~closing[i] /\ work' = [work EXCEPT ![i][q] = w]
      /\ commitCh' = [commitCh EXCEPT ![i] = Append(@, b)]
      /\ owner' = owner /\ committed' = committed /\ at' = at /\ pos' = pos /\ taken' = taken
      /\ closing' = closing /\ cw' = cw /\ revokes' = revokes /\ flushed' = flushed
      /\ cb' = cb /\ reached' = reached /\ failed' = failed /\ dropped' = dropped
  BY DEF EnqueueCommit, BatchOf, SetWork, broker, loopVars, callback, history
<1>0. KTypes /\ old \in [pc : WorkPlaces, lo : Nat, next : Nat, end : Nat] BY DEF KInv, KTypes
<1>2. ch \in Seq(Tasks) /\ (\A k \in 1..Len(ch) : ch[k].upTo \in Nat) /\ cw[i].task.upTo \in Nat
  BY <1>0, TaskTypes
<1>3. b \in Tasks /\ ~b.sync /\ b.part = q /\ b.upTo = old.next BY <1>0 DEF Batch, Tasks
<1>4. x \in {"loop", "done"} BY DEF AfterEnqueue
<1> HIDE DEF x, b
<1>5. w.pc = x /\ w.lo = old.next /\ w.next = old.next /\ old.next \in Nat /\ old.lo \in Nat
  BY <1>0
<1>6. work'[i][q] = w /\ commitCh'[i] = Append(ch, b) BY <1>0, <1>1 DEF KTypes
<1> HIDE DEF w
<1>7. /\ Len(ch) \in Nat /\ Len(commitCh'[i]) = Len(ch) + 1 /\ commitCh'[i][Len(ch) + 1] = b
      /\ \A k \in 1..Len(ch) : k \in 1..Len(commitCh'[i]) /\ commitCh'[i][k] = ch[k]
      /\ \A k \in 1..Len(commitCh'[i]) : k \in 1..Len(ch) \/ k = Len(ch) + 1
  BY <1>2, <1>3, <1>6
<1>8. WorkerOK(i, q) /\ PairOK(i, q) BY DEF KInv, InstanceOK
<1>9. at[i] = "process" /\ cb[i] = "idle"
  BY <1>1, <1>8 DEF WorkerOK, KInv, InstanceOK, CallbackOK, CanRebalance
<1>10. OTypes' BY <1>1 DEF OTypes
<1>11. ASSUME NEW j \in Instances PROVE FlushOK(j)'
  <2>1. CASE j = i
    <3>1. FlushOK(i) OBVIOUS
    <3>2. \A k \in 1..Len(commitCh'[i]) : ~commitCh'[i][k].sync
      BY <3>1, <1>3, <1>7, <1>9 DEF FlushOK
    <3> QED BY <2>1, <3>1, <3>2, <1>1, <1>9 DEF FlushOK
  <2>2. CASE j # i
    <3>1. commitCh'[j] = commitCh[j] BY <2>2, <1>0, <1>1 DEF KTypes
    <3> QED BY <3>1, <1>1, FlushFrame DEF SameFlush
  <2> QED BY <2>1, <2>2
<1>12. PairOK(i, q)'
  <2>1. HeldOK(i, q) /\ CoveredOK(i, q) /\ ReachedOK(i, q) BY <1>8 DEF PairOK
  <2>2. /\ Sent(i, q) = old.lo /\ Sent(i, q)' = old.next
        /\ Front(i, q) = old.next /\ Front(i, q)' = old.next
        /\ InCommit(i, q)' <=> InCommit(i, q)
    BY <1>1, <1>4, <1>5, <1>6 DEF Sent, Front, InCommit
  <2>3. old.lo <= old.next /\ owner[q] = i /\ committed[q] <= old.lo /\ committed[q] \in Nat
        /\ reached[i][q] <= old.next /\ reached[i][q] \in Nat
    BY <2>1, <2>2, <1>1, <1>0 DEF HeldOK, ReachedOK, KTypes, OTypes
  <2>a. \A k \in 1..Len(ch) : ForPart(ch[k], q) =>
            /\ committed[q] <= ch[k].upTo /\ ch[k].upTo <= old.lo
            /\ InCommit(i, q) => cw[i].task.upTo <= ch[k].upTo
    BY <2>1, <2>2 DEF HeldOK
  <2>b. \A k \in 1..Len(ch) : ForPart(ch[k], q) => ch[k].upTo <= old.next
    BY <2>a, <2>3, <1>2, <1>5
  <2>4. HeldOK(i, q)'
    <3>1. InCommit(i, q)' => /\ owner'[q] = i /\ committed'[q] <= cw'[i].task.upTo
                             /\ cw'[i].task.upTo <= Sent(i, q)'
      BY <2>1, <2>2, <2>3, <1>1, <1>2, <1>5 DEF HeldOK
    <3>2. ASSUME NEW k \in 1..Len(commitCh'[i]), ForPart(commitCh'[i][k], q)
          PROVE  /\ owner'[q] = i /\ committed'[q] <= commitCh'[i][k].upTo
                 /\ commitCh'[i][k].upTo <= Sent(i, q)'
                 /\ InCommit(i, q)' => cw'[i].task.upTo <= commitCh'[i][k].upTo
      <4>1. CASE k \in 1..Len(ch)
        BY <4>1, <3>2, <2>a, <2>b, <2>2, <2>3, <1>1, <1>7
      <4>2. CASE k = Len(ch) + 1
        BY <4>2, <2>1, <2>2, <2>3, <1>1, <1>2, <1>3, <1>5, <1>7 DEF HeldOK
      <4> QED BY <4>1, <4>2, <1>7
    <3>3. ASSUME NEW k \in 1..Len(commitCh'[i]), NEW l \in 1..Len(commitCh'[i]), k < l,
                 ForPart(commitCh'[i][k], q), ForPart(commitCh'[i][l], q)
          PROVE  commitCh'[i][k].upTo <= commitCh'[i][l].upTo
      <4>1. k \in 1..Len(ch) BY <3>3, <1>7
      <4>2. CASE l \in 1..Len(ch) BY <4>1, <4>2, <3>3, <2>1, <1>7 DEF HeldOK
      <4>3. CASE l = Len(ch) + 1
        BY <4>1, <4>3, <3>3, <2>b, <1>3, <1>7
      <4> QED BY <4>2, <4>3, <1>7
    <3>4. /\ work'[i][q].pc # "idle" => /\ owner'[q] = i /\ work'[i][q].lo <= work'[i][q].next
                                        /\ work'[i][q].pc = "done" => work'[i][q].lo = work'[i][q].next
          /\ owner'[q] = i => committed'[q] <= Sent(i, q)'
      BY <2>2, <2>3, <1>1, <1>5, <1>6
    <3> QED BY <3>1, <3>2, <3>3, <3>4 DEF HeldOK, ForPart
  <2>5. CoveredOK(i, q)'
    <3>1. Len(ch) + 1 \in 1..Len(commitCh'[i]) /\ reached'[i][q] <= commitCh'[i][Len(ch) + 1].upTo
          /\ ForPart(commitCh'[i][Len(ch) + 1], q)
      BY <2>3, <1>1, <1>3, <1>7 DEF ForPart
    <3> QED BY <3>1 DEF CoveredOK, ForPart
  <2>6. ReachedOK(i, q)' BY <2>2, <2>3, <1>1 DEF ReachedOK
  <2> QED BY <2>4, <2>5, <2>6 DEF PairOK
<1>13. ASSUME NEW j \in Instances, NEW p \in Partitions PROVE PairOK(j, p)'
  <2>1. CASE j = i /\ p = q BY <2>1, <1>12
  <2>2. CASE j = i /\ p # q
    <3>1. work'[i][p] = work[i][p] BY <2>2, <1>0, <1>1 DEF KTypes
    <3>2. ~ForPart(b, p) BY <2>2, <1>3 DEF ForPart
    <3>3. PairOK(i, p) OBVIOUS
    <3> QED BY <2>2, <3>1, <3>2, <3>3, <1>1, <1>3, <1>6, JoinFrame
  <2>3. CASE j # i
    <3>1. work'[j] = work[j] /\ commitCh'[j] = commitCh[j] BY <2>3, <1>0, <1>1 DEF KTypes
    <3> QED BY <3>1, <1>1, PairFrame DEF SamePair
  <2> QED BY <2>1, <2>2, <2>3
<1> QED BY <1>10, <1>11, <1>13, OrderBy

(* The barrier of a flush joins the channel. *)
LEMMA OBarrierStep ==
    ASSUME KInv, OrderInv, NEW i \in Instances, SendBarrier(i) PROVE OrderInv'
<1> USE OrderParts
<1> DEFINE n == revokes[i] + 1
           b == Barrier(n)
           ch == commitCh[i]
<1>1. /\ cb[i] = "send" /\ cb' = [cb EXCEPT ![i] = "flushing"] /\ at' = at /\ ~closing[i]
      /\ revokes' = [revokes EXCEPT ![i] = n]
      /\ commitCh' = [commitCh EXCEPT ![i] = Append(@, b)]
      /\ owner' = owner /\ committed' = committed /\ work' = work /\ pos' = pos
      /\ taken' = [taken EXCEPT ![i] = taken[i]]
      /\ closing' = closing /\ cw' = cw /\ flushed' = flushed
      /\ reached' = reached /\ failed' = failed /\ dropped' = dropped
  BY DEF SendBarrier, SetCallback, broker, loopVars, history
<1>0. KTypes BY DEF KInv
<1>a. taken' = taken BY <1>1 DEF OTypes
<1>2. ch \in Seq(Tasks) /\ n \in Nat /\ revokes[i] \in Nat BY <1>0, TaskTypes DEF KTypes
<1>3. b \in Tasks /\ b.sync BY <1>2 DEF Barrier, Tasks
<1>4. commitCh'[i] = Append(ch, b) /\ revokes'[i] = n /\ cb'[i] = "flushing"
  BY <1>0, <1>1 DEF KTypes
<1>5. OTypes' BY <1>1, <1>a DEF OTypes
<1>6. ASSUME NEW j \in Instances PROVE FlushOK(j)'
  <2>1. CASE j = i
    <3>1. FlushOK(i) OBVIOUS
    <3> HIDE DEF b
    <3>2. /\ Len(ch) \in Nat /\ Len(commitCh'[i]) = Len(ch) + 1
          /\ commitCh'[i][Len(commitCh'[i])] = b
          /\ \A k \in 1..Len(ch) : commitCh'[i][k] = ch[k]
      BY <1>2, <1>3, <1>4
    <3>3. \A k \in 1..(Len(commitCh'[i]) - 1) : ~commitCh'[i][k].sync
      BY <3>1, <3>2, <1>1 DEF FlushOK
    <3>4. flushed'[i] < revokes'[i] /\ flushed'[i] <= revokes'[i]
      BY <3>1, <1>1, <1>2, <1>4 DEF FlushOK, OTypes
    <3>5. cw'[i].pc # "exited" /\ at'[i] # "closed" BY <3>1, <1>1 DEF FlushOK
    <3>6. \A p \in taken'[i] : owner'[p] = i BY <3>1, <1>1, <1>a DEF FlushOK
    <3>7. commitCh'[i][Len(commitCh'[i])] = Barrier(revokes'[i]) BY <3>2, <1>4 DEF b
    <3>8. Len(commitCh'[i]) > 0 BY <3>2
    <3> QED BY <2>1, <3>3, <3>4, <3>5, <3>6, <3>7, <3>8, <1>4 DEF FlushOK, Barrier
  <2>2. CASE j # i
    <3>1. commitCh'[j] = commitCh[j] /\ cb'[j] = cb[j] /\ revokes'[j] = revokes[j]
      BY <2>2, <1>0, <1>1 DEF KTypes
    <3> QED BY <3>1, <1>1, <1>a, FlushFrame DEF SameFlush
  <2> QED BY <2>1, <2>2
<1>7. ASSUME NEW j \in Instances, NEW p \in Partitions PROVE PairOK(j, p)'
  <2>1. CASE j = i
    <3>1. ~ForPart(b, p) BY <1>3 DEF ForPart
    <3>2. PairOK(i, p) OBVIOUS
    <3> HIDE DEF b
    <3> QED BY <2>1, <3>1, <3>2, <1>1, <1>3, <1>4, JoinFrame
  <2>2. CASE j # i
    <3>1. commitCh'[j] = commitCh[j] BY <2>2, <1>0, <1>1 DEF KTypes
    <3> QED BY <3>1, <1>1, PairFrame DEF SamePair
  <2> QED BY <2>1, <2>2
<1> QED BY <1>5, <1>6, <1>7, OrderBy

------------------------------------------------------------------------------
(* The commit worker receives a task. *)
LEMMA OTakeStep == ASSUME KInv, OrderInv, NEW i \in Instances, TakeTask(i) PROVE OrderInv'
<1> USE OrderParts
<1> DEFINE q == commitCh[i]
           t == Head(q)
           r == Tail(q)
<1>1. /\ cw[i].pc = "idle" /\ q # <<>> /\ commitCh' = [commitCh EXCEPT ![i] = r]
      /\ \/ t.sync /\ flushed' = [flushed EXCEPT ![i] = t.upTo] /\ cw' = cw
         \/ /\ ~t.sync /\ flushed' = flushed
            /\ cw' = [cw EXCEPT ![i] = [pc |-> "committing", task |-> t, attempt |-> 0]]
      /\ owner' = owner /\ committed' = committed /\ work' = work /\ pos' = pos /\ taken' = taken
      /\ at' = at /\ cb' = cb /\ closing' = closing /\ revokes' = revokes
      /\ reached' = reached /\ failed' = failed /\ dropped' = dropped
  BY DEF TakeTask, Received, SetWorker, broker, loopVars, callback, history
<1>0. KTypes /\ q \in Seq(Tasks) /\ (\A k \in 1..Len(q) : q[k].upTo \in Nat)
  BY TaskTypes DEF KInv
<1>2. /\ Len(q) \in Nat /\ Len(q) > 0 /\ t = q[1] /\ 1 \in 1..Len(q) /\ t \in Tasks
      /\ r \in Seq(Tasks) /\ Len(r) = Len(q) - 1
      /\ \A k \in 1..Len(r) : k + 1 \in 1..Len(q) /\ r[k] = q[k + 1]
      /\ \A k \in 1..Len(q) : k = 1 \/ (k - 1 \in 1..Len(r) /\ r[k - 1] = q[k])
  BY <1>0, <1>1
<1>3. commitCh'[i] = r /\ (\A j \in Instances \ {i} : commitCh'[j] = commitCh[j])
  BY <1>0, <1>1 DEF KTypes
<1>4. t.upTo \in Nat BY <1>2 DEF Tasks
<1> HIDE DEF q, t, r
<1>5. /\ \A j \in Instances \ {i} : cw'[j] = cw[j] /\ flushed'[j] = flushed[j]
      /\ \/ t.sync /\ cw'[i] = cw[i] /\ flushed'[i] = t.upTo
         \/ ~t.sync /\ cw'[i].pc = "committing" /\ cw'[i].task = t /\ flushed'[i] = flushed[i]
  BY <1>0, <1>1 DEF KTypes, OTypes
<1>6. OTypes' BY <1>1, <1>4 DEF OTypes
<1>7. ASSUME NEW j \in Instances PROVE FlushOK(j)'
  <2>1. CASE j = i
    <3>1. FlushOK(i) /\ revokes[i] \in Nat BY <1>0 DEF KTypes
    <3>2. at[i] # "closed" BY <3>1, <1>1 DEF FlushOK
    <3>3. CASE cb[i] # "flushing"
      <4>1. \A k \in 1..Len(q) : ~q[k].sync BY <3>1, <3>3 DEF FlushOK, q
      <4>2. ~t.sync /\ \A k \in 1..Len(r) : ~r[k].sync BY <4>1, <1>2
      <4> QED BY <2>1, <3>1, <3>2, <3>3, <4>2, <1>1, <1>3, <1>5 DEF FlushOK
    <3>4. CASE cb[i] = "flushing"
      <4>1. /\ flushed[i] < revokes[i] /\ q[Len(q)] = Barrier(revokes[i])
            /\ \A k \in 1..(Len(q) - 1) : ~q[k].sync
            /\ \A p \in taken[i] : owner[p] = i
        BY <3>1, <3>4, <1>1 DEF FlushOK, q
      <4>2. CASE Len(q) = 1
        <5>1. t.sync /\ t.upTo = revokes[i] BY <4>1, <4>2, <1>2 DEF Barrier
        <5>2. r = <<>> BY <4>2, <1>2
        <5> QED BY <2>1, <3>1, <3>4, <4>1, <5>1, <5>2, <1>1, <1>3, <1>5 DEF FlushOK
      <4>3. CASE Len(q) # 1
        <5>1. ~t.sync BY <4>1, <4>3, <1>2
        <5>2. Len(r) > 0 /\ r[Len(r)] = Barrier(revokes[i]) BY <4>1, <4>3, <1>2
        <5>3. \A k \in 1..(Len(r) - 1) : ~r[k].sync BY <4>1, <1>2
        <5>4. flushed'[i] = flushed[i] /\ cw'[i].pc = "committing" BY <5>1, <1>5
        <5> QED BY <2>1, <3>1, <3>4, <4>1, <5>2, <5>3, <5>4, <1>1, <1>3 DEF FlushOK, Barrier
      <4> QED BY <4>2, <4>3
    <3> QED BY <3>3, <3>4
  <2>2. CASE j # i BY <2>2, <1>1, <1>3, <1>5, FlushFrame DEF SameFlush
  <2> QED BY <2>1, <2>2
<1>8. ASSUME NEW p \in Partitions PROVE PairOK(i, p)'
  <2>1. HeldOK(i, p) /\ CoveredOK(i, p) /\ ReachedOK(i, p) BY DEF PairOK
  <2>2. /\ Sent(i, p)' = Sent(i, p) /\ Front(i, p)' = Front(i, p) /\ ~InCommit(i, p)
        /\ InCommit(i, p)' <=> ForPart(t, p)
    BY <1>1, <1>5 DEF Sent, Front, InCommit, ForPart
  <2>3. ForPart(t, p) => /\ owner[p] = i /\ committed[p] <= t.upTo /\ t.upTo <= Sent(i, p)
                         /\ cw'[i].task = t
    BY <2>1, <1>2, <1>5 DEF HeldOK, ForPart, q
  <2>4. \A k \in 1..Len(r) : ForPart(r[k], p) =>
            /\ owner[p] = i /\ committed[p] <= r[k].upTo /\ r[k].upTo <= Sent(i, p)
            /\ ForPart(t, p) => t.upTo <= r[k].upTo
    <3> SUFFICES ASSUME NEW k \in 1..Len(r), ForPart(r[k], p)
                 PROVE  /\ owner[p] = i /\ committed[p] <= r[k].upTo /\ r[k].upTo <= Sent(i, p)
                        /\ ForPart(t, p) => t.upTo <= r[k].upTo
      OBVIOUS
    <3>1. k + 1 \in 1..Len(q) /\ r[k] = q[k + 1] /\ 1 < k + 1 BY <1>2
    <3> QED BY <3>1, <2>1, <1>2 DEF HeldOK, q
  <2>5. ASSUME NEW k \in 1..Len(r), NEW l \in 1..Len(r), k < l, ForPart(r[k], p), ForPart(r[l], p)
        PROVE  r[k].upTo <= r[l].upTo
    <3>1. /\ k + 1 \in 1..Len(q) /\ l + 1 \in 1..Len(q) /\ k + 1 < l + 1
          /\ r[k] = q[k + 1] /\ r[l] = q[l + 1]
      BY <2>5, <1>2
    <3> QED BY <3>1, <2>1, <2>5 DEF HeldOK, q
  <2>6. HeldOK(i, p)'
    <3>1. /\ work'[i][p].pc # "idle" =>
                 /\ owner'[p] = i /\ work'[i][p].lo <= work'[i][p].next
                 /\ work'[i][p].pc = "done" => work'[i][p].lo = work'[i][p].next
          /\ owner'[p] = i => committed'[p] <= Sent(i, p)'
      BY <2>1, <2>2, <1>1 DEF HeldOK
    <3> QED BY <3>1, <2>2, <2>3, <2>4, <2>5, <1>1, <1>3 DEF HeldOK, ForPart
  <2>7. CoveredOK(i, p)'
    <3> SUFFICES ASSUME ~failed[i], ~dropped[i] PROVE CoveredOK(i, p)' BY <1>1 DEF CoveredOK
    <3>1. CASE \E k \in 1..Len(q) : ForPart(q[k], p) /\ reached[i][p] <= q[k].upTo
      <4>1. PICK k \in 1..Len(q) : ForPart(q[k], p) /\ reached[i][p] <= q[k].upTo BY <3>1
      <4>2. CASE k = 1 BY <4>1, <4>2, <2>2, <2>3, <1>1, <1>2 DEF CoveredOK
      <4>3. CASE k # 1
        <5>1. k - 1 \in 1..Len(r) /\ r[k - 1] = q[k] BY <4>3, <1>2
        <5> QED BY <4>1, <5>1, <1>1, <1>3 DEF CoveredOK, ForPart
      <4> QED BY <4>2, <4>3
    <3>2. CASE ~\E k \in 1..Len(q) : ForPart(q[k], p) /\ reached[i][p] <= q[k].upTo
      BY <3>2, <2>1, <2>2, <1>1 DEF CoveredOK, q
    <3> QED BY <3>1, <3>2
  <2>8. ReachedOK(i, p)' BY <2>1, <2>2, <1>1 DEF ReachedOK
  <2> QED BY <2>6, <2>7, <2>8 DEF PairOK
<1>9. ASSUME NEW j \in Instances, NEW p \in Partitions PROVE PairOK(j, p)'
  <2>1. CASE j = i BY <2>1, <1>8
  <2>2. CASE j # i BY <2>2, <1>1, <1>3, <1>5, PairFrame DEF SamePair
  <2> QED BY <2>1, <2>2
<1> QED BY <1>6, <1>7, <1>9, OrderBy

(* What the worker commits is the offset of the owner's oldest open batch. *)
LEMMA CommitsClimb ==
    ASSUME KInv, OrderInv, NEW i \in Instances, cw[i].pc \in {"committing", "backoff"}
    PROVE  /\ cw[i].task.part \in Partitions /\ owner[cw[i].task.part] = i
           /\ cw[i].task.upTo \in Nat /\ committed[cw[i].task.part] \in Nat
           /\ committed[cw[i].task.part] <= cw[i].task.upTo
<1>1. cw[i].task.part \in Partitions BY DEF KInv, InstanceOK, CommitsOK, Sound
<1>2. HeldOK(i, cw[i].task.part) /\ InCommit(i, cw[i].task.part)
  BY <1>1 DEF OrderInv, InCommit
<1>3. KTypes /\ cw[i].task.upTo \in Nat BY TaskTypes DEF KInv
<1> QED BY <1>1, <1>2, <1>3 DEF HeldOK, KTypes

LEMMA CommitOrder ==
    ASSUME KInv, OrderInv, NEW i \in Instances, NEW x, cw' = [cw EXCEPT ![i] = x],
           cw[i].pc \in {"committing", "backoff"},
           \/ committed' = committed
           \/ committed' = [committed EXCEPT ![cw[i].task.part] = cw[i].task.upTo],
           \/ x.pc \in {"committing", "backoff"} /\ x.task = cw[i].task /\ failed' = failed
           \/ x.pc = "idle" /\ failed' = [failed EXCEPT ![i] = TRUE]
           \/ /\ x.pc = "idle" /\ failed' = failed
              /\ committed' = [committed EXCEPT ![cw[i].task.part] = cw[i].task.upTo],
           owner' = owner, work' = work, pos' = pos, cb' = cb, taken' = taken, at' = at,
           closing' = closing, revokes' = revokes, flushed' = flushed, commitCh' = commitCh,
           reached' = reached, dropped' = dropped
    PROVE  OrderInv'
<1> USE OrderParts
<1> DEFINE t == cw[i].task
           q == t.part
<1>0. KTypes BY DEF KInv
<1>1. /\ q \in Partitions /\ owner[q] = i /\ t.upTo \in Nat /\ committed[q] \in Nat
      /\ committed[q] <= t.upTo
  BY CommitsClimb
<1>2. cw'[i] = x /\ (\A j \in Instances \ {i} : cw'[j] = cw[j]) BY <1>0 DEF KTypes
<1>3. /\ \A p \in Partitions : p # q => committed'[p] = committed[p]
      /\ committed'[q] = committed[q] \/ committed'[q] = t.upTo
      /\ \A p \in Partitions : committed'[p] \in Nat /\ committed[p] \in Nat
                               /\ committed'[p] >= committed[p]
  <2>1. committed \in [Partitions -> Nat] BY <1>0 DEF KTypes
  <2>2. committed' = committed \/ committed' = [committed EXCEPT ![q] = t.upTo] OBVIOUS
  <2> HIDE DEF t, q
  <2>3. CASE committed' = committed BY <2>1, <2>3
  <2>4. CASE committed' = [committed EXCEPT ![q] = t.upTo] BY <2>1, <2>4, <1>1
  <2> QED BY <2>2, <2>3, <2>4
<1>4. OTypes' BY DEF OTypes
<1>5. ASSUME NEW j \in Instances PROVE FlushOK(j)'
  <2>1. CASE j = i
    <3>1. FlushOK(i) OBVIOUS
    <3>2. cw'[i].pc # "exited" /\ at[i] # "closed" BY <3>1, <1>2 DEF FlushOK
    <3> QED BY <2>1, <3>1, <3>2 DEF FlushOK, Barrier
  <2>2. CASE j # i BY <2>2, <1>2, FlushFrame DEF SameFlush
  <2> QED BY <2>1, <2>2
<1>6. ASSUME NEW j \in Instances, NEW p \in Partitions, j # i PROVE PairOK(j, p)'
  <2>1. cw'[j] = cw[j] /\ failed'[j] = failed[j] BY <1>6, <1>2 DEF OTypes
  <2>2. CASE p # q BY <2>1, <2>2, <1>3, PairFrame DEF SamePair
  <2>3. CASE p = q
    <3>1. PairOK(j, p) /\ owner[p] # j BY <2>3, <1>1, <1>6
    <3>2. /\ Sent(j, p)' = Sent(j, p) /\ Front(j, p)' = Front(j, p)
          /\ InCommit(j, p)' <=> InCommit(j, p)
      BY <2>1 DEF Sent, Front, InCommit
    <3>3. HeldOK(j, p)' BY <3>1, <3>2 DEF PairOK, HeldOK, ForPart
    <3>4. reached[j][p] \in Nat BY DEF OTypes
    <3>5. reached[j][p] <= committed[p] => reached[j][p] <= committed'[p] BY <3>4, <1>3
    <3>6. CoveredOK(j, p)' BY <3>1, <3>2, <3>5, <2>1 DEF PairOK, CoveredOK, ForPart
    <3>7. ReachedOK(j, p)' BY <3>1, <3>2 DEF PairOK, ReachedOK
    <3> QED BY <3>3, <3>6, <3>7 DEF PairOK
  <2> QED BY <2>2, <2>3
<1>7. ASSUME NEW p \in Partitions PROVE PairOK(i, p)'
  <2>1. HeldOK(i, p) /\ CoveredOK(i, p) /\ ReachedOK(i, p) BY DEF PairOK
  <2>2. /\ Sent(i, p)' = Sent(i, p) /\ Front(i, p)' = Front(i, p)
        /\ InCommit(i, p) <=> p = q
    BY DEF Sent, Front, InCommit
  <2>3. InCommit(i, p)' <=> p = q /\ x.pc \in {"committing", "backoff"}
    BY <1>2 DEF InCommit
  <2>4. InCommit(i, p)' => cw'[i].task = t BY <2>3, <1>2
  <2>5. \A k \in 1..Len(commitCh[i]) : commitCh[i][k].upTo \in Nat BY <1>0, TaskTypes
  <2>6. Sent(i, p) \in Nat /\ committed[p] \in Nat /\ committed'[p] \in Nat BY <1>0, <1>3 DEF Sent, KTypes
  <2> HIDE DEF t, q
  <2>7. p = q => /\ t.upTo <= Sent(i, p) /\ committed'[q] <= t.upTo
                 /\ \A k \in 1..Len(commitCh[i]) :
                        ForPart(commitCh[i][k], p) => t.upTo <= commitCh[i][k].upTo
    BY <2>1, <2>2, <1>1, <1>3 DEF HeldOK, t
  <2>8. HeldOK(i, p)'
    <3>1. CASE p # q BY <3>1, <2>1, <2>2, <2>3, <1>3 DEF HeldOK, ForPart
    <3>2. CASE p = q
      <4>1. committed'[p] <= Sent(i, p)
            /\ \A k \in 1..Len(commitCh[i]) :
                   ForPart(commitCh[i][k], p) => committed'[p] <= commitCh[i][k].upTo
        BY <3>2, <2>5, <2>6, <2>7, <1>1
      <4> QED BY <3>2, <4>1, <2>1, <2>2, <2>4, <2>7, <1>1 DEF HeldOK, ForPart
    <3> QED BY <3>1, <3>2
  <2>9. CoveredOK(i, p)'
    <3> SUFFICES ASSUME ~failed'[i], ~dropped[i] PROVE CoveredOK(i, p)' BY DEF CoveredOK
    <3>1. /\ failed' = failed /\ ~failed[i]
          /\ \/ x.pc \in {"committing", "backoff"} /\ x.task = t
             \/ committed' = [committed EXCEPT ![q] = t.upTo]
      BY DEF OTypes, t, q
    <3>2. reached[i][p] \in Nat BY DEF OTypes
    <3>3. reached[i][p] <= committed[p] => reached[i][p] <= committed'[p] BY <3>2, <1>3
    <3>4. CASE p = q /\ reached[i][p] <= t.upTo
      <4>1. CASE x.pc \in {"committing", "backoff"} BY <3>4, <4>1, <2>3, <2>4 DEF CoveredOK
      <4>2. CASE committed' = [committed EXCEPT ![q] = t.upTo]
        <5>1. committed'[p] = t.upTo BY <3>4, <4>2, <1>0 DEF KTypes
        <5> QED BY <3>4, <5>1 DEF CoveredOK
      <4> QED BY <3>1, <4>1, <4>2
    <3>5. CASE ~(p = q /\ reached[i][p] <= t.upTo)
      BY <3>1, <3>3, <3>5, <2>1, <2>2 DEF CoveredOK, ForPart, t
    <3> QED BY <3>4, <3>5
  <2>10. ReachedOK(i, p)' BY <2>1, <2>2 DEF ReachedOK
  <2> QED BY <2>8, <2>9, <2>10 DEF PairOK
<1>8. \A j \in Instances, p \in Partitions : PairOK(j, p)' BY <1>6, <1>7
<1> QED BY <1>4, <1>5, <1>8, OrderBy

LEMMA OCommitStep ==
    ASSUME KInv, OrderInv, NEW i \in Instances,
           CommitRecords(i) \/ CommitFails(i) \/ RetryCommit(i) \/ AbandonCommit(i)
    PROVE  OrderInv'
<1> DEFINE t == cw[i].task
<1>1. /\ owner' = owner /\ work' = work /\ pos' = pos /\ taken' = taken /\ at' = at
      /\ closing' = closing /\ revokes' = revokes /\ flushed' = flushed /\ commitCh' = commitCh
      /\ cb' = cb /\ reached' = reached /\ dropped' = dropped
      /\ cw[i].pc \in {"committing", "backoff"}
      /\ committed' = committed \/ committed' = [committed EXCEPT ![t.part] = t.upTo]
  BY DEF CommitRecords, CommitFails, RetryCommit, AbandonCommit, StoreOffset, broker, loopVars,
         callback, history
<1>2. IdleWorker.pc = "idle" BY DEF IdleWorker
<1>3. CASE CommitRecords(i)
  BY <1>1, <1>2, <1>3, CommitOrder DEF CommitRecords, StoreOffset, history
<1>4. CASE AbandonCommit(i)
  <2>1. cw' = [cw EXCEPT ![i] = IdleWorker] /\ failed' = [failed EXCEPT ![i] = TRUE]
    BY <1>4 DEF AbandonCommit
  <2> QED BY <1>1, <1>2, <2>1, CommitOrder
<1>5. CASE RetryCommit(i)
  <2> DEFINE x == [pc |-> "committing", task |-> t, attempt |-> cw[i].attempt]
  <2>1. cw' = [cw EXCEPT ![i] = x] /\ failed' = failed
    BY <1>5 DEF RetryCommit, SetWorker, history
  <2>2. x.pc = "committing" /\ x.task = t OBVIOUS
  <2> HIDE DEF x
  <2> QED BY <1>1, <2>1, <2>2, CommitOrder
<1>6. CASE CommitFails(i)
  <2>1. CASE GivesUp(i)
    <3>1. cw' = [cw EXCEPT ![i] = IdleWorker] /\ failed' = [failed EXCEPT ![i] = TRUE]
      BY <1>6, <2>1 DEF CommitFails, AfterFailure
    <3> QED BY <1>1, <1>2, <3>1, CommitOrder
  <2>2. CASE ~GivesUp(i)
    <3> DEFINE x == [pc |-> "backoff", task |-> t, attempt |-> cw[i].attempt + 1]
    <3>1. cw' = [cw EXCEPT ![i] = x] /\ failed' = failed
      BY <1>6, <2>2 DEF CommitFails, AfterFailure, SetWorker
    <3>2. x.pc = "backoff" /\ x.task = t OBVIOUS
    <3> HIDE DEF x
    <3> QED BY <1>1, <3>1, <3>2, CommitOrder
  <2> QED BY <2>1, <2>2
<1> QED BY <1>3, <1>4, <1>5, <1>6

LEMMA OExitStep == ASSUME KInv, OrderInv, NEW i \in Instances, WorkerExit(i) PROVE OrderInv'
<1> USE OrderParts
<1> DEFINE x == [pc |-> "exited", task |-> Barrier(0), attempt |-> 0]
<1>1. /\ cw[i].pc = "idle" /\ commitCh[i] = <<>> /\ closing[i] /\ cw' = [cw EXCEPT ![i] = x]
      /\ owner' = owner /\ work' = work /\ pos' = pos /\ taken' = taken /\ at' = at
      /\ closing' = closing /\ revokes' = revokes /\ flushed' = flushed /\ commitCh' = commitCh
      /\ reached' = reached /\ dropped' = dropped /\ failed' = failed /\ committed' = committed
      /\ cb' = cb
  BY DEF WorkerExit, SetWorker, broker, loopVars, callback, history
<1>0. KTypes BY DEF KInv
<1>2. x.pc = "exited" OBVIOUS
<1> HIDE DEF x
<1>3. cw'[i] = x /\ (\A j \in Instances \ {i} : cw'[j] = cw[j]) BY <1>0, <1>1 DEF KTypes
<1>4. OTypes' BY <1>1 DEF OTypes
<1>5. ASSUME NEW j \in Instances PROVE FlushOK(j)'
  <2>1. CASE j = i
    <3>1. FlushOK(i) /\ ClosingOK(i) BY DEF KInv, InstanceOK
    <3>2. at[i] \in {"draining", "closed"} BY <3>1, <1>1 DEF ClosingOK
    <3> QED BY <2>1, <3>1, <3>2, <1>1, <1>2, <1>3 DEF FlushOK
  <2>2. CASE j # i BY <2>2, <1>1, <1>3, FlushFrame DEF SameFlush
  <2> QED BY <2>1, <2>2
<1>6. ASSUME NEW j \in Instances, NEW p \in Partitions PROVE PairOK(j, p)'
  <2>1. CASE j = i
    <3>1. PairOK(i, p) OBVIOUS
    <3>2. /\ ~InCommit(i, p) /\ ~InCommit(i, p)'
          /\ Sent(i, p)' = Sent(i, p) /\ Front(i, p)' = Front(i, p)
      BY <1>1, <1>2, <1>3 DEF InCommit, Sent, Front
    <3>3. HeldOK(i, p)' BY <3>1, <3>2, <1>1 DEF PairOK, HeldOK
    <3>4. CoveredOK(i, p)' BY <3>1, <3>2, <1>1 DEF PairOK, CoveredOK
    <3>5. ReachedOK(i, p)' BY <3>1, <3>2, <1>1 DEF PairOK, ReachedOK
    <3> QED BY <2>1, <3>3, <3>4, <3>5 DEF PairOK
  <2>2. CASE j # i BY <2>2, <1>1, <1>3, PairFrame DEF SamePair
  <2> QED BY <2>1, <2>2
<1> QED BY <1>4, <1>5, <1>6, OrderBy

------------------------------------------------------------------------------
(* Partitions leave the instance only when it holds no batch of any. *)
Emptied(i) ==
    /\ commitCh[i] = <<>> /\ cw[i].pc \notin {"committing", "backoff"}
    /\ \A p \in Partitions : work[i][p].pc = "idle"

LEMMA ReleaseOrder ==
    ASSUME KInv, OrderInv, NEW i \in Instances, NEW ps \in SUBSET Partitions,
           Emptied(i), \A p \in ps : owner[p] = i, Released(ps),
           \/ /\ at' = at /\ cb' = [cb EXCEPT ![i] = "idle"] /\ taken' = [taken EXCEPT ![i] = {}]
           \/ /\ at' = [at EXCEPT ![i] = "closed"] /\ cw[i].pc = "exited"
              /\ cb' = cb /\ cb[i] = "idle" /\ taken' = taken,
           committed' = committed, pos' = pos, work' = work, commitCh' = commitCh, cw' = cw,
           closing' = closing, revokes' = revokes, flushed' = flushed,
           reached' = reached, dropped' = dropped, failed' = failed
    PROVE  OrderInv'
<1> USE OrderParts
<1>0. KTypes BY DEF KInv
<1>1. owner' = [p \in Partitions |-> IF p \in ps THEN Nil ELSE owner[p]] BY DEF Released
<1>2. OTypes' BY <1>1 DEF OTypes
<1>3. ASSUME NEW j \in Instances PROVE FlushOK(j)'
  <2>1. CASE j = i
    <3>1. FlushOK(i) OBVIOUS
    <3>2. cb'[i] = "idle" /\ (at'[i] = at[i] \/ cw[i].pc = "exited") BY <1>0 DEF KTypes
    <3> QED BY <2>1, <3>1, <3>2 DEF FlushOK, Emptied
  <2>2. CASE j # i
    <3>1. at'[j] = at[j] /\ cb'[j] = cb[j] /\ taken'[j] = taken[j]
      BY <2>2, <1>0 DEF KTypes, OTypes
    <3>2. \A p \in Partitions : owner[p] = j => owner'[p] = j BY <2>2, <1>1
    <3> QED BY <3>1, <3>2, FlushFrame DEF SameFlush
  <2> QED BY <2>1, <2>2
<1>4. ASSUME NEW j \in Instances, NEW p \in Partitions PROVE PairOK(j, p)'
  <2>1. CASE j = i /\ p \in ps
    <3>1. PairOK(i, p) OBVIOUS
    <3>2. owner'[p] # i BY <2>1, <1>1, KafkaNone
    <3>3. /\ ~InCommit(i, p) /\ ~InCommit(i, p)' /\ Front(i, p)' = Front(i, p)
          /\ work'[i][p].pc = "idle" /\ commitCh'[i] = <<>>
      BY DEF InCommit, Front, Emptied
    <3>4. HeldOK(i, p)' BY <3>2, <3>3 DEF HeldOK
    <3>5. CoveredOK(i, p)' BY <3>1, <3>3 DEF PairOK, CoveredOK
    <3>6. ReachedOK(i, p)' BY <3>1, <3>3 DEF PairOK, ReachedOK
    <3> QED BY <2>1, <3>4, <3>5, <3>6 DEF PairOK
  <2>2. CASE ~(j = i /\ p \in ps)
    <3>1. (owner'[p] = j) <=> (owner[p] = j) BY <2>2, <1>1, KafkaNone
    <3> QED BY <3>1, PairFrame DEF SamePair
  <2> QED BY <2>1, <2>2
<1> QED BY <1>2, <1>3, <1>4, OrderBy

LEMMA OReleaseStep ==
    ASSUME KInv, OrderInv, "timeout" \notin Faults, NEW i \in Instances,
           FlushDone(i) \/ ShutdownDone(i)
    PROVE  OrderInv'
<1> USE OrderParts
<1>1. FlushOK(i) /\ CallbackOK(i) /\ (\A p \in Partitions : WorkerOK(i, p))
  BY DEF KInv, InstanceOK
<1>2. CASE FlushDone(i)
  <2>1. /\ cb[i] = "flushing" /\ flushed[i] = revokes[i] /\ Released(taken[i]) /\ at' = at
        /\ taken' = [taken EXCEPT ![i] = {}] /\ cb' = [cb EXCEPT ![i] = "idle"]
        /\ committed' = committed /\ pos' = pos /\ work' = work /\ commitCh' = commitCh
        /\ cw' = cw /\ closing' = closing /\ revokes' = revokes /\ flushed' = flushed
        /\ reached' = reached /\ dropped' = dropped /\ failed' = failed
    BY <1>2 DEF FlushDone, Flushed, Handover, SetCallback, loopVars, chanVars, history
  <2>2. Emptied(i)
    <3>1. commitCh[i] = <<>> /\ cw[i].pc \in {"idle", "exited"}
      BY <1>1, <2>1 DEF FlushOK, OTypes
    <3>2. at[i] # "process" BY <1>1, <2>1 DEF CallbackOK, CanRebalance
    <3> QED BY <3>1, <3>2, <1>1 DEF Emptied, WorkerOK
  <2>3. taken[i] \in SUBSET Partitions /\ \A p \in taken[i] : owner[p] = i
    BY <1>1, <2>1 DEF FlushOK, OTypes
  <2> QED BY <2>1, <2>2, <2>3, ReleaseOrder
<1>3. CASE ShutdownDone(i)
  <2>1. /\ at[i] = "draining" /\ cw[i].pc = "exited" /\ Released(Owned(i)) /\ taken' = taken
        /\ cb' = cb /\ cb[i] = "idle" /\ at' = [at EXCEPT ![i] = "closed"]
        /\ committed' = committed /\ pos' = pos /\ work' = work /\ commitCh' = commitCh
        /\ cw' = cw /\ closing' = closing /\ revokes' = revokes /\ flushed' = flushed
        /\ reached' = reached /\ dropped' = dropped /\ failed' = failed
    BY <1>3 DEF ShutdownDone, Drained, Goto, callback, chanVars
  <2>2. Emptied(i) BY <1>1, <2>1 DEF FlushOK, Emptied, WorkerOK
  <2>3. Owned(i) \in SUBSET Partitions /\ \A p \in Owned(i) : owner[p] = i BY DEF Owned
  <2> QED BY <2>1, <2>2, <2>3, ReleaseOrder
<1> QED BY <1>2, <1>3

------------------------------------------------------------------------------
(* The history of a revocation that did not flush is never forgotten. *)
LEMMA SkippedStays == ASSUME [KNext]_kvars PROVE skipped' = skipped \/ skipped' = TRUE
<1>1. CASE UNCHANGED kvars BY <1>1 DEF kvars, history
<1>2. ASSUME NEW i \in Instances, Group(i) PROVE skipped' = skipped \/ skipped' = TRUE
  BY <1>2 DEF Group, Subscribe, Crash, ProcessDies, Close, Assign, Revoke, RevokeWhileClosing, history
<1>3. ASSUME NEW i \in Instances, run(i) PROVE skipped' = skipped
  BY <1>3 DEF run, Poll, CheckCtx, PollNothing, PollCancelled, PollRecords, PollPartlyFailed,
              BatchDone, AllowRebalance, BeginDrain, ShutdownDone, history
<1>4. ASSUME NEW i \in Instances, OnPartitionsRevoked(i) PROVE skipped' = skipped
  BY <1>4 DEF OnPartitionsRevoked, SendBarrier, SendPanics, ProcessDies, FlushDone, FlushTimedOut,
              history
<1>5. ASSUME NEW i \in Instances, CommitWorker(i) PROVE skipped' = skipped
  BY <1>5 DEF CommitWorker, TakeTask, CommitRecords, CommitFails, RetryCommit, AbandonCommit,
              WorkerExit, history
<1>6. ASSUME NEW i \in Instances, NEW p \in Partitions, ProcessPartition(i, p)
      PROVE  skipped' = skipped
  BY <1>6 DEF ProcessPartition, AcquireSem, NextRecord, Handle, EnqueueCommit, EnqueueDropped,
              PartitionDone, history
<1> QED BY <1>1, <1>2, <1>3, <1>4, <1>5, <1>6 DEF KNext, Stopped

LEMMA OrderStep ==
    ASSUME "timeout" \notin Faults
    PROVE  KInv /\ OrderInv /\ [KNext]_kvars => OrderInv' \/ skipped' = TRUE
<1> SUFFICES ASSUME KInv, OrderInv, [KNext]_kvars, skipped' # TRUE PROVE OrderInv' OBVIOUS
<1>1. CASE UNCHANGED kvars
  <2>1. /\ owner' = owner /\ committed' = committed /\ at' = at /\ pos' = pos /\ taken' = taken
        /\ work' = work /\ commitCh' = commitCh /\ closing' = closing /\ cw' = cw
        /\ revokes' = revokes /\ flushed' = flushed /\ reached' = reached
        /\ dropped' = dropped /\ failed' = failed /\ cb' = cb
    BY <1>1 DEF kvars, broker, loopVars, callback, chanVars, history
  <2>2. OTypes' BY <2>1, OrderParts DEF OTypes
  <2>3. \A i \in Instances : FlushOK(i)' BY <2>1, OrderParts, FlushFrame DEF SameFlush
  <2>4. \A i \in Instances, p \in Partitions : PairOK(i, p)'
    BY <2>1, OrderParts, PairFrame DEF SamePair
  <2> QED BY <2>2, <2>3, <2>4, OrderBy
<1>2. ASSUME NEW i \in Instances, Group(i) PROVE OrderInv'
  <2>1. \A ps \in SUBSET Partitions : ~RevokeWhileClosing(i, ps) BY DEF RevokeWhileClosing
  <2> QED BY <1>2, <2>1, OLoopStep, ORevokeStep, OAssignStep, ODeathStep DEF Group, Crash
<1>3. ASSUME NEW i \in Instances, run(i) PROVE OrderInv'
  BY <1>3, OLoopStep, OPollStep, OReleaseStep DEF run, Poll
<1>a. ASSUME NEW i \in Instances, OnPartitionsRevoked(i) PROVE OrderInv'
  BY <1>a, OBarrierStep, ODeathStep, OReleaseStep DEF OnPartitionsRevoked, SendPanics, FlushTimedOut
<1>4. ASSUME NEW i \in Instances, CommitWorker(i) PROVE OrderInv'
  BY <1>4, OTakeStep, OCommitStep, OExitStep DEF CommitWorker
<1>5. ASSUME NEW i \in Instances, NEW p \in Partitions, ProcessPartition(i, p) PROVE OrderInv'
  BY <1>5, OGoroutineStep, OEnqueueStep DEF ProcessPartition
<1> QED BY <1>1, <1>2, <1>3, <1>a, <1>4, <1>5 DEF KNext, Stopped

Ordered == skipped = TRUE \/ OrderInv

LEMMA OrderInvariant ==
    ASSUME "timeout" \notin Faults PROVE KSpec => [](KInv /\ Ordered)
<1>1. KInit => KInv /\ Ordered BY KStart, OStart DEF Ordered
<1>2. KInv /\ Ordered /\ [KNext]_kvars => (KInv /\ Ordered)'
  BY KStep, OrderStep, SkippedStays DEF Ordered
<1> QED BY <1>1, <1>2, PTL DEF KSpec

(* Only the commit worker moves committed offsets, and only up. *)
LEMMA StepsClimb ==
    ASSUME KInv, OrderInv, [KNext]_kvars
    PROVE  \A p \in Partitions : committed'[p] \in Nat /\ committed[p] \in Nat
                                 /\ committed'[p] >= committed[p]
<1>0. committed \in [Partitions -> Nat] BY DEF KInv, KTypes
<1>1. CASE committed' = committed BY <1>0, <1>1
<1>2. ASSUME NEW i \in Instances, CommitRecords(i) \/ CommitFails(i)
      PROVE  \A p \in Partitions : committed'[p] \in Nat /\ committed[p] \in Nat
                                   /\ committed'[p] >= committed[p]
  <2> DEFINE t == cw[i].task
  <2>1. /\ cw[i].pc = "committing"
        /\ committed' = committed \/ committed' = [committed EXCEPT ![t.part] = t.upTo]
    BY <1>2 DEF CommitRecords, CommitFails, StoreOffset
  <2>2. /\ t.part \in Partitions /\ t.upTo \in Nat /\ committed[t.part] \in Nat
        /\ committed[t.part] <= t.upTo
    BY <2>1, CommitsClimb
  <2> HIDE DEF t
  <2>3. CASE committed' = [committed EXCEPT ![t.part] = t.upTo] BY <2>2, <2>3, <1>0
  <2> QED BY <1>1, <2>1, <2>3
<1>3. \/ committed' = committed
      \/ \E i \in Instances : CommitRecords(i) \/ CommitFails(i)
  <2>1. CASE UNCHANGED kvars BY <2>1 DEF kvars, broker
  <2>2. ASSUME NEW i \in Instances, Group(i) PROVE committed' = committed
    BY <2>2 DEF Group, Subscribe, Crash, ProcessDies, Close, Assign, Revoke, RevokeWhileClosing, broker
  <2>3. ASSUME NEW i \in Instances, run(i) PROVE committed' = committed
    BY <2>3 DEF run, Poll, CheckCtx, PollNothing, PollCancelled, PollRecords, PollPartlyFailed,
                BatchDone, AllowRebalance, BeginDrain, ShutdownDone, broker
  <2>a. ASSUME NEW i \in Instances, OnPartitionsRevoked(i) PROVE committed' = committed
    BY <2>a DEF OnPartitionsRevoked, SendBarrier, SendPanics, ProcessDies, FlushDone, FlushTimedOut,
                broker
  <2>4. ASSUME NEW i \in Instances, TakeTask(i) \/ RetryCommit(i) \/ AbandonCommit(i) \/ WorkerExit(i)
        PROVE  committed' = committed
    BY <2>4 DEF TakeTask, RetryCommit, AbandonCommit, WorkerExit, broker
  <2>5. ASSUME NEW i \in Instances, NEW p \in Partitions, ProcessPartition(i, p)
        PROVE  committed' = committed
    BY <2>5 DEF ProcessPartition, AcquireSem, NextRecord, Handle, EnqueueCommit, EnqueueDropped,
                PartitionDone, broker
  <2> QED BY <2>1, <2>2, <2>3, <2>a, <2>4, <2>5 DEF KNext, CommitWorker, Stopped
<1> QED BY <1>1, <1>2, <1>3

(* Unless a wait times out or a partition is taken from an instance that is     *)
(* closing, no committed offset ever moves back: for any number of instances,   *)
(* through rebalances, crashes, lost fetches, failed and repeated commits,      *)
(* panics of the callback and shutdown, the flush barrier of                    *)
(* onPartitionsRevoked orders the commits of two owners (consumer.go:410).      *)
THEOREM OrderedCommits ==
    ASSUME "timeout" \notin Faults PROVE KSpec => CommitsNeverRewind
<1>1. KInv /\ Ordered /\ [KNext]_kvars
        => [skipped \/ \A p \in Partitions : committed'[p] >= committed[p]]_kvars
  BY StepsClimb DEF Ordered
<1> QED BY <1>1, OrderInvariant, PTL DEF KSpec, CommitsNeverRewind

(* Unless a wait times out or a partition is taken from an instance that is     *)
(* closing, an instance that was closed without a failed commit or a given up   *)
(* batch has committed all that it handled, whatever rebalances, crashes and    *)
(* retries came before (shutdown, commitWorker).                                *)
THEOREM ClosedIsCommitted ==
    ASSUME "timeout" \notin Faults PROVE KSpec => []CloseCommitsEnqueued
<1>1. KInv /\ Ordered => CloseCommitsEnqueued
  <2> SUFFICES ASSUME KInv, Ordered, NEW i \in Instances, at[i] = "closed", ~failed[i], ~dropped[i],
                      ~skipped, NEW p \in Partitions
               PROVE  ~(committed[p] < reached[i][p])
    BY DEF CloseCommitsEnqueued, Behind
  <2>0. OrderInv BY DEF Ordered
  <2>1. FlushOK(i) /\ CoveredOK(i, p) /\ WorkerOK(i, p) BY <2>0 DEF KInv, InstanceOK, OrderInv
  <2>2. cw[i].pc = "exited" /\ commitCh[i] = <<>> BY <2>1 DEF FlushOK
  <2>3. work[i][p].pc = "idle" BY <2>1 DEF WorkerOK
  <2>4. reached[i][p] <= committed[p] BY <2>1, <2>2, <2>3 DEF CoveredOK, InCommit
  <2>5. reached[i][p] \in Nat /\ committed[p] \in Nat BY <2>0 DEF KInv, KTypes, OrderInv, OTypes
  <2> QED BY <2>4, <2>5
<1> QED BY <1>1, OrderInvariant, PTL

------------------------------------------------------------------------------
(* Each record once *)

NothingFails == Faults \cap {"commit", "timeout", "crash"} = {} /\ Closers = {}

SameOnce ==
    /\ owner' = owner /\ committed' = committed /\ handled' = handled /\ again' = again
    /\ reached' = reached /\ dropped' = dropped /\ failed' = failed /\ ctxDone' = ctxDone
    /\ skipped' = skipped

(* Steps that neither handle, commit nor move a partition. *)
LEMMA CalmStep ==
    ASSUME OnceInv, SameOnce, \A i \in Instances : at'[i] \notin {"drain", "draining", "closed"}
    PROVE  OnceInv'
    BY DEF OnceInv, Calm, OnceOK, SameOnce

LEMMA Impossible ==
    ASSUME NothingFails, KInv, OnceInv, NEW i \in Instances
    PROVE  /\ ~Crash(i) /\ ~Close(i) /\ ~PollCancelled(i) /\ ~FlushTimedOut(i) /\ ~BeginDrain(i)
           /\ ~ShutdownDone(i) /\ ~CommitFails(i) /\ ~AbandonCommit(i) /\ ~SendPanics(i)
           /\ \A ps \in SUBSET Partitions : ~RevokeWhileClosing(i, ps)
           /\ \A p \in Partitions : ~EnqueueDropped(i, p)
<1>1. Calm(i) BY DEF OnceInv
<1>2. ~closing[i] BY <1>1 DEF KInv, InstanceOK, ClosingOK, Calm
<1> QED BY <1>1, <1>2 DEF Calm, NothingFails, Crash, Close, PollCancelled, FlushTimedOut, BeginDrain,
         ShutdownDone, CommitFails, AbandonCommit, SendPanics, RevokeWhileClosing, EnqueueDropped

LEMMA OnceStep ==
    ASSUME NothingFails PROVE KInv /\ OrderInv /\ OnceInv /\ [KNext]_kvars => OnceInv'
<1> SUFFICES ASSUME KInv, OrderInv, OnceInv, [KNext]_kvars PROVE OnceInv' OBVIOUS
<1>0. KTypes /\ OTypes /\ \A i \in Instances : Calm(i) BY DEF KInv, OrderInv, OnceInv
<1>a. at \in [Instances -> Places] BY <1>0 DEF KTypes
<1>1. CASE UNCHANGED kvars
  <2>1. SameOnce /\ at' = at
    BY <1>1 DEF SameOnce, kvars, broker, loopVars, history
  <2> QED BY <2>1, <1>0, CalmStep DEF Calm
<1>2. ASSUME NEW i \in Instances,
             \/ Subscribe(i) \/ CheckCtx(i) \/ PollNothing(i) \/ BatchDone(i) \/ AllowRebalance(i)
             \/ SendBarrier(i) \/ (\E ps \in SUBSET Partitions : Revoke(i, ps))
             \/ (\E to \in Positions : PollRecords(i, to) \/ PollPartlyFailed(i, to))
      PROVE  OnceInv'
  <2>1. SameOnce
    <3>1. CASE Subscribe(i) \/ CheckCtx(i) \/ PollNothing(i) \/ BatchDone(i) \/ AllowRebalance(i)
      BY <3>1 DEF SameOnce, Subscribe, CheckCtx, PollNothing, BatchDone, AllowRebalance, broker, history
    <3>2. CASE SendBarrier(i) \/ \E ps \in SUBSET Partitions : Revoke(i, ps)
      BY <3>2 DEF SameOnce, SendBarrier, Revoke, broker, loopVars, history
    <3>3. CASE \E to \in Positions : PollRecords(i, to) \/ PollPartlyFailed(i, to)
      BY <3>3 DEF SameOnce, PollRecords, PollPartlyFailed, broker, history
    <3> QED BY <1>2, <3>1, <3>2, <3>3
  <2>2. at' = at \/ \E x \in {"check", "polling", "allow", "process"} : at' = [at EXCEPT ![i] = x]
    BY <1>2, <1>0 DEF Calm, Subscribe, CheckCtx, PollNothing, BatchDone, AllowRebalance, SendBarrier,
                Revoke, PollRecords, PollPartlyFailed, Goto, loopVars
  <2>3. \A j \in Instances : at'[j] \notin {"drain", "draining", "closed"}
    BY <2>2, <1>0, <1>a DEF Calm
  <2> QED BY <2>1, <2>3, CalmStep
<1>3. ASSUME NEW i \in Instances, NEW p \in Partitions,
             \/ AcquireSem(i, p) \/ NextRecord(i, p) \/ EnqueueCommit(i, p) \/ PartitionDone(i, p)
      PROVE  OnceInv'
  <2>1. SameOnce /\ at' = at
    BY <1>3 DEF SameOnce, AcquireSem, NextRecord, EnqueueCommit,
                PartitionDone, broker, loopVars, history
  <2> QED BY <2>1, <1>0, CalmStep DEF Calm
<1>b. ASSUME NEW i \in Instances, TakeTask(i) \/ RetryCommit(i) \/ WorkerExit(i) PROVE OnceInv'
  <2>1. SameOnce /\ at' = at
    BY <1>b DEF SameOnce, TakeTask, RetryCommit, WorkerExit, broker, loopVars, history
  <2> QED BY <2>1, <1>0, CalmStep DEF Calm
<1>4. ASSUME NEW i \in Instances, NEW q \in Partitions, Assign(i, q) PROVE OnceInv'
  <2>1. /\ owner[q] = Nil /\ owner' = [owner EXCEPT ![q] = i]
        /\ reached' = [reached EXCEPT ![i][q] = 0] /\ committed' = committed /\ handled' = handled
        /\ again' = again /\ at' = at /\ ctxDone' = ctxDone /\ dropped' = dropped /\ failed' = failed
        /\ skipped' = skipped
    BY <1>4 DEF Assign
  <2>2. ASSUME NEW p \in Partitions PROVE OnceOK(p)'
    <3>1. OnceOK(p) BY DEF OnceInv
    <3>2. CASE p = q BY <3>1, <3>2, <2>1, KafkaNone DEF OnceOK
    <3>3. CASE p # q
      <4>1. owner'[p] = owner[p] BY <3>3, <2>1, <1>0 DEF OTypes
      <4>2. \A j \in Instances : reached'[j][p] = reached[j][p] BY <3>3, <2>1, <1>0 DEF OTypes
      <4> QED BY <3>1, <4>1, <4>2, <2>1 DEF OnceOK
    <3> QED BY <3>2, <3>3
  <2> QED BY <2>1, <2>2 DEF OnceInv, Calm
<1>5. ASSUME NEW i \in Instances, CommitRecords(i) PROVE OnceInv'
  <2>1. /\ owner' = owner /\ handled' = handled /\ again' = again /\ reached' = reached /\ at' = at
        /\ ctxDone' = ctxDone /\ dropped' = dropped /\ failed' = failed /\ skipped' = skipped
    BY <1>5 DEF CommitRecords, loopVars, history
  <2>2. ASSUME NEW p \in Partitions PROVE OnceOK(p)'
    <3>1. OnceOK(p) /\ handled[p] \in SUBSET Nat BY <1>0 DEF OnceInv, KTypes
    <3>2. committed'[p] \in Nat /\ committed[p] \in Nat /\ committed'[p] >= committed[p]
      BY StepsClimb
    <3>3. \A o \in handled[p] : o < committed[p] => o < committed'[p] BY <3>1, <3>2
    <3> QED BY <3>1, <3>3, <2>1 DEF OnceOK
  <2> QED BY <2>1, <2>2 DEF OnceInv, Calm
<1>6. ASSUME NEW i \in Instances, NEW q \in Partitions, Handle(i, q) PROVE OnceInv'
  <2> DEFINE n == work[i][q].next
  <2>1. /\ work[i][q].pc = "handle" /\ handled' = [handled EXCEPT ![q] = @ \cup {n}]
        /\ again' = (again \/ n \in handled[q]) /\ reached' = [reached EXCEPT ![i][q] = n + 1]
        /\ owner' = owner /\ committed' = committed /\ at' = at
        /\ ctxDone' = ctxDone /\ dropped' = dropped /\ failed' = failed /\ skipped' = skipped
    BY <1>6 DEF Handle, broker, loopVars
  <2>2. HeldOK(i, q) /\ ReachedOK(i, q) BY DEF OrderInv
  <2>3. /\ n \in Nat /\ work[i][q].lo \in Nat /\ committed[q] \in Nat /\ reached[i][q] \in Nat
        /\ handled[q] \in SUBSET Nat
    BY <1>0 DEF KTypes, OTypes
  <2>4. owner[q] = i /\ committed[q] <= n /\ reached[i][q] <= n
    BY <2>1, <2>2, <2>3 DEF HeldOK, ReachedOK, Sent, Front
  <2> HIDE DEF n
  <2>5. n \notin handled[q]
    <3>1. OnceOK(q) BY DEF OnceInv
    <3> QED BY <3>1, <2>3, <2>4 DEF OnceOK
  <2>6. ASSUME NEW p \in Partitions PROVE OnceOK(p)'
    <3>1. OnceOK(p) BY DEF OnceInv
    <3>2. CASE p = q
      <4>1. handled'[q] = handled[q] \cup {n} /\ reached'[i][q] = n + 1
        BY <2>1, <1>0 DEF KTypes, OTypes
      <4>2. \A o \in handled[q] : o < reached[i][q] => o < n + 1 BY <2>3, <2>4
      <4>3. n < n + 1 BY <2>3
      <4> QED BY <3>1, <3>2, <4>1, <4>2, <4>3, <2>1, <2>4 DEF OnceOK
    <3>3. CASE p # q
      <4>1. handled'[p] = handled[p] /\ \A j \in Instances : reached'[j][p] = reached[j][p]
        BY <3>3, <2>1, <1>0 DEF KTypes, OTypes
      <4> QED BY <3>1, <4>1, <2>1 DEF OnceOK
    <3> QED BY <3>2, <3>3
  <2> QED BY <2>1, <2>5, <2>6 DEF OnceInv, Calm
<1>7. ASSUME NEW i \in Instances, FlushDone(i) PROVE OnceInv'
  <2>1. /\ cb[i] = "flushing" /\ flushed[i] = revokes[i] /\ at' = at
        /\ owner' = [p \in Partitions |-> IF p \in taken[i] THEN Nil ELSE owner[p]]
        /\ committed' = committed /\ handled' = handled /\ again' = again /\ reached' = reached
        /\ ctxDone' = ctxDone /\ dropped' = dropped /\ failed' = failed /\ skipped' = skipped
    BY <1>7 DEF FlushDone, Flushed, Handover, Released, loopVars, history
  <2>2. FlushOK(i) /\ CallbackOK(i) BY DEF OrderInv, KInv, InstanceOK
  <2>3. /\ commitCh[i] = <<>> /\ cw[i].pc \in {"idle", "exited"} /\ at[i] # "process"
        /\ \A p \in taken[i] : owner[p] = i
    BY <2>1, <2>2, <1>0 DEF FlushOK, OTypes, CallbackOK, CanRebalance
  <2>4. ASSUME NEW p \in Partitions PROVE OnceOK(p)'
    <3>1. OnceOK(p) BY DEF OnceInv
    <3>2. CASE p \in taken[i]
      <4>1. CoveredOK(i, p) /\ WorkerOK(i, p) /\ owner[p] = i
        BY <3>2, <2>3 DEF OrderInv, KInv, InstanceOK
      <4>2. reached[i][p] <= committed[p]
        BY <4>1, <2>1, <2>3, <1>0 DEF CoveredOK, WorkerOK, InCommit, Calm
      <4>3. reached[i][p] \in Nat /\ committed[p] \in Nat /\ handled[p] \in SUBSET Nat
        BY <1>0 DEF KTypes, OTypes
      <4>4. \A o \in handled[p] : o < committed[p] BY <3>1, <4>1, <4>2, <4>3 DEF OnceOK
      <4> QED BY <4>4, <2>1 DEF OnceOK
    <3>3. CASE p \notin taken[i] BY <3>1, <3>3, <2>1 DEF OnceOK
    <3> QED BY <3>2, <3>3
  <2> QED BY <2>1, <2>4 DEF OnceInv, Calm
<1>8. ASSUME NEW i \in Instances, Group(i) PROVE OnceInv'
  BY <1>8, <1>2, <1>4, Impossible DEF Group
<1>9. ASSUME NEW i \in Instances, run(i) PROVE OnceInv'
  BY <1>9, <1>2, Impossible DEF run, Poll
<1>c. ASSUME NEW i \in Instances, OnPartitionsRevoked(i) PROVE OnceInv'
  BY <1>c, <1>2, <1>7, Impossible DEF OnPartitionsRevoked
<1>10. ASSUME NEW i \in Instances, CommitWorker(i) PROVE OnceInv'
  BY <1>10, <1>b, <1>5, Impossible DEF CommitWorker
<1>11. ASSUME NEW i \in Instances, NEW p \in Partitions, ProcessPartition(i, p) PROVE OnceInv'
  BY <1>11, <1>3, <1>6, Impossible DEF ProcessPartition
<1> QED BY <1>1, <1>8, <1>9, <1>c, <1>10, <1>11 DEF KNext, Stopped

(* While no commit fails, no wait times out, nothing crashes and nobody is      *)
(* closed, no record is handled twice, however often its partition is handed    *)
(* from one instance to another and whatever fetches are lost (consumer.go:487).*)
THEOREM DeliveredToOne == ASSUME NothingFails PROVE KSpec => []HandledOnce
<1>0. "timeout" \notin Faults BY DEF NothingFails
<1>1. KInit => OnceInv BY DEF KInit, OnceInv, Calm, OnceOK
<1>2. KInv /\ Ordered /\ OnceInv /\ [KNext]_kvars => OnceInv' BY OnceStep DEF Ordered, OnceInv
<1>3. OnceInv => HandledOnce BY DEF OnceInv, HandledOnce
<1> QED BY <1>0, <1>1, <1>2, <1>3, OrderInvariant, PTL DEF KSpec
==============================================================================
