---------------------------- MODULE KafkaConsumer ----------------------------
(***************************************************************************)
(* A consumer group over one topic (pkg/kafka/consumer.go).  An instance   *)
(* is one ConsumerGrp: the poll loop (run), one goroutine per polled       *)
(* partition (processPartition) and the commit worker behind the bounded   *)
(* channel commitCh.  The broker, the group's assignments and what the     *)
(* client library promises are external: they are modelled from how the    *)
(* code uses them.  The client calls onPartitionsRevoked on a goroutine of *)
(* its own, never between a poll that returned and AllowRebalance, and a   *)
(* poll returns nothing while the callback runs (BlockRebalanceOnPoll);    *)
(* but the callback may run beside shutdown.                               *)
(***************************************************************************)
EXTENDS Integers, Sequences, FiniteSets

CONSTANTS
    Instances,        \* consumer groups' members, one per process
    Partitions,       \* partitions of the topic
    Records,          \* records in each partition, at offsets 0..Records-1
    MaxPollRecords,   \* maxPollRecords
    CommitBatchSize,  \* commitBatchSize
    CommitChanCap,    \* commitChanCap
    MaxWorkers,       \* maxWorkers, the capacity of sem
    CommitMaxRetry,   \* commitMaxRetry
    Faults,           \* what may go wrong: "fetch", "commit", "timeout", "crash"
    Closers,          \* instances that may be closed
    MaxRevokes,       \* bound: rebalances that take partitions from an instance
    MaxStarts,        \* bound: starts of each instance
    Nil               \* no instance, no partition

ASSUME KafkaNumbers ==
    /\ Records \in Nat /\ CommitMaxRetry \in Nat
    /\ {MaxPollRecords, CommitBatchSize, CommitChanCap, MaxWorkers} \subseteq Nat \ {0}
ASSUME KafkaNone == Nil \notin Instances /\ Nil \notin Partitions

VARIABLES
    owner, committed,   \* broker: the instance a partition is assigned to, its offset
    at,                 \* at[i]: where the poll loop of i is
    ctxDone,            \* ctxDone[i]: cg.ctx is cancelled
    pos,                \* pos[i][p]: next offset the client of i fetches from p
    work,               \* work[i][p]: the goroutine for p of the current poll
    commitCh, closing,  \* fields of the ConsumerGrp; commitCh is closed with closing set
    cw,                 \* cw[i]: the commit worker
    cb,                 \* cb[i]: where the revoke callback of i is
    taken,              \* taken[i]: partitions the rebalance under way takes from i
    revokes, flushed,   \* flush barriers sent, and the last one the worker reached
    starts,             \* starts[i]: how often i was started
    handled, again,     \* history: offsets handled, and whether one was handled twice
    reached,            \* history: reached[i][p], one past the last offset i handled
    dropped, failed,    \* history: i gave an enqueue up; a commit failed or a wait timed out
    skipped             \* history: a revocation found its instance closing and did not flush

broker   == <<owner, committed>>
loopVars == <<at, ctxDone, pos, starts>>
callback == <<cb, taken>>
chanVars == <<commitCh, closing, cw, revokes, flushed>>
history  == <<handled, again, reached, dropped, failed, skipped>>
kvars    == <<broker, loopVars, callback, work, chanVars, history>>

IdleWork == [pc |-> "idle", lo |-> 0, next |-> 0, end |-> 0]

Batch(p, k)  == [sync |-> FALSE, part |-> p, upTo |-> k]
Barrier(n)   == [sync |-> TRUE, part |-> Nil, upTo |-> n]
IdleWorker   == [pc |-> "idle", task |-> Barrier(0), attempt |-> 0]

KInit ==
    /\ owner = [p \in Partitions |-> Nil]
    /\ committed = [p \in Partitions |-> 0]
    /\ at = [i \in Instances |-> "down"]
    /\ ctxDone = [i \in Instances |-> FALSE]
    /\ pos = [i \in Instances |-> [p \in Partitions |-> 0]]
    /\ work = [i \in Instances |-> [p \in Partitions |-> IdleWork]]
    /\ commitCh = [i \in Instances |-> <<>>]
    /\ closing = [i \in Instances |-> FALSE]
    /\ cw = [i \in Instances |-> IdleWorker]
    /\ cb = [i \in Instances |-> "idle"]
    /\ taken = [i \in Instances |-> {}]
    /\ revokes = [i \in Instances |-> 0]
    /\ flushed = [i \in Instances |-> 0]
    /\ starts = [i \in Instances |-> 0]
    /\ handled = [p \in Partitions |-> {}]
    /\ again = FALSE
    /\ reached = [i \in Instances |-> [p \in Partitions |-> 0]]
    /\ dropped = [i \in Instances |-> FALSE]
    /\ failed = [i \in Instances |-> FALSE]
    /\ skipped = FALSE

Owned(i) == {p \in Partitions : owner[p] = i}

Goto(i, pc) == at' = [at EXCEPT ![i] = pc]

SetWork(i, p, w) == work' = [work EXCEPT ![i][p] = w]

------------------------------------------------------------------------------
(* The group, the process and its crashes *)

(* subscribe and start: a new client, an empty channel, both goroutines. *)
Subscribe(i) ==
    /\ at[i] = "down" /\ starts[i] < MaxStarts
    /\ Goto(i, "check")
    /\ starts' = [starts EXCEPT ![i] = @ + 1]
    /\ UNCHANGED <<broker, ctxDone, pos, callback, work, chanVars, history>>

(* The group gives a free partition to a member that is not between a poll    *)
(* and AllowRebalance; fetching resumes at the committed offset.              *)
Assign(i, p) ==
    /\ owner[p] = Nil /\ at[i] \in {"check", "polling"} /\ cb[i] = "idle"
    /\ owner' = [owner EXCEPT ![p] = i]
    /\ pos' = [pos EXCEPT ![i][p] = committed[p]]
    /\ reached' = [reached EXCEPT ![i][p] = 0]
    /\ UNCHANGED <<committed, at, ctxDone, starts, callback, work, chanVars,
                   handled, again, dropped, failed, skipped>>

(* The process of i ends: its goroutines and its client are gone. *)
ProcessDies(i) ==
    /\ Goto(i, "down")
    /\ owner' = [p \in Partitions |-> IF owner[p] = i THEN Nil ELSE owner[p]]
    /\ ctxDone' = [ctxDone EXCEPT ![i] = FALSE]
    /\ pos' = [pos EXCEPT ![i] = [p \in Partitions |-> 0]]
    /\ cb' = [cb EXCEPT ![i] = "idle"]
    /\ taken' = [taken EXCEPT ![i] = {}]
    /\ work' = [work EXCEPT ![i] = [p \in Partitions |-> IdleWork]]
    /\ commitCh' = [commitCh EXCEPT ![i] = <<>>]
    /\ closing' = [closing EXCEPT ![i] = FALSE]
    /\ cw' = [cw EXCEPT ![i] = IdleWorker]
    /\ reached' = [reached EXCEPT ![i] = [p \in Partitions |-> 0]]
    /\ dropped' = [dropped EXCEPT ![i] = FALSE]
    /\ failed' = [failed EXCEPT ![i] = FALSE]
    /\ UNCHANGED <<committed, starts, revokes, flushed, handled, again, skipped>>

Crash(i) == "crash" \in Faults /\ at[i] \notin {"down", "closed"} /\ ProcessDies(i)

(* Consumer.Close cancels the context and waits for the poll loop. *)
Close(i) ==
    /\ i \in Closers /\ at[i] \notin {"down", "closed"} /\ ~ctxDone[i]
    /\ ctxDone' = [ctxDone EXCEPT ![i] = TRUE]
    /\ UNCHANGED <<broker, at, pos, starts, callback, work, chanVars, history>>

------------------------------------------------------------------------------
(* run: poll, process, allow a rebalance *)

(* Mutant: the loop polls on after the context is cancelled. *)
CheckCtx_ignored(i) ==
    /\ at[i] = "check"
    /\ Goto(i, "polling")
    /\ UNCHANGED <<broker, ctxDone, pos, starts, callback, work, chanVars, history>>

CheckCtx(i) ==
    /\ at[i] = "check"
    /\ Goto(i, IF ctxDone[i] THEN "drain" ELSE "polling")
    /\ UNCHANGED <<broker, ctxDone, pos, starts, callback, work, chanVars, history>>

(* The next positions of a poll that returns up to maxPollRecords records. *)
Fetchable(i, to) ==
    /\ \A p \in Partitions : pos[i][p] <= to[p] /\ (owner[p] # i => to[p] = pos[i][p])
    /\ Cardinality({r \in Partitions \X (0..Records) : pos[i][r[1]] <= r[2] /\ r[2] < to[r[1]]})
           \in 1..MaxPollRecords

(* processFetchedRecords starts a goroutine for every partition with records. *)
PollRecords(i, to) ==
    /\ at[i] = "polling" /\ cb[i] = "idle"
    /\ Fetchable(i, to)
    /\ pos' = [pos EXCEPT ![i] = to]
    /\ work' = [work EXCEPT ![i] = [p \in Partitions |->
                  IF to[p] = pos[i][p] THEN IdleWork
                  ELSE [pc |-> "sem", lo |-> pos[i][p], next |-> pos[i][p], end |-> to[p]]]]
    /\ Goto(i, "process")
    /\ UNCHANGED <<broker, ctxDone, starts, callback, chanVars, history>>

(* A poll error, or no records: AllowRebalance, back off, poll again. *)
PollNothing(i) ==
    /\ at[i] = "polling" /\ cb[i] = "idle"
    /\ Goto(i, "allow")
    /\ UNCHANGED <<broker, ctxDone, pos, starts, callback, work, chanVars, history>>

(* One partition failed to fetch: what the others returned is not processed,  *)
(* but the client has moved past it.                                          *)
PollPartlyFailed(i, to) ==
    /\ "fetch" \in Faults /\ at[i] = "polling" /\ cb[i] = "idle"
    /\ Fetchable(i, to) /\ \E p \in Owned(i) : to[p] = pos[i][p]
    /\ pos' = [pos EXCEPT ![i] = to]
    /\ Goto(i, "allow")
    /\ UNCHANGED <<broker, ctxDone, starts, callback, work, chanVars, history>>

PollCancelled(i) ==
    /\ at[i] = "polling" /\ ctxDone[i]
    /\ Goto(i, "drain")
    /\ UNCHANGED <<broker, ctxDone, pos, starts, callback, work, chanVars, history>>

(* Mutant: processFetchedRecords does not wait for its goroutines. *)
Processed_unwaited(i) == TRUE

Processed(i) == \A p \in Partitions : work[i][p].pc = "idle"

BatchDone(i) ==
    /\ at[i] = "process" /\ Processed(i)
    /\ Goto(i, "allow")
    /\ UNCHANGED <<broker, ctxDone, pos, starts, callback, work, chanVars, history>>

AllowRebalance(i) ==
    /\ at[i] = "allow"
    /\ Goto(i, "check")
    /\ UNCHANGED <<broker, ctxDone, pos, starts, callback, work, chanVars, history>>

------------------------------------------------------------------------------
(* processPartition and enqueueCommit *)

RunningParts(i) == {p \in Partitions : work[i][p].pc \notin {"idle", "sem"}}

AcquireSem(i, p) ==
    /\ work[i][p].pc = "sem" /\ Cardinality(RunningParts(i)) < MaxWorkers
    /\ SetWork(i, p, [work[i][p] EXCEPT !.pc = "loop"])
    /\ UNCHANGED <<broker, loopVars, callback, chanVars, history>>

(* The head of the loop: leave it when the records or the context are done. *)
NextRecord(i, p) ==
    LET w == work[i][p] IN
    /\ w.pc = "loop"
    /\ SetWork(i, p, [w EXCEPT !.pc =
           IF w.next < w.end /\ ~ctxDone[i] THEN "handle"
           ELSE IF w.lo < w.next THEN "flush" ELSE "done"])
    /\ UNCHANGED <<broker, loopVars, callback, chanVars, history>>

(* One more record is processed; a full batch, or the last record, is enqueued. *)
AfterHandle(w) ==
    [pc   |-> IF w.next + 1 - w.lo >= CommitBatchSize \/ w.next + 1 = w.end
              THEN "enqueue" ELSE "loop",
     lo   |-> w.lo, next |-> w.next + 1, end |-> w.end]

(* safeHandler returned, or recovered a panic: the record counts as processed. *)
Handle(i, p) ==
    LET w == work[i][p] IN
    /\ w.pc = "handle"
    /\ SetWork(i, p, AfterHandle(w))
    /\ handled' = [handled EXCEPT ![p] = @ \cup {w.next}]
    /\ again' = (again \/ w.next \in handled[p])
    /\ reached' = [reached EXCEPT ![i][p] = w.next + 1]
    /\ UNCHANGED <<broker, loopVars, callback, chanVars, dropped, failed, skipped>>

(* Mutant: the batch names all the records fetched, not the ones handled. *)
BatchOf_all(p, w) == Batch(p, w.end)

BatchOf(p, w) == Batch(p, w.next)

(* Mutant: the goroutine returns after its first batch. *)
AfterEnqueue_returns(w) == "done"

AfterEnqueue(w) == IF w.pc = "enqueue" THEN "loop" ELSE "done"

(* Room in the channel; the send that finds none waits. *)
EnqueueCommit(i, p) ==
    LET w == work[i][p] IN
    /\ w.pc \in {"enqueue", "flush"}
    /\ ~closing[i] /\ Len(commitCh[i]) < CommitChanCap
    /\ commitCh' = [commitCh EXCEPT ![i] = Append(@, BatchOf(p, w))]
    /\ SetWork(i, p, [w EXCEPT !.lo = w.next, !.pc = AfterEnqueue(w)])
    /\ UNCHANGED <<broker, loopVars, callback, closing, cw, revokes, flushed, history>>

(* The batch is given up: the consumer is closing, the context of the enqueue  *)
(* in the loop is cancelled, or the one of the final flush timed out.          *)
EnqueueDropped(i, p) ==
    LET w == work[i][p] IN
    /\ \/ w.pc \in {"enqueue", "flush"} /\ closing[i]
       \/ w.pc = "enqueue" /\ ctxDone[i]
       \/ w.pc = "flush" /\ "timeout" \in Faults /\ Len(commitCh[i]) = CommitChanCap
    /\ SetWork(i, p, [w EXCEPT !.lo = w.next, !.pc = AfterEnqueue(w)])
    /\ dropped' = [dropped EXCEPT ![i] = TRUE]
    /\ UNCHANGED <<broker, loopVars, callback, chanVars, handled, again, reached, failed, skipped>>

PartitionDone(i, p) ==
    /\ work[i][p].pc = "done"
    /\ SetWork(i, p, IdleWork)
    /\ UNCHANGED <<broker, loopVars, callback, chanVars, history>>

ProcessPartition(i, p) ==
    \/ AcquireSem(i, p) \/ NextRecord(i, p) \/ Handle(i, p)
    \/ EnqueueCommit(i, p) \/ EnqueueDropped(i, p) \/ PartitionDone(i, p)

------------------------------------------------------------------------------
(* commitWorker and commitWithRetry *)

SetWorker(i, pc, task, n) == cw' = [cw EXCEPT ![i] = [pc |-> pc, task |-> task, attempt |-> n]]

(* Mutant: the barrier of a flush overtakes the batches ahead of it. *)
Received_barrier_first(q) ==
    SelectSeq(q, LAMBDA t : t.sync) \o SelectSeq(q, LAMBDA t : ~t.sync)

(* The order in which the tasks in the channel are received. *)
Received(q) == q

TakeTask(i) ==
    LET q == Received(commitCh[i])
        t == Head(q)
    IN
    /\ cw[i].pc = "idle" /\ commitCh[i] # <<>>
    /\ commitCh' = [commitCh EXCEPT ![i] = Tail(q)]
    /\ IF t.sync
       THEN flushed' = [flushed EXCEPT ![i] = t.upTo] /\ cw' = cw
       ELSE SetWorker(i, "committing", t, 0) /\ flushed' = flushed
    /\ UNCHANGED <<broker, loopVars, callback, work, closing, revokes, history>>

StoreOffset(t) == committed' = [committed EXCEPT ![t.part] = t.upTo]

CommitRecords(i) ==
    /\ cw[i].pc = "committing" /\ at[i] # "closed"
    /\ StoreOffset(cw[i].task)
    /\ cw' = [cw EXCEPT ![i] = IdleWorker]
    /\ UNCHANGED <<owner, loopVars, callback, work, commitCh, closing, revokes, flushed, history>>

(* The last attempt, or the context is done when the wait for the next begins. *)
GivesUp(i) == cw[i].attempt = CommitMaxRetry \/ ctxDone[i]

AfterFailure(i) ==
    IF GivesUp(i)
    THEN cw' = [cw EXCEPT ![i] = IdleWorker] /\ failed' = [failed EXCEPT ![i] = TRUE]
    ELSE SetWorker(i, "backoff", cw[i].task, cw[i].attempt + 1) /\ failed' = failed

(* The commit returns an error, as it does with a closed client; the broker   *)
(* may have stored the offset all the same.                                   *)
CommitFails(i) ==
    /\ cw[i].pc = "committing" /\ ("commit" \in Faults \/ at[i] = "closed")
    /\ committed' = committed \/ (at[i] # "closed" /\ StoreOffset(cw[i].task))
    /\ AfterFailure(i)
    /\ UNCHANGED <<owner, loopVars, callback, work, commitCh, closing, revokes, flushed,
                   handled, again, reached, dropped, skipped>>

RetryCommit(i) ==
    /\ cw[i].pc = "backoff"
    /\ SetWorker(i, "committing", cw[i].task, cw[i].attempt)
    /\ UNCHANGED <<broker, loopVars, callback, work, commitCh, closing, revokes, flushed, history>>

AbandonCommit(i) ==
    /\ cw[i].pc = "backoff" /\ ctxDone[i]
    /\ cw' = [cw EXCEPT ![i] = IdleWorker]
    /\ failed' = [failed EXCEPT ![i] = TRUE]
    /\ UNCHANGED <<broker, loopVars, callback, work, commitCh, closing, revokes, flushed,
                   handled, again, reached, dropped, skipped>>

(* The range over the closed channel ends. *)
WorkerExit(i) ==
    /\ cw[i].pc = "idle" /\ commitCh[i] = <<>> /\ closing[i]
    /\ SetWorker(i, "exited", Barrier(0), 0)
    /\ UNCHANGED <<broker, loopVars, callback, work, commitCh, closing, revokes, flushed, history>>

CommitWorker(i) ==
    \/ TakeTask(i) \/ CommitRecords(i) \/ CommitFails(i)
    \/ RetryCommit(i) \/ AbandonCommit(i) \/ WorkerExit(i)

------------------------------------------------------------------------------
(* onPartitionsRevoked, on the goroutine of the client *)

(* The poll loop is not between a poll that returned and AllowRebalance. *)
CanRebalance(i) == at[i] \in {"check", "polling", "drain", "draining"}

Released(ps) == owner' = [p \in Partitions |-> IF p \in ps THEN Nil ELSE owner[p]]

SetCallback(i, pc, ps) ==
    /\ cb' = [cb EXCEPT ![i] = pc]
    /\ taken' = [taken EXCEPT ![i] = ps]

Revocable(i, ps) ==
    /\ CanRebalance(i) /\ cb[i] = "idle" /\ revokes[i] < MaxRevokes
    /\ ps # {} /\ ps \subseteq Owned(i)

(* closing.Load() is false: the callback goes on to send its barrier. *)
Revoke(i, ps) ==
    /\ Revocable(i, ps) /\ ~closing[i]
    /\ SetCallback(i, "send", ps)
    /\ UNCHANGED <<broker, loopVars, work, chanVars, history>>

(* closing.Load() is true: it returns at once, and the partitions are gone. *)
RevokeWhileClosing(i, ps) ==
    /\ Revocable(i, ps) /\ closing[i]
    /\ Released(ps)
    /\ skipped' = TRUE
    /\ UNCHANGED <<committed, loopVars, callback, work, chanVars,
                   handled, again, reached, dropped, failed>>

SendBarrier(i) ==
    /\ cb[i] = "send" /\ ~closing[i] /\ Len(commitCh[i]) < CommitChanCap
    /\ revokes' = [revokes EXCEPT ![i] = @ + 1]
    /\ commitCh' = [commitCh EXCEPT ![i] = Append(@, Barrier(revokes[i] + 1))]
    /\ SetCallback(i, "flushing", taken[i])
    /\ UNCHANGED <<broker, loopVars, work, closing, cw, flushed, history>>

(* The channel was closed in between: the send panics, and nothing recovers it. *)
SendPanics(i) == cb[i] = "send" /\ closing[i] /\ ProcessDies(i)

Handover(i) == Released(taken[i]) /\ SetCallback(i, "idle", {})

(* Mutant: the callback does not wait for the worker to reach its barrier. *)
Flushed_unwaited(i) == TRUE

Flushed(i) == flushed[i] = revokes[i]

FlushDone(i) ==
    /\ cb[i] = "flushing" /\ Flushed(i)
    /\ Handover(i)
    /\ UNCHANGED <<committed, loopVars, work, chanVars, history>>

(* The flush timer, or the callback's context, ends the wait. *)
FlushTimedOut(i) ==
    /\ "timeout" \in Faults /\ cb[i] # "idle"
    /\ Handover(i)
    /\ revokes' = [revokes EXCEPT ![i] = IF cb[i] = "send" THEN @ + 1 ELSE @]
    /\ failed' = [failed EXCEPT ![i] = TRUE]
    /\ UNCHANGED <<committed, loopVars, work, commitCh, closing, cw, flushed,
                   handled, again, reached, dropped, skipped>>

OnPartitionsRevoked(i) == SendBarrier(i) \/ SendPanics(i) \/ FlushDone(i) \/ FlushTimedOut(i)

------------------------------------------------------------------------------
(* shutdown *)

(* procWg.Wait, then closing is set and the channel closed. *)
BeginDrain(i) ==
    /\ at[i] = "drain" /\ Processed(i)
    /\ closing' = [closing EXCEPT ![i] = TRUE]
    /\ Goto(i, "draining")
    /\ UNCHANGED <<broker, ctxDone, pos, starts, callback, work, commitCh, cw, revokes, flushed,
                   history>>

(* Mutant: shutdown does not wait for the commit worker. *)
Drained_at_once(i) == TRUE

Drained(i) == cw[i].pc = "exited"

(* CloseAllowingRebalance: the client waits for a callback that still runs and   *)
(* leaves the group; onPartitionsRevoked, called for the rest, returns at once. *)
ShutdownDone(i) ==
    /\ at[i] = "draining" /\ cb[i] = "idle"
    /\ \/ Drained(i) /\ failed' = failed
       \/ "timeout" \in Faults /\ failed' = [failed EXCEPT ![i] = TRUE]
    /\ Released(Owned(i))
    /\ Goto(i, "closed")
    /\ UNCHANGED <<committed, ctxDone, pos, starts, callback, work, chanVars,
                   handled, again, reached, dropped, skipped>>

------------------------------------------------------------------------------
Positions == [Partitions -> 0..Records]

Poll(i) ==
    \/ PollNothing(i) \/ PollCancelled(i)
    \/ \E to \in Positions : PollRecords(i, to) \/ PollPartlyFailed(i, to)

run(i) ==
    \/ CheckCtx(i) \/ Poll(i) \/ BatchDone(i) \/ AllowRebalance(i)
    \/ BeginDrain(i) \/ ShutdownDone(i)

Group(i) ==
    \/ Subscribe(i) \/ Crash(i) \/ Close(i)
    \/ \E p \in Partitions : Assign(i, p)
    \/ \E ps \in SUBSET Partitions : Revoke(i, ps) \/ RevokeWhileClosing(i, ps)

Stopped ==
    /\ \A i \in Instances : at[i] \in {"closed", "down"} /\ (closing[i] => Drained(i))
    /\ \A i \in Instances : at[i] = "down" => starts[i] = MaxStarts
    /\ UNCHANGED kvars

KNext ==
    \/ \E i \in Instances :
          \/ Group(i) \/ run(i) \/ OnPartitionsRevoked(i) \/ CommitWorker(i)
          \/ \E p \in Partitions : ProcessPartition(i, p)
    \/ Stopped

KSpec == KInit /\ [][KNext]_kvars

(* Every goroutine of an instance is scheduled, handlers return, and a commit   *)
(* returns within commitTimeout.                                                *)
Scheduled ==
    \A i \in Instances :
        /\ WF_kvars(run(i)) /\ WF_kvars(OnPartitionsRevoked(i)) /\ WF_kvars(CommitWorker(i))
        /\ \A p \in Partitions : WF_kvars(ProcessPartition(i, p))

(* The group gives every partition to some instance, and the broker delivers   *)
(* the records it has.                                                         *)
Delivered ==
    /\ \A p \in Partitions : SF_kvars(\E i \in Instances : Assign(i, p))
    /\ SF_kvars(\E i \in Instances, to \in Positions : PollRecords(i, to))

CloseSpec == KSpec /\ Scheduled

DeliverySpec == KSpec /\ Scheduled /\ Delivered /\ \A i \in Instances : WF_kvars(Subscribe(i))

------------------------------------------------------------------------------
(* Properties *)

(* At-least-once delivery: an offset is committed only over records a handler  *)
(* has returned from, through rebalances, retries, time-outs, crashes and      *)
(* shutdown: "every record the handler returns from is treated as processed    *)
(* (at-least-once)" (consumer.go:261).                                         *)
CommittedWasHandled ==
    \A p \in Partitions : \A o \in 0..(committed[p] - 1) : o \in handled[p]

(* The committed offset of a partition never moves back, although the commits  *)
(* of two instances reach the broker independently: the flush barrier of       *)
(* onPartitionsRevoked orders them (consumer.go:410), unless a partition was   *)
(* taken from an instance that was closing, which does not flush.              *)
CommitsNeverRewind ==
    [][skipped \/ \A p \in Partitions : committed'[p] >= committed[p]]_kvars

(* While nothing fails and nobody is closed, each record is handled by exactly *)
(* one instance, rebalances included: "each message is delivered to exactly    *)
(* one instance" (consumer.go:487).                                            *)
HandledOnce == ~again

Behind(i) == \E p \in Partitions : committed[p] < reached[i][p]

(* Close "waits for the poll loops to drain and commit" (consumer.go:674):     *)
(* when no commit failed, no wait timed out and no enqueue was given up for    *)
(* the cancelled context, a closed instance has committed all it handled, and  *)
(* so it stays while no partition is taken from a closing instance.            *)
CloseCommitsEnqueued ==
    \A i \in Instances :
        at[i] = "closed" /\ ~failed[i] /\ ~dropped[i] /\ ~skipped => ~Behind(i)

Sending(i) == \E p \in Partitions : work[i][p].pc \in {"enqueue", "flush"}

(* No partition goroutine sends on commitCh after it is closed, which would    *)
(* panic, or has its batch turned away by closing: shutdown waits for all of   *)
(* them first, "before the goroutine, so shutdown's Wait can't race Add"       *)
(* (consumer.go:238).                                                          *)
WorkersLeaveBeforeClose == \A i \in Instances : closing[i] => ~Sending(i)

(* No goroutine at all sends on the closed channel: the callback looks at      *)
(* closing first and returns, "shutdown already drives the drain"              *)
(* (consumer.go:414).                                                          *)
NoSendAfterClose == \A i \in Instances : closing[i] => ~Sending(i) /\ cb[i] # "send"

(* Close returns: whatever the instance was doing, and whatever fails, its     *)
(* poll loop ends (consumer.go:675).                                           *)
CloseReturns == \A i \in Instances : ctxDone[i] ~> at[i] \in {"closed", "down"}

(* Without failures, once an instance is started every record is handled and   *)
(* committed in the end, across rebalances and with the channel full           *)
(* (processPartition, commitWorker).                                           *)
AllCommitted ==
    (\E i \in Instances : at[i] # "down") ~> (\A p \in Partitions : committed[p] = Records)
==============================================================================
