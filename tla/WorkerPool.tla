----------------------------- MODULE WorkerPool -----------------------------
(***************************************************************************)
(* One batch (pkg/engine/workerpool.go, Pool.Run): the calling goroutine   *)
(* starts the workers, feeds one job per user into a bounded channel,      *)
(* closes it, waits for the workers and merges their counters.  The        *)
(* workers share the results slice without a lock.                         *)
(***************************************************************************)
EXTENDS Integers, Sequences, FiniteSets, Functions

CONSTANTS
    N,            \* len(users)
    PoolWorkers,  \* Pool.workers, the requested number of workers
    GOMAXPROCS,   \* the default number of workers
    RuleIds,      \* ids of the rules of the snapshot the batch runs against
    Matches,      \* Matches[u]: ids whose Eval is true for user u, in slice order
    Unset         \* the zero value of a results slot

ASSUME NAssumption == N \in Nat
ASSUME WorkersAssumption == PoolWorkers \in Int /\ GOMAXPROCS \in Nat \ {0}
ASSUME MatchesAssumption ==
    /\ Matches \in [0..(N - 1) -> Seq(RuleIds)]
    /\ Unset \notin Seq(RuleIds)

Users == 0..(N - 1)

workers ==
    LET requested == IF PoolWorkers <= 0 THEN GOMAXPROCS ELSE PoolWorkers
    IN  IF N > 0 /\ requested > N THEN N ELSE requested

Workers == 0..(workers - 1)

VARIABLES
    pc,        \* the goroutine inside Run
    spawned,   \* workers started so far
    next,      \* index of the next user to feed
    jobs,      \* the channel's buffer
    closed,    \* the channel has been closed
    wpc,       \* wpc[w]: where worker w is
    cur,       \* cur[w]: index of the job w works on
    scratch,   \* scratch[w]: the scratch slice w reuses for every job
    results,   \* the shared results slice
    hits,      \* hits[w]: matches counted by w
    local,     \* local[w]: matches per rule counted by w
    partials,  \* what the workers that ended left for the merge
    merged,    \* partials merged so far
    stats      \* [Hits, PerRule] of the returned Stats

poolVars == <<pc, spawned, next, jobs, closed, wpc, cur, scratch, results, hits, local,
          partials, merged, stats>>

NoHits == [r \in RuleIds |-> 0]

PoolInit ==
    /\ pc = IF N = 0 THEN "returned" ELSE "spawn"
    /\ spawned = 0 /\ next = 0 /\ jobs = <<>> /\ closed = FALSE
    /\ wpc = [w \in Workers |-> "unborn"]
    /\ cur = [w \in Workers |-> 0]
    /\ scratch = [w \in Workers |-> <<>>]
    /\ results = [u \in Users |-> Unset]
    /\ hits = [w \in Workers |-> 0]
    /\ local = [w \in Workers |-> NoHits]
    /\ partials = [w \in Workers |-> [hits |-> 0, perRule |-> NoHits]]
    /\ merged = 0
    /\ stats = [Hits |-> 0, PerRule |-> NoHits]

------------------------------------------------------------------------------
(* The goroutine inside Run *)

Spawn ==
    /\ pc = "spawn"
    /\ spawned < workers
    /\ wpc' = [wpc EXCEPT ![spawned] = "recv"]
    /\ spawned' = spawned + 1
    /\ pc' = IF spawned' = workers THEN "feed" ELSE "spawn"
    /\ UNCHANGED <<next, jobs, closed, cur, scratch, results, hits, local, partials, merged, stats>>

Send ==
    /\ pc = "feed" /\ next < N
    /\ Len(jobs) < 2 * workers
    /\ jobs' = Append(jobs, next)
    /\ next' = next + 1
    /\ UNCHANGED <<pc, spawned, closed, wpc, cur, scratch, results, hits, local, partials, merged, stats>>

(* Mutant: the channel is never closed. *)
Close_forgotten ==
    /\ pc = "feed" /\ next = N
    /\ pc' = "wait"
    /\ UNCHANGED <<spawned, next, jobs, closed, wpc, cur, scratch, results, hits, local, partials, merged, stats>>

Close ==
    /\ pc = "feed" /\ next = N
    /\ closed' = TRUE
    /\ pc' = "wait"
    /\ UNCHANGED <<spawned, next, jobs, wpc, cur, scratch, results, hits, local, partials, merged, stats>>

Wait ==
    /\ pc = "wait"
    /\ \A w \in Workers : wpc[w] = "exited"
    /\ pc' = "merge"
    /\ UNCHANGED <<spawned, next, jobs, closed, wpc, cur, scratch, results, hits, local, partials, merged, stats>>

Merge ==
    /\ pc = "merge" /\ merged < workers
    /\ stats' = [Hits    |-> stats.Hits + partials[merged].hits,
                 PerRule |-> [r \in RuleIds |-> stats.PerRule[r] + partials[merged].perRule[r]]]
    /\ merged' = merged + 1
    /\ UNCHANGED <<pc, spawned, next, jobs, closed, wpc, cur, scratch, results, hits, local, partials>>

Return ==
    /\ pc = "merge" /\ merged = workers
    /\ pc' = "returned"
    /\ UNCHANGED <<spawned, next, jobs, closed, wpc, cur, scratch, results, hits, local, partials, merged, stats>>

------------------------------------------------------------------------------
(* A worker *)

Receive(w) ==
    /\ wpc[w] = "recv" /\ jobs # <<>>
    /\ cur' = [cur EXCEPT ![w] = Head(jobs)]
    /\ jobs' = Tail(jobs)
    /\ wpc' = [wpc EXCEPT ![w] = "score"]
    /\ UNCHANGED <<pc, spawned, next, closed, scratch, results, hits, local, partials, merged, stats>>

(* Mutant: the scratch slice is not emptied first. *)
matchInto_keeps_buf(u, dst) == dst \o Matches[u]

(* dst[:0], then one append for every rule that matches. *)
matchInto(u, dst) == SubSeq(dst, 1, 0) \o Matches[u]

Counted(counts, ids) == [r \in RuleIds |-> counts[r] + IF r \in Range(ids) THEN 1 ELSE 0]

Score(w) ==
    LET ids == matchInto(cur[w], scratch[w]) IN
    /\ wpc[w] = "score"
    /\ scratch' = [scratch EXCEPT ![w] = ids]
    /\ results' = [results EXCEPT ![cur[w]] = ids]
    /\ hits' = [hits EXCEPT ![w] = @ + Len(ids)]
    /\ local' = [local EXCEPT ![w] = Counted(@, ids)]
    /\ wpc' = [wpc EXCEPT ![w] = "recv"]
    /\ UNCHANGED <<pc, spawned, next, jobs, closed, cur, partials, merged, stats>>

(* The range loop over the channel ends: publish the counters, wg.Done. *)
Exit(w) ==
    /\ wpc[w] = "recv" /\ jobs = <<>> /\ closed
    /\ partials' = [partials EXCEPT ![w] = [hits |-> hits[w], perRule |-> local[w]]]
    /\ wpc' = [wpc EXCEPT ![w] = "exited"]
    /\ UNCHANGED <<pc, spawned, next, jobs, closed, cur, scratch, results, hits, local, merged, stats>>

Main == Spawn \/ Send \/ Close \/ Wait \/ Merge \/ Return

Worker(w) == Receive(w) \/ Score(w) \/ Exit(w)

Returned == pc = "returned" /\ UNCHANGED poolVars

PoolNext == Main \/ (\E w \in Workers : Worker(w)) \/ Returned

(* Every goroutine that can run is eventually scheduled. *)
PoolFairness == WF_poolVars(Main) /\ \A w \in Workers : WF_poolVars(Worker(w))

PoolSpec == PoolInit /\ [][PoolNext]_poolVars

FairPoolSpec == PoolSpec /\ PoolFairness

------------------------------------------------------------------------------
(* Properties *)

(* The variables keep their types. *)
PoolTypeOK ==
    /\ pc \in {"spawn", "feed", "wait", "merge", "returned"}
    /\ spawned \in 0..workers /\ next \in 0..N /\ merged \in 0..workers
    /\ jobs \in Seq(Users) /\ closed \in BOOLEAN
    /\ wpc \in [Workers -> {"unborn", "recv", "score", "exited"}]
    /\ cur \in [Workers -> Nat]
    /\ scratch \in [Workers -> Seq(RuleIds)]
    /\ results \in [Users -> Seq(RuleIds) \cup {Unset}]
    /\ hits \in [Workers -> Nat]
    /\ local \in [Workers -> [RuleIds -> Nat]]
    /\ partials \in [Workers -> [hits : Nat, perRule : [RuleIds -> Nat]]]
    /\ stats \in [Hits : Nat, PerRule : [RuleIds -> Nat]]

(* Two workers never hold one index, and the slot a worker is about to write   *)
(* is still empty: "Each worker writes into a distinct results slot (no        *)
(* locking)" (pkg/engine/workerpool.go:21).                                    *)
SlotsExclusive ==
    \A v, w \in Workers : wpc[v] = "score" =>
        /\ results[cur[v]] = Unset
        /\ wpc[w] = "score" /\ cur[v] = cur[w] => v = w

(* When Run returns, every user's slot holds exactly the rules that match that *)
(* user, whichever worker scored it and whatever its scratch slice held before.*)
ResultsComplete == pc = "returned" => \A u \in Users : results[u] = Matches[u]

(* Once it has started a worker, Run returns: the producer never waits for a   *)
(* full channel, and the caller for the workers, for ever.                     *)
Terminates == (spawned > 0) ~> (pc = "returned")
==============================================================================
