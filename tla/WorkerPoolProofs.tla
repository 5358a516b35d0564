-------------------------- MODULE WorkerPoolProofs --------------------------
(***************************************************************************)
(* Proofs about WorkerPool for every batch size, every requested number of *)
(* workers and every answer of the matcher.                                *)
(***************************************************************************)
EXTENDS WorkerPool, TLAPS

(* There is at least one worker, and no more workers than users. *)
LEMMA WorkersNat == workers \in Nat \ {0} /\ (N > 0 => workers <= N)
    BY NAssumption, WorkersAssumption DEF workers

(* Emptying the scratch slice first makes the match independent of it. *)
LEMMA MatchIntoFresh ==
    ASSUME NEW u \in Users, NEW dst \in Seq(RuleIds)
    PROVE  matchInto(u, dst) = Matches[u] /\ Matches[u] \in Seq(RuleIds)
<1>1. Matches[u] \in Seq(RuleIds) BY MatchesAssumption DEF Users
<1>2. SubSeq(dst, 1, 0) = <<>> OBVIOUS
<1> QED BY <1>1, <1>2 DEF matchInto

(* The number of jobs taken from the channel: the buffer holds the last ones. *)
Taken == next - Len(jobs)

JobsInv ==
    /\ Len(jobs) <= next
    /\ \A k \in 1..Len(jobs) : jobs[k] = Taken + k - 1

(* Each index below Taken is answered, or in the hands of exactly one worker. *)
SlotsInv ==
    /\ \A w \in Workers : wpc[w] = "score" => cur[w] \in 0..(Taken - 1) /\ results[cur[w]] = Unset
    /\ \A v, w \in Workers : wpc[v] = "score" /\ wpc[w] = "score" /\ cur[v] = cur[w] => v = w
    /\ \A u \in Users : u < Taken =>
          results[u] = Matches[u] \/ \E w \in Workers : wpc[w] = "score" /\ cur[w] = u
    /\ \A u \in Users : u >= Taken => results[u] = Unset

PhaseInv ==
    /\ \A w \in Workers : w >= spawned => wpc[w] = "unborn"
    /\ closed => next = N
    /\ pc = "spawn" \/ pc = "feed" => ~closed
    /\ pc = "wait" => closed
    /\ \A w \in Workers : wpc[w] = "exited" => closed /\ jobs = <<>>
    /\ pc \in {"merge", "returned"} /\ N > 0 => \A w \in Workers : wpc[w] = "exited"

PoolInv == PoolTypeOK /\ JobsInv /\ SlotsInv /\ PhaseInv

LEMMA PoolInvInit == PoolInit => PoolInv
<1> SUFFICES ASSUME PoolInit PROVE PoolInv OBVIOUS
<1> USE NAssumption, WorkersNat
<1>1. PoolTypeOK
  <2>1. NoHits \in [RuleIds -> Nat] BY DEF NoHits
  <2>2. [Hits |-> 0, PerRule |-> NoHits] \in [Hits : Nat, PerRule : [RuleIds -> Nat]] BY <2>1
  <2>3. [hits |-> 0, perRule |-> NoHits] \in [hits : Nat, perRule : [RuleIds -> Nat]] BY <2>1
  <2>4. <<>> \in Seq(Users) /\ <<>> \in Seq(RuleIds) OBVIOUS
  <2>5. pc \in {"spawn", "returned"} BY DEF PoolInit
  <2>6. 0 \in 0..workers /\ 0 \in 0..N OBVIOUS
  <2>7. /\ stats \in [Hits : Nat, PerRule : [RuleIds -> Nat]]
        /\ partials \in [Workers -> [hits : Nat, perRule : [RuleIds -> Nat]]]
        /\ local \in [Workers -> [RuleIds -> Nat]]
    BY <2>1, <2>2, <2>3 DEF PoolInit
  <2>8. /\ wpc \in [Workers -> {"unborn", "recv", "score", "exited"}]
        /\ cur \in [Workers -> Nat]
        /\ scratch \in [Workers -> Seq(RuleIds)]
        /\ hits \in [Workers -> Nat]
        /\ results \in [Users -> Seq(RuleIds) \cup {Unset}]
    BY <2>4 DEF PoolInit
  <2> QED BY <2>4, <2>5, <2>6, <2>7, <2>8 DEF PoolInit, PoolTypeOK
<1>2. JobsInv /\ SlotsInv BY DEF PoolInit, JobsInv, SlotsInv, Taken, Users
<1>3. PhaseInv BY DEF PoolInit, PhaseInv
<1> QED BY <1>1, <1>2, <1>3 DEF PoolInv

(* Every step keeps the types. *)
LEMMA TypeStep == PoolInv /\ [PoolNext]_poolVars => PoolTypeOK'
<1> SUFFICES ASSUME PoolInv, [PoolNext]_poolVars PROVE PoolTypeOK' OBVIOUS
<1>0. PoolTypeOK BY DEF PoolInv
<1> USE NAssumption, WorkersNat, <1>0 DEF PoolTypeOK
<1>1. CASE Spawn
  <2>1. spawned + 1 \in 0..workers BY <1>1 DEF Spawn
  <2>2. spawned' \in 0..workers BY <1>1, <2>1 DEF Spawn
  <2>3. pc' \in {"spawn", "feed"} BY <1>1 DEF Spawn
  <2> QED BY <1>1, <2>2, <2>3 DEF Spawn
<1>2. CASE Send BY <1>2 DEF Send, Users
<1>3. CASE Close BY <1>3 DEF Close
<1>4. CASE Wait BY <1>4 DEF Wait
<1>5. CASE Merge
  <2>1. merged \in Workers BY <1>5 DEF Merge, Workers
  <2>2. partials[merged].hits \in Nat /\ partials[merged].perRule \in [RuleIds -> Nat]
    BY <2>1
  <2>3. stats.Hits \in Nat /\ stats.PerRule \in [RuleIds -> Nat] OBVIOUS
  <2>4. [r \in RuleIds |-> stats.PerRule[r] + partials[merged].perRule[r]] \in [RuleIds -> Nat]
    BY <2>2, <2>3
  <2>5. stats' \in [Hits : Nat, PerRule : [RuleIds -> Nat]] BY <1>5, <2>2, <2>3, <2>4 DEF Merge
  <2>6. merged' \in 0..workers BY <1>5 DEF Merge
  <2> QED BY <1>5, <2>5, <2>6 DEF Merge
<1>6. CASE Return BY <1>6 DEF Return
<1>7. ASSUME NEW w \in Workers, Receive(w) PROVE PoolTypeOK'
  <2>1. Head(jobs) \in Users /\ Tail(jobs) \in Seq(Users) BY <1>7 DEF Receive
  <2> QED BY <1>7, <2>1 DEF Receive, Users
<1>8. ASSUME NEW w \in Workers, Score(w) PROVE PoolTypeOK'
  <2>1. cur[w] \in Users
    BY <1>8 DEF Score, PoolInv, SlotsInv, JobsInv, Taken, Users
  <2>2. matchInto(cur[w], scratch[w]) \in Seq(RuleIds) BY <2>1, MatchIntoFresh
  <2> DEFINE ids == matchInto(cur[w], scratch[w])
  <2>3. Len(ids) \in Nat BY <2>2
  <2>4. Counted(local[w], ids) \in [RuleIds -> Nat] BY DEF Counted
  <2> HIDE DEF ids
  <2>5. /\ scratch' = [scratch EXCEPT ![w] = ids]
        /\ results' = [results EXCEPT ![cur[w]] = ids]
        /\ hits' = [hits EXCEPT ![w] = hits[w] + Len(ids)]
        /\ local' = [local EXCEPT ![w] = Counted(local[w], ids)]
        /\ wpc' = [wpc EXCEPT ![w] = "recv"]
        /\ UNCHANGED <<pc, spawned, next, jobs, closed, cur, partials, merged, stats>>
    BY <1>8 DEF Score, ids
  <2> QED BY <2>1, <2>2, <2>3, <2>4, <2>5 DEF ids
<1>9. ASSUME NEW w \in Workers, Exit(w) PROVE PoolTypeOK' BY <1>9 DEF Exit
<1>10. CASE UNCHANGED poolVars BY <1>10 DEF poolVars
<1> QED
  BY <1>1, <1>2, <1>3, <1>4, <1>5, <1>6, <1>7, <1>8, <1>9, <1>10
  DEF PoolNext, Main, Worker, Returned

(* Every step keeps the channel's buffer a run of consecutive indices. *)
LEMMA JobsStep == PoolInv /\ [PoolNext]_poolVars => JobsInv'
<1> SUFFICES ASSUME PoolInv, [PoolNext]_poolVars PROVE JobsInv' OBVIOUS
<1> USE NAssumption DEF PoolInv, PoolTypeOK, JobsInv, Taken
<1>1. CASE Send
  <2>1. Len(jobs') = Len(jobs) + 1 BY <1>1 DEF Send
  <2>2. \A k \in 1..Len(jobs) : jobs'[k] = jobs[k] BY <1>1 DEF Send
  <2>3. jobs'[Len(jobs) + 1] = next BY <1>1 DEF Send
  <2>4. next' = next + 1 BY <1>1 DEF Send
  <2>5. Taken' = Taken BY <2>1, <2>4
  <2>6. ASSUME NEW k \in 1..Len(jobs') PROVE jobs'[k] = Taken + k - 1
    <3>1. CASE k = Len(jobs) + 1 BY <3>1, <2>3
    <3>2. CASE k \in 1..Len(jobs) BY <3>2, <2>2
    <3> QED BY <2>1, <3>1, <3>2
  <2> QED BY <2>1, <2>4, <2>5, <2>6
<1>2. ASSUME NEW w \in Workers, Receive(w) PROVE JobsInv'
  <2>1. Len(jobs') = Len(jobs) - 1 /\ Len(jobs) > 0 BY <1>2 DEF Receive
  <2>2. \A k \in 1..Len(jobs') : jobs'[k] = jobs[k + 1] BY <1>2, <2>1 DEF Receive
  <2>3. next' = next BY <1>2 DEF Receive
  <2> QED BY <2>1, <2>2, <2>3
<1>3. ASSUME jobs' = jobs, next' = next PROVE JobsInv' BY <1>3
<1> QED
  BY <1>1, <1>2, <1>3
  DEF PoolNext, Main, Worker, Returned, Spawn, Close, Wait, Merge, Return, Score, Exit, poolVars

(* The head of the buffer is the first index not taken yet. *)
LEMMA HeadIsTaken ==
    ASSUME PoolInv, jobs # <<>>
    PROVE  Head(jobs) = Taken /\ Taken \in Users
<1> USE NAssumption DEF PoolInv, PoolTypeOK, JobsInv, Taken
<1>1. Len(jobs) > 0 OBVIOUS
<1>2. Head(jobs) = jobs[1] BY <1>1
<1>3. jobs[1] = Taken BY <1>1
<1>4. Head(jobs) \in Users BY <1>1
<1> QED BY <1>2, <1>3, <1>4

(* Every step keeps each taken index answered or held by one worker. *)
LEMMA SlotsStep == PoolInv /\ [PoolNext]_poolVars => SlotsInv'
<1> SUFFICES ASSUME PoolInv, [PoolNext]_poolVars PROVE SlotsInv' OBVIOUS
<1>0. PoolTypeOK /\ JobsInv /\ SlotsInv BY DEF PoolInv
<1> USE NAssumption
<1>1. CASE Spawn
  <2>1. \A w \in Workers : wpc'[w] = "score" <=> wpc[w] = "score"
    <3>1. spawned \in Workers /\ wpc[spawned] = "unborn"
      BY <1>0, <1>1, WorkersNat DEF Spawn, PoolTypeOK, PoolInv, PhaseInv, Workers
    <3> QED BY <1>0, <1>1, <3>1 DEF Spawn, PoolTypeOK
  <2> QED BY <1>0, <1>1, <2>1 DEF Spawn, SlotsInv, Taken
<1>2. CASE Send
  <2>1. Taken' = Taken BY <1>0, <1>2 DEF Send, PoolTypeOK, Taken
  <2> QED BY <1>0, <1>2, <2>1 DEF Send, SlotsInv
<1>3. ASSUME NEW w \in Workers, Receive(w) PROVE SlotsInv'
  <2>1. Head(jobs) = Taken /\ Taken \in Users BY <1>3, HeadIsTaken DEF Receive
  <2>2. Taken' = Taken + 1 BY <1>0, <1>3 DEF Receive, PoolTypeOK, Taken
  <2>3. results[Taken] = Unset BY <1>0, <2>1 DEF SlotsInv, Users
  <2>4. cur' = [cur EXCEPT ![w] = Taken] /\ wpc' = [wpc EXCEPT ![w] = "score"]
        /\ results' = results /\ wpc[w] = "recv"
    BY <1>3, <2>1 DEF Receive
  <2>5. Taken \in Nat BY <2>1 DEF Users
  <2>6. \A v \in Workers : v # w => cur'[v] = cur[v] /\ wpc'[v] = wpc[v]
    BY <1>0, <2>4 DEF PoolTypeOK
  <2>7. cur'[w] = Taken /\ wpc'[w] = "score" BY <1>0, <2>4 DEF PoolTypeOK
  <2>8. \A v \in Workers : wpc'[v] = "score" =>
           cur'[v] \in 0..(Taken' - 1) /\ results'[cur'[v]] = Unset
    BY <1>0, <2>2, <2>3, <2>4, <2>5, <2>6, <2>7 DEF SlotsInv
  <2>9. \A v, x \in Workers : wpc'[v] = "score" /\ wpc'[x] = "score" /\ cur'[v] = cur'[x]
           => v = x
    BY <1>0, <2>5, <2>6, <2>7 DEF SlotsInv
  <2>10. \A u \in Users : u < Taken' =>
           results'[u] = Matches[u] \/ \E v \in Workers : wpc'[v] = "score" /\ cur'[v] = u
    <3> SUFFICES ASSUME NEW u \in Users, u < Taken + 1
                 PROVE  results'[u] = Matches[u] \/ \E v \in Workers : wpc'[v] = "score" /\ cur'[v] = u
      BY <2>2
    <3>1. CASE u = Taken BY <3>1, <2>7
    <3>2. CASE u < Taken BY <1>0, <2>4, <2>6, <3>2 DEF SlotsInv
    <3> QED BY <3>1, <3>2, <2>5 DEF Users
  <2>11. \A u \in Users : u >= Taken' => results'[u] = Unset
    BY <1>0, <2>2, <2>4, <2>5 DEF SlotsInv, Users
  <2> QED BY <2>8, <2>9, <2>10, <2>11 DEF SlotsInv
<1>4. ASSUME NEW w \in Workers, Score(w) PROVE SlotsInv'
  <2>1. cur[w] \in Users /\ wpc[w] = "score"
    BY <1>0, <1>4 DEF Score, SlotsInv, JobsInv, PoolTypeOK, Taken, Users
  <2>2. matchInto(cur[w], scratch[w]) = Matches[cur[w]]
    BY <1>0, <2>1, MatchIntoFresh DEF PoolTypeOK
  <2>3. /\ results' = [results EXCEPT ![cur[w]] = Matches[cur[w]]]
        /\ wpc' = [wpc EXCEPT ![w] = "recv"]
        /\ cur' = cur /\ Taken' = Taken
    BY <1>4, <2>2 DEF Score, Taken
  <2>4. \A v \in Workers : wpc'[v] = "score" <=> v # w /\ wpc[v] = "score"
    BY <1>0, <2>3 DEF PoolTypeOK
  <2>5. results'[cur[w]] = Matches[cur[w]] /\ \A u \in Users : u # cur[w] => results'[u] = results[u]
    BY <1>0, <2>1, <2>3 DEF PoolTypeOK
  <2>6. \A v \in Workers : v # w /\ wpc[v] = "score" => cur[v] # cur[w] /\ cur[v] \in Users
    BY <1>0, <2>1 DEF SlotsInv, JobsInv, PoolTypeOK, Taken, Users
  <2>7. cur[w] < Taken BY <1>0, <2>1 DEF SlotsInv, PoolTypeOK, Taken
  <2>8. \A v \in Workers : wpc'[v] = "score" =>
           cur'[v] \in 0..(Taken' - 1) /\ results'[cur'[v]] = Unset
    BY <1>0, <2>3, <2>4, <2>5, <2>6 DEF SlotsInv
  <2>9. \A u \in Users : u < Taken' =>
           results'[u] = Matches[u] \/ \E v \in Workers : wpc'[v] = "score" /\ cur'[v] = u
    BY <1>0, <2>3, <2>4, <2>5 DEF SlotsInv
  <2>10. \A u \in Users : u >= Taken' => results'[u] = Unset
    BY <1>0, <2>3, <2>5, <2>7 DEF SlotsInv, PoolTypeOK, Taken, Users
  <2> QED BY <1>0, <2>3, <2>4, <2>8, <2>9, <2>10 DEF SlotsInv
<1>5. ASSUME NEW w \in Workers, Exit(w) PROVE SlotsInv'
  BY <1>0, <1>5 DEF Exit, SlotsInv, PoolTypeOK, Taken
<1>6. ASSUME UNCHANGED <<wpc, cur, results, jobs, next>> PROVE SlotsInv'
  BY <1>0, <1>6 DEF SlotsInv, Taken
<1> QED
  BY <1>1, <1>2, <1>3, <1>4, <1>5, <1>6
  DEF PoolNext, Main, Worker, Returned, Close, Wait, Merge, Return, poolVars

(* Every step keeps the order of the phases. *)
LEMMA PhaseStep == PoolInv /\ [PoolNext]_poolVars => PhaseInv'
<1> SUFFICES ASSUME PoolInv, [PoolNext]_poolVars PROVE PhaseInv' OBVIOUS
<1> USE NAssumption, WorkersNat DEF PoolInv, PoolTypeOK, PhaseInv
<1>1. CASE Spawn
  <2>1. spawned' = spawned + 1 /\ spawned \in Nat BY <1>1 DEF Spawn
  <2>2. \A w \in Workers : w >= spawned' => w # spawned /\ w >= spawned
    BY <2>1 DEF Workers
  <2>3. \A w \in Workers : w # spawned => wpc'[w] = wpc[w] BY <1>1 DEF Spawn
  <2>4. pc' \in {"spawn", "feed"} /\ ~closed' BY <1>1 DEF Spawn
  <2>5. \A w \in Workers : wpc'[w] # "exited"
    BY <1>1, <2>3, <2>4 DEF Spawn
  <2> QED BY <2>2, <2>3, <2>4, <2>5
<1>2. CASE Send BY <1>2 DEF Send
<1>3. CASE Close BY <1>3 DEF Close
<1>4. CASE Wait BY <1>4 DEF Wait
<1>5. CASE Merge BY <1>5 DEF Merge
<1>6. CASE Return BY <1>6 DEF Return
<1>7. ASSUME NEW w \in Workers, Receive(w) PROVE PhaseInv' BY <1>7 DEF Receive
<1>8. ASSUME NEW w \in Workers, Score(w) PROVE PhaseInv' BY <1>8 DEF Score
<1>9. ASSUME NEW w \in Workers, Exit(w) PROVE PhaseInv' BY <1>9 DEF Exit
<1>10. CASE UNCHANGED poolVars BY <1>10 DEF poolVars
<1> QED
  BY <1>1, <1>2, <1>3, <1>4, <1>5, <1>6, <1>7, <1>8, <1>9, <1>10
  DEF PoolNext, Main, Worker, Returned

(* The strengthened invariant holds in every state of every batch. *)
THEOREM PoolInvariant == PoolSpec => []PoolInv
<1>1. PoolInv /\ [PoolNext]_poolVars => PoolInv'
  BY TypeStep, JobsStep, SlotsStep, PhaseStep DEF PoolInv
<1> QED BY PoolInvInit, <1>1, PTL DEF PoolSpec

(* The variables of a batch keep their types. *)
THEOREM PoolTypes == PoolSpec => []PoolTypeOK
<1>1. PoolInv => PoolTypeOK BY DEF PoolInv
<1> QED BY PoolInvariant, <1>1, PTL

(* No two workers ever write one slot of the shared slice, and no slot is      *)
(* written twice (workerpool.go:82, "no locking").                             *)
THEOREM PoolSlots == PoolSpec => []SlotsExclusive
<1>1. PoolInv => SlotsExclusive BY DEF PoolInv, SlotsInv, SlotsExclusive
<1> QED BY PoolInvariant, <1>1, PTL

(* A batch that returned has answered every user with exactly the rules that   *)
(* match that user (Pool.Run).                                                 *)
THEOREM PoolResults == PoolSpec => []ResultsComplete
<1>1. PoolInv => ResultsComplete
  <2> SUFFICES ASSUME PoolInv, pc = "returned", NEW u \in Users
               PROVE  results[u] = Matches[u]
    BY DEF ResultsComplete
  <2>1. N > 0 BY NAssumption DEF Users
  <2>2. \A w \in Workers : wpc[w] = "exited" BY <2>1 DEF PoolInv, PhaseInv
  <2>3. 0 \in Workers BY WorkersNat DEF Workers
  <2>4. jobs = <<>> /\ next = N BY <2>2, <2>3 DEF PoolInv, PhaseInv
  <2>5. u < Taken BY <2>4, NAssumption DEF Taken, Users
  <2> QED BY <2>2, <2>5 DEF PoolInv, SlotsInv
<1> QED BY PoolInvariant, <1>1, PTL
=============================================================================
