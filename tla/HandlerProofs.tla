--------------------------- MODULE HandlerProofs ---------------------------
(***************************************************************************)
(* Proofs about the handlers of the online API: the latency recorder, the  *)
(* explaining requests and the scoring requests, the last two for any      *)
(* number of goroutines that edit the rules meanwhile.                     *)
(***************************************************************************)
EXTENDS Scoring, Evaluation, LatencyRing, RuleCacheProofs

------------------------------------------------------------------------------
(* The latency recorder, for every capacity and any number of observations *)

RingInv == RingTypeOK /\ WindowIsRecent /\ (~full => Len(seen) = idx) /\ (full => Len(seen) >= cap)

LEMMA CapNat == cap \in Nat \ {0}
    BY CapacityAssumption DEF cap

LEMMA RingStart == RingInit => RingInv
    BY CapNat DEF RingInit, RingInv, RingTypeOK, WindowIsRecent, size

(* One observation moves every earlier one a slot further back. *)
LEMMA RingStep == RingInv /\ [RingNext]_ringVars => RingInv'
<1> SUFFICES ASSUME RingInv, [RingNext]_ringVars PROVE RingInv' OBVIOUS
<1> USE CapNat, LatenciesAssumption
<1>1. ASSUME NEW d \in Latencies, Record(d) PROVE RingInv'
  <2>0. RingTypeOK /\ WindowIsRecent BY DEF RingInv
  <2>1. /\ buf' = [buf EXCEPT ![idx] = d] /\ seen' = Append(seen, d)
        /\ idx' = IF idx + 1 = cap THEN 0 ELSE idx + 1
        /\ full' = (full \/ idx + 1 = cap)
    BY <1>1 DEF Record, Wrapped, MarkFull
  <2>2. Len(seen') = Len(seen) + 1 /\ seen'[Len(seen) + 1] = d
        /\ (\A i \in 1..Len(seen) : seen'[i] = seen[i])
    BY <2>0, <2>1 DEF RingTypeOK
  <2>3. RingTypeOK' BY <2>0, <2>1 DEF RingTypeOK
  <2>a. Len(seen) \in Nat /\ idx \in Nat /\ full \in BOOLEAN /\ idx + 1 <= cap
    BY <2>0 DEF RingTypeOK
  <2>b. (~full => Len(seen) = idx) /\ (full => Len(seen) >= cap) BY DEF RingInv
  <2>4. (~full' => Len(seen') = idx') /\ (full' => Len(seen') >= cap)
    <3>1. CASE full
      <4>1. full' BY ONLY <3>1, <2>1, Zenon
      <4>2. Len(seen) >= cap BY ONLY <3>1, <2>b, Zenon
      <4>3. Len(seen') >= cap BY <4>2, <2>a, <2>2
      <4> QED BY ONLY <4>1, <4>3, Zenon
    <3>2. CASE ~full BY <3>2, <2>a, <2>b, <2>1, <2>2
    <3> QED BY <3>1, <3>2
  <2>5. size' = IF Len(seen') < cap THEN Len(seen') ELSE cap
    BY <2>0, <2>1, <2>2, <2>3, <2>4 DEF size, RingInv, RingTypeOK
  <2>6. ASSUME NEW k \in 1..size' PROVE buf'[Slot(k)'] = seen'[Len(seen') - k + 1]
    <3>0. k \in Nat /\ Len(seen) \in Nat /\ size \in Nat /\ idx \in 0..(cap - 1)
      BY <2>0, <2>5, <2>2, <2>3 DEF RingTypeOK, size
    <3>1. CASE k = 1
      <4>1. Slot(k)' = idx BY <3>0, <3>1, <2>1 DEF Slot
      <4> QED BY <4>1, <3>1, <3>0, <2>0, <2>1, <2>2 DEF RingTypeOK
    <3>2. CASE k > 1
      <4>1. k - 1 \in 1..size BY <3>0, <3>2, <2>0, <2>2, <2>5 DEF WindowIsRecent
      <4>a. k <= cap BY <3>0, <2>5, <2>2
      <4>2. Slot(k)' = Slot(k - 1)
        <5>1. CASE idx + 1 = cap BY <5>1, <4>a, <3>0, <3>2, <2>1 DEF Slot
        <5>2. CASE idx + 1 # cap BY <5>2, <4>a, <3>0, <3>2, <2>1 DEF Slot
        <5> QED BY <5>1, <5>2
      <4>3. Slot(k - 1) \in 0..(cap - 1) /\ Slot(k - 1) # idx
        BY <4>1, <3>0, <3>2, <2>0, <2>5, <2>2 DEF Slot, WindowIsRecent
      <4>4. buf'[Slot(k)'] = buf[Slot(k - 1)] BY <4>2, <4>3, <2>0, <2>1 DEF RingTypeOK
      <4>5. buf[Slot(k - 1)] = seen[Len(seen) - (k - 1) + 1] BY <4>1, <2>0 DEF WindowIsRecent
      <4>6. Len(seen) - (k - 1) + 1 \in 1..Len(seen)
        BY <4>1, <3>0, <3>2, <2>0 DEF WindowIsRecent
      <4>7. Len(seen') - k + 1 = Len(seen) - (k - 1) + 1 BY <2>2, <3>0
      <4> QED BY <4>4, <4>5, <4>6, <4>7, <2>2
    <3> QED BY <3>0, <3>1, <3>2
  <2>7. WindowIsRecent' BY <2>5, <2>6 DEF WindowIsRecent
  <2> QED BY <2>3, <2>4, <2>7 DEF RingInv
<1>2. CASE UNCHANGED ringVars
  BY <1>2 DEF ringVars, RingInv, RingTypeOK, WindowIsRecent, size, Slot
<1> QED BY <1>1, <1>2 DEF RingNext, Exhausted

(* The write index and the buffer stay inside the capacity, whatever it is     *)
(* (latencyRecorder.Record).                                                   *)
THEOREM RingTypes == RingSpec => []RingTypeOK
<1>1. RingInv => RingTypeOK BY DEF RingInv
<1> QED BY RingStart, RingStep, <1>1, PTL DEF RingSpec

(* The window is always the most recent observations, for every capacity       *)
(* (latencyRecorder.Record).                                                   *)
THEOREM RingWindow == RingSpec => []WindowIsRecent
<1>1. RingInv => WindowIsRecent BY DEF RingInv
<1> QED BY RingStart, RingStep, <1>1, PTL DEF RingSpec

(* The percentile ranks are valid, ordered indices for every window size       *)
(* (latencyRecorder.Percentiles).                                              *)
THEOREM RingRanks == RingSpec => []RanksOrdered
<1>1. RingInv => RanksOrdered
  <2> SUFFICES ASSUME RingInv, size > 0 PROVE RanksOrdered BY DEF RanksOrdered
  <2>1. size \in Nat \ {0} BY CapNat DEF RingInv, RingTypeOK, size
  <2> QED BY <2>1 DEF RanksOrdered, Rank
<1> QED BY RingStart, RingStep, <1>1, PTL DEF RingSpec

------------------------------------------------------------------------------
(* The explaining requests.  While a request about a rule id is under way, the *)
(* text the map has for the id now is one that was noted during the request.   *)

EvalInv ==
    /\ epc \in {"check", "fetch"} => ask.id # None /\ text = None
    /\ epc \in {"check", "fetch", "explain"} => TextOf(m, ask.id) \in during
    /\ epc = "explain" /\ ask.id # None => text # None /\ text \in during
    /\ AnswerWasTrue

(* The invariant holds before the first request. *)
LEMMA EvalInvInit == EvalInit => EvalInv
  BY DEF EvalInit, EvalInv, AnswerWasTrue

(* Every step of the request and of the editing goroutines keeps it. *)
LEMMA EvalInvStep == EvalInv /\ [EvalNext]_<<vars, evalVars>> => EvalInv'
<1> SUFFICES ASSUME EvalInv, [EvalNext]_<<vars, evalVars>> PROVE EvalInv' OBVIOUS
<1> USE DEF EvalInv, AnswerWasTrue
<1>1. ASSUME NEW id, NEW t, EvalRequest(id, t), UNCHANGED vars, id = None \/ t = None PROVE EvalInv'
  BY <1>1 DEF EvalRequest, vars
<1>2. CASE EvalCheck /\ UNCHANGED vars
  BY <1>2 DEF EvalCheck, Known, Answer, TextOf, vars
<1>3. CASE EvalFetch /\ UNCHANGED vars
  BY <1>3 DEF EvalFetch, Fetched, Answer, vars
<1>4. CASE EvalExplain /\ UNCHANGED vars
  BY <1>4 DEF EvalExplain, Answer, vars
<1>5. CASE EvaluateAll /\ UNCHANGED vars
  BY <1>5 DEF EvaluateAll, vars
<1>6. CASE EvalDone /\ UNCHANGED vars
  BY <1>6 DEF EvalDone, vars
<1>7. CASE EditMeanwhile
  <2>1. CASE epc \in {"idle", "answered"}
    BY <1>7, <2>1 DEF EditMeanwhile
  <2>2. CASE epc \notin {"idle", "answered"}
    BY <1>7, <2>2 DEF EditMeanwhile
  <2> QED BY <2>1, <2>2
<1>8. CASE UNCHANGED <<vars, evalVars>>
  BY <1>8 DEF vars, evalVars
<1> QED BY <1>1, <1>2, <1>3, <1>4, <1>5, <1>6, <1>7, <1>8 DEF EvalNext, Evaluating

(* An answer about a rule id is true of some moment of the request, whatever   *)
(* any number of goroutines edit between its two reads (Handler.Evaluate).     *)
THEOREM EvaluateToldTheTruth == EvalSpec => []AnswerWasTrue
<1>1. EvalInv => AnswerWasTrue BY DEF EvalInv
<1> QED BY EvalInvInit, EvalInvStep, <1>1, PTL DEF EvalSpec

------------------------------------------------------------------------------
(* The scoring requests *)

(* The local variables of the requests are functions on Requests. *)
ScoreShape ==
    /\ rpc = [q \in Requests |-> rpc[q]]
    /\ fan = [q \in Requests |-> fan[q]]
    /\ users = [q \in Requests |-> users[q]]
    /\ judging = [q \in Requests |-> judging[q]]
    /\ view = [q \in Requests |-> view[q]]
    /\ answers = [q \in Requests |-> answers[q]]
    /\ looked = [q \in Requests |-> looked[q]]
    /\ names = [q \in Requests |-> names[q]]

(* The requests that hold a slot of the semaphore. *)
Holders == {q \in Requests : rpc[q] \in {"snapshot", "judge", "names", "release"}}

(* The semaphore counts the holders, and only a holder judges users, no more   *)
(* of them at once than its fan-out.                                           *)
SlotsCounted ==
    /\ IsFiniteSet(Holders)
    /\ slots = Cardinality(Holders)
    /\ slots <= MaxConcurrentUsers
    /\ \A q \in Requests :
        /\ fan[q] \in 0..MaxConcurrentUsers
        /\ judging[q] \in 0..fan[q]
        /\ judging[q] > 0 => rpc[q] = "judge"

(* Every user of a request got the answer of the one slice it matches against. *)
OneView ==
    \A q \in Requests :
        /\ answers[q] \subseteq {MatchedIds(q)}
        /\ rpc[q] \in {"idle", "acquire", "snapshot"} => answers[q] = {}

ScoreInv == ScoreShape /\ SlotsCounted /\ OneView

(* No request holds a slot at the start. *)
LEMMA ScoreInvInit == ScoreInit => ScoreInv
<1> SUFFICES ASSUME ScoreInit PROVE ScoreInv OBVIOUS
<1>1. ScoreShape BY DEF ScoreInit, ScoreShape
<1>2. Holders = {} BY DEF ScoreInit, Holders
<1>3. SlotsCounted BY <1>2, FS_EmptySet, CapAssumption DEF ScoreInit, SlotsCounted
<1>4. OneView BY DEF ScoreInit, OneView
<1> QED BY <1>1, <1>3, <1>4 DEF ScoreInv

(* The ids a request answers with depend on its own slice alone. *)
LEMMA MatchedKept ==
    ASSUME NEW q, view'[q] = view[q] PROVE MatchedIds(q)' = MatchedIds(q)
    BY DEF MatchedIds

(* Every step of every request keeps the invariant. *)
LEMMA ScoreServe ==
    ASSUME ScoreInv, NEW q \in Requests, Arrival(q) \/ Acquire(q) \/ Serve(q)
    PROVE  ScoreInv'
<1> USE CapAssumption DEF ScoreInv
<1>1. ASSUME NEW n \in Nat, NEW k \in 1..MaxConcurrentUsers, Arrive(q, n, k) PROVE ScoreInv'
  <2>1. ScoreShape' BY <1>1 DEF ScoreShape, Arrive
  <2>2. Holders' = Holders BY <1>1 DEF Holders, Arrive, ScoreShape
  <2>3. SlotsCounted' BY <1>1, <2>2 DEF SlotsCounted, Arrive, ScoreShape
  <2>4. OneView' BY <1>1, MatchedKept DEF OneView, Arrive, ScoreShape
  <2> QED BY <2>1, <2>3, <2>4
<1>2. CASE Acquire(q)
  <2>1. ScoreShape' BY <1>2 DEF ScoreShape, Acquire
  <2>2. Holders' = Holders \cup {q} /\ q \notin Holders BY <1>2 DEF Holders, Acquire, ScoreShape
  <2>3. IsFiniteSet(Holders') /\ Cardinality(Holders') = Cardinality(Holders) + 1
    BY <2>2, FS_AddElement DEF SlotsCounted
  <2>4. slots \in Nat BY FS_CardinalityType DEF SlotsCounted
  <2>5. slots' = slots + 1 /\ slots < MaxConcurrentUsers BY <1>2 DEF Acquire, HasSlot
  <2>6. slots' = Cardinality(Holders') /\ slots' <= MaxConcurrentUsers
    BY <2>3, <2>4, <2>5 DEF SlotsCounted
  <2>7. SlotsCounted' BY <1>2, <2>3, <2>6 DEF SlotsCounted, Acquire, ScoreShape
  <2>8. OneView' BY <1>2, MatchedKept DEF OneView, Acquire, ScoreShape
  <2> QED BY <2>1, <2>7, <2>8
<1>3. CASE TakeSnapshot(q)
  <2>1. ScoreShape' BY <1>3 DEF ScoreShape, TakeSnapshot
  <2>2. Holders' = Holders BY <1>3 DEF Holders, TakeSnapshot, ScoreShape
  <2>3. SlotsCounted' BY <1>3, <2>2 DEF SlotsCounted, TakeSnapshot, ScoreShape
  <2>4. OneView' BY <1>3, MatchedKept DEF OneView, TakeSnapshot, ScoreShape
  <2> QED BY <2>1, <2>3, <2>4
<1>4. CASE JudgeUser(q)
  <2>1. ScoreShape' BY <1>4 DEF ScoreShape, JudgeUser
  <2>2. Holders' = Holders BY <1>4 DEF Holders, JudgeUser
  <2>3. SlotsCounted' BY <1>4, <2>2 DEF SlotsCounted, JudgeUser, ScoreShape
  <2>4. OneView' BY <1>4, MatchedKept DEF OneView, JudgeUser
  <2> QED BY <2>1, <2>3, <2>4
<1>5. CASE UserJudged(q)
  <2>1. ScoreShape' BY <1>5 DEF ScoreShape, UserJudged
  <2>2. Holders' = Holders BY <1>5 DEF Holders, UserJudged
  <2>3. SlotsCounted' BY <1>5, <2>2 DEF SlotsCounted, UserJudged, ScoreShape
  <2>4. OneView' BY <1>5, MatchedKept DEF OneView, UserJudged, ScoreShape
  <2> QED BY <2>1, <2>3, <2>4
<1>6. CASE AllJudged(q)
  <2>1. ScoreShape' BY <1>6 DEF ScoreShape, AllJudged
  <2>2. Holders' = Holders BY <1>6 DEF Holders, AllJudged, ScoreShape
  <2>3. SlotsCounted' BY <1>6, <2>2 DEF SlotsCounted, AllJudged, ScoreShape
  <2>4. OneView' BY <1>6, MatchedKept DEF OneView, AllJudged, ScoreShape
  <2> QED BY <2>1, <2>3, <2>4
<1>7. CASE LookUpName(q)
  <2>1. ScoreShape' BY <1>7 DEF ScoreShape, LookUpName
  <2>2. Holders' = Holders BY <1>7 DEF Holders, LookUpName
  <2>3. SlotsCounted' BY <1>7, <2>2 DEF SlotsCounted, LookUpName
  <2>4. OneView' BY <1>7, MatchedKept DEF OneView, LookUpName
  <2> QED BY <2>1, <2>3, <2>4
<1>8. CASE Respond(q)
  <2>1. ScoreShape' BY <1>8 DEF ScoreShape, Respond
  <2>2. Holders' = Holders BY <1>8 DEF Holders, Respond, ScoreShape
  <2>3. SlotsCounted' BY <1>8, <2>2 DEF SlotsCounted, Respond, ScoreShape
  <2>4. OneView' BY <1>8, MatchedKept DEF OneView, Respond, ScoreShape
  <2> QED BY <2>1, <2>3, <2>4
<1>9. CASE Release(q)
  <2>1. ScoreShape' BY <1>9 DEF ScoreShape, Release
  <2>2. Holders' = Holders \ {q} /\ q \in Holders BY <1>9 DEF Holders, Release, ScoreShape
  <2>3. IsFiniteSet(Holders') /\ Cardinality(Holders') = Cardinality(Holders) - 1
    BY <2>2, FS_RemoveElement DEF SlotsCounted
  <2>4. slots \in Nat BY FS_CardinalityType DEF SlotsCounted
  <2>5. slots' = slots - 1 BY <1>9 DEF Release, Freed
  <2>6. slots' = Cardinality(Holders') /\ slots' <= MaxConcurrentUsers
    BY <2>3, <2>4, <2>5 DEF SlotsCounted
  <2>7. SlotsCounted' BY <1>9, <2>3, <2>6 DEF SlotsCounted, Release, ScoreShape
  <2>8. OneView' BY <1>9, MatchedKept DEF OneView, Release, ScoreShape
  <2> QED BY <2>1, <2>7, <2>8
<1>10. ASSUME Arrival(q) PROVE \E n \in Nat : \E k \in 1..MaxConcurrentUsers : Arrive(q, n, k)
  <2>1. CASE Match(q) BY <2>1 DEF Match
  <2>2. ASSUME NEW n \in BatchSizes, MatchBatch(q, n)
        PROVE  \E i \in Nat : \E k \in 1..MaxConcurrentUsers : Arrive(q, i, k)
    <3> DEFINE k == IF n > 0 /\ n < MaxConcurrentUsers THEN n ELSE MaxConcurrentUsers
    <3>1. n \in Nat BY BatchAssumption
    <3>2. k \in 1..MaxConcurrentUsers BY <3>1
    <3>3. Arrive(q, n, k) BY <2>2 DEF MatchBatch
    <3> QED BY <3>1, <3>2, <3>3
  <2> QED BY <1>10, <2>1, <2>2 DEF Arrival
<1> HIDE DEF ScoreInv
<1> QED
  BY <1>1, <1>2, <1>3, <1>4, <1>5, <1>6, <1>7, <1>8, <1>9, <1>10 DEF Serve

(* Edits of the rules do not touch it. *)
LEMMA ScoreStutter == ScoreInv /\ UNCHANGED scoreVars => ScoreInv'
<1> SUFFICES ASSUME ScoreInv, UNCHANGED scoreVars PROVE ScoreInv' OBVIOUS
<1>1. ScoreShape' BY DEF ScoreInv, ScoreShape, scoreVars
<1>2. Holders' = Holders BY DEF Holders, scoreVars
<1>3. SlotsCounted' BY <1>2 DEF ScoreInv, SlotsCounted, scoreVars
<1>4. OneView' BY MatchedKept DEF ScoreInv, OneView, scoreVars
<1> QED BY <1>1, <1>3, <1>4 DEF ScoreInv

(* The invariant of the scoring requests, whatever is edited meanwhile. *)
LEMMA ScoreInvariant == ScoreSpec => []ScoreInv
<1>1. ScoreInv /\ [ScoreNext]_sysVars => ScoreInv'
  BY ScoreServe, ScoreStutter DEF ScoreNext, sysVars
<1> QED BY ScoreInvInit, <1>1, PTL DEF ScoreSpec

(* The users of one request are all judged against the same rule set, for any  *)
(* number of requests and of editing goroutines (RunBatch).                    *)
THEOREM BatchSeesOneRuleSet == ScoreSpec => []OneRuleSetPerRequest
<1>1. ScoreInv => OneRuleSetPerRequest
  <2> SUFFICES ASSUME ScoreInv, NEW q \in Requests PROVE Cardinality(answers[q]) <= 1
    BY DEF OneRuleSetPerRequest
  <2>1. answers[q] \subseteq {MatchedIds(q)} BY DEF ScoreInv, OneView
  <2>2. IsFiniteSet({MatchedIds(q)}) /\ Cardinality({MatchedIds(q)}) = 1 BY FS_Singleton
  <2> QED BY <2>1, <2>2, FS_Subset
<1> QED BY ScoreInvariant, <1>1, PTL

(* No more users are judged at once than the square of the configured cap, for *)
(* any number of requests and every batch size (limiter.go).                   *)
THEOREM FanOutIsBounded == ScoreSpec => []JudgedBound
<1>1. ScoreInv => JudgedBound
  <2> SUFFICES ASSUME ScoreInv PROVE JudgedBound OBVIOUS
  <2> DEFINE M == MaxConcurrentUsers
             J == UNION {{q} \X (1..judging[q]) : q \in Requests}
             H == Holders \X (1..M)
  <2>1. ASSUME NEW x \in J PROVE x \in H
    <3>1. PICK q \in Requests : x \in {q} \X (1..judging[q]) OBVIOUS
    <3>2. PICK i \in 1..judging[q] : x = <<q, i>> BY <3>1
    <3>3. fan[q] \in 0..M /\ judging[q] \in 0..fan[q] /\ (judging[q] > 0 => rpc[q] = "judge")
      BY DEF ScoreInv, SlotsCounted
    <3>4. i \in 1..M /\ judging[q] > 0 BY <3>2, <3>3, CapAssumption
    <3>5. q \in Holders BY <3>3, <3>4 DEF Holders
    <3> QED BY <3>2, <3>4, <3>5
  <2>2. IsFiniteSet(1..M) /\ Cardinality(1..M) = M BY FS_Interval, CapAssumption
  <2>3. IsFiniteSet(Holders) /\ Cardinality(Holders) <= M BY DEF ScoreInv, SlotsCounted
  <2>4. IsFiniteSet(H) /\ Cardinality(H) = Cardinality(Holders) * M BY <2>2, <2>3, FS_Product
  <2>5. J \in SUBSET H BY <2>1
  <2> HIDE DEF J, H
  <2>6. Cardinality(J) <= Cardinality(H) /\ IsFiniteSet(J) BY <2>4, <2>5, FS_Subset
  <2>7. Cardinality(J) \in Nat /\ Cardinality(Holders) \in Nat BY <2>3, <2>6, FS_CardinalityType
  <2>8. \A a \in Nat : a <= M => a * M <= M * M BY CapAssumption
  <2>9. Cardinality(H) <= M * M BY <2>3, <2>4, <2>7, <2>8
  <2>10. Cardinality(H) \in Nat BY <2>4, FS_CardinalityType
  <2>11. Cardinality(J) <= M * M BY <2>6, <2>7, <2>9, <2>10, CapAssumption
  <2> QED BY <2>11 DEF JudgedBound, Judged, J
<1> QED BY ScoreInvariant, <1>1, PTL

------------------------------------------------------------------------------
(* Names.  Where rules are only added, an id that is in the map stays there,   *)
(* so every id of a slice, published, collected or taken by a request, has a   *)
(* name whenever the request asks for it.                                      *)

OnlyStores == \A w \in Writers : \A k \in DOMAIN pending[w] : pending[w][k].op = "store"

Held(ps) == \A p \in ps : p.id \in Ids /\ m[p.id] # None

SlicesHeld ==
    /\ Held(S!ToSet(snapshot))
    /\ \A w \in Writers : Held(progs[w])
    /\ \A q \in Requests : view[q] \in Seq(Program) /\ Held(S!ToSet(view[q]))

(* The names found so far are those of the ids looked up so far. *)
NamesSoFar ==
    \A q \in Requests :
        /\ rpc[q] \in {"idle", "acquire", "snapshot", "judge"} => looked[q] = 0 /\ names[q] = <<>>
        /\ looked[q] \in Nat /\ names[q] \in Seq(Ids)
        /\ rpc[q] \in {"names", "release"} =>
            /\ Len(names[q]) = looked[q] /\ looked[q] <= Len(RuleIDs(q))
            /\ \A k \in 1..looked[q] : names[q][k] = RuleIDs(q)[k]
        /\ rpc[q] = "release" => looked[q] = Len(RuleIDs(q))

NamesInv == CacheInv /\ ScoreInv /\ OnlyStores /\ SlicesHeld /\ NamesSoFar

(* The ids a request answers with are ids of its slice. *)
LEMMA MatchedType ==
    ASSUME NEW q, view[q] \in Seq(Program), Held(S!ToSet(view[q]))
    PROVE  /\ MatchedIds(q) \in Seq(Ids)
           /\ \A k \in DOMAIN MatchedIds(q) : m[MatchedIds(q)[k]] # None
<1> DEFINE is == {i \in DOMAIN view[q] : view[q][i].source \in HitSources}
           n == Cardinality(is)
           hit == Ascending(is)
<1>1. is \subseteq Int /\ IsFiniteSet(is)
  <2>1. is \subseteq 1..Len(view[q]) /\ Len(view[q]) \in Nat OBVIOUS
  <2>2. IsFiniteSet(1..Len(view[q])) BY <2>1, FS_Interval
  <2> QED BY <2>1, <2>2, FS_Subset
<1>2. n \in Nat /\ hit \in [1..n -> is] BY <1>1, AscendingRange
<1> HIDE DEF n, hit
<1>3. DOMAIN hit = 1..n BY <1>2
<1>4. MatchedIds(q) = [k \in 1..n |-> view[q][hit[k]].id] BY <1>3 DEF MatchedIds, hit
<1>5. ASSUME NEW k \in 1..n PROVE view[q][hit[k]].id \in Ids /\ m[view[q][hit[k]].id] # None
  <2>1. hit[k] \in DOMAIN view[q] BY <1>2
  <2>2. view[q][hit[k]] \in S!ToSet(view[q]) BY <2>1 DEF S!ToSet
  <2> QED BY <2>2 DEF Held
<1> QED BY <1>2, <1>4, <1>5

(* The ids whose names are looked up. *)
LEMMA RuleIDsType ==
    ASSUME NamesInv, NEW q \in Requests
    PROVE  /\ RuleIDs(q) \in Seq(Ids)
           /\ \A k \in DOMAIN RuleIDs(q) : m[RuleIDs(q)[k]] # None
<1>1. answers[q] \subseteq {MatchedIds(q)} BY DEF NamesInv, ScoreInv, OneView
<1>2. CASE answers[q] = {} BY <1>2 DEF RuleIDs
<1>3. CASE answers[q] # {}
  <2>1. RuleIDs(q) = MatchedIds(q) BY <1>1, <1>3 DEF RuleIDs
  <2> QED BY <2>1, MatchedType DEF NamesInv, SlicesHeld
<1> QED BY <1>2, <1>3

(* The invariant holds of an empty cache without requests. *)
LEMMA NamesInit == ScoreInit => NamesInv
<1> SUFFICES ASSUME ScoreInit PROVE NamesInv OBVIOUS
<1>1. CacheInv /\ ScoreInv BY CacheInit, ScoreInvInit DEF ScoreInit
<1>2. OnlyStores BY DEF ScoreInit, Init, OnlyStores
<1>3. S!ToSet(<<>>) = {} BY DEF S!ToSet
<1>4. SlicesHeld BY <1>3 DEF ScoreInit, Init, SlicesHeld, Held
<1>5. NamesSoFar BY DEF ScoreInit, NamesSoFar
<1> QED BY <1>1, <1>2, <1>4, <1>5 DEF NamesInv

(* The steps of a request. *)
LEMMA NamesServe ==
    ASSUME NamesInv, NEW q \in Requests, Arrival(q) \/ Acquire(q) \/ Serve(q), UNCHANGED vars
    PROVE  NamesInv'
<1>0. CacheInv' /\ ScoreInv' BY CacheStutter, ScoreServe DEF NamesInv
<1>1. OnlyStores' BY DEF NamesInv, OnlyStores, vars
<1>2. /\ m' = m /\ snapshot' = snapshot /\ progs' = progs /\ snapshot \in Seq(Program)
  BY DEF vars, NamesInv, CacheInv, StoreOK, SliceOK
<1>3. SlicesHeld'
  <2>1. ASSUME NEW v \in Requests
        PROVE  view'[v] = view[v] \/ view'[v] = snapshot \/ view'[v] = <<>>
    BY DEF Arrival, Match, MatchBatch, Arrive, Acquire, Serve, TakeSnapshot, JudgeUser, UserJudged,
           AllJudged, LookUpName, Respond, Release, NamesInv, ScoreInv, ScoreShape
  <2>2. S!ToSet(<<>>) = {} BY DEF S!ToSet
  <2>3. ASSUME NEW v \in Requests
        PROVE  /\ view'[v] \in Seq(Program)
               /\ \A p \in S!ToSet(view'[v]) : p.id \in Ids /\ m[p.id] # None
    <3>1. CASE view'[v] = view[v] BY <3>1 DEF NamesInv, SlicesHeld, Held
    <3>2. CASE view'[v] = snapshot BY <1>2, <3>2 DEF NamesInv, SlicesHeld, Held
    <3>3. CASE view'[v] = <<>> BY <2>2, <3>3
    <3> QED BY <2>1, <3>1, <3>2, <3>3
  <2>4. /\ \A p \in S!ToSet(snapshot) : p.id \in Ids /\ m[p.id] # None
        /\ \A w \in Writers : \A p \in progs[w] : p.id \in Ids /\ m[p.id] # None
    BY DEF NamesInv, SlicesHeld, Held
  <2>5. SlicesHeld' <=>
          /\ \A p \in S!ToSet(snapshot') : p.id \in Ids /\ m'[p.id] # None
          /\ \A w \in Writers : \A p \in progs'[w] : p.id \in Ids /\ m'[p.id] # None
          /\ \A v \in Requests : /\ view'[v] \in Seq(Program)
                                 /\ \A p \in S!ToSet(view'[v]) : p.id \in Ids /\ m'[p.id] # None
    BY DEF SlicesHeld, Held
  <2> QED BY <1>2, <2>3, <2>4, <2>5
<1>4. NamesSoFar'
  <2> SUFFICES ASSUME NEW v \in Requests
               PROVE  /\ rpc'[v] \in {"idle", "acquire", "snapshot", "judge"}
                           => looked'[v] = 0 /\ names'[v] = <<>>
                      /\ looked'[v] \in Nat /\ names'[v] \in Seq(Ids)
                      /\ rpc'[v] \in {"names", "release"} =>
                           /\ Len(names'[v]) = looked'[v] /\ looked'[v] <= Len(RuleIDs(v)')
                           /\ \A k \in 1..looked'[v] : names'[v][k] = RuleIDs(v)'[k]
                      /\ rpc'[v] = "release" => looked'[v] = Len(RuleIDs(v)')
    BY DEF NamesSoFar
  <2> USE DEF NamesInv, ScoreInv, ScoreShape, NamesSoFar
  <2>r. answers'[v] = answers[v] => RuleIDs(v)' = RuleIDs(v) BY DEF RuleIDs
  <2>t. RuleIDs(v) \in Seq(Ids) BY RuleIDsType
  <2>1. CASE v # q
    <3>1. /\ rpc'[v] = rpc[v] /\ looked'[v] = looked[v] /\ names'[v] = names[v]
          /\ answers'[v] = answers[v]
      BY <2>1 DEF Arrival, Match, MatchBatch, Arrive, Acquire, Serve, TakeSnapshot, JudgeUser, UserJudged,
                  AllJudged, LookUpName, Respond, Release
    <3> QED BY <3>1, <2>r
  <2>2. CASE v = q
    <3>1. CASE Arrival(q) \/ Acquire(q) \/ TakeSnapshot(q) \/ JudgeUser(q) \/ UserJudged(q)
      <4>1. /\ rpc'[q] \in {"acquire", "snapshot", "judge"}
            /\ rpc[q] \in {"idle", "acquire", "snapshot", "judge"}
            /\ looked' = looked /\ names' = names
        BY <3>1 DEF Arrival, Match, MatchBatch, Arrive, Acquire, TakeSnapshot, JudgeUser, UserJudged
      <4> QED BY <2>2, <4>1
    <3>2. CASE AllJudged(q)
      <4>1. rpc'[q] = "names" /\ rpc[q] = "judge" /\ looked' = looked /\ names' = names
            /\ answers' = answers
        BY <3>2 DEF AllJudged
      <4>2. looked'[q] = 0 /\ names'[q] = <<>> BY <4>1
      <4> QED BY <2>2, <2>r, <2>t, <4>1, <4>2
    <3>3. CASE LookUpName(q)
      <4> DEFINE s == RuleIDs(q)
                 n == looked[q]
      <4>1. /\ rpc[q] = "names" /\ rpc'[q] = "names" /\ n < Len(s) /\ looked'[q] = n + 1
            /\ answers' = answers /\ n \in Nat /\ names[q] \in Seq(Ids) /\ Len(names[q]) = n
            /\ \A k \in 1..n : names[q][k] = s[k]
        BY <3>3 DEF LookUpName
      <4>2. n + 1 \in DOMAIN s /\ s[n + 1] \in Ids BY <4>1, <2>2, <2>t
      <4>3. m[s[n + 1]] # None BY <4>2, RuleIDsType
      <4>4. names'[q] = Append(names[q], s[n + 1]) BY <3>3, <4>3 DEF LookUpName
      <4> HIDE DEF s, n
      <4>5. names'[q] \in Seq(Ids) /\ Len(names'[q]) = n + 1 BY <4>1, <4>2, <4>4
      <4>6. \A k \in 1..(n + 1) : names'[q][k] = s[k] BY <4>1, <4>2, <4>4
      <4>7. n + 1 <= Len(s) /\ Len(s) \in Nat BY <4>1, <2>2, <2>t DEF s
      <4>8. RuleIDs(q)' = s BY <4>1, <2>2, <2>r DEF s
      <4> QED BY <2>2, <4>1, <4>5, <4>6, <4>7, <4>8
    <3>4. CASE Respond(q)
      <4>1. /\ rpc'[q] = "release" /\ rpc[q] = "names" /\ looked' = looked /\ names' = names
            /\ answers' = answers /\ looked[q] = Len(RuleIDs(q))
        BY <3>4 DEF Respond
      <4> QED BY <2>2, <2>r, <4>1
    <3>5. CASE Release(q)
      <4>1. rpc'[q] = "idle" /\ looked'[q] = 0 /\ names'[q] = <<>> BY <3>5 DEF Release
      <4> QED BY <2>2, <4>1
    <3> QED BY <3>1, <3>2, <3>3, <3>4, <3>5 DEF Serve
  <2> QED BY <2>1, <2>2
<1> QED BY <1>0, <1>1, <1>3, <1>4 DEF NamesInv

(* The steps of an editing goroutine that only adds. *)
LEMMA NamesEdit ==
    ASSUME RemoveIds = {}, RuleLists = {},
           NamesInv, NEW w \in Writers, EditStep(w), UNCHANGED scoreVars
    PROVE  NamesInv'
<1>1. CacheInv' /\ ScoreInv'
  <2>1. ASSUME Operation(w) PROVE CacheInv' BY <2>1, OperationBegins, CacheBegin DEF NamesInv
  <2> QED BY <2>1, CacheMap, CacheRange, CacheSwap, ScoreStutter DEF NamesInv, EditStep, Rebuild
<1>n. NamesSoFar'
  <2>1. \A q : RuleIDs(q)' = RuleIDs(q) BY DEF RuleIDs, scoreVars
  <2> QED BY <2>1 DEF NamesInv, NamesSoFar, scoreVars
<1> USE DEF NamesInv
<1>2. CASE Operation(w)
  <2>1. PICK r \in AddInputs : AddRule(w, r) BY <1>2 DEF Operation
  <2>2. Script(AddCall(r)) = <<Store(compile(<<r>>)[1])>> BY DEF Script, AddCall, Put
  <2>3. /\ pending' = [pending EXCEPT ![w] = <<Store(compile(<<r>>)[1])>>]
        /\ progs' = [progs EXCEPT ![w] = {}]
        /\ m' = m /\ snapshot' = snapshot
    BY <2>1, <2>2 DEF AddRule, Begin
  <2>4. OnlyStores' BY <2>3 DEF OnlyStores, CacheInv, StoreOK, Shape, Store
  <2>5. SlicesHeld' BY <2>3 DEF SlicesHeld, Held, CacheInv, StoreOK, Shape, scoreVars
  <2> QED BY <1>1, <1>n, <2>4, <2>5
<1>3. CASE MapStep(w)
  <2> DEFINE o == Head(pending[w])
  <2>1. pending[w] \in Seq(Ops) /\ pending[w] # <<>>
    BY <1>3 DEF CacheInv, StoreOK, PendingOK, MapStep
  <2>2. o \in Ops /\ o.op = "store" BY <2>1 DEF OnlyStores
  <2>3. o.prog \in Program /\ o.prog # None /\ o.prog.id \in Ids
    BY <2>2, OpKinds, NoneAssumption DEF Program
  <2>4. m' = [m EXCEPT ![o.prog.id] = o.prog] BY <1>3, <2>2 DEF MapStep, Apply
  <2>5. \A i \in Ids : m[i] # None => m'[i] # None BY <2>3, <2>4 DEF CacheInv, StoreOK, GoodMap
  <2>6. /\ pending' = [pending EXCEPT ![w] = Tail(pending[w])]
        /\ progs' = progs /\ snapshot' = snapshot
    BY <1>3 DEF MapStep
  <2>7. OnlyStores' BY <2>1, <2>6 DEF OnlyStores, CacheInv, StoreOK, Shape
  <2>8. SlicesHeld' BY <2>5, <2>6 DEF SlicesHeld, Held, scoreVars
  <2> QED BY <1>1, <1>n, <2>7, <2>8
<1>4. ASSUME NEW id \in Ids, RangeVisit(w, id) PROVE NamesInv'
  <2>1. /\ progs' = [progs EXCEPT ![w] = Visited(w, id)] /\ pending' = pending
        /\ snapshot' = snapshot /\ m' = m
    BY <1>4 DEF RangeVisit
  <2>2. Held(Visited(w, id)) BY DEF Visited, Held, SlicesHeld, CacheInv, StoreOK, GoodMap
  <2>3. SlicesHeld' BY <2>1, <2>2 DEF SlicesHeld, Held, CacheInv, StoreOK, Shape, scoreVars
  <2>4. OnlyStores' BY <2>1 DEF OnlyStores
  <2> QED BY <1>1, <1>n, <2>3, <2>4
<1>5. CASE Swap(w)
  <2>1. /\ snapshot' = Sorted(progs[w]) /\ progs' = progs /\ pending' = pending /\ m' = m
    BY <1>5 DEF Swap
  <2>2. S!ToSet(snapshot') = progs[w] BY <2>1, SortedGood DEF CacheInv, StoreOK, WalkOK
  <2>3. SlicesHeld' BY <2>1, <2>2 DEF SlicesHeld, Held, scoreVars
  <2>4. OnlyStores' BY <2>1 DEF OnlyStores
  <2> QED BY <1>1, <1>n, <2>3, <2>4
<1> QED BY <1>2, <1>3, <1>4, <1>5 DEF EditStep, Rebuild

(* Where rules are only added, a response names every rule it lists, although  *)
(* the ids come from a slice and the names from the map as it is by then, for  *)
(* any number of requests and of adding goroutines (handler.go).               *)
THEOREM AddedRulesHaveNames ==
    ASSUME RemoveIds = {}, RuleLists = {}
    PROVE  ScoreSpec => []NamesComplete
<1>1. NamesInv /\ UNCHANGED sysVars => NamesInv'
  <2> SUFFICES ASSUME NamesInv, UNCHANGED sysVars PROVE NamesInv' OBVIOUS
  <2>1. CacheInv' /\ ScoreInv' BY CacheStutter, ScoreStutter DEF NamesInv, sysVars
  <2>2. \A q : RuleIDs(q)' = RuleIDs(q) BY DEF RuleIDs, sysVars, scoreVars
  <2>3. NamesSoFar' BY <2>2 DEF NamesInv, NamesSoFar, sysVars, scoreVars
  <2>4. OnlyStores' /\ SlicesHeld'
    BY DEF NamesInv, OnlyStores, SlicesHeld, Held, sysVars, scoreVars, vars
  <2> QED BY <2>1, <2>3, <2>4 DEF NamesInv
<1>2. NamesInv /\ [ScoreNext]_sysVars => NamesInv'
  BY <1>1, NamesServe, NamesEdit DEF ScoreNext
<1>3. NamesInv => NamesComplete
  <2> SUFFICES ASSUME NamesInv, NEW q \in Requests, rpc[q] = "release" PROVE names[q] = RuleIDs(q)
    BY DEF NamesComplete
  <2>1. RuleIDs(q) \in Seq(Ids) BY RuleIDsType
  <2>2. /\ names[q] \in Seq(Ids) /\ Len(names[q]) = Len(RuleIDs(q))
        /\ \A k \in 1..Len(RuleIDs(q)) : names[q][k] = RuleIDs(q)[k]
    BY DEF NamesInv, NamesSoFar
  <2> QED BY <2>1, <2>2
<1> QED BY NamesInit, <1>2, <1>3, PTL DEF ScoreSpec
=============================================================================
