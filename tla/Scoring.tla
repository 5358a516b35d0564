------------------------------- MODULE Scoring -------------------------------
(***************************************************************************)
(* The online scoring requests (internal/handler/scoring.go, handler.go)   *)
(* over the rule cache while it is edited: /match judges one user,         *)
(* /match/batch fans a batch out to the worker pool, both behind the       *)
(* counting semaphore (pkg/engine/limiter.go).  A request matches against  *)
(* the published slice and afterwards looks the names of the matched rules *)
(* up in the live map, one by one.                                         *)
(***************************************************************************)
EXTENDS RuleCache

CONSTANTS
    Requests,            \* goroutines serving scoring requests
    MaxConcurrentUsers,  \* slots of the semaphore and bound of the fan-out
    BatchSizes,          \* numbers of users of a /match/batch request
    HitSources           \* rule texts whose Eval is true for the users scored

ASSUME CapAssumption == MaxConcurrentUsers \in Nat \ {0}
ASSUME BatchAssumption == BatchSizes \subseteq Nat

VARIABLES
    slots,     \* elements in the semaphore's channel
    rpc,       \* rpc[q]: where request q is
    fan,       \* fan[q]: workers judging its users (1 for /match)
    users,     \* users[q]: users of the request nobody has started on
    judging,   \* judging[q]: its users being judged at this moment
    view,      \* view[q]: the slice the request matches against
    answers,   \* answers[q]: the id lists its users got so far
    looked,    \* looked[q]: how many of them have been looked up
    names      \* names[q]: the ids whose name was found

scoreVars == <<slots, rpc, fan, users, judging, view, answers, looked, names>>
sysVars == <<vars, scoreVars>>

ScoreInit ==
    /\ Init
    /\ slots = 0
    /\ rpc = [q \in Requests |-> "idle"]
    /\ fan = [q \in Requests |-> 0]
    /\ users = [q \in Requests |-> 0]
    /\ judging = [q \in Requests |-> 0]
    /\ view = [q \in Requests |-> <<>>]
    /\ answers = [q \in Requests |-> {}]
    /\ looked = [q \in Requests |-> 0]
    /\ names = [q \in Requests |-> <<>>]

------------------------------------------------------------------------------
(* A body that does not parse is answered with 400 before anything else. *)
Arrive(q, n, workers) ==
    /\ rpc[q] = "idle"
    /\ rpc' = [rpc EXCEPT ![q] = "acquire"]
    /\ users' = [users EXCEPT ![q] = n]
    /\ fan' = [fan EXCEPT ![q] = workers]
    /\ UNCHANGED <<slots, judging, view, answers, looked, names>>

Match(q) == Arrive(q, 1, 1)

(* MatchBatchBounded: no more workers than users, nor than the bound. *)
MatchBatch(q, n) == Arrive(q, n, IF n > 0 /\ n < MaxConcurrentUsers THEN n ELSE MaxConcurrentUsers)

(* Mutant: a request does not wait for a slot. *)
HasSlot_always == TRUE

HasSlot == slots < MaxConcurrentUsers

Acquire(q) ==
    /\ rpc[q] = "acquire"
    /\ HasSlot
    /\ slots' = slots + 1
    /\ rpc' = [rpc EXCEPT ![q] = "snapshot"]
    /\ UNCHANGED <<fan, users, judging, view, answers, looked, names>>

(* Engine.Match and RunBatch read the published slice once. *)
TakeSnapshot(q) ==
    /\ rpc[q] = "snapshot"
    /\ view' = [view EXCEPT ![q] = snapshot]
    /\ rpc' = [rpc EXCEPT ![q] = "judge"]
    /\ UNCHANGED <<slots, fan, users, judging, answers, looked, names>>

JudgeUser(q) ==
    /\ rpc[q] = "judge" /\ users[q] > 0 /\ judging[q] < fan[q]
    /\ users' = [users EXCEPT ![q] = @ - 1]
    /\ judging' = [judging EXCEPT ![q] = @ + 1]
    /\ UNCHANGED <<slots, rpc, fan, view, answers, looked, names>>

(* Mutant: the ids come from the slice published now. *)
MatchedIds_live(q) ==
    LET hit == Ascending({i \in DOMAIN snapshot : snapshot[i].source \in HitSources})
    IN  [k \in DOMAIN hit |-> snapshot[hit[k]].id]

MatchedIds(q) ==
    LET hit == Ascending({i \in DOMAIN view[q] : view[q][i].source \in HitSources})
    IN  [k \in DOMAIN hit |-> view[q][hit[k]].id]

UserJudged(q) ==
    /\ rpc[q] = "judge" /\ judging[q] > 0
    /\ judging' = [judging EXCEPT ![q] = @ - 1]
    /\ answers' = [answers EXCEPT ![q] = @ \cup {MatchedIds(q)}]
    /\ UNCHANGED <<slots, rpc, fan, users, view, looked, names>>

AllJudged(q) ==
    /\ rpc[q] = "judge" /\ users[q] = 0 /\ judging[q] = 0
    /\ rpc' = [rpc EXCEPT ![q] = "names"]
    /\ UNCHANGED <<slots, fan, users, judging, view, answers, looked, names>>

(* The users scored here are alike, so one lookup stands for each of them. *)
RuleIDs(q) == IF answers[q] = {} THEN <<>> ELSE CHOOSE s \in answers[q] : TRUE

(* RuleName reads the map, not the slice; an id that is not there is skipped. *)
LookUpName(q) ==
    LET id == RuleIDs(q)[looked[q] + 1] IN
    /\ rpc[q] = "names" /\ looked[q] < Len(RuleIDs(q))
    /\ looked' = [looked EXCEPT ![q] = @ + 1]
    /\ names' = [names EXCEPT ![q] = IF m[id] = None THEN @ ELSE Append(@, id)]
    /\ UNCHANGED <<slots, rpc, fan, users, judging, view, answers>>

(* Mutant: the loop over the matched ids ends one too early. *)
Respond_early(q) ==
    /\ rpc[q] = "names" /\ looked[q] + 1 >= Len(RuleIDs(q))
    /\ rpc' = [rpc EXCEPT ![q] = "release"]
    /\ UNCHANGED <<slots, fan, users, judging, view, answers, looked, names>>

Respond(q) ==
    /\ rpc[q] = "names" /\ looked[q] = Len(RuleIDs(q))
    /\ rpc' = [rpc EXCEPT ![q] = "release"]
    /\ UNCHANGED <<slots, fan, users, judging, view, answers, looked, names>>

(* Mutant: the slot of a batch is not given back. *)
Freed_match_only(q) == IF fan[q] = 1 THEN slots - 1 ELSE slots

Freed(q) == slots - 1

(* The deferred Release, after the response has been written. *)
Release(q) ==
    /\ rpc[q] = "release"
    /\ slots' = Freed(q)
    /\ rpc' = [rpc EXCEPT ![q] = "idle"]
    /\ fan' = [fan EXCEPT ![q] = 0]
    /\ view' = [view EXCEPT ![q] = <<>>]
    /\ answers' = [answers EXCEPT ![q] = {}]
    /\ looked' = [looked EXCEPT ![q] = 0]
    /\ names' = [names EXCEPT ![q] = <<>>]
    /\ UNCHANGED <<users, judging>>

Serve(q) ==
    \/ TakeSnapshot(q) \/ JudgeUser(q) \/ UserJudged(q) \/ AllJudged(q)
    \/ LookUpName(q) \/ Respond(q) \/ Release(q)

Arrival(q) == Match(q) \/ \E n \in BatchSizes : MatchBatch(q, n)

EditStep(w) == Operation(w) \/ MapStep(w) \/ Rebuild(w)

ScoreNext ==
    \/ \E q \in Requests : (Arrival(q) \/ Acquire(q) \/ Serve(q)) /\ UNCHANGED vars
    \/ \E w \in Writers : EditStep(w) /\ UNCHANGED scoreVars

(* Goroutines are scheduled, and a channel serves blocked senders in the order *)
(* they came, so a slot that keeps becoming free reaches every request.        *)
ScoreFairness ==
    \A q \in Requests : WF_sysVars(Serve(q) /\ UNCHANGED vars)
                        /\ SF_sysVars(Acquire(q) /\ UNCHANGED vars)

ScoreSpec == ScoreInit /\ [][ScoreNext]_sysVars

FairScoreSpec == ScoreSpec /\ ScoreFairness

------------------------------------------------------------------------------
(* Properties *)

(* How many users are being judged, of all requests. *)
Judged == Cardinality(UNION {{q} \X (1..judging[q]) : q \in Requests})

(* What the semaphore is documented to keep: the server "queues excess         *)
(* requests so at most 200 users are judged concurrently" (docs/roadmap.md:39, *)
(* pkg/engine/limiter.go:5).                                                   *)
JudgedWithinCap == Judged <= MaxConcurrentUsers

(* What the code keeps: a request holds one slot and fans out to at most       *)
(* MaxConcurrentUsers workers, so that the users judged at once are bounded by *)
(* the square of the cap, over all requests that come and go                   *)
(* (RuleHandler.MatchBatch, MatchBatchBounded).                                *)
JudgedBound == Judged <= MaxConcurrentUsers * MaxConcurrentUsers

(* All users of a request are judged against one rule set, whatever is         *)
(* swapped in while the batch runs: RunBatch reads the slice once              *)
(* (pkg/engine/engine.go:164).                                                 *)
OneRuleSetPerRequest == \A q \in Requests : Cardinality(answers[q]) <= 1

(* A response names every rule it lists, as long as rules are only added:      *)
(* ids come from the slice and names from the live map, which always contains  *)
(* the slice then (handler.go:84).  A removal or a reload may break it.        *)
NamesComplete == \A q \in Requests : rpc[q] = "release" => names[q] = RuleIDs(q)

(* A request that waits for a slot is eventually answered. *)
RequestsAnswered == \A q \in Requests : rpc[q] = "acquire" ~> rpc[q] = "idle"
==============================================================================
