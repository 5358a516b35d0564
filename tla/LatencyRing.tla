----------------------------- MODULE LatencyRing -----------------------------
(***************************************************************************)
(* The ring of recent /match latencies behind /metrics                     *)
(* (internal/handler/latency.go).  Record and the copy in Percentiles run  *)
(* under the recorder's mutex, so each is one step.                        *)
(***************************************************************************)
EXTENDS Integers, Sequences

CONSTANTS
    Capacity,     \* capacity newLatencyRecorder is called with
    Default,      \* the capacity used when that is not positive (4096)
    Latencies,    \* observed durations
    MaxRecords    \* bound: observations made

ASSUME CapacityAssumption == Capacity \in Int /\ Default \in Nat \ {0}
ASSUME LatenciesAssumption == Latencies \subseteq Nat
ASSUME MaxRecordsAssumption == MaxRecords \in Nat

VARIABLES
    buf, idx, full,   \* the recorder's fields
    seen              \* history: every observation, in the order recorded

ringVars == <<buf, idx, full, seen>>

cap == IF Capacity <= 0 THEN Default ELSE Capacity

RingInit ==
    /\ buf = [i \in 0..(cap - 1) |-> 0]
    /\ idx = 0
    /\ full = FALSE
    /\ seen = <<>>

Wrapped(i) == i = cap

(* Mutant: the ring is never marked full. *)
MarkFull_never(i) == FALSE

MarkFull(i) == full \/ Wrapped(i)

Record(d) ==
    /\ Len(seen) < MaxRecords
    /\ buf' = [buf EXCEPT ![idx] = d]
    /\ idx' = IF Wrapped(idx + 1) THEN 0 ELSE idx + 1
    /\ full' = MarkFull(idx + 1)
    /\ seen' = Append(seen, d)

Exhausted == Len(seen) = MaxRecords /\ UNCHANGED ringVars

RingNext == (\E d \in Latencies : Record(d)) \/ Exhausted

RingSpec == RingInit /\ [][RingNext]_ringVars

------------------------------------------------------------------------------
(* Percentiles *)

size == IF full THEN cap ELSE idx

(* int(p*(size-1) + 0.5), clamped to the window, for p = pc percent. *)
Rank(pc, n) ==
    LET i == (pc * (n - 1) + 50) \div 100
    IN  IF i >= n THEN n - 1 ELSE IF i < 0 THEN 0 ELSE i

------------------------------------------------------------------------------
(* Properties *)

(* The variables keep their types; in particular idx is always a valid slot    *)
(* when Record writes to it (latency.go:30).                                   *)
RingTypeOK ==
    /\ buf \in [0..(cap - 1) -> Nat]
    /\ idx \in 0..(cap - 1)
    /\ full \in BOOLEAN
    /\ seen \in Seq(Nat)

(* Where the k-th last observation is: k slots back, around the ring. *)
Slot(k) == IF k <= idx THEN idx - k ELSE idx - k + cap

(* The window Percentiles copies is exactly the last observations: as many as  *)
(* were made, at most the capacity, each found where the ring index leaves it, *)
(* also across the wrap (latency.go:28).                                       *)
WindowIsRecent ==
    /\ size = IF Len(seen) < cap THEN Len(seen) ELSE cap
    /\ \A k \in 1..size : buf[Slot(k)] = seen[Len(seen) - k + 1]

(* With any sample at all, the three ranks are valid indices of the sorted     *)
(* window and do not decrease, so p50 <= p90 <= p99 (latency.go:55).           *)
RanksOrdered ==
    size > 0 => /\ {Rank(50, size), Rank(90, size), Rank(99, size)} \subseteq 0..(size - 1)
                /\ Rank(50, size) <= Rank(90, size) /\ Rank(90, size) <= Rank(99, size)
==============================================================================
