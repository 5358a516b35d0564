------------------------------ MODULE RuleCache ------------------------------
(***************************************************************************)
(* The compiled-rule store (pkg/engine/cache.go) and the engine operations *)
(* that edit it (pkg/engine/engine.go).  A writer is a goroutine inside    *)
(* one engine operation: it compiles its rules, changes the sync.Map one   *)
(* entry at a time, walks the map and swaps the sorted slice in.  Nothing  *)
(* holds a lock across these steps, so writers interleave between them.    *)
(***************************************************************************)
EXTENDS Integers, Sequences, FiniteSets

S == INSTANCE SequencesExt

CONSTANTS
    Ids,          \* rule ids
    Compilable,   \* rule texts the backend compiles without error
    Writers,      \* goroutines that call the engine's edit operations
    AddInputs,    \* rules AddRule is called with
    RemoveIds,    \* ids RemoveRule is called with
    RuleLists,    \* lists of rules LoadRules and ReplaceRules are called with
    MaxOps,       \* bound: how many operations the writers start in all
    NoCall,       \* a writer outside every operation
    None          \* an absent map entry

ASSUME IdsAssumption == Ids \subseteq Int
ASSUME MaxOpsAssumption == MaxOps \in Nat

(* model.Rule and model.RuleProgram, as far as the store looks at them. *)
Rule == [id : Ids, priority : Int, version : Int, expr : STRING, enabled : BOOLEAN]

Program == [id : Ids, priority : Int, version : Int, source : Compilable]

ASSUME InputsAssumption ==
    /\ \A r \in AddInputs : r \in Rule
    /\ RemoveIds \subseteq Ids
    /\ \A l \in RuleLists : l \in Seq(Rule)
ASSUME NoneAssumption == None \notin Rule /\ None \notin Program

VARIABLES
    m,            \* RuleCache.m, the sync.Map: id -> program or None
    snapshot,     \* RuleCache.snapshot, the published slice
    call,         \* call[w]: the operation w is inside
    pending,      \* pending[w]: map operations w has still to perform
    left,         \* left[w]: keys the Range of w has not visited yet
    progs,        \* progs[w]: programs the Range of w has collected
    ops,          \* operations started so far
    overlap       \* history: the operations of the current busy period overlapped

vars == <<m, snapshot, call, pending, left, progs, ops, overlap>>

------------------------------------------------------------------------------
(* Programs, compilation and the order of the published slice *)

ProgramOf(r) ==
    [id |-> r.id, priority |-> r.priority, version |-> r.version, source |-> r.expr]

(* The integers of a finite set in ascending order. *)
Ascending(is) ==
    [k \in 1..Cardinality(is) |-> CHOOSE i \in is : Cardinality({j \in is : j <= i}) = k]

Compiles(r) == r.enabled /\ r.expr \in Compilable

(* Disabled rules and rules that do not parse are skipped. *)
compile(rules) ==
    LET ok == Ascending({i \in DOMAIN rules : Compiles(rules[i])})
    IN  [k \in DOMAIN ok |-> ProgramOf(rules[ok[k]])]

Before(p, q) ==
    \/ p.priority > q.priority
    \/ p.priority = q.priority /\ p.id < q.id

(* The slice sort.SliceStable makes of what Range appended in any order. *)
Sorted(ps) ==
    CHOOSE s \in [1..Cardinality(ps) -> ps] :
        /\ \A p \in ps : \E i \in DOMAIN s : s[i] = p
        /\ \A i, j \in DOMAIN s : i < j => ~Before(s[j], s[i])

------------------------------------------------------------------------------
(* The map operations of each cache method, in the order it performs them *)

Store(p) == [op |-> "store", prog |-> p]

Put(p) == <<Store(p)>>

Delete(id) == <<[op |-> "delete", id |-> id]>>

PutAll(ps) == [i \in DOMAIN ps |-> Store(ps[i])]

(* Mutant: the old entries are not cleared first. *)
ReplaceAll_without_clear(ps) == PutAll(ps)

ReplaceAll(ps) == <<[op |-> "clear"]>> \o PutAll(ps)

Apply(mm, o) ==
    CASE o.op = "store"  -> [mm EXCEPT ![o.prog.id] = o.prog]
      [] o.op = "delete" -> [mm EXCEPT ![o.id] = None]
      [] o.op = "clear"  -> [i \in Ids |-> None]

Script(c) ==
    CASE c.op = "add"     -> Put(c.progs[1])
      [] c.op = "remove"  -> Delete(c.id)
      [] c.op = "load"    -> PutAll(c.progs)
      [] c.op = "replace" -> ReplaceAll(c.progs)

Stored == {m[i] : i \in {j \in Ids : m[j] # None}}

------------------------------------------------------------------------------
Init ==
    /\ m = [i \in Ids |-> None]
    /\ snapshot = <<>>
    /\ call = [w \in Writers |-> NoCall]
    /\ pending = [w \in Writers |-> <<>>]
    /\ left = [w \in Writers |-> {}]
    /\ progs = [w \in Writers |-> {}]
    /\ ops = 0
    /\ overlap = FALSE

Idle(w) == call[w] = NoCall

(* Every operation compiles first, on its own stack, and then starts on the map. *)
Begin(w, c) ==
    /\ Idle(w)
    /\ ops < MaxOps
    /\ ops' = ops + 1
    /\ call' = [call EXCEPT ![w] = c]
    /\ pending' = [pending EXCEPT ![w] = Script(c)]
    /\ left' = [left EXCEPT ![w] = Ids]
    /\ progs' = [progs EXCEPT ![w] = {}]
    /\ overlap' = \E v \in Writers : ~Idle(v)
    /\ UNCHANGED <<m, snapshot>>

AddCall(r)         == [op |-> "add", progs |-> compile(<<r>>), id |-> r.id]
RemoveCall(id)     == [op |-> "remove", progs |-> <<>>, id |-> id]
LoadCall(rules)    == [op |-> "load", progs |-> compile(rules), id |-> None]
ReplaceCall(rules) == [op |-> "replace", progs |-> compile(rules), id |-> None]

Calls ==
    {AddCall(r) : r \in {s \in AddInputs : compile(<<s>>) # <<>>}}
        \cup {RemoveCall(i) : i \in RemoveIds}
        \cup {LoadCall(l) : l \in RuleLists} \cup {ReplaceCall(l) : l \in RuleLists}

(* What any caller may hand to Begin. *)
AnyCall ==
    [op : {"add", "remove", "load", "replace"}, progs : Seq(Program), id : Ids \cup {None}]

ASSUME NoCallAssumption == NoCall \notin AnyCall

(* A rule that is disabled or does not compile is an error and changes nothing. *)
AddRule(w, r) ==
    /\ compile(<<r>>) # <<>>
    /\ Begin(w, AddCall(r))

RemoveRule(w, id) == Begin(w, RemoveCall(id))

LoadRules(w, rules) == Begin(w, LoadCall(rules))

ReplaceRules(w, rules) == Begin(w, ReplaceCall(rules))

(* The next Store, Delete or Clear of the operation w is inside. *)
MapStep(w) ==
    /\ pending[w] # <<>>
    /\ m' = Apply(m, Head(pending[w]))
    /\ pending' = [pending EXCEPT ![w] = Tail(@)]
    /\ UNCHANGED <<snapshot, call, left, progs, ops, overlap>>

(* Mutant: the callback of Range overwrites the slice instead of appending. *)
Visited_overwrites(w, id) == IF m[id] = None THEN progs[w] ELSE {m[id]}

Visited(w, id) ==
    IF m[id] = None THEN progs[w] ELSE progs[w] \cup {m[id]}

(* m.Range visits each key at most once, in no particular order, and sees   *)
(* for each key the value of some moment during the call.                   *)
RangeVisit(w, id) ==
    /\ ~Idle(w) /\ pending[w] = <<>>
    /\ id \in left[w]
    /\ left' = [left EXCEPT ![w] = @ \ {id}]
    /\ progs' = [progs EXCEPT ![w] = Visited(w, id)]
    /\ UNCHANGED <<m, snapshot, call, pending, ops, overlap>>

(* Sort what Range collected, swap it in under the lock, return. *)
Swap(w) ==
    /\ ~Idle(w) /\ pending[w] = <<>> /\ left[w] = {}
    /\ snapshot' = Sorted(progs[w])
    /\ call' = [call EXCEPT ![w] = NoCall]
    /\ UNCHANGED <<m, pending, left, progs, ops, overlap>>

Rebuild(w) == (\E id \in Ids : RangeVisit(w, id)) \/ Swap(w)

Operation(w) ==
    \/ \E r \in AddInputs : AddRule(w, r)
    \/ \E id \in RemoveIds : RemoveRule(w, id)
    \/ \E l \in RuleLists : LoadRules(w, l) \/ ReplaceRules(w, l)

AllIdle == \A w \in Writers : Idle(w)

Finished == AllIdle /\ ops = MaxOps /\ UNCHANGED vars

Next ==
    \/ \E w \in Writers : Operation(w) \/ MapStep(w) \/ Rebuild(w)
    \/ Finished

Spec == Init /\ [][Next]_vars

------------------------------------------------------------------------------
(* Properties *)

(* An edit that no other edit overlapped publishes exactly the map, and so     *)
(* repairs whatever earlier overlapping edits left behind (Rebuild collects    *)
(* the whole map every time, cache.go).                                        *)
SoloEditPublishesMap ==
    AllIdle /\ ~overlap => snapshot = Sorted(Stored)

(* Once every edit has returned, matching uses the rules the map holds: "Edits *)
(* take effect immediately (the engine recompiles the single changed rule and  *)
(* atomically rebuilds its snapshot)" (pkg/engine/manager.go:16).              *)
EditsTakeEffect == AllIdle => S!ToSet(snapshot) = Stored

Abstract == INSTANCE RuleSet WITH live <- S!ToSet(snapshot)

(* With one writer, every operation turns the live rule set into exactly the   *)
(* set it was called for, in one step, before it returns (engine.go,           *)
(* cache.go): the cache implements the atomic RuleSet.                         *)
ImplementsRuleSet == Abstract!AbsSpec
==============================================================================
