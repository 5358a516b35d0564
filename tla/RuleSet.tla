------------------------------- MODULE RuleSet -------------------------------
(***************************************************************************)
(* What the compiled-rule store of the engine promises its callers: one    *)
(* set of live programs, at most one per rule id, that every edit replaces *)
(* in a single step between the moment the edit is called and the moment   *)
(* it returns.  "ReplaceRules atomically swaps the ENTIRE rule set"        *)
(* (pkg/engine/engine.go), "Edits take effect immediately (the engine      *)
(* recompiles the single changed rule and atomically rebuilds its          *)
(* snapshot)" (pkg/engine/manager.go).                                     *)
(***************************************************************************)
EXTENDS Naturals, Sequences

CONSTANTS
    Writers,    \* goroutines that edit the rule set
    Calls,      \* the edits they may call: [op, progs, id]
    NoCall      \* the writer is not inside an edit

VARIABLES
    live,       \* the programs users are matched against
    call        \* call[w]: the edit writer w is inside, or NoCall

absVars == <<live, call>>

(* A list that names an id twice leaves the last program of that id. *)
Winners(progs) ==
    {progs[i] : i \in {j \in DOMAIN progs :
        \A k \in DOMAIN progs : k > j => progs[k].id # progs[j].id}}

Merge(ps, s) == {q \in s : \A p \in ps : p.id # q.id} \cup ps

(* The rule set that a whole edit turns the rule set s into. *)
Effect(c, s) ==
    CASE c.op = "remove"  -> {q \in s : q.id # c.id}
      [] c.op = "replace" -> Winners(c.progs)
      [] OTHER            -> Merge(Winners(c.progs), s)

AbsInit ==
    /\ live = {}
    /\ call = [w \in Writers |-> NoCall]

Invoke(w, c) ==
    /\ call[w] = NoCall
    /\ call' = [call EXCEPT ![w] = c]
    /\ UNCHANGED live

TakeEffect(w) ==
    /\ call[w] # NoCall
    /\ live' = Effect(call[w], live)
    /\ call' = [call EXCEPT ![w] = NoCall]

AbsNext == \E w \in Writers : TakeEffect(w) \/ \E c \in Calls : Invoke(w, c)

AbsSpec == AbsInit /\ [][AbsNext]_absVars
==============================================================================
