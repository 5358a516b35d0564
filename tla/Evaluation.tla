----------------------------- MODULE Evaluation -----------------------------
(***************************************************************************)
(* The explaining requests (/evaluate and /evaluate/all,                   *)
(* internal/handler/scoring.go and internal/service/rule_service.go) over  *)
(* the rule cache while it is edited.  /evaluate with a rule id reads the  *)
(* live map twice, once to answer 404 and once for the rule's text;        *)
(* /evaluate/all reads the published slice.                                *)
(***************************************************************************)
EXTENDS RuleCache

CONSTANTS
    EvalIds,      \* rule ids /evaluate is called with
    GivenTexts,   \* rule texts /evaluate is called with
    Flagship,     \* the built-in rule used when neither is given
    Readable,     \* texts ir.Parse accepts
    Passing       \* texts Explain passes for the row of the request

VARIABLES
    epc,          \* idle, check, fetch, explain, answered
    ask,          \* the request: [id, text], None where it is not given
    text,         \* the rule text to explain
    status,       \* the HTTP status of the answer
    gate,         \* the answer of /evaluate/all: [total, passed, failed]
    during        \* history: what the map held for the id since the request came

evalVars == <<epc, ask, text, status, gate, during>>

NoGate == [total |-> 0, passed |-> {}, failed |-> {}]

EvalInit ==
    /\ epc = "idle" /\ ask = [id |-> None, text |-> None]
    /\ text = None /\ status = 0
    /\ gate = NoGate /\ during = {}

TextOf(mm, id) == IF id = None \/ mm[id] = None THEN None ELSE mm[id].source

(* rule wins over rule_id; neither means the flagship. *)
EvalRequest(id, t) ==
    /\ epc = "idle"
    /\ ask' = [id |-> id, text |-> t]
    /\ text' = IF t # None THEN t ELSE IF id = None THEN Flagship ELSE None
    /\ epc' = IF t = None /\ id # None THEN "check" ELSE "explain"
    /\ during' = {TextOf(m, id)}
    /\ UNCHANGED <<status, gate>>

Answer(code) == status' = code /\ epc' = "answered"

Known(id) == m[id] # None

(* The handler's own look at the map. *)
EvalCheck ==
    /\ epc = "check"
    /\ IF Known(ask.id) THEN epc' = "fetch" /\ status' = status ELSE Answer(404)
    /\ UNCHANGED <<ask, text, gate, during>>

(* Mutant: a rule that is gone by now is replaced by the flagship. *)
Fetched_or_flagship(id) == IF m[id] = None THEN Flagship ELSE m[id].source

Fetched(id) == TextOf(m, id)

(* The service's look: gone by now is an error, answered with 400. *)
EvalFetch ==
    /\ epc = "fetch"
    /\ IF Fetched(ask.id) = None
       THEN Answer(400) /\ text' = text
       ELSE text' = Fetched(ask.id) /\ epc' = "explain" /\ status' = status
    /\ UNCHANGED <<ask, gate, during>>

EvalExplain ==
    /\ epc = "explain"
    /\ Answer(IF text \in Readable THEN 200 ELSE 400)
    /\ UNCHANGED <<ask, text, gate, during>>

(* One read of the slice, then every rule of it; a text that does not parse    *)
(* fails the gate.                                                             *)
EvaluateAll ==
    LET ok == {p \in S!ToSet(snapshot) : p.source \in Readable \cap Passing} IN
    /\ epc = "idle"
    /\ gate' = [total |-> Len(snapshot), passed |-> {p.id : p \in ok},
                failed |-> {p.id : p \in S!ToSet(snapshot) \ ok}]
    /\ UNCHANGED <<epc, ask, text, status, during>>

EvalDone ==
    /\ epc = "answered"
    /\ epc' = "idle" /\ ask' = [id |-> None, text |-> None]
    /\ text' = None /\ status' = 0 /\ gate' = NoGate /\ during' = {}

Evaluating ==
    \/ \E id \in EvalIds : EvalRequest(id, None)
    \/ \E t \in GivenTexts \cup {None} : EvalRequest(None, t)
    \/ EvalCheck \/ EvalFetch \/ EvalExplain \/ EvaluateAll \/ EvalDone

(* An edit step, noted by the request under way. *)
EditMeanwhile ==
    /\ \E w \in Writers : Operation(w) \/ MapStep(w) \/ Rebuild(w)
    /\ during' = IF epc \in {"idle", "answered"} THEN during ELSE during \cup {TextOf(m', ask.id)}
    /\ UNCHANGED <<epc, ask, text, status, gate>>

EvalNext == (Evaluating /\ UNCHANGED vars) \/ EditMeanwhile

EvalSpec == Init /\ EvalInit /\ [][EvalNext]_<<vars, evalVars>>

------------------------------------------------------------------------------
(* Properties *)

(* An answer about a rule id is true of some moment of the request: the text   *)
(* explained was that rule's, never the flagship's or a rule's of another      *)
(* moment, and "not loaded" (404, or 400 when the rule went between the two    *)
(* reads) means the map was without it (scoring.go:103).  A rule the map holds *)
(* all through the request is explained.                                       *)
AnswerWasTrue ==
    epc = "answered" /\ ask.id # None =>
        /\ status = 404 => None \in during
        /\ text # None => text \in during
        /\ status = 400 => text # None \/ None \in during
        /\ None \notin during => text # None /\ (during \subseteq Readable => status = 200)
=============================================================================
