----------------------------- MODULE RuleManager -----------------------------
(***************************************************************************)
(* The operations layer (pkg/engine/manager.go) over the rule cache: the   *)
(* editable rule set, published versions and rollback, called by admin     *)
(* requests that run concurrently; the self-test (internal/service); and   *)
(* the two ways the process starts (cmd/api, internal/cli).  The Manager's *)
(* mutex covers single reads and writes of its fields, not the engine call *)
(* between them.                                                           *)
(***************************************************************************)
EXTENDS RuleCache

CONSTANTS
    Admins,       \* goroutines serving admin requests
    Main,         \* the goroutine that starts the process
    FileWatcher,  \* the goroutine of the file watcher
    Boot,         \* "api" (cmd/api) or "cli" (internal/cli RunServer)
    StartRules,   \* the rules loaded at start
    FileLists,    \* rule files the watcher may find
    SelfTestId,   \* the id reserved for the rule SelfTest adds and removes
    SelfTestInputs, \* the rule text and the sample user SelfTest is called with
    MaxVersions,  \* bound: published versions
    NoReq         \* an admin goroutine outside every request

ASSUME WritersAssumption ==
    /\ Writers = Admins \cup {Main, FileWatcher}
    /\ Main \notin Admins /\ FileWatcher \notin Admins
ASSUME BootAssumption == Boot \in {"api", "cli"}
ASSUME StartAssumption ==
    /\ StartRules \in Seq(Rule)
    /\ \A l \in FileLists : l \in Seq(Rule)
ASSUME SelfTestAssumption ==
    /\ SelfTestId \in Ids
    /\ \A t \in SelfTestInputs : t.rule \in STRING /\ t.row \subseteq STRING
ASSUME TextAssumption == Compilable \subseteq STRING

(* A map of rules by id, and what an admin goroutine keeps on its stack. *)
RuleMap == [Ids -> Rule \cup {None}]

(* A self-test keeps the rule's text and the sample user; the user is the set  *)
(* of the rule texts it satisfies.                                             *)
AnyReq ==
    [op : {"upsert"}, rule : Rule] \cup [op : {"remove"}, id : Ids]
        \cup [op : {"publish", "rollback"}, rules : RuleMap]
        \cup [op : {"testadd"}, rule : Rule, row : SUBSET STRING]
        \cup [op : {"tested"}, expr : STRING, row : SUBSET STRING]
        \cup [op : {"testremove", "testdone"}, expr : STRING, row : SUBSET STRING, addOK : BOOLEAN]

ASSUME NoReqAssumption == NoReq \notin AnyReq

VARIABLES
    phase,        \* progress of the start: start, managed, loading, loaded, serving
    rules,        \* Manager.rules: id -> rule or None
    versions,     \* Manager.versions: the published rule sets, oldest first
    req,          \* req[a]: the request admin goroutine a is inside
    reports,      \* history: results returned by SelfTest
    solo,         \* history: the last edit to begin had the rule set for itself
    inStep        \* history: no edit bypassed the Manager or overlapped another

mgrVars == <<phase, rules, versions, req, reports, solo, inStep>>
allVars == <<vars, mgrVars>>

Busy(w) == ~Idle(w) \/ (w \in Admins /\ req[w] # NoReq /\ req[w].op # "publish")

OthersBusy(w) == \E v \in Writers \ {w} : Busy(v)

MgrInit ==
    /\ Init
    /\ phase = "start"
    /\ rules = [i \in Ids |-> None]
    /\ versions = <<>>
    /\ req = [a \in Admins |-> NoReq]
    /\ reports = {}
    /\ solo = TRUE
    /\ inStep = TRUE

------------------------------------------------------------------------------
(* Starting the process *)

(* The editable set is seeded from the published slice, every rule enabled. *)
Seeded ==
    [i \in Ids |->
        IF \E p \in S!ToSet(snapshot) : p.id = i
        THEN LET p == CHOOSE q \in S!ToSet(snapshot) : q.id = i
             IN  [id |-> i, priority |-> p.priority, version |-> p.version,
                  expr |-> p.source, enabled |-> TRUE]
        ELSE None]

(* NewComManager builds the Manager first in cmd/api, and last in the CLI. *)
NewManager ==
    /\ phase = IF Boot = "api" THEN "start" ELSE "loaded"
    /\ phase' = IF Boot = "api" THEN "managed" ELSE "serving"
    /\ rules' = Seeded
    /\ inStep' = (AllIdle /\ ~overlap)
    /\ UNCHANGED <<vars, versions, req, reports, solo>>

BootLoad ==
    /\ phase = IF Boot = "api" THEN "managed" ELSE "start"
    /\ Begin(Main, LoadCall(StartRules))
    /\ phase' = "loading"
    /\ solo' = ~OthersBusy(Main)
    /\ inStep' = FALSE
    /\ UNCHANGED <<rules, versions, req, reports>>

BootLoaded ==
    /\ phase = "loading" /\ Idle(Main)
    /\ phase' = IF Boot = "api" THEN "serving" ELSE "loaded"
    /\ UNCHANGED <<vars, rules, versions, req, reports, solo, inStep>>

(* RunServer starts the watcher before the server builds its Manager. *)
WatcherReload(list) ==
    /\ Boot = "cli" /\ phase \in {"loaded", "serving"}
    /\ Begin(FileWatcher, ReplaceCall(list))
    /\ solo' = ~OthersBusy(FileWatcher)
    /\ inStep' = FALSE
    /\ UNCHANGED <<phase, rules, versions, req, reports>>

------------------------------------------------------------------------------
(* Admin requests *)

BeginEdit(a, c, r) ==
    /\ Begin(a, c)
    /\ req' = [req EXCEPT ![a] = r]
    /\ solo' = ~OthersBusy(a)
    /\ inStep' = (inStep /\ ~OthersBusy(a))
    /\ UNCHANGED <<phase, rules, versions, reports>>

FinishRequest(a) == req' = [req EXCEPT ![a] = NoReq]

(* The version an edit of rule r gets: one more than the stored one, unless   *)
(* the caller pinned a higher one; 1 for a new rule without one.              *)
NextVersion(r) ==
    IF rules[r.id] # None /\ r.version <= rules[r.id].version
    THEN rules[r.id].version + 1
    ELSE IF r.version = 0 THEN 1 ELSE r.version

Edited(r) == [r EXCEPT !.version = NextVersion(r)]

(* Mutant: a rule that fails to compile is stored in the editable set anyway.  *)
UpsertBegin_ignores_error(a, q) ==
    /\ phase = "serving" /\ req[a] = NoReq
    /\ LET e == Edited(q.rule) IN
       BeginEdit(a, IF e.enabled /\ compile(<<e>>) # <<>> THEN AddCall(e) ELSE RemoveCall(e.id),
                 [q EXCEPT !.rule = e])

(* Lock, version, unlock, then AddRule or RemoveRule; an enabled rule that     *)
(* does not compile is an error that changes nothing.                          *)
UpsertBegin(a, q) ==
    /\ phase = "serving" /\ req[a] = NoReq
    /\ LET e == Edited(q.rule) IN
       /\ e.enabled => compile(<<e>>) # <<>>
       /\ BeginEdit(a, IF e.enabled THEN AddCall(e) ELSE RemoveCall(e.id), [q EXCEPT !.rule = e])

Upsert(a, r) == UpsertBegin(a, [op |-> "upsert", rule |-> r])

UpsertStore(r) == rules' = [rules EXCEPT ![r.id] = r]

UpsertCommit(a) ==
    /\ req[a] # NoReq /\ req[a].op = "upsert" /\ Idle(a)
    /\ UpsertStore(req[a].rule)
    /\ FinishRequest(a)
    /\ UNCHANGED <<vars, phase, versions, reports, solo, inStep>>

Remove(a, id) ==
    /\ phase = "serving" /\ req[a] = NoReq
    /\ BeginEdit(a, RemoveCall(id), [op |-> "remove", id |-> id])

(* Mutant: the rule stays in the editable set. *)
RemoveCommit_live_only(a) ==
    /\ req[a] # NoReq /\ req[a].op = "remove" /\ Idle(a)
    /\ FinishRequest(a)
    /\ UNCHANGED <<vars, phase, rules, versions, reports, solo, inStep>>

RemoveCommit(a) ==
    /\ req[a] # NoReq /\ req[a].op = "remove" /\ Idle(a)
    /\ rules' = [rules EXCEPT ![req[a].id] = None]
    /\ FinishRequest(a)
    /\ UNCHANGED <<vars, phase, versions, reports, solo, inStep>>

(* Publish copies the rules under one lock and appends under the next. *)
PublishList(a) ==
    /\ phase = "serving" /\ req[a] = NoReq
    /\ Len(versions) < MaxVersions
    /\ req' = [req EXCEPT ![a] = [op |-> "publish", rules |-> rules]]
    /\ UNCHANGED <<vars, phase, rules, versions, reports, solo, inStep>>

PublishAppend(a) ==
    /\ req[a] # NoReq /\ req[a].op = "publish"
    /\ versions' = Append(versions, [version |-> Len(versions) + 1, rules |-> req[a].rules])
    /\ FinishRequest(a)
    /\ UNCHANGED <<vars, phase, rules, reports, solo, inStep>>

List(rs) ==
    LET ids == Ascending({i \in Ids : rs[i] # None})
    IN  [k \in DOMAIN ids |-> rs[ids[k]]]

(* An unknown version is an error; an empty published set is not. *)
Rollback(a, k) ==
    /\ phase = "serving" /\ req[a] = NoReq
    /\ k \in DOMAIN versions
    /\ BeginEdit(a, ReplaceCall(List(versions[k].rules)),
                 [op |-> "rollback", rules |-> versions[k].rules])

(* Mutant: the editable set keeps the rules the version does not name. *)
RolledBack_merges(old, rs) == [i \in Ids |-> IF rs[i] = None THEN old[i] ELSE rs[i]]

RolledBack(old, rs) == rs

RollbackCommit(a) ==
    /\ req[a] # NoReq /\ req[a].op = "rollback" /\ Idle(a)
    /\ rules' = RolledBack(rules, req[a].rules)
    /\ FinishRequest(a)
    /\ inStep' = (inStep \/ solo)
    /\ UNCHANGED <<vars, phase, versions, reports, solo>>

------------------------------------------------------------------------------
(* SelfTest: Upsert, Match, Remove, Match, all on the reserved id *)

LiveIds == {p.id : p \in S!ToSet(snapshot)}

(* Engine.Match: the ids of the live rules the user satisfies. *)
MatchRow(row) == {p.id : p \in {q \in S!ToSet(snapshot) : q.source \in row}}

SelfTestRule(text) ==
    [id |-> SelfTestId, priority |-> 0, version |-> 0, expr |-> text, enabled |-> TRUE]

(* A rule that does not parse is an error before anything is added. *)
SelfTestAdd(a, t) ==
    UpsertBegin(a, [op |-> "testadd", rule |-> SelfTestRule(t.rule), row |-> t.row])

SelfTestAdded(a) ==
    /\ req[a] # NoReq /\ req[a].op = "testadd" /\ Idle(a)
    /\ UpsertStore(req[a].rule)
    /\ req' = [req EXCEPT ![a] = [op |-> "tested", expr |-> req[a].rule.expr, row |-> req[a].row]]
    /\ UNCHANGED <<vars, phase, versions, reports, solo, inStep>>

(* afterAdd, and Manager.Remove *)
SelfTestRemove(a) ==
    /\ req[a] # NoReq /\ req[a].op = "tested"
    /\ BeginEdit(a, RemoveCall(SelfTestId),
                 [op |-> "testremove", expr |-> req[a].expr, row |-> req[a].row,
                  addOK |-> SelfTestId \in MatchRow(req[a].row)])

(* Mutant: the reserved rule is only taken out of the engine. *)
SelfTestRemoved_live_only(a) ==
    /\ req[a] # NoReq /\ req[a].op = "testremove" /\ Idle(a)
    /\ req' = [req EXCEPT ![a].op = "testdone"]
    /\ UNCHANGED <<vars, phase, rules, versions, reports, solo, inStep>>

SelfTestRemoved(a) ==
    /\ req[a] # NoReq /\ req[a].op = "testremove" /\ Idle(a)
    /\ rules' = [rules EXCEPT ![SelfTestId] = None]
    /\ req' = [req EXCEPT ![a].op = "testdone"]
    /\ UNCHANGED <<vars, phase, versions, reports, solo, inStep>>

(* afterRemove, and the result *)
SelfTestReport(a) ==
    /\ req[a] # NoReq /\ req[a].op = "testdone"
    /\ reports' = reports \cup {[Rule |-> req[a].expr, SampleUser |-> req[a].row,
                                 LiveAddOK    |-> req[a].addOK,
                                 LiveRemoveOK |-> SelfTestId \notin MatchRow(req[a].row)]}
    /\ FinishRequest(a)
    /\ UNCHANGED <<vars, phase, rules, versions, solo, inStep>>

SelfTest(a) ==
    \/ \E t \in SelfTestInputs : SelfTestAdd(a, t)
    \/ SelfTestAdded(a) \/ SelfTestRemove(a) \/ SelfTestRemoved(a) \/ SelfTestReport(a)

------------------------------------------------------------------------------
Request(a) ==
    \/ \E r \in AddInputs : Upsert(a, r)
    \/ \E id \in RemoveIds : Remove(a, id)
    \/ \E k \in 1..MaxVersions : Rollback(a, k)
    \/ PublishList(a) \/ PublishAppend(a)
    \/ UpsertCommit(a) \/ RemoveCommit(a) \/ RollbackCommit(a)

EngineStep(w) == (MapStep(w) \/ Rebuild(w)) /\ UNCHANGED mgrVars

Start == NewManager \/ BootLoad \/ BootLoaded

Quiet == phase = "serving" /\ \A w \in Writers : Idle(w) /\ (w \in Admins => req[w] = NoReq)

(* The bounded requests are used up; the server goes on serving what is live. *)
Exhausted == ops = MaxOps /\ UNCHANGED allVars

MgrNext ==
    \/ Start
    \/ \E l \in FileLists : WatcherReload(l)
    \/ \E a \in Admins : Request(a) \/ SelfTest(a)
    \/ \E w \in Writers : EngineStep(w)
    \/ Exhausted

MgrSpec == MgrInit /\ [][MgrNext]_allVars

------------------------------------------------------------------------------
(* Properties *)

EnabledPrograms(rs) == {ProgramOf(rs[i]) : i \in {j \in Ids : rs[j] # None /\ rs[j].enabled}}

(* Whenever nobody is editing, the enabled rules of the Manager are exactly    *)
(* the programs users are matched against: the Manager "holds the              *)
(* authoritative, editable rule set" (pkg/engine/manager.go:12).               *)
EditableIsLive == Quiet => EnabledPrograms(rules) = S!ToSet(snapshot)

(* The same, as far as the code does keep it: after edits that did not overlap *)
(* or bypass the Manager, and again after any rollback that had the rule set   *)
(* for itself, whatever was out of step before it (Manager.Rollback).          *)
InStepEditableIsLive == inStep => EditableIsLive

(* Rollback drops the counts ReplaceRules returns; nothing is lost by that,    *)
(* since a published rule that is enabled always compiles (manager.go:143).    *)
PublishedRulesCompile ==
    \A k \in DOMAIN versions : \A i \in Ids :
        LET r == versions[k].rules[i]
        IN  r # None /\ r.enabled => compile(<<r>>) # <<>>

(* Every self-test that ran reports its rule matched after the add exactly     *)
(* when its sample user satisfies that rule, and gone after the removal        *)
(* ("proves a complex rule hot add/remove took effect immediately",            *)
(* internal/service/rule_service.go:217); and between requests the reserved    *)
(* rule, "added then immediately removed" (rule_service.go:36), is neither     *)
(* live, nor editable, nor published.                                          *)
SelfTestsSucceed ==
    /\ \A r \in reports : (r.LiveAddOK <=> r.Rule \in r.SampleUser) /\ r.LiveRemoveOK
    /\ Quiet => /\ SelfTestId \notin LiveIds
                /\ rules[SelfTestId] = None
                /\ \A k \in DOMAIN versions : versions[k].rules[SelfTestId] = None
==============================================================================
