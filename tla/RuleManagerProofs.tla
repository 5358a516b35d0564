--------------------------- MODULE RuleManagerProofs ---------------------------
(***************************************************************************)
(* Proofs about the operations layer (pkg/engine/manager.go): what it      *)
(* publishes always compiles, and the editable rule set is the live one    *)
(* after edits that had the rule set for themselves.                       *)
(***************************************************************************)
EXTENDS RuleManager, RuleCacheProofs

(* Rules under their own ids, in finitely many places; the enabled ones        *)
(* compile.                                                                    *)
GoodRules(rs) ==
    /\ rs \in RuleMap
    /\ \A i \in Ids : rs[i] # None => rs[i].id = i /\ (rs[i].enabled => Compiles(rs[i]))
    /\ IsFiniteSet({i \in Ids : rs[i] # None})

------------------------------------------------------------------------------
(* The operators of the Manager *)

(* A program of a rule that compiles. *)
LEMMA ProgramOfType ==
    ASSUME NEW r \in Rule, Compiles(r)
    PROVE  ProgramOf(r) \in Program /\ ProgramOf(r).id = r.id
    BY DEF Rule, Program, ProgramOf, Compiles

(* None is no rule. *)
LEMMA NotNone == ASSUME NEW r \in Rule PROVE r # None
    BY NoneAssumption

(* The calls the Manager makes are calls the cache is written for. *)
LEMMA AddIsGood == ASSUME NEW r \in Rule, Compiles(r) PROVE GoodCall(AddCall(r))
<1>1. compile(<<r>>) = <<ProgramOf(r)>> BY CompileOne
<1>2. ProgramOf(r) \in Program /\ r.id \in Ids BY ProgramOfType DEF Rule
<1>3. <<ProgramOf(r)>> \in Seq(Program) /\ Len(<<ProgramOf(r)>>) = 1 BY <1>2
<1>4. compile(<<r>>) \in Seq(Program) /\ Len(compile(<<r>>)) = 1 BY <1>1, <1>3
<1> QED BY <1>2, <1>4 DEF GoodCall, AnyCall, AddCall

LEMMA RemoveIsGood == ASSUME NEW i \in Ids PROVE GoodCall(RemoveCall(i))
<1>1. <<>> \in Seq(Program) OBVIOUS
<1> QED BY <1>1 DEF GoodCall, AnyCall, RemoveCall

LEMMA ListsAreGood ==
    ASSUME NEW l \in Seq(Rule)
    PROVE  GoodCall(LoadCall(l)) /\ GoodCall(ReplaceCall(l))
<1>1. compile(l) \in Seq(Program) BY CompileRange
<1> QED BY <1>1 DEF GoodCall, AnyCall, LoadCall, ReplaceCall

(* List returns the rules of the map, each once. *)
LEMMA ListRules ==
    ASSUME NEW rs, GoodRules(rs)
    PROVE  /\ List(rs) \in Seq(Rule)
           /\ \A k \in DOMAIN List(rs) : List(rs)[k].id \in Ids /\ rs[List(rs)[k].id] = List(rs)[k]
           /\ \A i \in Ids : rs[i] # None => \E k \in DOMAIN List(rs) : List(rs)[k] = rs[i]
           /\ \A k, l \in DOMAIN List(rs) : List(rs)[k].id = List(rs)[l].id => k = l
<1> DEFINE is == {i \in Ids : rs[i] # None}
           n == Cardinality(is)
           ids == Ascending(is)
<1>1. is \subseteq Int /\ IsFiniteSet(is) BY IdsAssumption DEF GoodRules
<1>2. /\ n \in Nat /\ ids \in [1..n -> is]
      /\ \A i \in is : \E k \in 1..n : ids[k] = i
      /\ \A k, l \in 1..n : k < l => ids[k] < ids[l]
  BY <1>1, AscendingRange
<1>a. \A i \in is : i \in Ids /\ i \in Int /\ rs[i] \in Rule /\ rs[i].id = i
  BY <1>1 DEF GoodRules, RuleMap
<1>b. \A i \in Ids : rs[i] # None => i \in is OBVIOUS
<1>c. List(rs) = [k \in DOMAIN ids |-> rs[ids[k]]] BY DEF List
<1> HIDE DEF is, n, ids
<1>3. List(rs) = [k \in 1..n |-> rs[ids[k]]] BY <1>2, <1>c
<1>4. \A k \in 1..n : ids[k] \in is BY <1>2
<1>5. List(rs) \in Seq(Rule) BY <1>2, <1>3, <1>4, <1>a
<1>6. DOMAIN List(rs) = 1..n /\ \A k \in 1..n : List(rs)[k] = rs[ids[k]] BY <1>3
<1>7. \A k \in 1..n : List(rs)[k].id = ids[k] BY <1>6, <1>4, <1>a
<1>8. \A k, l \in 1..n : ids[k] = ids[l] => k = l
  <2> SUFFICES ASSUME NEW k \in 1..n, NEW l \in 1..n, ids[k] = ids[l], k # l PROVE FALSE OBVIOUS
  <2>1. ids[k] \in Int /\ ids[l] \in Int BY <1>4, <1>a
  <2>2. k < l \/ l < k OBVIOUS
  <2> QED BY <1>2, <2>1, <2>2
<1> QED BY <1>2, <1>4, <1>5, <1>6, <1>7, <1>8, <1>a, <1>b

(* The programs of the enabled rules of a map are the programs the engine      *)
(* makes of its list.                                                          *)
LEMMA ListMeaning ==
    ASSUME NEW rs, GoodRules(rs)
    PROVE  Abstract!Winners(compile(List(rs))) = EnabledPrograms(rs)
<1> DEFINE l == List(rs)
           ps == compile(l)
<1>1. /\ l \in Seq(Rule)
      /\ \A k \in DOMAIN l : l[k].id \in Ids /\ rs[l[k].id] = l[k]
      /\ \A i \in Ids : rs[i] # None => \E k \in DOMAIN l : l[k] = rs[i]
  BY ListRules
<1> HIDE DEF l
<1>2. /\ ps \in Seq(Program)
      /\ \A k \in DOMAIN ps : \E i \in DOMAIN l : Compiles(l[i]) /\ ps[k] = ProgramOf(l[i])
      /\ \A i \in DOMAIN l : Compiles(l[i]) => \E k \in DOMAIN ps : ps[k] = ProgramOf(l[i])
  BY <1>1, CompileRange
<1> HIDE DEF ps
<1>3. \A i \in DOMAIN l : l[i] \in Rule BY <1>1
<1>4. ASSUME NEW p \in Abstract!Winners(ps) PROVE p \in EnabledPrograms(rs)
  <2>1. PICK k \in DOMAIN ps : p = ps[k] BY DEF Abstract!Winners
  <2>2. PICK i \in DOMAIN l : Compiles(l[i]) /\ ps[k] = ProgramOf(l[i]) BY <1>2
  <2>3. l[i].id \in Ids /\ rs[l[i].id] = l[i] /\ l[i] # None BY <1>1, <1>3, NotNone
  <2>4. rs[l[i].id].enabled BY <2>2, <2>3 DEF Compiles
  <2> QED BY <2>1, <2>2, <2>3, <2>4 DEF EnabledPrograms
<1>5. ASSUME NEW p \in EnabledPrograms(rs) PROVE p \in Abstract!Winners(ps)
  <2>1. PICK i \in Ids : rs[i] # None /\ rs[i].enabled /\ p = ProgramOf(rs[i])
    BY DEF EnabledPrograms
  <2>2. PICK k \in DOMAIN l : l[k] = rs[i] BY <1>1, <2>1
  <2>3. Compiles(rs[i]) BY <2>1 DEF GoodRules
  <2>4. PICK h \in DOMAIN ps : ps[h] = p BY <1>2, <2>1, <2>2, <2>3
  <2>5. ASSUME NEW j \in DOMAIN ps, ps[j].id = p.id PROVE ps[j] = p
    <3>1. PICK f \in DOMAIN l : Compiles(l[f]) /\ ps[j] = ProgramOf(l[f]) BY <1>2
    <3>2. l[f].id = rs[i].id BY <3>1, <2>1, <2>5 DEF ProgramOf
    <3>3. l[f] = l[k] BY <3>2, <2>2, <1>1
    <3> QED BY <3>1, <3>3, <2>1, <2>2
  <2> DEFINE H == {j \in DOMAIN ps : ps[j] = p}
  <2>6. Len(ps) \in Nat /\ H \in SUBSET (1..Len(ps)) /\ H # {} BY <1>2, <2>4
  <2>7. PICK t \in H : \A j \in H : j <= t BY <2>6, LastIndex
  <2>8. t \in DOMAIN ps /\ t \in Int /\ ps[t] = p BY <2>6, <2>7
  <2>9. ASSUME NEW j \in DOMAIN ps, j > t PROVE ps[j].id # ps[t].id
    <3> SUFFICES ASSUME ps[j].id = ps[t].id PROVE FALSE OBVIOUS
    <3>1. j \in H BY <2>5, <2>8
    <3>2. j <= t /\ j \in Int BY <3>1, <2>7, <2>6
    <3> QED BY <3>2, <2>8, <2>9
  <2> QED BY <2>8, <2>9 DEF Abstract!Winners
<1> QED BY <1>4, <1>5 DEF ps, l

(* Adding a rule that compiles. *)
LEMMA AddMeaning ==
    ASSUME NEW rs, GoodRules(rs), NEW r \in Rule, Compiles(r)
    PROVE  EnabledPrograms([rs EXCEPT ![r.id] = r])
               = Abstract!Effect(AddCall(r), EnabledPrograms(rs))
<1> DEFINE p == ProgramOf(r)
           new == [rs EXCEPT ![r.id] = r]
<1>1. compile(<<r>>) = <<p>> BY CompileOne
<1>2. p.id = r.id /\ r.id \in Ids /\ r.enabled /\ r # None
  BY ProgramOfType, NotNone DEF Rule, Compiles
<1>3. Abstract!Winners(<<p>>) = {p} BY DEF Abstract!Winners
<1>4. Abstract!Effect(AddCall(r), EnabledPrograms(rs)) = Abstract!Merge({p}, EnabledPrograms(rs))
  BY <1>1, <1>3 DEF Abstract!Effect, AddCall
<1>5. /\ new[r.id] = r
      /\ \A i \in Ids : i # r.id => new[i] = rs[i]
  BY <1>2 DEF GoodRules, RuleMap
<1>6. \A i \in Ids : rs[i] # None => ProgramOf(rs[i]).id = i BY DEF GoodRules, ProgramOf
<1> HIDE DEF new
<1>7. ASSUME NEW q \in EnabledPrograms(new) PROVE q \in Abstract!Merge({p}, EnabledPrograms(rs))
  <2>1. PICK i \in Ids : new[i] # None /\ new[i].enabled /\ q = ProgramOf(new[i])
    BY DEF EnabledPrograms
  <2>2. CASE i = r.id BY <2>1, <2>2, <1>5 DEF Abstract!Merge
  <2>3. CASE i # r.id
    <3>1. new[i] = rs[i] BY <2>3, <1>5
    <3>2. q \in EnabledPrograms(rs) /\ q.id # p.id BY <3>1, <2>1, <2>3, <1>2, <1>6 DEF EnabledPrograms
    <3> QED BY <3>2 DEF Abstract!Merge
  <2> QED BY <2>2, <2>3
<1>8. ASSUME NEW q \in Abstract!Merge({p}, EnabledPrograms(rs)) PROVE q \in EnabledPrograms(new)
  <2>1. CASE q = p BY <2>1, <1>2, <1>5 DEF EnabledPrograms
  <2>2. CASE q \in EnabledPrograms(rs) /\ q.id # p.id
    <3>1. PICK i \in Ids : rs[i] # None /\ rs[i].enabled /\ q = ProgramOf(rs[i])
      BY <2>2 DEF EnabledPrograms
    <3>2. i # r.id BY <3>1, <2>2, <1>2, <1>6
    <3> QED BY <3>1, <3>2, <1>5 DEF EnabledPrograms
  <2> QED BY <2>1, <2>2 DEF Abstract!Merge
<1> QED BY <1>4, <1>7, <1>8 DEF new

(* Removing a rule, or storing it disabled, takes its program away. *)
LEMMA RemoveMeaning ==
    ASSUME NEW rs, GoodRules(rs), NEW i \in Ids, NEW v, v = None \/ (v \in Rule /\ ~v.enabled)
    PROVE  EnabledPrograms([rs EXCEPT ![i] = v])
               = Abstract!Effect(RemoveCall(i), EnabledPrograms(rs))
<1> DEFINE new == [rs EXCEPT ![i] = v]
<1>1. Abstract!Effect(RemoveCall(i), EnabledPrograms(rs)) = {q \in EnabledPrograms(rs) : q.id # i}
  BY DEF Abstract!Effect, RemoveCall
<1>2. /\ new[i] = v
      /\ \A j \in Ids : j # i => new[j] = rs[j]
  BY DEF GoodRules, RuleMap
<1>3. \A j \in Ids : rs[j] # None => ProgramOf(rs[j]).id = j BY DEF GoodRules, ProgramOf
<1> HIDE DEF new
<1>4. ASSUME NEW q \in EnabledPrograms(new) PROVE q \in EnabledPrograms(rs) /\ q.id # i
  <2>1. PICK j \in Ids : new[j] # None /\ new[j].enabled /\ q = ProgramOf(new[j])
    BY DEF EnabledPrograms
  <2>2. j # i BY <2>1, <1>2
  <2> QED BY <2>1, <2>2, <1>2, <1>3 DEF EnabledPrograms
<1>5. ASSUME NEW q \in EnabledPrograms(rs), q.id # i PROVE q \in EnabledPrograms(new)
  <2>1. PICK j \in Ids : rs[j] # None /\ rs[j].enabled /\ q = ProgramOf(rs[j])
    BY DEF EnabledPrograms
  <2>2. j # i BY <2>1, <1>5, <1>3
  <2> QED BY <2>1, <2>2, <1>2 DEF EnabledPrograms
<1> QED BY <1>1, <1>4, <1>5 DEF new

(* Storing or dropping one rule keeps the map well formed. *)
LEMMA EditKeeps ==
    ASSUME NEW rs, GoodRules(rs), NEW i \in Ids, NEW v,
           v = None \/ (v \in Rule /\ v.id = i /\ (v.enabled => Compiles(v)))
    PROVE  GoodRules([rs EXCEPT ![i] = v])
<1> DEFINE new == [rs EXCEPT ![i] = v]
<1>1. new \in RuleMap BY DEF GoodRules, RuleMap
<1>2. new[i] = v /\ \A j \in Ids : j # i => new[j] = rs[j] BY DEF GoodRules, RuleMap
<1>3. {j \in Ids : new[j] # None} \subseteq {j \in Ids : rs[j] # None} \cup {i} BY <1>2
<1>4. IsFiniteSet({j \in Ids : rs[j] # None} \cup {i}) BY FS_AddElement DEF GoodRules
<1>5. IsFiniteSet({j \in Ids : new[j] # None}) BY <1>3, <1>4, FS_Subset
<1> HIDE DEF new
<1>6. \A j \in Ids : new[j] # None => new[j].id = j /\ (new[j].enabled => Compiles(new[j]))
  BY <1>2 DEF GoodRules
<1>7. GoodRules(new) BY <1>1, <1>5, <1>6 DEF GoodRules
<1> QED BY <1>7 DEF new

(* The set seeded from the slice holds exactly the slice, every rule enabled. *)
LEMMA SeededMeaning ==
    ASSUME CacheInv
    PROVE  GoodRules(Seeded) /\ EnabledPrograms(Seeded) = S!ToSet(snapshot)
<1> DEFINE ps == S!ToSet(snapshot)
           R(p) == [id |-> p.id, priority |-> p.priority, version |-> p.version,
                    expr |-> p.source, enabled |-> TRUE]
<1>1. GoodSet(ps) BY DEF CacheInv, StoreOK, SliceOK
<1>2. ASSUME NEW p \in ps
      PROVE  p.id \in Ids /\ R(p) \in Rule /\ R(p) # None /\ Compiles(R(p)) /\ ProgramOf(R(p)) = p
             /\ R(p).id = p.id /\ R(p).enabled
  <2>1. p \in Program BY <1>1 DEF GoodSet
  <2>2. R(p) \in Rule BY <2>1, TextAssumption DEF Program, Rule
  <2>3. Compiles(R(p)) BY <2>1 DEF Program, Compiles
  <2>4. ProgramOf(R(p)) = p BY <2>1 DEF Program, ProgramOf
  <2> QED BY <2>1, <2>2, <2>3, <2>4, NotNone DEF Program
<1>3. ASSUME NEW p \in ps PROVE Seeded[p.id] = R(p)
  <2>1. p.id \in Ids BY <1>2
  <2>2. \A q \in ps : q.id = p.id => q = p BY <1>1 DEF GoodSet
  <2>3. (CHOOSE q \in ps : q.id = p.id) = p BY <2>2
  <2>4. \E q \in ps : q.id = p.id OBVIOUS
  <2> QED BY <2>1, <2>3, <2>4 DEF Seeded
<1>4. \A i \in Ids : (\A p \in ps : p.id # i) => Seeded[i] = None BY DEF Seeded
<1>5. Seeded = [i \in Ids |-> Seeded[i]] BY DEF Seeded
<1> HIDE DEF ps, R
<1>6. \A i \in Ids : Seeded[i] = None \/ \E p \in ps : p.id = i /\ Seeded[i] = R(p) BY <1>3, <1>4
<1>7. Seeded \in RuleMap BY <1>2, <1>5, <1>6 DEF RuleMap
<1>8. IsFiniteSet({i \in Ids : Seeded[i] # None})
  <2> DEFINE f == [p \in ps |-> p.id]
             T == {p.id : p \in ps}
  <2>1. IsFiniteSet(ps) BY <1>1 DEF GoodSet
  <2>2. f \in Surjection(ps, T) BY DEF Surjection
  <2>3. IsFiniteSet(T) BY <2>1, <2>2, FS_Surjection
  <2>4. {i \in Ids : Seeded[i] # None} \subseteq T BY <1>6
  <2> QED BY <2>3, <2>4, FS_Subset
<1>9. GoodRules(Seeded) BY <1>2, <1>6, <1>7, <1>8 DEF GoodRules
<1>10. EnabledPrograms(Seeded) = ps BY <1>2, <1>3, <1>6 DEF EnabledPrograms
<1> QED BY <1>9, <1>10 DEF ps

------------------------------------------------------------------------------
(* Requests *)

(* The requests that run an engine call, and those between two calls. *)
EditOps == {"upsert", "testadd", "remove", "rollback", "testremove"}

PauseOps == {"tested", "testdone"}

ReqOK(q) ==
    /\ q.op \in EditOps \cup PauseOps \cup {"publish"}
    /\ q.op \in {"upsert", "testadd"} => q.rule \in Rule /\ (q.rule.enabled => Compiles(q.rule))
    /\ q.op = "remove" => q.id \in Ids
    /\ q.op \in {"publish", "rollback"} => GoodRules(q.rules)

(* The editable set as the request q will leave it. *)
After(rs, q) ==
    CASE q.op \in {"upsert", "testadd"} -> [rs EXCEPT ![q.rule.id] = q.rule]
      [] q.op = "remove"                -> [rs EXCEPT ![q.id] = None]
      [] q.op = "rollback"              -> q.rules
      [] q.op = "testremove"            -> [rs EXCEPT ![SelfTestId] = None]
      [] OTHER                          -> rs

Types ==
    /\ phase \in {"start", "managed", "loading", "loaded", "serving"}
    /\ GoodRules(rules)
    /\ versions \in Seq([version : Nat, rules : RuleMap])
    /\ \A k \in DOMAIN versions : GoodRules(versions[k].rules)
    /\ req \in [Admins -> AnyReq \cup {NoReq}]
    /\ \A a \in Admins : req[a] # NoReq => ReqOK(req[a])
    /\ solo \in BOOLEAN /\ inStep \in BOOLEAN

(* An admin goroutine calls the engine only inside a request. *)
CallsHaveRequests == \A a \in Admins : ~Idle(a) => req[a] # NoReq /\ req[a].op \in EditOps

(* Nobody is served before the process has started. *)
BootQuiet == phase # "serving" => \A a \in Admins : req[a] = NoReq

MgrInv == CacheInv /\ Types /\ CallsHaveRequests /\ BootQuiet

(* The three kinds of step of an admin request: it begins an engine call, it   *)
(* writes its result to the editable set, it copies or appends a version.      *)
EditStarts(a, c, q) ==
    /\ GoodCall(c) /\ BeginEdit(a, c, q) /\ phase = "serving"
    /\ req[a] = NoReq \/ req[a].op = "tested"
    /\ q \in AnyReq /\ ReqOK(q) /\ q.op \in EditOps
    /\ EnabledPrograms(After(rules, q)) = Abstract!Effect(c, EnabledPrograms(rules))
    /\ q.op = "rollback" => \A s : Abstract!Effect(c, s) = EnabledPrograms(q.rules)

EditEnds(a, x) ==
    /\ req[a] # NoReq /\ req[a].op # "publish" /\ Idle(a)
    /\ rules' = After(rules, req[a])
    /\ req' = [req EXCEPT ![a] = x]
    /\ x = NoReq \/ (x \in AnyReq /\ x.op \in PauseOps)
    /\ inStep' = (inStep \/ (req[a].op = "rollback" /\ solo))
    /\ UNCHANGED <<vars, phase, versions, solo>>

Publishes(a, x) ==
    /\ req' = [req EXCEPT ![a] = x]
    /\ \/ /\ req[a] = NoReq /\ phase = "serving"
          /\ x = [op |-> "publish", rules |-> rules] /\ UNCHANGED versions
       \/ /\ req[a] # NoReq /\ req[a].op = "publish" /\ x = NoReq
          /\ versions' = Append(versions, [version |-> Len(versions) + 1, rules |-> req[a].rules])
    /\ UNCHANGED <<vars, phase, rules, solo, inStep>>

(* What a request leaves behind is well formed. *)
LEMMA AfterGood ==
    ASSUME NEW rs, GoodRules(rs), NEW q, ReqOK(q)
    PROVE  GoodRules(After(rs, q))
<1>1. CASE q.op \in {"upsert", "testadd"}
  <2>1. q.rule \in Rule /\ q.rule.id \in Ids /\ (q.rule.enabled => Compiles(q.rule))
    BY <1>1 DEF ReqOK, Rule
  <2>2. GoodRules([rs EXCEPT ![q.rule.id] = q.rule]) BY <2>1, EditKeeps
  <2> QED BY <1>1, <2>2 DEF After
<1>2. CASE q.op = "remove" BY <1>2, EditKeeps DEF ReqOK, After
<1>3. CASE q.op = "rollback" BY <1>3 DEF ReqOK, After
<1>4. CASE q.op = "testremove"
  <2>1. SelfTestId \in Ids BY SelfTestAssumption
  <2> QED BY <1>4, <2>1, EditKeeps DEF After
<1>5. CASE q.op \in PauseOps \cup {"publish"} BY <1>5 DEF PauseOps, After
<1> QED BY <1>1, <1>2, <1>3, <1>4, <1>5 DEF ReqOK, EditOps

(* The rule an edit stores is typed and keeps its id and its text. *)
LEMMA EditedRule ==
    ASSUME Types, NEW r \in Rule
    PROVE  /\ Edited(r) \in Rule /\ Edited(r).id = r.id
           /\ Edited(r).enabled = r.enabled /\ Edited(r).expr = r.expr
<1>1. NextVersion(r) \in Int BY DEF Types, GoodRules, RuleMap, Rule, NextVersion
<1> QED BY <1>1 DEF Edited, Rule

(* Upsert and SelfTest begin an edit whose effect is the rule they store. *)
LEMMA UpsertStarts ==
    ASSUME MgrInv, NEW a \in Admins, NEW p \in AnyReq, p.op \in {"upsert", "testadd"},
           UpsertBegin(a, p)
    PROVE  \E c, q : EditStarts(a, c, q)
<1> DEFINE e == Edited(p.rule)
           c == IF e.enabled THEN AddCall(e) ELSE RemoveCall(e.id)
           q == [p EXCEPT !.rule = e]
<1>0. /\ \/ p \in [op : {"upsert"}, rule : Rule]
         \/ p \in [op : {"testadd"}, rule : Rule, row : SUBSET STRING]
      /\ p.rule \in Rule
  BY DEF AnyReq
<1>1. e \in Rule /\ e.id \in Ids BY <1>0, EditedRule DEF MgrInv, Rule
<1>2. e.enabled => Compiles(e) BY <1>1, CompileOne DEF UpsertBegin
<1>3. BeginEdit(a, c, q) /\ phase = "serving" /\ req[a] = NoReq BY DEF UpsertBegin
<1> HIDE DEF e
<1>4. q.op = p.op /\ q.rule = e BY <1>0
<1>12. q \in AnyReq /\ q.op \in EditOps BY <1>0, <1>1 DEF AnyReq, EditOps
<1> HIDE DEF q
<1>5. ReqOK(q) BY <1>1, <1>2, <1>4 DEF ReqOK, EditOps
<1>6. GoodCall(c) BY <1>1, <1>2, AddIsGood, RemoveIsGood
<1>7. After(rules, q) = [rules EXCEPT ![e.id] = e] BY <1>4 DEF After
<1>8. GoodRules(rules) BY DEF MgrInv, Types
<1>9. EnabledPrograms(After(rules, q)) = Abstract!Effect(c, EnabledPrograms(rules))
  <2>1. CASE e.enabled BY <1>1, <1>2, <1>7, <1>8, <2>1, AddMeaning
  <2>2. CASE ~e.enabled BY <1>1, <1>7, <1>8, <2>2, RemoveMeaning
  <2> QED BY <2>1, <2>2
<1>10. q.op # "rollback" BY <1>4
<1>11. EditStarts(a, c, q) BY <1>3, <1>12, <1>5, <1>6, <1>9, <1>10 DEF EditStarts
<1> QED BY <1>11

(* Every step of an admin request is of one of the three kinds. *)
LEMMA AdminSteps ==
    ASSUME MgrInv, NEW a \in Admins, Request(a) \/ SelfTest(a)
    PROVE  (\E c, q : EditStarts(a, c, q)) \/ (\E x : EditEnds(a, x) \/ Publishes(a, x))
<1>a. Types /\ GoodRules(rules) /\ inStep \in BOOLEAN BY DEF MgrInv, Types
<1>b. /\ SelfTestId \in Ids
      /\ \A t \in SelfTestInputs :
            SelfTestRule(t.rule) \in Rule /\ t.rule \in STRING /\ t.row \in SUBSET STRING
  BY SelfTestAssumption DEF SelfTestRule, Rule
<1>1. ASSUME NEW r \in AddInputs, Upsert(a, r) PROVE \E c, q : EditStarts(a, c, q)
  <2>1. [op |-> "upsert", rule |-> r] \in AnyReq BY InputsAssumption DEF AnyReq
  <2> QED BY <1>1, <2>1, UpsertStarts DEF Upsert
<1>2. ASSUME NEW t \in SelfTestInputs, SelfTestAdd(a, t) PROVE \E c, q : EditStarts(a, c, q)
  <2>1. [op |-> "testadd", rule |-> SelfTestRule(t.rule), row |-> t.row] \in AnyReq
    BY <1>b DEF AnyReq
  <2> QED BY <1>2, <2>1, UpsertStarts DEF SelfTestAdd
<1>3. ASSUME NEW id \in RemoveIds, Remove(a, id) PROVE \E c, q : EditStarts(a, c, q)
  <2> DEFINE q == [op |-> "remove", id |-> id]
             c == RemoveCall(id)
  <2>1. id \in Ids BY InputsAssumption
  <2>2. q \in AnyReq /\ q.op \in EditOps /\ ReqOK(q) BY <2>1 DEF AnyReq, EditOps, ReqOK
  <2>3. EnabledPrograms(After(rules, q)) = Abstract!Effect(c, EnabledPrograms(rules))
    BY <1>a, <2>1, RemoveMeaning DEF After
  <2>4. GoodCall(c) BY <2>1, RemoveIsGood
  <2>5. EditStarts(a, c, q) BY <1>3, <2>2, <2>3, <2>4 DEF Remove, EditStarts
  <2> QED BY <2>5
<1>4. ASSUME NEW k \in 1..MaxVersions, Rollback(a, k) PROVE \E c, q : EditStarts(a, c, q)
  <2> DEFINE rs == versions[k].rules
             q == [op |-> "rollback", rules |-> rs]
             c == ReplaceCall(List(rs))
  <2>1. GoodRules(rs) BY <1>4, <1>a DEF Rollback, Types
  <2>2. BeginEdit(a, c, q) /\ phase = "serving" /\ req[a] = NoReq BY <1>4 DEF Rollback
  <2> HIDE DEF rs
  <2>3. q \in AnyReq /\ q.op \in EditOps /\ ReqOK(q) BY <2>1 DEF AnyReq, EditOps, ReqOK, GoodRules
  <2>4. \A s : Abstract!Effect(c, s) = EnabledPrograms(rs)
    BY <2>1, ListMeaning DEF Abstract!Effect, ReplaceCall
  <2>5. After(rules, q) = rs BY DEF After
  <2>6. GoodCall(c) BY <2>1, ListRules, ListsAreGood
  <2>7. EnabledPrograms(After(rules, q)) = Abstract!Effect(c, EnabledPrograms(rules)) BY <2>4, <2>5
  <2>8. q.op = "rollback" => \A s : Abstract!Effect(c, s) = EnabledPrograms(q.rules) BY <2>4
  <2> HIDE DEF q, c
  <2>9. EditStarts(a, c, q) BY <2>2, <2>3, <2>6, <2>7, <2>8 DEF EditStarts
  <2> QED BY <2>9
<1>5. ASSUME PublishList(a) \/ PublishAppend(a) PROVE \E x : Publishes(a, x)
  BY <1>5 DEF PublishList, PublishAppend, FinishRequest, Publishes
<1>6. ASSUME UpsertCommit(a) \/ RemoveCommit(a) \/ RollbackCommit(a) PROVE EditEnds(a, NoReq)
  BY <1>6, <1>a DEF UpsertCommit, UpsertStore, RemoveCommit, RollbackCommit, RolledBack, FinishRequest,
                    EditEnds, After
<1>7. ASSUME SelfTestAdded(a) PROVE \E x : EditEnds(a, x)
  <2> DEFINE x == [op |-> "tested", expr |-> req[a].rule.expr, row |-> req[a].row]
  <2>1. req[a] \in [op : {"testadd"}, rule : Rule, row : SUBSET STRING]
    BY <1>7, <1>a DEF SelfTestAdded, Types, AnyReq
  <2>2. x \in AnyReq BY <2>1 DEF AnyReq, Rule
  <2>3. EditEnds(a, x)
    BY <1>7, <2>2, <1>a DEF SelfTestAdded, UpsertStore, EditEnds, After, PauseOps
  <2> QED BY <2>3
<1>8. ASSUME SelfTestRemove(a) PROVE \E c, q : EditStarts(a, c, q)
  <2> DEFINE q == [op |-> "testremove", expr |-> req[a].expr, row |-> req[a].row,
                   addOK |-> SelfTestId \in MatchRow(req[a].row)]
             c == RemoveCall(SelfTestId)
  <2>7. req[a] \in [op : {"tested"}, expr : STRING, row : SUBSET STRING]
    BY <1>8, <1>a DEF SelfTestRemove, Types, AnyReq
  <2>1. q \in AnyReq /\ q.op \in EditOps /\ ReqOK(q) BY <2>7 DEF AnyReq, EditOps, ReqOK
  <2>2. EnabledPrograms(After(rules, q)) = Abstract!Effect(c, EnabledPrograms(rules))
    BY <1>a, <1>b, RemoveMeaning DEF After
  <2>3. GoodCall(c) BY <1>b, RemoveIsGood
  <2>4. phase = "serving" BY <1>8 DEF MgrInv, BootQuiet, SelfTestRemove
  <2>5. BeginEdit(a, c, q) /\ req[a].op = "tested" BY <1>8 DEF SelfTestRemove
  <2>6. EditStarts(a, c, q) BY <2>1, <2>2, <2>3, <2>4, <2>5 DEF EditStarts
  <2> QED BY <2>6
<1>9. ASSUME SelfTestRemoved(a) PROVE \E x : EditEnds(a, x)
  <2> DEFINE x == [req[a] EXCEPT !.op = "testdone"]
  <2>1. /\ req[a] \in [op : {"testremove", "testdone"}, expr : STRING, row : SUBSET STRING,
                       addOK : BOOLEAN]
        /\ req \in [Admins -> AnyReq \cup {NoReq}]
    BY <1>9, <1>a DEF SelfTestRemoved, Types, AnyReq
  <2>2. x \in AnyReq /\ x.op = "testdone" BY <2>1 DEF AnyReq
  <2>4. req' = [req EXCEPT ![a] = x] BY <1>9, <2>1 DEF SelfTestRemoved
  <2>3. EditEnds(a, x) BY <1>9, <2>2, <2>4, <1>a DEF SelfTestRemoved, EditEnds, After, PauseOps
  <2> QED BY <2>3
<1>10. ASSUME SelfTestReport(a) PROVE EditEnds(a, NoReq)
  <2>1. Idle(a) BY <1>10 DEF SelfTestReport, MgrInv, CallsHaveRequests, EditOps
  <2> QED BY <1>10, <2>1, <1>a DEF SelfTestReport, FinishRequest, EditEnds, After
<1> QED BY <1>1, <1>2, <1>3, <1>4, <1>5, <1>6, <1>7, <1>8, <1>9, <1>10 DEF Request, SelfTest

------------------------------------------------------------------------------
(* What the Manager keeps however its requests interleave *)

(* The invariant holds of a process that has not started. *)
LEMMA MgrInvInit == MgrInit => MgrInv
<1> SUFFICES ASSUME MgrInit PROVE MgrInv OBVIOUS
<1>1. CacheInv BY CacheInit DEF MgrInit
<1>2. {i \in Ids : rules[i] # None} = {} BY DEF MgrInit
<1>3. GoodRules(rules) BY <1>2, FS_EmptySet DEF MgrInit, GoodRules, RuleMap
<1>4. Types BY <1>3 DEF MgrInit, Types
<1>5. CallsHaveRequests /\ BootQuiet
  BY WritersAssumption DEF MgrInit, Init, CallsHaveRequests, BootQuiet, Idle
<1> QED BY <1>1, <1>4, <1>5 DEF MgrInv

(* A request begins an engine call. *)
LEMMA MgrStart ==
    ASSUME MgrInv, NEW a \in Admins, NEW c, NEW q, EditStarts(a, c, q)
    PROVE  MgrInv'
<1>1. a \in Writers /\ GoodCall(c) /\ Begin(a, c) BY WritersAssumption DEF EditStarts, BeginEdit
<1>2. CacheInv' BY <1>1, CacheBegin DEF MgrInv
<1>3. /\ req' = [req EXCEPT ![a] = q] /\ phase' = phase /\ phase = "serving"
      /\ rules' = rules /\ versions' = versions
      /\ solo' \in BOOLEAN /\ inStep' \in BOOLEAN
  BY DEF EditStarts, BeginEdit
<1>4. q \in AnyReq /\ q # NoReq /\ ReqOK(q) /\ q.op \in EditOps
  BY NoReqAssumption DEF EditStarts
<1>5. Types' BY <1>3, <1>4 DEF MgrInv, Types
<1>6. call' = [call EXCEPT ![a] = c] BY <1>1 DEF Begin
<1>7. \A b \in Admins : b # a => req'[b] = req[b] /\ call'[b] = call[b]
  BY <1>3, <1>6, WritersAssumption DEF MgrInv, Types, CacheInv, StoreOK, Shape
<1>8. req'[a] = q BY <1>3 DEF MgrInv, Types
<1>9. CallsHaveRequests' BY <1>4, <1>7, <1>8 DEF MgrInv, CallsHaveRequests, Idle
<1>10. BootQuiet' BY <1>3 DEF BootQuiet
<1> QED BY <1>2, <1>5, <1>9, <1>10 DEF MgrInv

(* A request writes its result. *)
LEMMA MgrEnd ==
    ASSUME MgrInv, NEW a \in Admins, NEW x, EditEnds(a, x)
    PROVE  MgrInv'
<1>1. UNCHANGED vars /\ call' = call BY DEF EditEnds, vars
<1>2. CacheInv' BY <1>1, CacheStutter DEF MgrInv
<1>3. /\ rules' = After(rules, req[a]) /\ req' = [req EXCEPT ![a] = x]
      /\ phase' = phase /\ versions' = versions /\ solo' = solo /\ inStep' \in BOOLEAN
  BY DEF EditEnds
<1>4. req[a] # NoReq /\ ReqOK(req[a]) /\ phase = "serving" /\ Idle(a)
  BY DEF EditEnds, MgrInv, Types, BootQuiet
<1>5. GoodRules(rules') BY <1>3, <1>4, AfterGood DEF MgrInv, Types
<1>6. x = NoReq \/ (x \in AnyReq /\ ReqOK(x)) BY DEF EditEnds, ReqOK, PauseOps, EditOps
<1>7. Types' BY <1>3, <1>5, <1>6 DEF MgrInv, Types
<1>8. \A b \in Admins : b # a => req'[b] = req[b] BY <1>3 DEF MgrInv, Types
<1>9. CallsHaveRequests' BY <1>1, <1>4, <1>8 DEF MgrInv, CallsHaveRequests, Idle
<1>10. BootQuiet' BY <1>3, <1>4 DEF BootQuiet
<1> QED BY <1>2, <1>7, <1>9, <1>10 DEF MgrInv

(* A request copies the rules or appends a version. *)
LEMMA MgrPublish ==
    ASSUME MgrInv, NEW a \in Admins, NEW x, Publishes(a, x)
    PROVE  MgrInv'
<1>1. UNCHANGED vars /\ call' = call BY DEF Publishes, vars
<1>2. CacheInv' BY <1>1, CacheStutter DEF MgrInv
<1>3. /\ req' = [req EXCEPT ![a] = x] /\ rules' = rules
      /\ phase' = phase /\ solo' = solo /\ inStep' = inStep
  BY DEF Publishes
<1>4. phase = "serving" /\ Idle(a)
  BY DEF Publishes, MgrInv, BootQuiet, CallsHaveRequests, EditOps
<1>5. x = NoReq \/ (x \in AnyReq /\ ReqOK(x))
  <2> DEFINE q == [op |-> "publish", rules |-> rules]
  <2>1. GoodRules(rules) /\ rules \in RuleMap BY DEF MgrInv, Types, GoodRules
  <2>2. q \in AnyReq BY <2>1 DEF AnyReq
  <2>3. ReqOK(q) BY <2>1 DEF ReqOK, EditOps
  <2>4. x = NoReq \/ x = q BY DEF Publishes
  <2> QED BY <2>2, <2>3, <2>4
<1>6. /\ versions' \in Seq([version : Nat, rules : RuleMap])
      /\ \A k \in DOMAIN versions' : GoodRules(versions'[k].rules)
  <2>1. CASE versions' = versions BY <2>1 DEF MgrInv, Types
  <2>2. CASE req[a] # NoReq /\ req[a].op = "publish"
             /\ versions' = Append(versions, [version |-> Len(versions) + 1, rules |-> req[a].rules])
    <3> DEFINE v == [version |-> Len(versions) + 1, rules |-> req[a].rules]
               V == [version : Nat, rules : RuleMap]
    <3>1. GoodRules(req[a].rules) BY <2>2 DEF MgrInv, Types, ReqOK
    <3>2. versions \in Seq(V) BY DEF MgrInv, Types
    <3>3. v \in V /\ v.rules = req[a].rules BY <3>1, <3>2 DEF GoodRules
    <3> HIDE DEF v, V
    <3>4. versions' = Append(versions, v) BY <2>2 DEF v
    <3>5. /\ versions' \in Seq(V)
          /\ \A k \in DOMAIN versions' : versions'[k] = v \/ (k \in DOMAIN versions /\ versions'[k] = versions[k])
      BY <3>2, <3>3, <3>4
    <3>6. \A k \in DOMAIN versions' : GoodRules(versions'[k].rules)
      BY <3>1, <3>3, <3>5 DEF MgrInv, Types
    <3> QED BY <3>5, <3>6 DEF V
  <2> QED BY <2>1, <2>2 DEF Publishes
<1>7. Types' BY <1>3, <1>5, <1>6 DEF MgrInv, Types
<1>8. \A b \in Admins : b # a => req'[b] = req[b] BY <1>3 DEF MgrInv, Types
<1>9. CallsHaveRequests' BY <1>1, <1>4, <1>8 DEF MgrInv, CallsHaveRequests, Idle
<1>10. BootQuiet' BY <1>3, <1>4 DEF BootQuiet
<1> QED BY <1>2, <1>7, <1>9, <1>10 DEF MgrInv

(* The process starts, or the watcher reloads. *)
LEMMA MgrBoot ==
    ASSUME MgrInv, Start \/ \E l \in FileLists : WatcherReload(l)
    PROVE  MgrInv'
<1>1. CASE NewManager
  <2>1. UNCHANGED vars /\ call' = call BY <1>1 DEF NewManager, vars
  <2>2. CacheInv' BY <2>1, CacheStutter DEF MgrInv
  <2>3. GoodRules(rules') BY <1>1, SeededMeaning DEF NewManager, MgrInv
  <2>4. Types' BY <1>1, <2>3 DEF NewManager, MgrInv, Types
  <2>5. CallsHaveRequests' BY <1>1, <2>1 DEF NewManager, MgrInv, CallsHaveRequests, Idle
  <2>6. BootQuiet' BY <1>1 DEF NewManager, MgrInv, BootQuiet
  <2> QED BY <2>2, <2>4, <2>5, <2>6 DEF MgrInv
<1>2. CASE BootLoaded
  <2>1. UNCHANGED vars /\ call' = call BY <1>2 DEF BootLoaded, vars
  <2>2. CacheInv' BY <2>1, CacheStutter DEF MgrInv
  <2>3. Types' BY <1>2 DEF BootLoaded, MgrInv, Types
  <2>4. CallsHaveRequests' BY <1>2, <2>1 DEF BootLoaded, MgrInv, CallsHaveRequests, Idle
  <2>5. BootQuiet' BY <1>2 DEF BootLoaded, MgrInv, BootQuiet
  <2> QED BY <2>2, <2>3, <2>4, <2>5 DEF MgrInv
<1>3. ASSUME NEW w \in {Main, FileWatcher}, NEW c, GoodCall(c), Begin(w, c),
             phase' \in {"loading", phase}, phase # "serving" \/ phase' = phase,
             solo' \in BOOLEAN, inStep' \in BOOLEAN, UNCHANGED <<rules, versions, req>>
      PROVE  MgrInv'
  <2>1. w \in Writers /\ w \notin Admins BY WritersAssumption
  <2>2. CacheInv' BY <1>3, <2>1, CacheBegin DEF MgrInv
  <2>3. Types' BY <1>3 DEF MgrInv, Types
  <2>4. call' = [call EXCEPT ![w] = c] BY <1>3 DEF Begin
  <2>5. \A b \in Admins : call'[b] = call[b]
    BY <2>1, <2>4, WritersAssumption DEF MgrInv, CacheInv, StoreOK, Shape
  <2>6. CallsHaveRequests' BY <1>3, <2>5 DEF MgrInv, CallsHaveRequests, Idle
  <2>7. BootQuiet' BY <1>3 DEF MgrInv, BootQuiet
  <2> QED BY <2>2, <2>3, <2>6, <2>7 DEF MgrInv
<1>4. CASE BootLoad
  <2>1. GoodCall(LoadCall(StartRules)) BY StartAssumption, ListsAreGood
  <2>2. /\ Begin(Main, LoadCall(StartRules)) /\ phase # "serving" /\ phase' = "loading"
        /\ solo' \in BOOLEAN /\ inStep' \in BOOLEAN /\ UNCHANGED <<rules, versions, req>>
    BY <1>4 DEF BootLoad
  <2> QED BY <1>3, <2>1, <2>2
<1>5. ASSUME NEW l \in FileLists, WatcherReload(l) PROVE MgrInv'
  <2>1. GoodCall(ReplaceCall(l)) BY StartAssumption, ListsAreGood
  <2>2. /\ Begin(FileWatcher, ReplaceCall(l)) /\ phase' = phase
        /\ solo' \in BOOLEAN /\ inStep' \in BOOLEAN /\ UNCHANGED <<rules, versions, req>>
    BY <1>5 DEF WatcherReload
  <2> QED BY <1>3, <2>1, <2>2
<1> QED BY <1>1, <1>2, <1>4, <1>5 DEF Start

(* The engine works on. *)
LEMMA MgrEngine ==
    ASSUME MgrInv, NEW w \in Writers, EngineStep(w)
    PROVE  MgrInv'
<1>1. CacheInv' BY CacheMap, CacheRange, CacheSwap DEF MgrInv, EngineStep, Rebuild
<1>2. Types' BY DEF EngineStep, mgrVars, MgrInv, Types
<1>3. \A b \in Admins : ~Idle(b)' => ~Idle(b)
  BY WritersAssumption DEF EngineStep, MapStep, Rebuild, RangeVisit, Swap, Idle, MgrInv, CacheInv, StoreOK, Shape
<1>4. CallsHaveRequests' BY <1>3 DEF EngineStep, mgrVars, MgrInv, CallsHaveRequests
<1>5. BootQuiet' BY DEF EngineStep, mgrVars, MgrInv, BootQuiet
<1> QED BY <1>1, <1>2, <1>4, <1>5 DEF MgrInv

(* Nothing happens. *)
LEMMA MgrStutter == MgrInv /\ UNCHANGED allVars => MgrInv'
<1> SUFFICES ASSUME MgrInv, UNCHANGED allVars PROVE MgrInv' OBVIOUS
<1>1. UNCHANGED vars /\ call' = call BY DEF allVars, vars
<1>2. CacheInv' BY <1>1, CacheStutter DEF MgrInv
<1>3. Types' BY DEF allVars, mgrVars, MgrInv, Types
<1>4. CallsHaveRequests' BY <1>1 DEF allVars, mgrVars, MgrInv, CallsHaveRequests, Idle
<1>5. BootQuiet' BY DEF allVars, mgrVars, MgrInv, BootQuiet
<1> QED BY <1>2, <1>3, <1>4, <1>5 DEF MgrInv

(* Every step keeps the invariant. *)
LEMMA MgrStep == MgrInv /\ [MgrNext]_allVars => MgrInv'
<1> SUFFICES ASSUME MgrInv, [MgrNext]_allVars PROVE MgrInv' OBVIOUS
<1>1. ASSUME NEW a \in Admins, Request(a) \/ SelfTest(a) PROVE MgrInv'
  BY <1>1, AdminSteps, MgrStart, MgrEnd, MgrPublish
<1>2. CASE UNCHANGED allVars BY <1>2, MgrStutter
<1> QED BY <1>1, <1>2, MgrBoot, MgrEngine DEF MgrNext, Exhausted

LEMMA MgrInvariant == MgrSpec => []MgrInv
    BY MgrInvInit, MgrStep, PTL DEF MgrSpec

(* Whatever admins publish and however their requests interleave with each     *)
(* other, with the start and with the watcher, every enabled rule of every     *)
(* published version compiles, so that Rollback may drop the counts            *)
(* ReplaceRules returns (Manager.Publish, Manager.Rollback).                   *)
THEOREM VersionsAlwaysCompile == MgrSpec => []PublishedRulesCompile
<1>1. MgrInv => PublishedRulesCompile
  <2> SUFFICES ASSUME MgrInv, NEW k \in DOMAIN versions, NEW i \in Ids,
                      versions[k].rules[i] # None, versions[k].rules[i].enabled
               PROVE  compile(<<versions[k].rules[i]>>) # <<>>
    BY DEF PublishedRulesCompile
  <2> DEFINE r == versions[k].rules[i]
  <2>4. GoodRules(versions[k].rules) BY DEF MgrInv, Types
  <2>1. r \in Rule /\ Compiles(r) BY <2>4 DEF GoodRules, RuleMap
  <2>2. compile(<<r>>) = <<ProgramOf(r)>> BY <2>1, CompileOne
  <2>3. <<ProgramOf(r)>> # <<>> OBVIOUS
  <2> QED BY <2>2, <2>3
<1> QED BY MgrInvariant, <1>1, PTL

(* Under the Manager, the watcher and the start too, an edit that no other     *)
(* overlapped publishes the map (RuleCache.Rebuild).                           *)
THEOREM ManagedSoloEditCorrect == MgrSpec => []SoloEditPublishesMap
<1>1. MgrInv => SoloEditPublishesMap BY DEF MgrInv, CacheInv, SoloOK, SoloEditPublishesMap
<1> QED BY MgrInvariant, <1>1, PTL

------------------------------------------------------------------------------
(* The editable set is the live one *)

Editing(a) == req[a] # NoReq /\ req[a].op # "publish"

(* What the slice holds once the call of w, if it is inside one, has returned. *)
Live(w) == IF Idle(w) THEN S!ToSet(snapshot) ELSE Outcome(m, pending[w])

OneBusy == \A v, w \in Writers : Busy(v) /\ Busy(w) => v = w

(* The last edit had the rule set for itself: if it is a rollback it makes     *)
(* exactly its version live.                                                   *)
SoloInv ==
    solo =>
        /\ ~overlap /\ OneBusy
        /\ \A a \in Admins : Editing(a) /\ req[a].op = "rollback"
                                => EnabledPrograms(req[a].rules) = Live(a)

(* In step: what a request will leave in the editable set is what its call     *)
(* makes live, and between requests the two agree.                             *)
InStepInv ==
    inStep =>
        /\ ~overlap /\ OneBusy
        /\ \A w \in Writers : ~Idle(w) => w \in Admins
        /\ \A a \in Admins : Editing(a) => EnabledPrograms(After(rules, req[a])) = Live(a)
        /\ (\A w \in Writers : ~Busy(w)) => EnabledPrograms(rules) = S!ToSet(snapshot)

StepInv == MgrInv /\ SoloInv /\ InStepInv

(* A step that changes neither the rules nor the requests nor what is live. *)
LEMMA SameStep ==
    ASSUME StepInv, UNCHANGED <<vars, rules, req, solo, inStep>>
    PROVE  SoloInv' /\ InStepInv'
<1>1. /\ m' = m /\ snapshot' = snapshot /\ call' = call /\ pending' = pending
      /\ overlap' = overlap /\ req' = req /\ rules' = rules /\ solo' = solo /\ inStep' = inStep
  BY DEF vars
<1>2. \A w \in Writers : (Idle(w)' <=> Idle(w)) /\ (Busy(w)' <=> Busy(w)) BY <1>1 DEF Busy, Idle
<1>3. OneBusy => OneBusy' BY <1>2 DEF OneBusy
<1>4. \A a \in Admins : Live(a)' = Live(a) /\ (Editing(a)' <=> Editing(a)) BY <1>1 DEF Live, Idle, Editing
<1>5. \A a \in Admins : After(rules, req[a])' = After(rules, req[a]) BY <1>1 DEF After
<1>6. \A a \in Admins : EnabledPrograms(After(rules, req[a]))' = EnabledPrograms(After(rules, req[a]))
  BY <1>5 DEF EnabledPrograms
<1>7. \A a \in Admins : EnabledPrograms(req[a].rules)' = EnabledPrograms(req[a].rules)
  BY <1>1 DEF EnabledPrograms
<1>8. EnabledPrograms(rules)' = EnabledPrograms(rules) BY <1>1 DEF EnabledPrograms
<1>9. SoloInv' BY <1>1, <1>3, <1>4, <1>7 DEF StepInv, SoloInv
<1>10. InStepInv' BY <1>1, <1>2, <1>3, <1>4, <1>6, <1>8 DEF StepInv, InStepInv
<1> QED BY <1>9, <1>10

(* A writer that finds nobody else busy is then the only busy one. *)
LEMMA AloneBegins ==
    ASSUME StepInv, NEW w \in Writers, NEW c, Begin(w, c), ~OthersBusy(w),
           \A b \in Admins : b # w => req'[b] = req[b]
    PROVE  /\ ~overlap' /\ OneBusy' /\ AllIdle
           /\ \A v \in Writers : v # w => ~Busy(v) /\ ~Busy(v)' /\ Idle(v)'
           /\ \A b \in Admins : b # w => ~Editing(b)'
<1>1. \A v \in Writers : v # w => ~Busy(v) BY DEF OthersBusy
<1>2. \A v \in Writers : Idle(v) BY <1>1 DEF Busy, Begin
<1>3. \A v \in Writers : v # w => call'[v] = call[v]
  BY DEF Begin, StepInv, MgrInv, CacheInv, StoreOK, Shape
<1>4. \A v \in Writers : v # w => ~Busy(v)' /\ Idle(v)' BY <1>1, <1>3 DEF Busy, Idle
<1>5. ~overlap' BY <1>2 DEF Begin
<1>6. \A b \in Admins : b # w => ~Editing(b)' BY <1>4, WritersAssumption DEF Busy, Editing
<1> QED BY <1>1, <1>2, <1>4, <1>5, <1>6 DEF OneBusy, AllIdle

(* A request begins an engine call. *)
LEMMA StepStart ==
    ASSUME StepInv, NEW a \in Admins, NEW c, NEW q, EditStarts(a, c, q)
    PROVE  SoloInv' /\ InStepInv'
<1>1. /\ a \in Writers /\ GoodCall(c) /\ Begin(a, c) /\ rules' = rules
      /\ req' = [req EXCEPT ![a] = q]
      /\ solo' = ~OthersBusy(a) /\ inStep' = (inStep /\ ~OthersBusy(a))
  BY WritersAssumption DEF EditStarts, BeginEdit
<1>2. CASE OthersBusy(a) BY <1>1, <1>2 DEF SoloInv, InStepInv
<1>3. CASE ~OthersBusy(a)
  <2>1. req'[a] = q /\ \A b \in Admins : b # a => req'[b] = req[b]
    BY <1>1 DEF StepInv, MgrInv, Types
  <2>2. /\ ~overlap' /\ OneBusy' /\ AllIdle
        /\ \A v \in Writers : v # a => ~Busy(v) /\ ~Busy(v)' /\ Idle(v)'
        /\ \A b \in Admins : b # a => ~Editing(b)'
    BY <1>1, <1>3, <2>1, AloneBegins
  <2>3. /\ m' = m /\ snapshot' = snapshot /\ pending'[a] = Script(c) /\ call'[a] = c
    BY <1>1 DEF Begin, StepInv, MgrInv, CacheInv, StoreOK, Shape
  <2>4. GoodMap(m) BY DEF StepInv, MgrInv, CacheInv, StoreOK
  <2>5. Outcome(m, Script(c)) = Abstract!Effect(c, StoredIn(m)) BY <1>1, <2>4, OutcomeScript
  <2>6. ~Idle(a)' BY <1>1, <2>3, GoodCallIsCall DEF Idle
  <2>7. Live(a)' = Outcome(m', pending'[a]) BY <2>6 DEF Live
  <2>8. Live(a)' = Abstract!Effect(c, StoredIn(m)) BY <2>3, <2>5, <2>7
  <2>9. SoloInv'
    <3>1. q.op = "rollback" => EnabledPrograms(q.rules) = Abstract!Effect(c, StoredIn(m))
      BY DEF EditStarts
    <3>2. \A b \in Admins : Editing(b)' /\ req'[b].op = "rollback"
                               => EnabledPrograms(req'[b].rules) = Live(b)'
      BY <2>1, <2>2, <2>8, <3>1
    <3> QED BY <2>2, <3>2 DEF SoloInv, EnabledPrograms
  <2>10. ASSUME inStep' PROVE InStepInv'
    <3>1. inStep /\ ~overlap BY <1>1, <2>10 DEF StepInv, InStepInv
    <3>2. S!ToSet(snapshot) = StoredIn(m) BY <2>2, <3>1, LiveIsStored DEF StepInv, MgrInv
    <3>3. EnabledPrograms(rules) = S!ToSet(snapshot)
      <4>1. CASE req[a] = NoReq
        <5>1. Idle(a) BY <1>1 DEF Begin
        <5>2. \A v \in Writers : ~Busy(v) BY <2>2, <4>1, <5>1 DEF Busy
        <5> QED BY <3>1, <5>2 DEF StepInv, InStepInv
      <4>2. CASE req[a] # NoReq /\ req[a].op = "tested"
        <5>1. Editing(a) /\ After(rules, req[a]) = rules BY <4>2 DEF Editing, After
        <5>2. Live(a) = S!ToSet(snapshot) BY <1>1 DEF Begin, Live
        <5> QED BY <3>1, <5>1, <5>2 DEF StepInv, InStepInv
      <4> QED BY <4>1, <4>2 DEF EditStarts
    <3>4. EnabledPrograms(After(rules, q)) = Live(a)'
      BY <2>8, <3>2, <3>3 DEF EditStarts
    <3>5. After(rules', req'[a]) = After(rules, q) BY <1>1, <2>1
    <3>6. EnabledPrograms(After(rules', req'[a])) = Live(a)' BY <3>4, <3>5
    <3>7. \A b \in Admins : Editing(b)' => EnabledPrograms(After(rules', req'[b])) = Live(b)'
      BY <2>2, <3>6
    <3>8. Busy(a)' BY <2>6 DEF Busy
    <3>9. \A w \in Writers : ~Idle(w)' => w \in Admins BY <2>2
    <3> QED BY <1>1, <2>2, <3>7, <3>8, <3>9 DEF InStepInv, EnabledPrograms, After
  <2> QED BY <2>9, <2>10 DEF InStepInv
<1> QED BY <1>2, <1>3

(* The start or the watcher begins one behind the Manager's back. *)
LEMMA StepBehind ==
    ASSUME StepInv, NEW w \in Writers, w \notin Admins, NEW c, Begin(w, c),
           solo' = ~OthersBusy(w), inStep' = FALSE, UNCHANGED <<rules, req>>
    PROVE  SoloInv' /\ InStepInv'
<1>1. InStepInv' BY DEF InStepInv
<1>2. CASE OthersBusy(w) BY <1>1, <1>2 DEF SoloInv
<1>3. CASE ~OthersBusy(w)
  <2>1. /\ ~overlap' /\ OneBusy'
        /\ \A b \in Admins : b # w => ~Editing(b)'
    BY <1>3, AloneBegins
  <2>2. \A b \in Admins : ~Editing(b)' BY <2>1
  <2>3. SoloInv' BY <2>1, <2>2 DEF SoloInv
  <2> QED BY <1>1, <2>3
<1> QED BY <1>2, <1>3

(* A request writes its result. *)
LEMMA StepEnd ==
    ASSUME StepInv, NEW a \in Admins, NEW x, EditEnds(a, x)
    PROVE  SoloInv' /\ InStepInv'
<1>0. a \in Writers BY WritersAssumption
<1>1. /\ m' = m /\ snapshot' = snapshot /\ call' = call /\ pending' = pending
      /\ overlap' = overlap /\ solo' = solo /\ rules' = After(rules, req[a])
      /\ inStep' = (inStep \/ (req[a].op = "rollback" /\ solo))
  BY DEF EditEnds, vars
<1>2. req'[a] = x /\ \A b \in Admins : b # a => req'[b] = req[b]
  BY DEF EditEnds, StepInv, MgrInv, Types
<1>3. Editing(a) /\ Busy(a) /\ Idle(a) BY DEF EditEnds, Editing, Busy
<1>4. x = NoReq \/ x.op \in PauseOps BY DEF EditEnds
<1>5. \A v \in Writers : Busy(v)' => Busy(v)
  BY <1>1, <1>2, <1>3 DEF Busy, Idle
<1>6. \A b \in Admins : Live(b)' = Live(b) BY <1>1 DEF Live, Idle
<1>7. \A b \in Admins : b # a => (Editing(b)' <=> Editing(b)) BY <1>2 DEF Editing
<1>8. OneBusy => OneBusy' BY <1>5 DEF OneBusy
<1>9. SoloInv'
  <2>1. \A b \in Admins : Editing(b)' /\ req'[b].op = "rollback"
                              => b # a /\ Editing(b) /\ req[b].op = "rollback"
    BY <1>2, <1>4, <1>7 DEF Editing, PauseOps
  <2>2. ASSUME solo, NEW b \in Admins, Editing(b)', req'[b].op = "rollback"
        PROVE  EnabledPrograms(req'[b].rules) = Live(b)'
    BY <2>1, <2>2, <1>2, <1>6 DEF StepInv, SoloInv
  <2> QED BY <1>1, <1>8, <2>2 DEF StepInv, SoloInv, EnabledPrograms
<1>10. ASSUME inStep' PROVE InStepInv'
  <2>1. /\ ~overlap /\ OneBusy
        /\ EnabledPrograms(After(rules, req[a])) = Live(a)
    <3>1. CASE inStep BY <3>1, <1>3 DEF StepInv, InStepInv
    <3>2. CASE req[a].op = "rollback" /\ solo
      <4>1. After(rules, req[a]) = req[a].rules BY <3>2 DEF After
      <4> QED BY <3>2, <4>1, <1>3 DEF StepInv, SoloInv
    <3> QED BY <1>1, <1>10, <3>1, <3>2
  <2>2. \A v \in Writers : v # a => ~Busy(v) BY <1>0, <1>3, <2>1 DEF OneBusy
  <2>3. \A v \in Writers : Idle(v)' BY <1>1, <1>3, <2>2 DEF Busy, Idle
  <2>4. Live(a) = S!ToSet(snapshot) /\ Live(a)' = S!ToSet(snapshot') BY <1>3, <1>6, <1>1 DEF Live
  <2>5. EnabledPrograms(rules') = S!ToSet(snapshot') BY <1>1, <2>1, <2>4
  <2>6. ASSUME NEW b \in Admins, Editing(b)'
        PROVE  EnabledPrograms(After(rules', req'[b])) = Live(b)'
    <3>1. b = a BY <2>6, <1>7, <2>2, WritersAssumption DEF Busy, Editing
    <3>2. x.op \in PauseOps /\ req'[b] = x BY <3>1, <2>6, <1>2, <1>4 DEF Editing
    <3>3. After(rules', req'[b]) = rules' BY <3>2 DEF After, PauseOps
    <3> QED BY <3>1, <3>3, <2>4, <2>5
  <2> QED BY <1>1, <1>8, <2>1, <2>3, <2>5, <2>6 DEF InStepInv, EnabledPrograms, After
<1> QED BY <1>9, <1>10 DEF InStepInv

(* A request copies the rules or appends a version. *)
LEMMA StepPublish ==
    ASSUME StepInv, NEW a \in Admins, NEW x, Publishes(a, x)
    PROVE  SoloInv' /\ InStepInv'
<1>1. /\ m' = m /\ snapshot' = snapshot /\ call' = call /\ pending' = pending
      /\ overlap' = overlap /\ solo' = solo /\ rules' = rules /\ inStep' = inStep
  BY DEF Publishes, vars
<1>2. req'[a] = x /\ \A b \in Admins : b # a => req'[b] = req[b]
  BY DEF Publishes, StepInv, MgrInv, Types
<1>3. (x = NoReq \/ x.op = "publish") /\ (req[a] = NoReq \/ req[a].op = "publish") BY DEF Publishes
<1>4. \A b \in Admins : /\ Live(b)' = Live(b)
                        /\ Editing(b)' <=> Editing(b)
                        /\ Editing(b) => req'[b] = req[b]
  BY <1>1, <1>2, <1>3 DEF Live, Idle, Editing
<1>5. \A v \in Writers : (Busy(v)' <=> Busy(v)) /\ (Idle(v)' <=> Idle(v))
  BY <1>1, <1>2, <1>3 DEF Busy, Idle
<1>6. OneBusy => OneBusy' BY <1>5 DEF OneBusy
<1>7. SoloInv'
  <2>1. \A b \in Admins : Editing(b)' /\ req'[b].op = "rollback" /\ solo
                              => EnabledPrograms(req'[b].rules) = Live(b)'
    BY <1>4 DEF StepInv, SoloInv
  <2> QED BY <1>1, <1>6, <2>1 DEF StepInv, SoloInv, EnabledPrograms
<1>8. InStepInv'
  <2>1. \A b \in Admins : Editing(b)' /\ inStep
                              => EnabledPrograms(After(rules', req'[b])) = Live(b)'
    BY <1>1, <1>4 DEF StepInv, InStepInv
  <2>2. inStep /\ (\A w \in Writers : ~Busy(w)') => EnabledPrograms(rules') = S!ToSet(snapshot')
    BY <1>1, <1>5 DEF StepInv, InStepInv
  <2>3. inStep => ~overlap /\ OneBusy /\ \A w \in Writers : ~Idle(w)' => w \in Admins
    BY <1>5 DEF StepInv, InStepInv
  <2> QED BY <1>1, <1>6, <2>1, <2>2, <2>3 DEF InStepInv, EnabledPrograms, After
<1> QED BY <1>7, <1>8

(* A step of the engine keeps what its call will have made live. *)
LEMMA LiveKept ==
    ASSUME CacheInv, NEW w \in Writers, MapStep(w) \/ Rebuild(w), ~overlap
    PROVE  Live(w)' = Live(w)
<1>1. ~Idle(w) BY DEF MapStep, Rebuild, RangeVisit, Swap, CacheInv, StoreOK, PendingOK
<1>2. Live(w) = Outcome(m, pending[w]) BY <1>1 DEF Live
<1>3. CASE MapStep(w)
  <2>1. Live(w)' = Outcome(m', pending'[w]) BY <1>3, <1>1 DEF Live, Idle, MapStep
  <2> QED BY <1>2, <1>3, <2>1, OutcomeKept
<1>4. ASSUME NEW id \in Ids, RangeVisit(w, id) PROVE Live(w)' = Live(w)
  BY <1>4 DEF RangeVisit, Live, Idle
<1>5. CASE Swap(w)
  <2>1. Idle(w)' BY <1>5 DEF Swap, Idle, CacheInv, StoreOK, Shape
  <2>2. Live(w)' = S!ToSet(snapshot') BY <2>1 DEF Live
  <2> QED BY <1>2, <1>5, <2>2, SwapPublishes
<1> QED BY <1>3, <1>4, <1>5 DEF Rebuild

(* The engine works on. *)
LEMMA StepEngine ==
    ASSUME StepInv, NEW w \in Writers, EngineStep(w)
    PROVE  SoloInv' /\ InStepInv'
<1>1. req' = req /\ rules' = rules /\ solo' = solo /\ inStep' = inStep /\ overlap' = overlap
  BY DEF EngineStep, mgrVars, MapStep, Rebuild, RangeVisit, Swap
<1>2. ~Idle(w) /\ Busy(w)
  BY DEF EngineStep, MapStep, Rebuild, RangeVisit, Swap, StepInv, MgrInv, CacheInv, StoreOK, PendingOK, Busy
<1>3. \A v \in Writers : /\ v # w => call'[v] = call[v]
                         /\ ~Idle(v)' => ~Idle(v)
                         /\ Busy(v)' => Busy(v)
  BY <1>1 DEF EngineStep, MapStep, Rebuild, RangeVisit, Swap, Idle, Busy, StepInv, MgrInv, CacheInv, StoreOK, Shape
<1>4. OneBusy => OneBusy' BY <1>3 DEF OneBusy
<1>5. ~overlap => Live(w)' = Live(w) BY LiveKept DEF EngineStep, StepInv, MgrInv
<1>6. ASSUME OneBusy, ~overlap, NEW b \in Admins, Editing(b) PROVE b = w /\ Live(b)' = Live(b)
  <2>1. Busy(b) /\ b \in Writers BY <1>6, WritersAssumption DEF Busy, Editing
  <2>2. b = w BY <2>1, <1>2, <1>6 DEF OneBusy
  <2> QED BY <2>2, <1>5, <1>6
<1>7. \A b \in Admins : Editing(b)' <=> Editing(b) BY <1>1 DEF Editing
<1>8. SoloInv'
  <2>1. ASSUME solo, NEW b \in Admins, Editing(b)', req'[b].op = "rollback"
        PROVE  EnabledPrograms(req'[b].rules) = Live(b)'
    BY <2>1, <1>1, <1>6, <1>7 DEF StepInv, SoloInv
  <2> QED BY <1>1, <1>4, <2>1 DEF StepInv, SoloInv, EnabledPrograms
<1>9. ASSUME inStep PROVE InStepInv'
  <2>1. ~overlap /\ OneBusy /\ w \in Admins BY <1>2, <1>9 DEF StepInv, InStepInv
  <2>2. ASSUME NEW b \in Admins, Editing(b)'
        PROVE  EnabledPrograms(After(rules', req'[b])) = Live(b)'
    BY <2>1, <2>2, <1>1, <1>6, <1>7, <1>9 DEF StepInv, InStepInv
  <2>3. Editing(w) BY <1>2, <2>1 DEF StepInv, MgrInv, CallsHaveRequests, Editing, EditOps
  <2>4. Busy(w)' BY <2>1, <2>3, <1>7 DEF Busy, Editing
  <2>5. \A v \in Writers : ~Idle(v)' => v \in Admins BY <1>3, <1>9 DEF StepInv, InStepInv
  <2> QED BY <1>1, <1>4, <2>1, <2>2, <2>4, <2>5 DEF InStepInv, EnabledPrograms, After
<1> QED BY <1>1, <1>8, <1>9 DEF InStepInv

(* The process starts, or the watcher reloads. *)
LEMMA StepBoot ==
    ASSUME StepInv, Start \/ \E l \in FileLists : WatcherReload(l)
    PROVE  SoloInv' /\ InStepInv'
<1>1. CASE NewManager
  <2>1. UNCHANGED <<vars, req, solo>> /\ rules' = Seeded /\ inStep' = (AllIdle /\ ~overlap)
    BY <1>1 DEF NewManager
  <2>2. \A a \in Admins : req[a] = NoReq BY <1>1 DEF NewManager, StepInv, MgrInv, BootQuiet
  <2>3. call' = call /\ snapshot' = snapshot /\ overlap' = overlap BY <2>1 DEF vars
  <2>4. \A a \in Admins : ~Editing(a)' BY <2>1, <2>2 DEF Editing
  <2>5. \A v \in Writers : Busy(v)' <=> Busy(v) BY <2>1, <2>3 DEF Busy, Idle
  <2>6. SoloInv' BY <2>1, <2>3, <2>4, <2>5 DEF StepInv, SoloInv, OneBusy
  <2>7. EnabledPrograms(rules') = S!ToSet(snapshot') BY <2>1, <2>3, SeededMeaning DEF StepInv, MgrInv
  <2>8. inStep' => \A v \in Writers : Idle(v)' /\ ~Busy(v)'
    BY <2>1, <2>2, <2>3, <2>5 DEF AllIdle, Idle, Busy
  <2>9. inStep' => OneBusy' BY <2>8 DEF OneBusy
  <2>10. InStepInv' BY <2>1, <2>3, <2>4, <2>7, <2>8, <2>9 DEF InStepInv, EnabledPrograms
  <2> QED BY <2>6, <2>10
<1>2. CASE BootLoaded BY <1>2, SameStep DEF BootLoaded
<1>3. CASE BootLoad
  BY <1>3, StepBehind, WritersAssumption DEF BootLoad
<1>4. ASSUME NEW l \in FileLists, WatcherReload(l) PROVE SoloInv' /\ InStepInv'
  BY <1>4, StepBehind, WritersAssumption DEF WatcherReload
<1> QED BY <1>1, <1>2, <1>3, <1>4 DEF Start

(* Every step keeps the invariant. *)
LEMMA StepInvStep == StepInv /\ [MgrNext]_allVars => StepInv'
<1> SUFFICES ASSUME StepInv, [MgrNext]_allVars PROVE StepInv' OBVIOUS
<1>1. MgrInv' BY MgrStep DEF StepInv
<1>2. ASSUME NEW a \in Admins, Request(a) \/ SelfTest(a) PROVE SoloInv' /\ InStepInv'
  BY <1>2, AdminSteps, StepStart, StepEnd, StepPublish DEF StepInv
<1>3. ASSUME UNCHANGED allVars PROVE SoloInv' /\ InStepInv'
  <2>1. UNCHANGED vars BY <1>3 DEF allVars
  <2>2. UNCHANGED <<rules, req, solo, inStep>> BY <1>3 DEF allVars, mgrVars
  <2> QED BY <2>1, <2>2, SameStep
<1>4. SoloInv' /\ InStepInv'
  <2>1. ASSUME Start \/ \E l \in FileLists : WatcherReload(l) PROVE SoloInv' /\ InStepInv'
    BY <2>1, StepBoot
  <2>2. ASSUME NEW w \in Writers, EngineStep(w) PROVE SoloInv' /\ InStepInv'
    BY <2>2, StepEngine
  <2> QED BY <1>2, <1>3, <2>1, <2>2 DEF MgrNext, Exhausted
<1> QED BY <1>1, <1>4 DEF StepInv

(* It holds before the process starts. *)
LEMMA StepInvInit == MgrInit => StepInv
<1> SUFFICES ASSUME MgrInit PROVE StepInv OBVIOUS
<1>1. MgrInv BY MgrInvInit
<1>2. \A w \in Writers : Idle(w) /\ ~Busy(w) BY DEF MgrInit, Init, Busy, Idle
<1>3. \A a \in Admins : ~Editing(a) BY DEF MgrInit, Editing
<1>4. ~overlap /\ OneBusy BY <1>2 DEF MgrInit, Init, OneBusy
<1>5. EnabledPrograms(rules) = {}
  <2>1. {i \in Ids : rules[i] # None /\ rules[i].enabled} = {} BY DEF MgrInit
  <2> QED BY <2>1 DEF EnabledPrograms
<1>6. S!ToSet(snapshot) = {}
  <2>1. snapshot = <<>> BY DEF MgrInit, Init
  <2> QED BY <2>1 DEF S!ToSet
<1> QED BY <1>1, <1>2, <1>3, <1>4, <1>5, <1>6 DEF StepInv, SoloInv, InStepInv

LEMMA StepInvariant == MgrSpec => []StepInv
    BY StepInvInit, StepInvStep, PTL DEF MgrSpec

(* As long as no edit bypassed the Manager or overlapped another, and again    *)
(* after every rollback that had the rule set for itself, the enabled rules of *)
(* the Manager are the live programs: for any number of admins, any rules, any *)
(* way of starting and any watched files (Manager.Upsert, Remove, Rollback).   *)
THEOREM InStepIsLive == MgrSpec => []InStepEditableIsLive
<1>1. StepInv => InStepEditableIsLive
  <2> SUFFICES ASSUME StepInv, inStep, Quiet PROVE EnabledPrograms(rules) = S!ToSet(snapshot)
    BY DEF InStepEditableIsLive, EditableIsLive
  <2>1. \A w \in Writers : ~Busy(w) BY DEF Quiet, Busy
  <2> QED BY <2>1 DEF StepInv, InStepInv
<1> QED BY StepInvariant, <1>1, PTL

------------------------------------------------------------------------------
(* One admin behind the CLI's server, without a watched file *)

SoleEditor == Boot = "cli" /\ FileLists = {} /\ \A a, b \in Admins : a = b

SoleInv ==
    /\ \A w \in Writers : ~Idle(w) => (w = Main /\ phase = "loading") \/ w \in Admins
    /\ ~overlap
    /\ phase = "serving" => inStep
    /\ phase # "managed"

(* Until the process serves, only the start can be inside the engine. *)
LEMMA BootIdle ==
    ASSUME MgrInv, SoleInv, phase # "serving", NEW w \in Writers, w # Main \/ phase # "loading"
    PROVE  Idle(w)
    BY DEF MgrInv, SoleInv, BootQuiet, CallsHaveRequests

(* The only admin finds nobody else busy. *)
LEMMA NobodyElse ==
    ASSUME SoleEditor, MgrInv, SoleInv, phase = "serving", NEW a \in Admins
    PROVE  ~OthersBusy(a)
    BY DEF SoleEditor, SoleInv, OthersBusy, Busy

LEMMA SoleStep ==
    ASSUME SoleEditor, StepInv, SoleInv, [MgrNext]_allVars
    PROVE  SoleInv'
<1>0. MgrInv BY DEF StepInv
<1>1. CASE NewManager
  <2>1. phase = "loaded" /\ phase' = "serving" BY <1>1 DEF NewManager, SoleEditor
  <2>2. AllIdle BY <1>0, <2>1, BootIdle DEF AllIdle
  <2>3. inStep' /\ call' = call /\ overlap' = overlap BY <1>1, <2>2 DEF NewManager, SoleInv, vars
  <2> QED BY <2>1, <2>2, <2>3 DEF SoleInv, AllIdle, Idle
<1>2. CASE BootLoad
  <2>1. phase = "start" /\ phase' = "loading" BY <1>2 DEF BootLoad, SoleEditor
  <2>2. \A w \in Writers : Idle(w) BY <1>0, <2>1, BootIdle
  <2>3. ~overlap' BY <1>2, <2>2 DEF BootLoad, Begin
  <2>4. \A w \in Writers : w # Main => Idle(w)'
    BY <1>2, <2>2 DEF BootLoad, Begin, Idle, StepInv, MgrInv, CacheInv, StoreOK, Shape
  <2> QED BY <2>1, <2>3, <2>4 DEF SoleInv
<1>3. CASE BootLoaded
  <2>1. phase = "loading" /\ Idle(Main) /\ phase' = "loaded" BY <1>3 DEF BootLoaded, SoleEditor
  <2>2. call' = call /\ overlap' = overlap BY <1>3 DEF BootLoaded, vars
  <2> QED BY <2>1, <2>2 DEF SoleInv, Idle
<1>4. ASSUME NEW a \in Admins, NEW c, NEW q, EditStarts(a, c, q) PROVE SoleInv'
  <2>1. phase = "serving" /\ phase' = phase /\ Begin(a, c) /\ inStep' = (inStep /\ ~OthersBusy(a))
    BY <1>4 DEF EditStarts, BeginEdit
  <2>2. ~OthersBusy(a) BY <1>0, <2>1, NobodyElse
  <2>3. \A w \in Writers : Idle(w) BY <2>1, <2>2 DEF OthersBusy, Busy, Begin
  <2>4. ~overlap' /\ inStep' BY <2>1, <2>2, <2>3 DEF Begin, SoleInv
  <2>5. \A w \in Writers : w # a => Idle(w)'
    BY <2>1, <2>3 DEF Begin, Idle, StepInv, MgrInv, CacheInv, StoreOK, Shape
  <2> QED BY <2>1, <2>4, <2>5 DEF SoleInv
<1>5. ASSUME NEW a \in Admins, NEW x, EditEnds(a, x) \/ Publishes(a, x) PROVE SoleInv'
  <2>1. call' = call /\ overlap' = overlap /\ phase' = phase
    BY <1>5 DEF EditEnds, Publishes, vars
  <2>2. ASSUME inStep PROVE inStep'
    <3>1. CASE EditEnds(a, x) BY <2>2, <3>1 DEF EditEnds
    <3>2. CASE Publishes(a, x) BY <2>2, <3>2 DEF Publishes
    <3> QED BY <1>5, <3>1, <3>2
  <2> QED BY <2>1, <2>2 DEF SoleInv, Idle
<1>6. ASSUME NEW w \in Writers, EngineStep(w) PROVE SoleInv'
  <2>1. phase' = phase /\ inStep' = inStep /\ overlap' = overlap
    BY <1>6 DEF EngineStep, mgrVars, MapStep, Rebuild, RangeVisit, Swap
  <2>2. \A v \in Writers : ~Idle(v)' => ~Idle(v)
    BY <1>6 DEF EngineStep, MapStep, Rebuild, RangeVisit, Swap, Idle, StepInv, MgrInv, CacheInv, StoreOK, Shape
  <2> QED BY <2>1, <2>2 DEF SoleInv
<1>7. CASE UNCHANGED allVars
  <2>1. call' = call /\ overlap' = overlap /\ phase' = phase /\ inStep' = inStep
    BY <1>7 DEF allVars, mgrVars, vars
  <2> QED BY <2>1 DEF SoleInv, Idle
<1>8. ASSUME NEW a \in Admins, Request(a) \/ SelfTest(a) PROVE SoleInv'
  BY <1>0, <1>4, <1>5, <1>8, AdminSteps
<1> QED BY <1>1, <1>2, <1>3, <1>6, <1>7, <1>8 DEF MgrNext, Start, Exhausted, SoleEditor

LEMMA SoleInit == MgrInit => SoleInv
    BY DEF MgrInit, Init, SoleInv, Idle

(* Behind the CLI's server, which builds its Manager after the rules are       *)
(* loaded, one admin at a time and no watched file: whenever nobody is editing *)
(* the enabled rules of the Manager are exactly the live programs, whatever    *)
(* was added, disabled, removed, published, rolled back and self-tested        *)
(* (Manager, internal/cli/server.go).                                          *)
THEOREM SoleEditorIsLive ==
    ASSUME SoleEditor
    PROVE  MgrSpec => []EditableIsLive
<1>1. StepInv /\ SoleInv /\ [MgrNext]_allVars => SoleInv' BY SoleStep
<1>2. SoleInv /\ InStepEditableIsLive => EditableIsLive
  BY DEF SoleInv, InStepEditableIsLive, EditableIsLive, Quiet
<1> QED BY StepInvariant, InStepIsLive, SoleInit, <1>1, <1>2, PTL DEF MgrSpec

------------------------------------------------------------------------------
(* The self-test of the only admin *)

(* The id of SelfTest's rule is used by nobody else. *)
IdReserved ==
    /\ \A r \in AddInputs : r.id # SelfTestId
    /\ \A k \in DOMAIN StartRules : StartRules[k].id # SelfTestId

Avoids(ps) == \A p \in ps : p.id # SelfTestId

TestReq(q) ==
    /\ q.op = "upsert" => q.rule.id # SelfTestId
    /\ q.op = "testadd" => q.rule.id = SelfTestId /\ q.rule.enabled
    /\ q.op \in {"publish", "rollback"} => q.rules[SelfTestId] = None
    /\ q.op \in {"testremove", "testdone"} => (q.addOK <=> q.expr \in q.row)

(* The reserved rule is editable only inside a self-test; once it is added it  *)
(* is enabled and has the text of the test.                                    *)
TestOK(q, r) ==
    /\ q # NoReq => TestReq(q)
    /\ r # None => q # NoReq /\ q.op \in {"tested", "testremove"}
    /\ q # NoReq /\ q.op = "tested" => r # None /\ r.enabled /\ r.expr = q.expr

(* Nothing the process loads before it serves has the reserved id. *)
BootAvoids ==
    /\ phase = "start" => StoredIn(m) = {}
    /\ phase = "loading" => Avoids(Live(Main))
    /\ phase = "loaded" => Avoids(S!ToSet(snapshot))

Reported(r) == (r.LiveAddOK <=> r.Rule \in r.SampleUser) /\ r.LiveRemoveOK

TestInv ==
    /\ \A r \in reports : Reported(r)
    /\ \A k \in DOMAIN versions : versions[k].rules[SelfTestId] = None
    /\ \A a \in Admins : TestOK(req[a], rules[SelfTestId])
    /\ Admins = {} /\ phase = "serving" => rules[SelfTestId] = None
    /\ BootAvoids

(* It holds before the process starts. *)
LEMMA TestInit == MgrInit => TestInv
<1> SUFFICES ASSUME MgrInit PROVE TestInv OBVIOUS
<1>1. SelfTestId \in Ids BY SelfTestAssumption
<1>2. {j \in Ids : m[j] # None} = {} BY DEF MgrInit, Init
<1>3. StoredIn(m) = {} BY <1>2 DEF StoredIn
<1> QED BY <1>1, <1>3 DEF MgrInit, TestInv, TestOK, BootAvoids

(* Between two calls of the only admin the editable set is live. *)
LEMMA PauseIsLive ==
    ASSUME StepInv, SoleInv, phase = "serving", NEW a \in Admins, Idle(a),
           req[a] # NoReq, req[a].op \in PauseOps
    PROVE  EnabledPrograms(rules) = S!ToSet(snapshot)
<1>1. Editing(a) /\ After(rules, req[a]) = rules BY DEF Editing, After, PauseOps
<1>2. Live(a) = S!ToSet(snapshot) BY DEF Live
<1> QED BY <1>1, <1>2 DEF StepInv, InStepInv, SoleInv

(* When the two agree an enabled reserved rule is matched by exactly the users *)
(* that satisfy its text, and an absent one is not live.                       *)
LEMMA ReservedLive ==
    ASSUME MgrInv, EnabledPrograms(rules) = S!ToSet(snapshot)
    PROVE  /\ rules[SelfTestId] # None /\ rules[SelfTestId].enabled =>
                \A row : SelfTestId \in MatchRow(row) <=> rules[SelfTestId].expr \in row
           /\ rules[SelfTestId] = None =>
                SelfTestId \notin LiveIds /\ \A row : SelfTestId \notin MatchRow(row)
<1> DEFINE on == {j \in Ids : rules[j] # None /\ rules[j].enabled}
<1>1. SelfTestId \in Ids BY SelfTestAssumption
<1>2. \A i \in on : ProgramOf(rules[i]).id = i /\ ProgramOf(rules[i]).source = rules[i].expr
  BY DEF MgrInv, Types, GoodRules, ProgramOf
<1>3. S!ToSet(snapshot) = {ProgramOf(rules[i]) : i \in on} BY DEF EnabledPrograms
<1>4. LiveIds = on BY <1>2, <1>3 DEF LiveIds
<1>5. ASSUME NEW row PROVE SelfTestId \in MatchRow(row) <=> SelfTestId \in on /\ rules[SelfTestId].expr \in row
  BY <1>2, <1>3 DEF MatchRow
<1> QED BY <1>1, <1>4, <1>5

(* The steps of the only admin. *)
LEMMA TestAdmin ==
    ASSUME SoleEditor, IdReserved, StepInv, SoleInv, TestInv,
           NEW a \in Admins, Request(a) \/ SelfTest(a)
    PROVE  TestInv'
<1> DEFINE sid == SelfTestId
<1>0. MgrInv /\ Types BY DEF StepInv, MgrInv
<1>1. /\ sid \in Ids
      /\ \A t \in SelfTestInputs :
            /\ SelfTestRule(t.rule) \in Rule /\ t.row \in SUBSET STRING
            /\ SelfTestRule(t.rule).id = SelfTestId /\ SelfTestRule(t.rule).enabled
  BY SelfTestAssumption DEF Rule, SelfTestRule
<1>2. \A b \in Admins : b = a BY DEF SoleEditor
<1>3. phase = "serving" /\ phase' = "serving"
  BY <1>0, AdminSteps DEF EditStarts, BeginEdit, EditEnds, Publishes, MgrInv, BootQuiet
<1>4. BootAvoids' BY <1>3 DEF BootAvoids
<1>5. TestOK(req[a], rules[sid]) BY DEF TestInv
<1>6. \A x : (req' = [req EXCEPT ![a] = x]) => req'[a] = x BY <1>0 DEF Types
<1>7. rules \in RuleMap BY <1>0 DEF Types, GoodRules
<1> HIDE DEF sid
<1>8. ASSUME \A r \in reports' : Reported(r),
             \A k \in DOMAIN versions' : versions'[k].rules[sid] = None,
             TestOK(req'[a], rules'[sid])
      PROVE  TestInv'
  <2>1. \A b \in Admins : TestOK(req'[b], rules'[SelfTestId]) BY <1>2, <1>8 DEF sid
  <2>2. Admins # {} OBVIOUS
  <2>3. \A b \in Admins : TestOK(req[b], rules[SelfTestId])' BY <2>1 DEF TestOK, TestReq
  <2> QED BY <1>4, <1>8, <2>2, <2>3 DEF TestInv, sid
<1>9. /\ \A r \in reports : Reported(r)
      /\ \A k \in DOMAIN versions : versions[k].rules[sid] = None
  BY DEF TestInv, sid
<1>10. ASSUME NEW p \in AnyReq, p.op \in {"upsert", "testadd"}, UpsertBegin(a, p),
              p.op = "upsert" => p.rule.id # sid,
              p.op = "testadd" => p.rule.id = sid /\ p.rule.enabled
       PROVE  TestInv'
  <2> DEFINE e == Edited(p.rule)
             q == [p EXCEPT !.rule = e]
  <2>7. /\ \/ p \in [op : {"upsert"}, rule : Rule]
           \/ p \in [op : {"testadd"}, rule : Rule, row : SUBSET STRING]
        /\ p.rule \in Rule
    BY <1>10 DEF AnyReq
  <2>1. e.id = p.rule.id /\ e.enabled = p.rule.enabled BY <1>0, <2>7, EditedRule
  <2>2. /\ req[a] = NoReq /\ req' = [req EXCEPT ![a] = q]
        /\ rules' = rules /\ versions' = versions /\ reports' = reports
    BY <1>10 DEF UpsertBegin, BeginEdit
  <2> HIDE DEF e
  <2>3. req'[a] = q /\ rules[sid] = None BY <1>5, <1>6, <2>2 DEF TestOK
  <2>8. q.op = p.op /\ q.rule = e BY <2>7
  <2> HIDE DEF q
  <2>4. TestReq(q) BY <2>1, <2>8, <1>10 DEF TestReq, sid
  <2>5. TestOK(q, None) BY <2>4, <2>8, <1>10 DEF TestOK
  <2>6. TestOK(req'[a], rules'[sid]) BY <2>2, <2>3, <2>5
  <2> QED BY <1>8, <1>9, <2>2, <2>6
<1>11. ASSUME NEW r \in AddInputs, Upsert(a, r) PROVE TestInv'
  <2>1. [op |-> "upsert", rule |-> r] \in AnyReq BY InputsAssumption DEF AnyReq
  <2> QED BY <1>10, <1>11, <2>1 DEF Upsert, IdReserved, sid
<1>12. ASSUME NEW t \in SelfTestInputs, SelfTestAdd(a, t) PROVE TestInv'
  <2>1. [op |-> "testadd", rule |-> SelfTestRule(t.rule), row |-> t.row] \in AnyReq
    BY <1>1 DEF AnyReq
  <2> QED BY <1>1, <1>10, <1>12, <2>1 DEF SelfTestAdd, sid
<1>13. ASSUME NEW id \in RemoveIds, Remove(a, id) PROVE TestInv'
  <2> DEFINE q == [op |-> "remove", id |-> id]
  <2>1. /\ req[a] = NoReq /\ req' = [req EXCEPT ![a] = q]
        /\ rules' = rules /\ versions' = versions /\ reports' = reports
    BY <1>13 DEF Remove, BeginEdit
  <2>2. req'[a] = q /\ rules[sid] = None BY <1>5, <1>6, <2>1 DEF TestOK
  <2>3. TestOK(q, None) BY DEF TestOK, TestReq
  <2>4. TestOK(req'[a], rules'[sid]) BY <2>1, <2>2, <2>3
  <2> QED BY <1>8, <1>9, <2>1, <2>4
<1>14. ASSUME NEW k \in 1..MaxVersions, Rollback(a, k) PROVE TestInv'
  <2> DEFINE q == [op |-> "rollback", rules |-> versions[k].rules]
  <2>1. /\ req[a] = NoReq /\ req' = [req EXCEPT ![a] = q] /\ k \in DOMAIN versions
        /\ rules' = rules /\ versions' = versions /\ reports' = reports
    BY <1>14 DEF Rollback, BeginEdit
  <2>2. req'[a] = q /\ rules[sid] = None BY <1>5, <1>6, <2>1 DEF TestOK
  <2>3. TestOK(q, None) BY <1>9, <2>1 DEF TestOK, TestReq, sid
  <2>4. TestOK(req'[a], rules'[sid]) BY <2>1, <2>2, <2>3
  <2> QED BY <1>8, <1>9, <2>1, <2>4
<1>15. ASSUME PublishList(a) PROVE TestInv'
  <2> DEFINE q == [op |-> "publish", rules |-> rules]
  <2>1. /\ req[a] = NoReq /\ req' = [req EXCEPT ![a] = q]
        /\ rules' = rules /\ versions' = versions /\ reports' = reports
    BY <1>15 DEF PublishList
  <2>2. req'[a] = q /\ rules[sid] = None BY <1>5, <1>6, <2>1 DEF TestOK
  <2>3. TestOK(q, None) BY <2>2 DEF TestOK, TestReq, sid
  <2>4. TestOK(req'[a], rules'[sid]) BY <2>1, <2>2, <2>3
  <2> QED BY <1>8, <1>9, <2>1, <2>4
<1>16. ASSUME NEW r, req' = [req EXCEPT ![a] = NoReq], r = None, rules'[sid] = r,
              reports' = reports, versions' = versions
       PROVE  TestInv'
  <2>1. TestOK(NoReq, None) BY DEF TestOK
  <2>2. TestOK(req'[a], rules'[sid]) BY <1>6, <1>16, <2>1
  <2> QED BY <1>8, <1>9, <1>16, <2>2
<1>17. ASSUME PublishAppend(a) PROVE TestInv'
  <2> DEFINE v == [version |-> Len(versions) + 1, rules |-> req[a].rules]
  <2>1. /\ req[a] # NoReq /\ req[a].op = "publish" /\ req' = [req EXCEPT ![a] = NoReq]
        /\ rules' = rules /\ versions' = Append(versions, v) /\ reports' = reports
    BY <1>17 DEF PublishAppend, FinishRequest
  <2>2. v.rules[sid] = None /\ rules[sid] = None BY <1>5, <2>1 DEF TestOK, TestReq, sid
  <2> HIDE DEF v
  <2>3. versions \in Seq([version : Nat, rules : RuleMap]) BY <1>0 DEF Types
  <2>4. \A k \in DOMAIN versions' : versions'[k] = v \/ (k \in DOMAIN versions /\ versions'[k] = versions[k])
    BY <2>1, <2>3
  <2>5. \A k \in DOMAIN versions' : versions'[k].rules[sid] = None BY <1>9, <2>2, <2>4
  <2>6. TestOK(NoReq, None) BY DEF TestOK
  <2>7. TestOK(req'[a], rules'[sid]) BY <1>6, <2>1, <2>2, <2>6
  <2> QED BY <1>8, <1>9, <2>1, <2>5, <2>7
<1>18. ASSUME UpsertCommit(a) PROVE TestInv'
  <2>1. rules[sid] = None /\ req[a].rule.id # sid
    BY <1>5, <1>18 DEF UpsertCommit, TestOK, TestReq, sid
  <2>2. rules'[sid] = rules[sid] BY <1>7, <1>18, <1>1, <2>1 DEF UpsertCommit, UpsertStore, RuleMap
  <2> QED BY <1>16, <1>18, <2>1, <2>2 DEF UpsertCommit, FinishRequest
<1>19. ASSUME RemoveCommit(a) PROVE TestInv'
  <2>1. rules[sid] = None BY <1>5, <1>19 DEF RemoveCommit, TestOK
  <2>2. rules'[sid] = None BY <1>7, <1>19, <1>1, <2>1 DEF RemoveCommit, RuleMap
  <2> QED BY <1>16, <1>19, <2>2 DEF RemoveCommit, FinishRequest
<1>20. ASSUME RollbackCommit(a) PROVE TestInv'
  <2>1. rules'[sid] = None BY <1>5, <1>20 DEF RollbackCommit, RolledBack, TestOK, TestReq, sid
  <2> QED BY <1>16, <1>20, <2>1 DEF RollbackCommit, FinishRequest
<1>21. ASSUME SelfTestAdded(a) PROVE TestInv'
  <2> DEFINE q == [op |-> "tested", expr |-> req[a].rule.expr, row |-> req[a].row]
  <2>1. /\ req' = [req EXCEPT ![a] = q] /\ versions' = versions /\ reports' = reports
        /\ req[a] # NoReq /\ req[a].op = "testadd" /\ rules' = [rules EXCEPT ![req[a].rule.id] = req[a].rule]
    BY <1>21 DEF SelfTestAdded, UpsertStore
  <2>2. req[a].rule.id = sid /\ req[a].rule.enabled BY <1>5, <2>1 DEF TestOK, TestReq, sid
  <2>3. req[a].rule # None BY <1>0, <2>1, NotNone DEF Types, ReqOK
  <2>4. rules'[sid] = req[a].rule BY <1>1, <1>7, <2>1, <2>2 DEF RuleMap
  <2>5. q # NoReq
    <3>1. req[a] \in [op : {"testadd"}, rule : Rule, row : SUBSET STRING]
      BY <1>0, <2>1 DEF Types, AnyReq
    <3>2. q \in AnyReq BY <3>1 DEF AnyReq, Rule
    <3> QED BY <3>2, NoReqAssumption
  <2>6. TestOK(q, req[a].rule) BY <2>2, <2>3, <2>5 DEF TestOK, TestReq
  <2>7. TestOK(req'[a], rules'[sid]) BY <1>6, <2>1, <2>4, <2>6
  <2> QED BY <1>8, <1>9, <2>1, <2>7
<1>22. ASSUME SelfTestRemove(a) PROVE TestInv'
  <2> DEFINE q == [op |-> "testremove", expr |-> req[a].expr, row |-> req[a].row,
                   addOK |-> SelfTestId \in MatchRow(req[a].row)]
  <2>1. /\ req' = [req EXCEPT ![a] = q] /\ versions' = versions /\ reports' = reports /\ rules' = rules
        /\ req[a] # NoReq /\ req[a].op = "tested" /\ Idle(a)
    BY <1>22 DEF SelfTestRemove, BeginEdit, Begin
  <2>2. rules[sid] # None /\ rules[sid].enabled /\ rules[sid].expr = req[a].expr
    BY <1>5, <2>1 DEF TestOK
  <2>3. SelfTestId \in MatchRow(req[a].row) <=> req[a].expr \in req[a].row
    BY <1>0, <1>3, <2>1, <2>2, PauseIsLive, ReservedLive DEF PauseOps, sid
  <2>4. q # NoReq
    <3>1. req[a] \in [op : {"tested"}, expr : STRING, row : SUBSET STRING]
      BY <1>0, <2>1 DEF Types, AnyReq
    <3>2. q \in AnyReq BY <3>1 DEF AnyReq
    <3> QED BY <3>2, NoReqAssumption
  <2>5. TestReq(q) BY <2>3 DEF TestReq
  <2>6. TestOK(q, rules[sid]) BY <2>4, <2>5 DEF TestOK
  <2>7. TestOK(req'[a], rules'[sid]) BY <1>6, <2>1, <2>6
  <2> QED BY <1>8, <1>9, <2>1, <2>7
<1>23. ASSUME SelfTestRemoved(a) PROVE TestInv'
  <2> DEFINE q == [req[a] EXCEPT !.op = "testdone"]
  <2>1. /\ req' = [req EXCEPT ![a] = q] /\ versions' = versions /\ reports' = reports
        /\ req[a] # NoReq /\ req[a].op = "testremove"
    BY <1>0, <1>23 DEF SelfTestRemoved, Types
  <2>6. req[a] \in [op : {"testremove", "testdone"}, expr : STRING, row : SUBSET STRING,
                    addOK : BOOLEAN]
    BY <1>0, <2>1 DEF Types, AnyReq
  <2>2. rules'[sid] = None BY <1>1, <1>7, <1>23 DEF SelfTestRemoved, RuleMap, sid
  <2>3. req[a].addOK <=> req[a].expr \in req[a].row BY <1>5, <2>1 DEF TestOK, TestReq
  <2>4. TestOK(q, None) BY <2>3, <2>6 DEF TestOK, TestReq
  <2>5. TestOK(req'[a], rules'[sid]) BY <1>6, <2>1, <2>2, <2>4
  <2> QED BY <1>8, <1>9, <2>1, <2>5
<1>24. ASSUME SelfTestReport(a) PROVE TestInv'
  <2> DEFINE r == [Rule |-> req[a].expr, SampleUser |-> req[a].row, LiveAddOK |-> req[a].addOK,
                   LiveRemoveOK |-> SelfTestId \notin MatchRow(req[a].row)]
  <2>1. /\ req' = [req EXCEPT ![a] = NoReq] /\ versions' = versions /\ rules' = rules
        /\ req[a] # NoReq /\ req[a].op = "testdone" /\ reports' = reports \cup {r}
    BY <1>24 DEF SelfTestReport, FinishRequest
  <2>2. rules[sid] = None /\ (req[a].addOK <=> req[a].expr \in req[a].row) BY <1>5, <2>1 DEF TestOK, TestReq
  <2>3. Idle(a) BY <1>0, <2>1 DEF MgrInv, CallsHaveRequests, EditOps
  <2>4. SelfTestId \notin MatchRow(req[a].row)
    BY <1>0, <1>3, <2>1, <2>2, <2>3, PauseIsLive, ReservedLive DEF PauseOps, sid
  <2>5. \A s \in reports' : Reported(s)
    <3>1. Reported(r) BY <2>2, <2>4 DEF Reported
    <3> HIDE DEF r
    <3> QED BY <1>9, <2>1, <3>1
  <2>6. TestOK(NoReq, None) BY DEF TestOK
  <2>7. TestOK(req'[a], rules'[sid]) BY <1>6, <2>1, <2>2, <2>6
  <2> QED BY <1>8, <1>9, <2>1, <2>5, <2>7
<1> QED BY <1>11, <1>12, <1>13, <1>14, <1>15, <1>17, <1>18, <1>19, <1>20, <1>21, <1>22, <1>23, <1>24
        DEF Request, SelfTest

(* A step that leaves requests, rules, versions and reports alone. *)
LEMMA TestKeeps ==
    ASSUME TestInv, UNCHANGED <<rules, versions, req, reports>>, BootAvoids',
           phase' = "serving" => phase = "serving"
    PROVE  TestInv'
<1>1. \A a \in Admins : TestOK(req'[a], rules'[SelfTestId]) BY DEF TestInv
<1>2. \A a \in Admins : TestOK(req[a], rules[SelfTestId])' BY <1>1 DEF TestOK, TestReq
<1> QED BY <1>2 DEF TestInv

(* The start. *)
LEMMA TestBoot ==
    ASSUME SoleEditor, IdReserved, StepInv, SoleInv, TestInv, Start
    PROVE  TestInv'
<1>0. MgrInv BY DEF StepInv
<1>1. SelfTestId \in Ids BY SelfTestAssumption
<1>2. CASE NewManager
  <2>1. /\ phase = "loaded" /\ phase' = "serving" /\ rules' = Seeded
        /\ versions' = versions /\ req' = req /\ reports' = reports
    BY <1>2 DEF NewManager, SoleEditor
  <2>2. Seeded[SelfTestId] = None
    BY <1>1, <2>1 DEF Seeded, TestInv, BootAvoids, Avoids
  <2>3. \A a \in Admins : req[a] = NoReq BY <1>0, <2>1 DEF MgrInv, BootQuiet
  <2>4. TestOK(NoReq, None) BY DEF TestOK
  <2>5. \A a \in Admins : TestOK(req'[a], rules'[SelfTestId]) BY <2>1, <2>2, <2>3, <2>4
  <2>6. \A a \in Admins : TestOK(req[a], rules[SelfTestId])' BY <2>5 DEF TestOK, TestReq
  <2>7. BootAvoids' BY <2>1 DEF BootAvoids
  <2> QED BY <2>1, <2>2, <2>6, <2>7 DEF TestInv
<1>3. CASE BootLoad
  <2> DEFINE c == LoadCall(StartRules)
  <2>1. /\ phase = "start" /\ phase' = "loading" /\ Begin(Main, c) /\ Main \in Writers
        /\ UNCHANGED <<rules, versions, req, reports>>
    BY <1>3, WritersAssumption DEF BootLoad, SoleEditor
  <2>2. GoodCall(c) BY StartAssumption, ListsAreGood
  <2>3. StoredIn(m) = {} /\ GoodMap(m) BY <1>0, <2>1 DEF TestInv, BootAvoids, MgrInv, CacheInv, StoreOK
  <2>4. Outcome(m, Script(c)) = Abstract!Effect(c, {}) BY <2>2, <2>3, OutcomeScript
  <2>5. Abstract!Effect(c, {}) = Abstract!Merge(Abstract!Winners(compile(StartRules)), {})
    BY DEF Abstract!Effect, LoadCall
  <2>6. \A k \in DOMAIN compile(StartRules) : compile(StartRules)[k].id # SelfTestId
    <3>1. \A r : ProgramOf(r).id = r.id BY DEF ProgramOf
    <3> QED BY <3>1, StartAssumption, CompileRange DEF IdReserved
  <2>7. Avoids(Outcome(m, Script(c))) BY <2>4, <2>5, <2>6 DEF Avoids, Abstract!Merge, Abstract!Winners
  <2>8. m' = m /\ pending'[Main] = Script(c) /\ call'[Main] = c
    BY <1>0, <2>1 DEF Begin, MgrInv, CacheInv, StoreOK, Shape
  <2>9. Live(Main)' = Outcome(m', pending'[Main]) BY <2>2, <2>8, GoodCallIsCall DEF Live, Idle
  <2>10. Avoids(Live(Main)') BY <2>7, <2>8, <2>9
  <2>11. BootAvoids' BY <2>1, <2>10 DEF BootAvoids, Avoids
  <2> QED BY <2>1, <2>11, TestKeeps
<1>4. CASE BootLoaded
  <2>1. /\ phase = "loading" /\ phase' = "loaded" /\ Idle(Main) /\ snapshot' = snapshot
        /\ UNCHANGED <<rules, versions, req, reports>>
    BY <1>4 DEF BootLoaded, SoleEditor, vars
  <2>2. Avoids(S!ToSet(snapshot)) BY <2>1 DEF TestInv, BootAvoids, Live
  <2>3. BootAvoids' BY <2>1, <2>2 DEF BootAvoids, Avoids
  <2> QED BY <2>1, <2>3, TestKeeps
<1> QED BY <1>2, <1>3, <1>4 DEF Start

(* The engine works on. *)
LEMMA TestEngine ==
    ASSUME SoleEditor, StepInv, SoleInv, TestInv, NEW w \in Writers, EngineStep(w)
    PROVE  TestInv'
<1>0. MgrInv BY DEF StepInv
<1>1. UNCHANGED <<rules, versions, req, reports>> /\ phase' = phase BY DEF EngineStep, mgrVars
<1>2. ~Idle(w)
  BY <1>0 DEF EngineStep, MapStep, Rebuild, RangeVisit, Swap, MgrInv, CacheInv, StoreOK, PendingOK
<1>3. phase = "serving" \/ (w = Main /\ phase = "loading") BY <1>0, <1>2, BootIdle
<1>4. CASE phase = "serving" BY <1>1, <1>4, TestKeeps DEF BootAvoids
<1>5. CASE w = Main /\ phase = "loading"
  <2>1. Live(Main)' = Live(Main) BY <1>0, <1>5, LiveKept DEF EngineStep, SoleInv, MgrInv
  <2>2. Avoids(Live(Main)') BY <1>5, <2>1 DEF TestInv, BootAvoids
  <2>3. BootAvoids' BY <1>1, <1>5, <2>2 DEF BootAvoids, Avoids
  <2> QED BY <1>1, <2>3, TestKeeps
<1> QED BY <1>3, <1>4, <1>5

LEMMA TestStep ==
    ASSUME SoleEditor, IdReserved, StepInv, SoleInv, TestInv, [MgrNext]_allVars
    PROVE  TestInv'
<1>1. ASSUME UNCHANGED allVars PROVE TestInv'
  <2>1. m' = m /\ snapshot' = snapshot /\ call' = call /\ pending' = pending
    BY <1>1 DEF allVars, vars
  <2>2. UNCHANGED <<rules, versions, req, reports>> /\ phase' = phase BY <1>1 DEF allVars, mgrVars
  <2>3. Live(Main)' = Live(Main) BY <2>1 DEF Live, Idle
  <2>4. StoredIn(m') = StoredIn(m) BY <2>1
  <2>5. BootAvoids' BY <2>1, <2>2, <2>3, <2>4 DEF TestInv, BootAvoids, Avoids, StoredIn
  <2> QED BY <2>2, <2>5, TestKeeps
<1>2. ASSUME NEW w \in Writers, EngineStep(w) PROVE TestInv' BY <1>2, TestEngine
<1>3. ASSUME NEW a \in Admins, Request(a) \/ SelfTest(a) PROVE TestInv' BY <1>3, TestAdmin
<1> QED BY <1>1, <1>2, <1>3, TestBoot DEF MgrNext, Exhausted, SoleEditor

(* Every self-test of the only admin finds its rule matched after the add just *)
(* when the sample user satisfies the rule, and gone after the removal, and    *)
(* leaves no trace of it, live, editable or published, for any rule and user   *)
(* and whatever else that admin did before (RuleService.SelfTest).             *)
THEOREM SoleSelfTestsSucceed ==
    ASSUME SoleEditor, IdReserved
    PROVE  MgrSpec => []SelfTestsSucceed
<1>1. StepInv /\ SoleInv /\ [MgrNext]_allVars => SoleInv' BY SoleStep
<1>2. StepInv /\ SoleInv /\ TestInv /\ [MgrNext]_allVars => TestInv' BY TestStep
<1>3. StepInv /\ TestInv /\ EditableIsLive => SelfTestsSucceed
  <2> SUFFICES ASSUME StepInv, TestInv, EditableIsLive PROVE SelfTestsSucceed OBVIOUS
  <2>1. ASSUME Quiet PROVE rules[SelfTestId] = None
    <3>1. CASE Admins = {} BY <2>1, <3>1 DEF Quiet, TestInv
    <3>2. ASSUME NEW a \in Admins PROVE rules[SelfTestId] = None
      BY <2>1, <3>2, WritersAssumption DEF Quiet, TestInv, TestOK
    <3> QED BY <3>1, <3>2
  <2>2. ASSUME Quiet PROVE SelfTestId \notin LiveIds
    BY <2>1, <2>2, ReservedLive DEF EditableIsLive, StepInv
  <2> QED BY <2>1, <2>2 DEF SelfTestsSucceed, TestInv, Reported
<1> QED BY StepInvariant, SoleEditorIsLive, SoleInit, TestInit, <1>1, <1>2, <1>3, PTL DEF MgrSpec

=============================================================================
