-------------------------- MODULE RuleCacheProofs --------------------------
(***************************************************************************)
(* Proofs about RuleCache, for any number of ids, writers and operations:  *)
(* what compile, Ascending and Sorted return, what the store keeps however *)
(* its writers interleave, what an edit that runs alone publishes, and     *)
(* that edits which do not overlap implement the atomic RuleSet.           *)
(***************************************************************************)
EXTENDS RuleCache, FiniteSetTheorems, FunctionTheorems, WellFoundedInduction, TLAPS

------------------------------------------------------------------------------
(* Enumerating finite sets *)

(* A ranking that gives every element of a finite set another rank up to its   *)
(* size gives every rank to some element.                                      *)
LEMMA Pigeonhole ==
    ASSUME NEW T, IsFiniteSet(T), NEW f \in [T -> 1..Cardinality(T)],
           \A x, y \in T : f[x] = f[y] => x = y,
           NEW k \in 1..Cardinality(T)
    PROVE  \E x \in T : f[x] = k
<1> DEFINE n == Cardinality(T)
<1>1. n \in Nat BY FS_CardinalityType
<1>2. IsFiniteSet(1..n) /\ Cardinality(1..n) = n BY <1>1, FS_Interval
<1>3. f \in Injection(T, 1..n) BY Fun_IsInj
<1>4. f \in Surjection(T, 1..n) BY <1>2, <1>3, FS_Injection
<1>5. \A t \in 1..n : \E x \in T : f[x] = t BY <1>4, Fun_SurjectionProperties, Zenon
<1> QED BY <1>5

(* Every nonempty set of indices has a last one. *)
LEMMA LastIndex ==
    ASSUME NEW n \in Nat, NEW T \in SUBSET (1..n), T # {}
    PROVE  \E k \in T : \A l \in T : l <= k
<1> DEFINE D == {n - k : k \in T}
<1>1. D \subseteq Nat /\ D # {} OBVIOUS
<1>2. PICK d \in D : \A e \in D : ~ (<<e, d>> \in OpToRel(<, Nat))
  BY <1>1, NatLessThanWellFounded, WFMin
<1>3. \A e \in D : ~(e < d) BY <1>1, <1>2 DEF OpToRel
<1>4. PICK k \in T : d = n - k OBVIOUS
<1>5. ASSUME NEW l \in T PROVE l <= k
  <2>1. ~(n - l < d) BY <1>3
  <2> QED BY <2>1, <1>4
<1> QED BY <1>5

(* Ascending enumerates its set, each element once. *)
LEMMA AscendingRange ==
    ASSUME NEW is, is \subseteq Int, IsFiniteSet(is)
    PROVE  /\ Cardinality(is) \in Nat
           /\ Ascending(is) \in [1..Cardinality(is) -> is]
           /\ \A i \in is : \E k \in 1..Cardinality(is) : Ascending(is)[k] = i
           /\ \A k, l \in 1..Cardinality(is) : k < l => Ascending(is)[k] < Ascending(is)[l]
<1> DEFINE n == Cardinality(is)
           Upto(i) == {j \in is : j <= i}
           rank == [i \in is |-> Cardinality(Upto(i))]
<1>1. n \in Nat BY FS_CardinalityType
<1>i. \A i \in is : i \in Int OBVIOUS
<1>2. ASSUME NEW i \in is
      PROVE  IsFiniteSet(Upto(i)) /\ Cardinality(Upto(i)) \in 1..n
  <2>1. Upto(i) \subseteq is /\ i \in Upto(i) OBVIOUS
  <2>2. IsFiniteSet(Upto(i)) /\ Cardinality(Upto(i)) <= n BY <2>1, FS_Subset
  <2>3. Cardinality(Upto(i)) \in Nat BY <2>2, FS_CardinalityType
  <2>4. Cardinality(Upto(i)) # 0 BY <2>1, <2>2, FS_EmptySet
  <2> QED BY <2>2, <2>3, <2>4, <1>1
<1>3. ASSUME NEW i \in is, NEW j \in is, i < j
      PROVE  rank[i] < rank[j]
  <2>0. i \in Int /\ j \in Int BY <1>i
  <2>3. ASSUME NEW x \in Upto(i) PROVE x \in Upto(j)
    <3>1. x \in Int /\ x <= i BY <1>i
    <3> QED BY <3>1, <2>0, <1>3
  <2>4. Upto(i) \subseteq Upto(j) BY <2>3
  <2>5. j \in Upto(j) /\ j \notin Upto(i) BY <2>0, <1>3
  <2>1. Upto(i) \subseteq Upto(j) /\ j \in Upto(j) /\ j \notin Upto(i) BY <2>4, <2>5
  <2>2. Cardinality(Upto(i)) <= Cardinality(Upto(j)) /\ Cardinality(Upto(i)) # Cardinality(Upto(j))
    BY <2>1, <1>2, FS_Subset
  <2> QED BY <2>2, <1>2
<1>4. rank \in [is -> 1..n] BY <1>2
<1>5. \A i, j \in is : rank[i] = rank[j] => i = j
  <2> SUFFICES ASSUME NEW i \in is, NEW j \in is, rank[i] = rank[j], i # j PROVE FALSE OBVIOUS
  <2>1. rank[i] \in Nat /\ rank[j] \in Nat BY <1>4, <1>1
  <2> QED BY <2>1, <1>3
<1> HIDE DEF rank
<1>6. ASSUME NEW k \in 1..n PROVE Ascending(is)[k] \in is /\ rank[Ascending(is)[k]] = k
  <2>1. \E i \in is : rank[i] = k BY <1>4, <1>5, Pigeonhole
  <2>2. Ascending(is)[k] = CHOOSE i \in is : rank[i] = k BY DEF Ascending, rank
  <2> QED BY <2>1, <2>2
<1>7. Ascending(is) \in [1..n -> is] BY <1>6 DEF Ascending
<1>8. ASSUME NEW i \in is PROVE Ascending(is)[rank[i]] = i
  <2>1. rank[i] \in 1..n BY <1>4
  <2> QED BY <2>1, <1>5, <1>6
<1>9. ASSUME NEW k \in 1..n, NEW l \in 1..n, k < l PROVE Ascending(is)[k] < Ascending(is)[l]
  <2> DEFINE a == Ascending(is)[k]
             b == Ascending(is)[l]
  <2>1. a \in is /\ b \in is /\ rank[a] = k /\ rank[b] = l BY <1>6
  <2> HIDE DEF a, b
  <2>2. ~(b < a) /\ a # b BY <2>1, <1>3, <1>9
  <2>3. a < b BY <2>1, <2>2, <1>i
  <2> QED BY <2>3 DEF a, b
<1> QED BY <1>1, <1>4, <1>7, <1>8, <1>9

(* compile keeps the programs of the rules that compile, and nothing else. *)
LEMMA CompileRange ==
    ASSUME NEW rs \in Seq(Rule)
    PROVE  /\ compile(rs) \in Seq(Program)
           /\ \A k \in DOMAIN compile(rs) :
                  \E i \in DOMAIN rs : Compiles(rs[i]) /\ compile(rs)[k] = ProgramOf(rs[i])
           /\ \A i \in DOMAIN rs :
                  Compiles(rs[i]) => \E k \in DOMAIN compile(rs) : compile(rs)[k] = ProgramOf(rs[i])
<1> DEFINE is == {i \in DOMAIN rs : Compiles(rs[i])}
           n == Cardinality(is)
           ok == Ascending(is)
<1>1. is \subseteq Int /\ IsFiniteSet(is)
  <2>1. is \subseteq 1..Len(rs) /\ Len(rs) \in Nat OBVIOUS
  <2>2. IsFiniteSet(1..Len(rs)) BY <2>1, FS_Interval
  <2> QED BY <2>1, <2>2, FS_Subset
<1>2. /\ n \in Nat /\ ok \in [1..n -> is]
      /\ \A i \in is : \E k \in 1..n : ok[k] = i
  BY <1>1, AscendingRange
<1> HIDE DEF ok, n
<1>3. DOMAIN ok = 1..n BY <1>2
<1>4. compile(rs) = [k \in 1..n |-> ProgramOf(rs[ok[k]])] BY <1>3 DEF compile, ok
<1>5. ASSUME NEW i \in is PROVE ProgramOf(rs[i]) \in Program
  <2>1. rs[i] \in Rule /\ Compiles(rs[i]) OBVIOUS
  <2> QED BY <2>1 DEF Rule, Program, ProgramOf, Compiles
<1>6. compile(rs) \in Seq(Program)
  <2>1. \A k \in 1..n : ProgramOf(rs[ok[k]]) \in Program BY <1>2, <1>5
  <2> QED BY <2>1, <1>2, <1>4
<1>7. DOMAIN compile(rs) = 1..n BY <1>4
<1>8. \A k \in 1..n : ok[k] \in is /\ compile(rs)[k] = ProgramOf(rs[ok[k]]) BY <1>2, <1>4
<1> HIDE DEF is
<1>9. \A i \in is : i \in DOMAIN rs /\ Compiles(rs[i]) BY DEF is
<1>10. \A i \in DOMAIN rs : Compiles(rs[i]) => i \in is BY DEF is
<1> QED BY <1>2, <1>6, <1>7, <1>8, <1>9, <1>10

(* Compiling one rule gives its program, or nothing. *)
LEMMA CompileOne ==
    ASSUME NEW r \in Rule
    PROVE  compile(<<r>>) = IF Compiles(r) THEN <<ProgramOf(r)>> ELSE <<>>
<1> DEFINE is == {i \in DOMAIN <<r>> : Compiles(<<r>>[i])}
           ok == Ascending(is)
<1>1. CASE Compiles(r)
  <2>1. is = {1} BY <1>1
  <2>a. IsFiniteSet({1}) /\ Cardinality({1}) = 1 BY FS_Singleton
  <2> HIDE DEF is
  <2>2. is \subseteq Int /\ IsFiniteSet(is) /\ Cardinality(is) = 1 BY <2>1, <2>a
  <2>3. ok \in [1..1 -> {1}] BY <2>1, <2>2, AscendingRange
  <2>b. DOMAIN ok = 1..1 BY <2>3
  <2>c. compile(<<r>>) = [k \in DOMAIN ok |-> ProgramOf(<<r>>[ok[k]])] BY Zenon DEF compile, is
  <2> HIDE DEF ok
  <2>4. compile(<<r>>) = [k \in 1..1 |-> ProgramOf(<<r>>[ok[k]])] BY <2>b, <2>c
  <2>5. \A k \in 1..1 : <<r>>[ok[k]] = r BY <2>3
  <2>6. compile(<<r>>) = [k \in 1..1 |-> ProgramOf(r)] BY <2>4, <2>5
  <2> QED BY <1>1, <2>6
<1>2. CASE ~Compiles(r)
  <2>1. is = {} BY <1>2
  <2>2. Cardinality(is) = 0 BY <2>1, FS_EmptySet
  <2>3. DOMAIN ok = {} BY <2>2 DEF Ascending
  <2>4. compile(<<r>>) = [k \in DOMAIN ok |-> ProgramOf(<<r>>[ok[k]])] BY Zenon DEF compile
  <2> HIDE DEF ok
  <2>5. compile(<<r>>) = <<>> BY <2>3, <2>4
  <2> QED BY <1>2, <2>5
<1> QED BY <1>1, <1>2

(* Sorted enumerates programs with different ids, in strict order. *)
LEMMA SortedRange ==
    ASSUME NEW ps, ps \subseteq Program, IsFiniteSet(ps),
           \A p, q \in ps : p.id = q.id => p = q
    PROVE  /\ Sorted(ps) \in Seq(ps)
           /\ S!ToSet(Sorted(ps)) = ps
           /\ \A i, j \in DOMAIN Sorted(ps) : i < j => Before(Sorted(ps)[i], Sorted(ps)[j])
<1> DEFINE n == Cardinality(ps)
           Upto(p) == {q \in ps : ~Before(p, q)}
           rank == [p \in ps |-> Cardinality(Upto(p))]
<1>1. n \in Nat BY FS_CardinalityType
<1>i. \A p \in ps : p.priority \in Int /\ p.id \in Int BY IdsAssumption DEF Program
<1>o. /\ \A p \in ps : ~Before(p, p)
      /\ \A p, q \in ps : p # q => Before(p, q) \/ Before(q, p)
      /\ \A p, q \in ps : Before(p, q) => ~Before(q, p)
      /\ \A p, q, r \in ps : Before(p, q) /\ Before(q, r) => Before(p, r)
  BY <1>i DEF Before
<1>2. ASSUME NEW p \in ps
      PROVE  IsFiniteSet(Upto(p)) /\ Cardinality(Upto(p)) \in 1..n
  <2>1. Upto(p) \subseteq ps /\ p \in Upto(p) BY <1>o
  <2>2. IsFiniteSet(Upto(p)) /\ Cardinality(Upto(p)) <= n BY <2>1, FS_Subset
  <2>3. Cardinality(Upto(p)) \in Nat BY <2>2, FS_CardinalityType
  <2>4. Cardinality(Upto(p)) # 0 BY <2>1, <2>2, FS_EmptySet
  <2> QED BY <2>2, <2>3, <2>4, <1>1
<1>3. ASSUME NEW p \in ps, NEW q \in ps, Before(p, q)
      PROVE  rank[p] < rank[q]
  <2>1. ASSUME NEW x \in Upto(p) PROVE x \in Upto(q)
    BY <1>3, <1>o
  <2>2. Upto(p) \subseteq Upto(q) BY <2>1
  <2>3. q \in Upto(q) /\ q \notin Upto(p) BY <1>3, <1>o
  <2>4. Cardinality(Upto(p)) <= Cardinality(Upto(q)) /\ Cardinality(Upto(p)) # Cardinality(Upto(q))
    BY <2>2, <2>3, <1>2, FS_Subset
  <2> QED BY <2>4, <1>2
<1>4. rank \in [ps -> 1..n] BY <1>2
<1>5. \A p, q \in ps : rank[p] = rank[q] => p = q
  <2> SUFFICES ASSUME NEW p \in ps, NEW q \in ps, rank[p] = rank[q], p # q PROVE FALSE OBVIOUS
  <2>1. rank[p] \in Nat /\ rank[q] \in Nat BY <1>4, <1>1
  <2>2. Before(p, q) \/ Before(q, p) BY <1>o
  <2> HIDE DEF rank
  <2>3. rank[p] < rank[q] \/ rank[q] < rank[p] BY <2>2, <1>3
  <2> QED BY <2>1, <2>3
<1> HIDE DEF rank
<1> DEFINE s == [k \in 1..n |-> CHOOSE p \in ps : rank[p] = k]
<1>6. ASSUME NEW k \in 1..n PROVE s[k] \in ps /\ rank[s[k]] = k
  <2>1. \E p \in ps : rank[p] = k BY <1>4, <1>5, Pigeonhole
  <2> QED BY <2>1
<1>7. s \in [1..n -> ps] /\ DOMAIN s = 1..n BY <1>6
<1>8. ASSUME NEW p \in ps PROVE \E k \in 1..n : s[k] = p
  <2>1. rank[p] \in 1..n BY <1>4
  <2> QED BY <2>1, <1>5, <1>6
<1>9. ASSUME NEW k \in 1..n, NEW l \in 1..n, k < l PROVE ~Before(s[l], s[k])
  BY <1>3, <1>6, <1>9
<1> HIDE DEF s
<1> DEFINE Enum(t) == /\ \A p \in ps : \E i \in DOMAIN t : t[i] = p
                      /\ \A i, j \in DOMAIN t : i < j => ~Before(t[j], t[i])
<1>10. \E t \in [1..n -> ps] : Enum(t) BY <1>7, <1>8, <1>9
<1>a. Sorted(ps) = CHOOSE t \in [1..n -> ps] : Enum(t) BY Zenon DEF Sorted
<1>11. Sorted(ps) \in [1..n -> ps] /\ Enum(Sorted(ps)) BY <1>10, <1>a, Zenon
<1> DEFINE t == Sorted(ps)
<1> HIDE DEF Enum, t
<1>12. t \in [1..n -> ps] /\ DOMAIN t = 1..n BY <1>11 DEF t
<1>13. /\ \A p \in ps : \E i \in 1..n : t[i] = p
       /\ \A i, j \in 1..n : i < j => ~Before(t[j], t[i])
  BY <1>11, <1>12 DEF Enum, t
<1>14. t \in Seq(ps) BY <1>1, <1>12
<1>15. S!ToSet(t) = ps BY <1>12, <1>13 DEF S!ToSet
<1>16. t \in Injection(1..n, ps)
  <2>1. t \in Surjection(1..n, ps) BY <1>12, <1>13, Fun_IsSurj
  <2>2. IsFiniteSet(1..n) /\ Cardinality(1..n) = n BY <1>1, FS_Interval
  <2> QED BY <2>1, <2>2, FS_SurjSameCardinalityImpliesInj
<1>17. \A i, j \in 1..n : t[i] = t[j] => i = j BY <1>16, Fun_InjectionProperties
<1>18. \A i, j \in 1..n : i < j => Before(t[i], t[j])
  <2> SUFFICES ASSUME NEW i \in 1..n, NEW j \in 1..n, i < j PROVE Before(t[i], t[j]) OBVIOUS
  <2>1. i # j OBVIOUS
  <2> QED BY <2>1, <1>12, <1>13, <1>17, <1>o
<1> QED BY <1>12, <1>14, <1>15, <1>18 DEF t

------------------------------------------------------------------------------
(* What a list of map operations comes to *)

(* What the walk of the map can meet: a program under its own id, in finitely  *)
(* many places.                                                                *)
GoodMap(mm) ==
    /\ mm \in [Ids -> Program \cup {None}]
    /\ \A i \in Ids : mm[i] # None => mm[i].id = i
    /\ IsFiniteSet({i \in Ids : mm[i] # None})

Ops ==
    {Store(p) : p \in Program} \cup {[op |-> "delete", id |-> i] : i \in Ids}
        \cup {[op |-> "clear"]}

GoodCall(c) ==
    /\ c \in AnyCall
    /\ c.op = "add" => Len(c.progs) = 1
    /\ c.op = "remove" => c.id \in Ids

StoredIn(mm) == {mm[i] : i \in {j \in Ids : mm[j] # None}}

Touches(o, i) ==
    \/ o.op = "clear"
    \/ o.op = "store" /\ o.prog.id = i
    \/ o.op = "delete" /\ o.id = i

(* The entries no map operation of pd touches, and the programs it stores and  *)
(* does not touch again: what the map holds after all of pd.                   *)
Untouched(mm, pd) == {j \in Ids : mm[j] # None /\ \A k \in DOMAIN pd : ~Touches(pd[k], j)}

Surviving(pd) ==
    {k \in DOMAIN pd : /\ pd[k].op = "store"
                       /\ \A l \in DOMAIN pd : l > k => ~Touches(pd[l], pd[k].prog.id)}

Outcome(mm, pd) == {mm[i] : i \in Untouched(mm, pd)} \cup {pd[k].prog : k \in Surviving(pd)}

(* A map operation is a Store, a Delete or a Clear. *)
LEMMA OpKinds ==
    ASSUME NEW o \in Ops
    PROVE  \/ o.op = "store" /\ o.prog \in Program
           \/ o.op = "delete" /\ o.id \in Ids
           \/ o.op = "clear"
    BY DEF Ops, Store

(* Every map operation leaves a well-formed map. *)
LEMMA ApplyKeeps ==
    ASSUME NEW mm, GoodMap(mm), NEW o \in Ops
    PROVE  GoodMap(Apply(mm, o))
<1> DEFINE D == {i \in Ids : mm[i] # None}
<1>1. CASE o.op = "store"
  <2>1. o.prog \in Program /\ o.prog.id \in Ids BY <1>1, OpKinds DEF Program
  <2>2. Apply(mm, o) = [mm EXCEPT ![o.prog.id] = o.prog] BY <1>1 DEF Apply
  <2>3. IsFiniteSet(D \cup {o.prog.id}) BY FS_AddElement DEF GoodMap
  <2>4. {i \in Ids : Apply(mm, o)[i] # None} \subseteq D \cup {o.prog.id}
    BY <2>1, <2>2 DEF GoodMap
  <2>5. IsFiniteSet({i \in Ids : Apply(mm, o)[i] # None}) BY <2>3, <2>4, FS_Subset
  <2> QED BY <2>1, <2>2, <2>5 DEF GoodMap
<1>2. CASE o.op = "delete"
  <2>1. o.id \in Ids BY <1>2, OpKinds
  <2>2. Apply(mm, o) = [mm EXCEPT ![o.id] = None] BY <1>2 DEF Apply
  <2>4. {i \in Ids : Apply(mm, o)[i] # None} \subseteq D BY <2>1, <2>2 DEF GoodMap
  <2>5. IsFiniteSet({i \in Ids : Apply(mm, o)[i] # None}) BY <2>4, FS_Subset DEF GoodMap
  <2> QED BY <2>1, <2>2, <2>5 DEF GoodMap
<1>3. CASE o.op = "clear"
  <2>2. Apply(mm, o) = [i \in Ids |-> None] BY <1>3 DEF Apply
  <2>4. {i \in Ids : Apply(mm, o)[i] # None} = {} BY <2>2
  <2>5. IsFiniteSet({i \in Ids : Apply(mm, o)[i] # None}) BY <2>4, FS_EmptySet
  <2> QED BY <2>2, <2>5 DEF GoodMap
<1> QED BY <1>1, <1>2, <1>3, OpKinds

(* Performing the first operation does not change the outcome of all. *)
LEMMA OutcomeStep ==
    ASSUME NEW mm, GoodMap(mm), NEW pd \in Seq(Ops), pd # <<>>
    PROVE  Outcome(Apply(mm, Head(pd)), Tail(pd)) = Outcome(mm, pd)
<1> DEFINE h == Head(pd)
           tl == Tail(pd)
           nn == Apply(mm, h)
           n == Len(pd)
<1>1. n \in Nat \ {0} /\ DOMAIN pd = 1..n /\ h = pd[1] /\ h \in Ops OBVIOUS
<1>2. DOMAIN tl = 1..(n - 1) /\ \A k \in 1..(n - 1) : tl[k] = pd[k + 1] OBVIOUS
<1>3. GoodMap(nn) BY <1>1, ApplyKeeps
<1> HIDE DEF h, tl, n
<1>4. \A j \in Ids : (\A k \in DOMAIN pd : ~Touches(pd[k], j))
                       <=> ~Touches(h, j) /\ (\A k \in DOMAIN tl : ~Touches(tl[k], j))
  <2> SUFFICES ASSUME NEW j \in Ids
               PROVE  (\A k \in 1..n : ~Touches(pd[k], j))
                        <=> ~Touches(pd[1], j) /\ (\A k \in 1..(n - 1) : ~Touches(pd[k + 1], j))
    BY <1>1, <1>2
  <2>1. \A k \in 1..n : k = 1 \/ (k - 1 \in 1..(n - 1) /\ (k - 1) + 1 = k) BY <1>1
  <2>2. 1 \in 1..n /\ \A k \in 1..(n - 1) : k + 1 \in 1..n BY <1>1
  <2> QED BY <2>1, <2>2
<1>a. \A k \in 1..(n - 1) : k + 1 \in 1..n BY <1>1
<1>b. \A k \in 1..n : k \in Surviving(pd)
        <=> pd[k].op = "store" /\ \A l \in 1..n : l > k => ~Touches(pd[l], pd[k].prog.id)
  BY <1>1 DEF Surviving
<1>c. \A k \in 1..(n - 1) : k \in Surviving(tl)
        <=> tl[k].op = "store" /\ \A l \in 1..(n - 1) : l > k => ~Touches(tl[l], tl[k].prog.id)
  BY <1>2 DEF Surviving
<1>5. \A k \in 1..(n - 1) : k \in Surviving(tl) <=> k + 1 \in Surviving(pd)
  <2> SUFFICES ASSUME NEW k \in 1..(n - 1)
               PROVE  (\A l \in 1..(n - 1) : l > k => ~Touches(tl[l], tl[k].prog.id))
                         <=> (\A l \in 1..n : l > k + 1 => ~Touches(pd[l], pd[k + 1].prog.id))
    BY <1>2, <1>a, <1>b, <1>c
  <2>1. ASSUME \A l \in 1..(n - 1) : l > k => ~Touches(tl[l], tl[k].prog.id), NEW l \in 1..n, l > k + 1
        PROVE  ~Touches(pd[l], pd[k + 1].prog.id)
    <3>1. l - 1 \in 1..(n - 1) /\ l - 1 > k /\ (l - 1) + 1 = l BY <1>1, <2>1
    <3>2. tl[l - 1] = pd[l] /\ tl[k] = pd[k + 1] BY <1>2, <3>1
    <3> QED BY <2>1, <3>1, <3>2
  <2>2. ASSUME \A l \in 1..n : l > k + 1 => ~Touches(pd[l], pd[k + 1].prog.id), NEW l \in 1..(n - 1), l > k
        PROVE  ~Touches(tl[l], tl[k].prog.id)
    <3>1. l + 1 \in 1..n /\ l + 1 > k + 1 BY <1>1, <2>2
    <3>2. tl[l] = pd[l + 1] /\ tl[k] = pd[k + 1] BY <1>2
    <3> QED BY <2>2, <3>1, <3>2
  <2> QED BY <2>1, <2>2
<1>6. 1 \in Surviving(pd)
        <=> h.op = "store" /\ \A k \in DOMAIN tl : ~Touches(tl[k], h.prog.id)
  <2> SUFFICES (\A l \in 1..n : l > 1 => ~Touches(pd[l], pd[1].prog.id))
                 <=> (\A k \in 1..(n - 1) : ~Touches(pd[k + 1], pd[1].prog.id))
    <3>1. 1 \in 1..n BY <1>1
    <3> QED BY <1>1, <1>2, <1>b, <3>1
  <2>1. \A k \in 1..(n - 1) : k + 1 \in 1..n /\ k + 1 > 1 BY <1>1
  <2>2. \A l \in 1..n : l > 1 => l - 1 \in 1..(n - 1) /\ (l - 1) + 1 = l BY <1>1
  <2> QED BY <2>1, <2>2
<1> DEFINE A == {mm[i] : i \in Untouched(mm, pd)}
           B == {pd[k].prog : k \in Surviving(pd)}
           A1 == {nn[i] : i \in Untouched(nn, tl)}
           B1 == {tl[k].prog : k \in Surviving(tl)}
<1>7. ASSUME NEW x PROVE x \in B <=> x \in B1 \/ (1 \in Surviving(pd) /\ x = h.prog)
  <2>1. ASSUME x \in B PROVE x \in B1 \/ (1 \in Surviving(pd) /\ x = h.prog)
    <3>1. PICK k \in Surviving(pd) : x = pd[k].prog BY <2>1
    <3>2. k \in 1..n BY <1>1 DEF Surviving
    <3>3. CASE k = 1 BY <3>1, <3>3, <1>1
    <3>4. CASE k # 1
      <4>1. k - 1 \in 1..(n - 1) /\ (k - 1) + 1 = k BY <3>2, <3>4, <1>1
      <4>2. k - 1 \in Surviving(tl) /\ tl[k - 1].prog = x BY <4>1, <3>1, <1>2, <1>5
      <4> QED BY <4>2
    <3> QED BY <3>3, <3>4
  <2>2. ASSUME x \in B1 PROVE x \in B
    <3>1. PICK k \in Surviving(tl) : x = tl[k].prog BY <2>2
    <3>2. k \in 1..(n - 1) BY <1>2 DEF Surviving
    <3> QED BY <3>1, <3>2, <1>2, <1>5
  <2>3. ASSUME 1 \in Surviving(pd), x = h.prog PROVE x \in B BY <2>3, <1>1
  <2> QED BY <2>1, <2>2, <2>3
<1>8. ASSUME NEW x PROVE x \in A \/ (1 \in Surviving(pd) /\ x = h.prog) <=> x \in A1
  <2>u. /\ Untouched(mm, pd) = {j \in Ids : mm[j] # None /\ ~Touches(h, j) /\ \A k \in DOMAIN tl : ~Touches(tl[k], j)}
        /\ Untouched(nn, tl) = {j \in Ids : nn[j] # None /\ \A k \in DOMAIN tl : ~Touches(tl[k], j)}
    BY <1>4 DEF Untouched
  <2>1. CASE h.op = "store"
    <3>1. h.prog \in Program /\ h.prog.id \in Ids /\ h.prog # None
      BY <2>1, <1>1, OpKinds, NoneAssumption DEF Program
    <3>2. nn = [mm EXCEPT ![h.prog.id] = h.prog] BY <2>1 DEF Apply
    <3>3. \A j \in Ids : Touches(h, j) <=> j = h.prog.id BY <2>1 DEF Touches
    <3>4. \A j \in Ids : nn[j] = IF j = h.prog.id THEN h.prog ELSE mm[j] BY <3>1, <3>2 DEF GoodMap
    <3> HIDE DEF nn
    <3> QED BY <2>1, <2>u, <3>1, <3>3, <3>4, <1>6
  <2>2. CASE h.op = "delete"
    <3>1. h.id \in Ids BY <2>2, <1>1, OpKinds
    <3>2. nn = [mm EXCEPT ![h.id] = None] BY <2>2 DEF Apply
    <3>3. \A j \in Ids : Touches(h, j) <=> j = h.id BY <2>2 DEF Touches
    <3>4. \A j \in Ids : nn[j] = IF j = h.id THEN None ELSE mm[j] BY <3>1, <3>2 DEF GoodMap
    <3> HIDE DEF nn
    <3> QED BY <2>2, <2>u, <3>1, <3>3, <3>4, <1>6
  <2>3. CASE h.op = "clear"
    <3>2. nn = [j \in Ids |-> None] BY <2>3 DEF Apply
    <3>3. \A j \in Ids : Touches(h, j) BY <2>3 DEF Touches
    <3>4. \A j \in Ids : nn[j] = None BY <3>2
    <3> HIDE DEF nn
    <3> QED BY <2>3, <2>u, <3>3, <3>4, <1>6
  <2> QED BY <2>1, <2>2, <2>3, <1>1, OpKinds
<1> HIDE DEF A, B, A1, B1
<1>9. A \cup B = A1 \cup B1 BY <1>7, <1>8
<1> QED BY <1>9 DEF A, B, A1, B1, Outcome, h, tl

(* With nothing left to do the outcome is the map. *)
LEMMA OutcomeDone ==
    ASSUME NEW mm PROVE Outcome(mm, <<>>) = StoredIn(mm)
<1>1. Surviving(<<>>) = {} BY DEF Surviving
<1>2. Untouched(mm, <<>>) = {j \in Ids : mm[j] # None} BY DEF Untouched
<1> QED BY <1>1, <1>2 DEF Outcome, StoredIn

(* PutAll is one Store per program, in order. *)
LEMMA PutAllOps ==
    ASSUME NEW ps \in Seq(Program)
    PROVE  /\ PutAll(ps) \in Seq(Ops)
           /\ DOMAIN PutAll(ps) = DOMAIN ps
           /\ \A k \in DOMAIN ps : PutAll(ps)[k].op = "store" /\ PutAll(ps)[k].prog = ps[k]
<1>1. \A k \in DOMAIN ps : Store(ps[k]) \in Ops /\ Store(ps[k]).op = "store" /\ Store(ps[k]).prog = ps[k]
  BY DEF Store, Ops
<1>2. PutAll(ps) \in Seq(Ops)
  <2>1. PutAll(ps) = [k \in 1..Len(ps) |-> Store(ps[k])] BY DEF PutAll
  <2> QED BY <1>1, <2>1
<1> QED BY <1>1, <1>2 DEF PutAll

(* The map operations of every call are well formed. *)
LEMMA ScriptOps == ASSUME NEW c, GoodCall(c) PROVE Script(c) \in Seq(Ops)
<1>1. c.progs \in Seq(Program) /\ c.op \in {"add", "remove", "load", "replace"}
  BY DEF GoodCall, AnyCall
<1>2. CASE c.op = "add"
  <2>1. c.progs[1] \in Program BY <1>1, <1>2 DEF GoodCall
  <2>2. Store(c.progs[1]) \in Ops BY <2>1 DEF Ops
  <2> QED BY <1>2, <2>2 DEF Script, Put
<1>3. CASE c.op = "remove"
  <2>1. [op |-> "delete", id |-> c.id] \in Ops BY <1>3 DEF Ops, GoodCall
  <2> QED BY <1>3, <2>1 DEF Script, Delete
<1>4. CASE c.op = "load" BY <1>1, <1>4, PutAllOps DEF Script
<1>5. CASE c.op = "replace"
  <2>1. [op |-> "clear"] \in Ops BY DEF Ops
  <2>2. PutAll(c.progs) \in Seq(Ops) BY <1>1, PutAllOps
  <2>3. <<[op |-> "clear"]>> \o PutAll(c.progs) \in Seq(Ops) BY <2>1, <2>2
  <2> QED BY <1>5, <2>3 DEF Script, ReplaceAll
<1> QED BY <1>1, <1>2, <1>3, <1>4, <1>5

(* Storing a list merges its winners into what the map holds. *)
LEMMA OutcomePutAll ==
    ASSUME NEW mm, GoodMap(mm), NEW ps \in Seq(Program)
    PROVE  Outcome(mm, PutAll(ps)) = Abstract!Merge(Abstract!Winners(ps), StoredIn(mm))
<1> DEFINE pd == PutAll(ps)
           n == Len(ps)
           W == Abstract!Winners(ps)
<1>d. DOMAIN ps = 1..n /\ n \in Nat OBVIOUS
<1>1. DOMAIN pd = 1..n /\ DOMAIN ps = 1..n /\ n \in Nat BY <1>d, PutAllOps
<1>2. \A k \in 1..n : pd[k].op = "store" /\ pd[k].prog = ps[k] BY <1>d, PutAllOps, Zenon
<1>4. \A k \in 1..n : \A j : Touches(pd[k], j) <=> ps[k].id = j BY <1>2 DEF Touches
<1> HIDE DEF pd, n
<1>w. W = {ps[k] : k \in Surviving(pd)}
  <2>1. Surviving(pd) = {j \in DOMAIN ps : \A k \in DOMAIN ps : k > j => ps[k].id # ps[j].id}
    BY <1>1, <1>2, <1>4 DEF Surviving
  <2> QED BY <2>1 DEF Abstract!Winners
<1>5. {pd[k].prog : k \in Surviving(pd)} = W
  <2>1. \A k \in Surviving(pd) : pd[k].prog = ps[k] BY <1>1, <1>2 DEF Surviving
  <2> QED BY <2>1, <1>w
<1>6. ASSUME NEW k \in 1..n PROVE \E p \in W : p.id = ps[k].id
  <2> DEFINE T == {l \in 1..n : ps[l].id = ps[k].id}
  <2>1. T \in SUBSET (1..n) /\ k \in T OBVIOUS
  <2>2. PICK l \in T : \A i \in T : i <= l BY <1>1, <2>1, LastIndex
  <2>3. ASSUME NEW i \in 1..n, i > l PROVE ps[i].id # ps[l].id
    <3>1. i \notin T BY <2>2, <2>3, <1>1
    <3> QED BY <3>1, <2>2
  <2>4. l \in Surviving(pd) BY <2>1, <2>3, <1>1, <1>2, <1>4 DEF Surviving
  <2>5. ps[l] \in W BY <2>4, <1>w
  <2> QED BY <2>5
<1>7. ASSUME NEW j \in Ids, mm[j] # None
      PROVE  j \in Untouched(mm, pd) <=> \A p \in W : p.id # mm[j].id
  <2>1. mm[j].id = j BY <1>7 DEF GoodMap
  <2>2. \A p \in W : \E k \in 1..n : p = ps[k] BY <1>w, <1>1 DEF Surviving
  <2>3. j \in Untouched(mm, pd) <=> \A k \in 1..n : ps[k].id # j BY <1>7, <1>1, <1>4 DEF Untouched
  <2> QED BY <2>1, <2>2, <2>3, <1>6
<1>8. Untouched(mm, pd) \subseteq {j \in Ids : mm[j] # None} BY DEF Untouched
<1>9. {mm[i] : i \in Untouched(mm, pd)} = {q \in StoredIn(mm) : \A p \in W : p.id # q.id}
  BY <1>7, <1>8 DEF StoredIn
<1> QED BY <1>5, <1>9 DEF Outcome, Abstract!Merge, pd

(* Performed alone, the map operations of a call have the effect of the call. *)
LEMMA OutcomeScript ==
    ASSUME NEW mm, GoodMap(mm), NEW c, GoodCall(c)
    PROVE  Outcome(mm, Script(c)) = Abstract!Effect(c, StoredIn(mm))
<1>1. c.progs \in Seq(Program) /\ c.op \in {"add", "remove", "load", "replace"}
  BY DEF GoodCall, AnyCall
<1>2. CASE c.op \in {"add", "load"}
  <2>1. Script(c) = PutAll(c.progs)
    <3>1. CASE c.op = "load" BY <3>1 DEF Script
    <3>2. CASE c.op = "add"
      <4>1. DOMAIN c.progs = 1..1 BY <3>2, <1>1 DEF GoodCall
      <4>2. Script(c) = <<Store(c.progs[1])>> BY <3>2 DEF Script, Put
      <4> QED BY <4>1, <4>2 DEF PutAll
    <3> QED BY <1>2, <3>1, <3>2
  <2> QED BY <1>1, <1>2, <2>1, OutcomePutAll DEF Abstract!Effect
<1>3. CASE c.op = "remove"
  <2> DEFINE o == [op |-> "delete", id |-> c.id]
  <2>1. Script(c) = <<o>> /\ c.id \in Ids BY <1>3 DEF Script, Delete, GoodCall
  <2>2. o \in Ops /\ o.op = "delete" /\ o.id = c.id BY <2>1 DEF Ops
  <2> HIDE DEF o
  <2>3. <<o>> \in Seq(Ops) /\ <<o>> # <<>> /\ Head(<<o>>) = o /\ Tail(<<o>>) = <<>> BY <2>2
  <2>4. Outcome(mm, Script(c)) = Outcome(Apply(mm, o), <<>>) BY <2>1, <2>3, OutcomeStep
  <2>5. Outcome(mm, Script(c)) = StoredIn(Apply(mm, o)) BY <2>4, OutcomeDone
  <2>6. Apply(mm, o) = [mm EXCEPT ![c.id] = None] BY <2>2 DEF Apply
  <2>7. \A i \in Ids : Apply(mm, o)[i] = IF i = c.id THEN None ELSE mm[i] BY <2>1, <2>6 DEF GoodMap
  <2>8. StoredIn(Apply(mm, o)) = {q \in StoredIn(mm) : q.id # c.id} BY <2>7 DEF StoredIn, GoodMap
  <2> QED BY <1>3, <2>5, <2>8 DEF Abstract!Effect
<1>4. CASE c.op = "replace"
  <2> DEFINE o == [op |-> "clear"]
             ps == PutAll(c.progs)
             pd == <<o>> \o ps
  <2>1. ps \in Seq(Ops) BY <1>1, PutAllOps
  <2>2. o \in Ops /\ o.op = "clear" BY DEF Ops
  <2>3. Script(c) = pd BY <1>4 DEF Script, ReplaceAll
  <2> HIDE DEF o, ps
  <2>4. pd \in Seq(Ops) /\ pd # <<>> /\ Head(pd) = o /\ Tail(pd) = ps BY <2>1, <2>2
  <2>5. Outcome(mm, Script(c)) = Outcome(Apply(mm, o), ps) BY <2>3, <2>4, OutcomeStep
  <2>6. GoodMap(Apply(mm, o)) BY <2>2, ApplyKeeps
  <2>7. Apply(mm, o) = [i \in Ids |-> None] BY <2>2 DEF Apply
  <2>8. StoredIn(Apply(mm, o)) = {} BY <2>7 DEF StoredIn
  <2>9. Outcome(Apply(mm, o), ps) = Abstract!Merge(Abstract!Winners(c.progs), {})
    BY <1>1, <2>6, <2>8, OutcomePutAll DEF ps
  <2>10. Abstract!Merge(Abstract!Winners(c.progs), {}) = Abstract!Winners(c.progs) BY DEF Abstract!Merge
  <2> QED BY <1>4, <2>5, <2>9, <2>10 DEF Abstract!Effect
<1> QED BY <1>1, <1>2, <1>3, <1>4

------------------------------------------------------------------------------
(* What the store keeps under every interleaving *)

GoodSet(ps) == ps \subseteq Program /\ IsFiniteSet(ps) /\ \A p, q \in ps : p.id = q.id => p = q

(* The local variables of the writers are functions on Writers. *)
Shape ==
    /\ call = [w \in Writers |-> call[w]]
    /\ pending = [w \in Writers |-> pending[w]]
    /\ left = [w \in Writers |-> left[w]]
    /\ progs = [w \in Writers |-> progs[w]]

CallsOK == \A w \in Writers : call[w] = NoCall \/ GoodCall(call[w])

(* Until the last change of the map the walk has not begun. *)
PendingOK ==
    \A w \in Writers :
        /\ pending[w] \in Seq(Ops)
        /\ Idle(w) => pending[w] = <<>>
        /\ pending[w] # <<>> => left[w] = Ids /\ progs[w] = {}

(* A walk collects at most one program for each id it has visited. *)
WalkOK ==
    \A w \in Writers :
        /\ left[w] \subseteq Ids
        /\ GoodSet(progs[w])
        /\ \A p \in progs[w] : p.id \notin left[w]

(* The published slice holds at most one program per id, highest priority first. *)
SliceSorted == \A i, j \in DOMAIN snapshot : i < j => Before(snapshot[i], snapshot[j])

SliceOK == snapshot \in Seq(Program) /\ SliceSorted /\ GoodSet(S!ToSet(snapshot))

(* What the store keeps however its writers interleave. *)
StoreOK == Shape /\ GoodMap(m) /\ CallsOK /\ PendingOK /\ WalkOK /\ SliceOK

(* A writer inside a call is not idle. *)
LEMMA GoodCallIsCall == ASSUME NEW c, GoodCall(c) PROVE c # NoCall
    BY NoCallAssumption DEF GoodCall

(* Sorting no programs gives the empty slice. *)
LEMMA SortedEmpty == Sorted({}) = <<>>
<1>1. Cardinality({}) = 0 BY FS_EmptySet
<1>2. <<>> \in [1..0 -> {}] OBVIOUS
<1>3. \A s \in [1..0 -> {}] : s = <<>> OBVIOUS
<1> QED BY <1>1, <1>2, <1>3 DEF Sorted

(* Sorting a well-formed set gives a slice of the same programs, in order. *)
LEMMA SortedGood ==
    ASSUME NEW ps, GoodSet(ps)
    PROVE  /\ Sorted(ps) \in Seq(Program)
           /\ S!ToSet(Sorted(ps)) = ps
           /\ \A i, j \in DOMAIN Sorted(ps) : i < j => Before(Sorted(ps)[i], Sorted(ps)[j])
<1>1. ps \subseteq Program /\ IsFiniteSet(ps) /\ \A p, q \in ps : p.id = q.id => p = q BY DEF GoodSet
<1>2. Sorted(ps) \in Seq(ps) BY <1>1, SortedRange
<1>3. Sorted(ps) \in Seq(Program) BY <1>1, <1>2
<1> QED BY <1>1, <1>3, SortedRange

(* The programs a well-formed map holds can be sorted. *)
LEMMA StoredGood == ASSUME NEW mm, GoodMap(mm) PROVE GoodSet(StoredIn(mm))
<1> DEFINE D == {i \in Ids : mm[i] # None}
           f == [i \in D |-> mm[i]]
<1>1. StoredIn(mm) \subseteq Program BY DEF StoredIn, GoodMap
<1>2. f \in Surjection(D, StoredIn(mm)) BY Fun_IsSurj DEF StoredIn
<1>3. IsFiniteSet(StoredIn(mm)) BY <1>2, FS_Surjection DEF GoodMap
<1>4. \A p, q \in StoredIn(mm) : p.id = q.id => p = q BY DEF StoredIn, GoodMap
<1> QED BY <1>1, <1>3, <1>4 DEF GoodSet

(* The empty store is well formed. *)
LEMMA StoreInit == Init => StoreOK
<1> SUFFICES ASSUME Init PROVE StoreOK OBVIOUS
<1>1. Shape BY DEF Init, Shape
<1>2. GoodMap(m)
  <2>1. {i \in Ids : m[i] # None} = {} BY DEF Init
  <2>2. IsFiniteSet({i \in Ids : m[i] # None}) BY <2>1, FS_EmptySet
  <2> QED BY <2>2 DEF Init, GoodMap
<1>3. GoodSet({}) BY FS_EmptySet DEF GoodSet
<1>4. S!ToSet(<<>>) = {} BY DEF S!ToSet
<1>5. CallsOK /\ PendingOK BY DEF Init, CallsOK, PendingOK
<1>6. WalkOK BY <1>3 DEF Init, WalkOK
<1>7. snapshot \in Seq(Program) /\ SliceSorted BY DEF Init, SliceSorted
<1>8. GoodSet(S!ToSet(snapshot)) BY <1>3, <1>4 DEF Init
<1> QED BY <1>1, <1>2, <1>5, <1>6, <1>7, <1>8 DEF StoreOK, SliceOK

(* A call begins. *)
LEMMA StoreBegin ==
    ASSUME StoreOK, NEW w \in Writers, NEW c, GoodCall(c), Begin(w, c)
    PROVE  StoreOK'
<1>1. Shape' BY DEF Begin, StoreOK, Shape
<1>2. GoodMap(m)' BY DEF Begin, StoreOK, GoodMap
<1>3. CallsOK' BY DEF Begin, StoreOK, Shape, CallsOK, GoodCall
<1>4. PendingOK' BY ScriptOps, GoodCallIsCall DEF Begin, StoreOK, Shape, PendingOK, Idle
<1>5. WalkOK'
  <2>1. GoodSet({}) BY FS_EmptySet DEF GoodSet
  <2> QED BY <2>1 DEF Begin, StoreOK, Shape, WalkOK, GoodSet
<1>6. SliceOK' BY DEF Begin, StoreOK, SliceOK, SliceSorted, GoodSet
<1> QED BY <1>1, <1>2, <1>3, <1>4, <1>5, <1>6 DEF StoreOK

(* One Store, Delete or Clear. *)
LEMMA StoreMap ==
    ASSUME StoreOK, NEW w \in Writers, MapStep(w)
    PROVE  StoreOK'
<1>0. pending[w] \in Seq(Ops) /\ pending[w] # <<>> BY DEF StoreOK, PendingOK, MapStep
<1>a. Head(pending[w]) \in Ops /\ Tail(pending[w]) \in Seq(Ops) BY <1>0
<1>1. Shape' BY DEF MapStep, StoreOK, Shape
<1>b. GoodMap(Apply(m, Head(pending[w]))) BY <1>a, ApplyKeeps DEF StoreOK
<1>2. GoodMap(m)' BY <1>b DEF MapStep, GoodMap
<1>3. CallsOK' BY DEF MapStep, StoreOK, Shape, CallsOK, GoodCall
<1>4. PendingOK' BY <1>0, <1>a DEF MapStep, StoreOK, Shape, PendingOK, Idle
<1>5. WalkOK' BY DEF MapStep, StoreOK, WalkOK, GoodSet
<1>6. SliceOK' BY DEF MapStep, StoreOK, SliceOK, SliceSorted, GoodSet
<1> QED BY <1>1, <1>2, <1>3, <1>4, <1>5, <1>6 DEF StoreOK

(* The walk visits one key. *)
LEMMA StoreRange ==
    ASSUME StoreOK, NEW w \in Writers, NEW id \in Ids, RangeVisit(w, id)
    PROVE  StoreOK'
<1>1. Shape' BY DEF RangeVisit, StoreOK, Shape
<1>2. GoodMap(m)' BY DEF RangeVisit, StoreOK, GoodMap
<1>3. CallsOK' BY DEF RangeVisit, StoreOK, Shape, CallsOK, GoodCall
<1>4. PendingOK' BY DEF RangeVisit, StoreOK, Shape, PendingOK, Idle
<1>5. WalkOK'
  <2>0. GoodSet(progs[w]) /\ left[w] \subseteq Ids /\ id \in left[w]
        /\ (\A p \in progs[w] : p.id \notin left[w])
    BY DEF RangeVisit, StoreOK, WalkOK
  <2>1. m[id] # None => m[id] \in Program /\ m[id].id = id BY DEF StoreOK, GoodMap
  <2>2. GoodSet(Visited(w, id)) /\ \A p \in Visited(w, id) : p.id \notin left[w] \ {id}
    <3>1. CASE m[id] = None BY <2>0, <3>1 DEF Visited
    <3>2. CASE m[id] # None
      <4>1. IsFiniteSet(progs[w] \cup {m[id]}) BY <2>0, FS_AddElement DEF GoodSet
      <4> QED BY <2>0, <2>1, <3>2, <4>1 DEF Visited, GoodSet
    <3> QED BY <3>1, <3>2
  <2>3. /\ left'[w] = left[w] \ {id} /\ progs'[w] = Visited(w, id)
        /\ \A v \in Writers \ {w} : left'[v] = left[v] /\ progs'[v] = progs[v]
    BY DEF RangeVisit, StoreOK, Shape
  <2>4. ASSUME NEW v \in Writers
        PROVE  /\ left'[v] \subseteq Ids /\ GoodSet(progs'[v])
               /\ \A p \in progs'[v] : p.id \notin left'[v]
    <3>1. CASE v = w BY <2>0, <2>2, <2>3, <3>1
    <3>2. CASE v # w BY <2>3, <3>2 DEF StoreOK, WalkOK
    <3> QED BY <3>1, <3>2
  <2> QED BY <2>4 DEF WalkOK, GoodSet
<1>6. SliceOK' BY DEF RangeVisit, StoreOK, SliceOK, SliceSorted, GoodSet
<1> QED BY <1>1, <1>2, <1>3, <1>4, <1>5, <1>6 DEF StoreOK

(* The sorted slice is swapped in. *)
LEMMA StoreSwap ==
    ASSUME StoreOK, NEW w \in Writers, Swap(w)
    PROVE  StoreOK'
<1>1. Shape' BY DEF Swap, StoreOK, Shape
<1>2. GoodMap(m)' BY DEF Swap, StoreOK, GoodMap
<1>3. CallsOK' BY DEF Swap, StoreOK, Shape, CallsOK, GoodCall
<1>4. PendingOK' BY DEF Swap, StoreOK, Shape, PendingOK, Idle
<1>5. WalkOK' BY DEF Swap, StoreOK, WalkOK, GoodSet
<1>6. SliceOK'
  <2>1. GoodSet(progs[w]) BY DEF StoreOK, WalkOK
  <2>2. snapshot' = Sorted(progs[w]) BY DEF Swap
  <2>3. snapshot' \in Seq(Program) /\ S!ToSet(snapshot') = progs[w]
        /\ \A i, j \in DOMAIN snapshot' : i < j => Before(snapshot'[i], snapshot'[j])
    BY <2>1, <2>2, SortedGood
  <2> QED BY <2>1, <2>3 DEF SliceOK, SliceSorted, GoodSet
<1> QED BY <1>1, <1>2, <1>3, <1>4, <1>5, <1>6 DEF StoreOK

------------------------------------------------------------------------------
(* What an edit that runs alone publishes *)

(* What the Range of w has collected when nobody changed the map meanwhile. *)
Collected(w) == {m[i] : i \in {j \in Ids \ left[w] : m[j] # None}}

(* Without overlap there is one busy writer, its walk agrees with the map, and *)
(* between two operations the slice is the sorted map.                         *)
SoloOK ==
    ~overlap =>
        /\ \A v, w \in Writers : ~Idle(v) /\ ~Idle(w) => v = w
        /\ \A w \in Writers : ~Idle(w) /\ pending[w] = <<>> => progs[w] = Collected(w)
        /\ AllIdle => snapshot = Sorted(Stored)

CacheInv == StoreOK /\ SoloOK

(* The walk of a writer that has visited every key has collected the map. *)
LEMMA CollectedAll == ASSUME NEW w, left[w] = {} PROVE Collected(w) = Stored
    BY DEF Collected, Stored

(* Stored, with the map as a parameter. *)
LEMMA StoredIsStoredIn == Stored = StoredIn(m)
    BY DEF Stored, StoredIn

(* Both hold of an empty cache. *)
LEMMA CacheInit == Init => CacheInv
<1> SUFFICES ASSUME Init PROVE CacheInv OBVIOUS
<1>1. Stored = {} BY DEF Init, Stored
<1> QED BY <1>1, SortedEmpty, StoreInit DEF Init, CacheInv, SoloOK, Idle, AllIdle

(* A call that begins keeps both; it is an overlap when another is under way. *)
LEMMA CacheBegin ==
    ASSUME CacheInv, NEW w \in Writers, NEW c, GoodCall(c), Begin(w, c)
    PROVE  CacheInv'
<1>1. StoreOK' BY StoreBegin DEF CacheInv
<1>2. SoloOK'
  BY GoodCallIsCall, ScriptOps DEF CacheInv, StoreOK, Shape, SoloOK, Begin, Idle, AllIdle, Collected
<1> QED BY <1>1, <1>2 DEF CacheInv

(* Only a writer whose walk has not begun changes the map. *)
LEMMA CacheMap ==
    ASSUME CacheInv, NEW w \in Writers, MapStep(w)
    PROVE  CacheInv'
<1>1. StoreOK' BY StoreMap DEF CacheInv
<1>2. ~Idle(w) /\ left[w] = Ids /\ progs[w] = {} BY DEF CacheInv, StoreOK, PendingOK, MapStep
<1>3. Collected(w)' = {} BY <1>2 DEF MapStep, Collected
<1>4. SoloOK' BY <1>2, <1>3 DEF CacheInv, SoloOK, MapStep, AllIdle, Idle
<1> QED BY <1>1, <1>4 DEF CacheInv

(* A walk that agrees with the map still does after the next key. *)
LEMMA CacheRange ==
    ASSUME CacheInv, NEW w \in Writers, NEW id \in Ids, RangeVisit(w, id)
    PROVE  CacheInv'
<1>1. StoreOK' BY StoreRange DEF CacheInv
<1>2. progs[w] = Collected(w) => progs'[w] = Collected(w)'
  BY DEF CacheInv, StoreOK, Shape, RangeVisit, Visited, Collected
<1>3. SoloOK' BY <1>2 DEF CacheInv, StoreOK, Shape, SoloOK, RangeVisit, AllIdle, Idle
<1> QED BY <1>1, <1>3 DEF CacheInv

(* A walk that is over publishes what it collected. *)
LEMMA CacheSwap ==
    ASSUME CacheInv, NEW w \in Writers, Swap(w)
    PROVE  CacheInv'
<1>1. StoreOK' BY StoreSwap DEF CacheInv
<1>2. Stored' = Stored BY DEF Swap, Stored
<1>3. Collected(w) = Stored BY CollectedAll DEF Swap
<1>4. SoloOK'
  BY <1>2, <1>3 DEF CacheInv, StoreOK, Shape, SoloOK, Swap, AllIdle, Collected, Idle
<1> QED BY <1>1, <1>4 DEF CacheInv

(* A step of somebody else keeps both. *)
LEMMA CacheStutter == CacheInv /\ UNCHANGED vars => CacheInv'
<1> SUFFICES ASSUME CacheInv, UNCHANGED vars PROVE CacheInv' OBVIOUS
<1> USE DEF vars
<1>1. Shape' /\ CallsOK' /\ PendingOK' BY DEF CacheInv, StoreOK, Shape, CallsOK, PendingOK, Idle, GoodCall
<1>2. GoodMap(m)' BY DEF CacheInv, StoreOK, GoodMap
<1>3. WalkOK' BY DEF CacheInv, StoreOK, WalkOK, GoodSet
<1>4. SliceOK' BY DEF CacheInv, StoreOK, SliceOK, SliceSorted, GoodSet
<1>5. SoloOK' BY DEF CacheInv, SoloOK, AllIdle, Idle, Collected, Stored
<1> QED BY <1>1, <1>2, <1>3, <1>4, <1>5 DEF CacheInv, StoreOK

(* The calls of the engine's own operations are well formed. *)
LEMMA OperationBegins ==
    ASSUME NEW w \in Writers, Operation(w)
    PROVE  \E c \in Calls : GoodCall(c) /\ Begin(w, c)
<1>1. ASSUME NEW r \in AddInputs, AddRule(w, r) PROVE \E c \in Calls : GoodCall(c) /\ Begin(w, c)
  <2>0. r \in Rule BY InputsAssumption
  <2>1. compile(<<r>>) = <<ProgramOf(r)>> /\ Compiles(r) BY <2>0, <1>1, CompileOne DEF AddRule
  <2>2. ProgramOf(r) \in Program /\ r.id \in Ids BY <2>0, <2>1 DEF Rule, Program, ProgramOf, Compiles
  <2>a. <<ProgramOf(r)>> \in Seq(Program) /\ Len(<<ProgramOf(r)>>) = 1 BY <2>2
  <2>3. compile(<<r>>) \in Seq(Program) /\ Len(compile(<<r>>)) = 1 BY <2>1, <2>a
  <2>4. GoodCall(AddCall(r)) BY <2>2, <2>3 DEF GoodCall, AnyCall, AddCall
  <2>5. AddCall(r) \in Calls BY <1>1 DEF AddRule, Calls
  <2> QED BY <1>1, <2>4, <2>5 DEF AddRule
<1>2. ASSUME NEW i \in RemoveIds, RemoveRule(w, i) PROVE \E c \in Calls : GoodCall(c) /\ Begin(w, c)
  <2>1. i \in Ids BY InputsAssumption
  <2>2. <<>> \in Seq(Program) OBVIOUS
  <2>3. GoodCall(RemoveCall(i)) BY <2>1, <2>2 DEF GoodCall, AnyCall, RemoveCall
  <2>4. RemoveCall(i) \in Calls BY DEF Calls
  <2> QED BY <1>2, <2>3, <2>4 DEF RemoveRule
<1>3. ASSUME NEW l \in RuleLists PROVE compile(l) \in Seq(Program)
  BY InputsAssumption, CompileRange
<1>4. ASSUME NEW l \in RuleLists, LoadRules(w, l) PROVE \E c \in Calls : GoodCall(c) /\ Begin(w, c)
  <2>1. GoodCall(LoadCall(l)) BY <1>3 DEF GoodCall, AnyCall, LoadCall
  <2>2. LoadCall(l) \in Calls BY DEF Calls
  <2> QED BY <1>4, <2>1, <2>2 DEF LoadRules
<1>5. ASSUME NEW l \in RuleLists, ReplaceRules(w, l) PROVE \E c \in Calls : GoodCall(c) /\ Begin(w, c)
  <2>1. GoodCall(ReplaceCall(l)) BY <1>3 DEF GoodCall, AnyCall, ReplaceCall
  <2>2. ReplaceCall(l) \in Calls BY DEF Calls
  <2> QED BY <1>5, <2>1, <2>2 DEF ReplaceRules
<1> QED BY <1>1, <1>2, <1>4, <1>5 DEF Operation

(* Every step of every writer keeps the invariant. *)
LEMMA CacheStep == CacheInv /\ [Next]_vars => CacheInv'
<1> SUFFICES ASSUME CacheInv, [Next]_vars PROVE CacheInv' OBVIOUS
<1>1. ASSUME NEW w \in Writers, Operation(w) PROVE CacheInv'
  BY <1>1, OperationBegins, CacheBegin
<1>2. ASSUME NEW w \in Writers, MapStep(w) PROVE CacheInv' BY <1>2, CacheMap
<1>3. ASSUME NEW w \in Writers, Rebuild(w) PROVE CacheInv'
  BY <1>3, CacheRange, CacheSwap DEF Rebuild
<1>4. CASE UNCHANGED vars BY <1>4, CacheStutter
<1> QED BY <1>1, <1>2, <1>3, <1>4 DEF Next, Finished

(* The invariant of every behaviour of the cache. *)
LEMMA CacheInvariant == Spec => []CacheInv
    BY CacheInit, CacheStep, PTL DEF Spec

(* An edit that ran alone leaves the slice equal to the sorted map, for every  *)
(* number of writers, ids and operations (RuleCache.Rebuild).                  *)
THEOREM SoloEditCorrect == Spec => []SoloEditPublishesMap
<1>1. CacheInv => SoloEditPublishesMap BY DEF CacheInv, SoloOK, SoloEditPublishesMap
<1> QED BY CacheInvariant, <1>1, PTL

(* However edits interleave, users are matched against a slice that is         *)
(* strictly ordered by priority and id (RuleCache.Rebuild).                    *)
THEOREM SliceAlwaysSorted == Spec => []SliceSorted
<1>1. CacheInv => SliceSorted BY DEF CacheInv, StoreOK, SliceOK
<1> QED BY CacheInvariant, <1>1, PTL

------------------------------------------------------------------------------
(* The cache implements the atomic rule set *)

(* What the writer w has still to do completes the effect of its call on the   *)
(* live rule set.                                                              *)
Faithful(w) == Outcome(m, pending[w]) = Abstract!Effect(call[w], S!ToSet(snapshot))

AllFaithful == \A w \in Writers : ~Idle(w) => Faithful(w)

(* Between edits that did not overlap the live rule set is the map. *)
LEMMA LiveIsStored ==
    ASSUME CacheInv, ~overlap, AllIdle
    PROVE  S!ToSet(snapshot) = StoredIn(m)
<1>1. GoodSet(StoredIn(m)) BY StoredGood DEF CacheInv, StoreOK
<1>2. snapshot = Sorted(StoredIn(m)) BY StoredIsStoredIn DEF CacheInv, SoloOK
<1> QED BY <1>1, <1>2, SortedGood

(* A call that finds the map published sets out to have its effect. *)
LEMMA FaithfulBegin ==
    ASSUME CacheInv, NEW w \in Writers, NEW c, GoodCall(c), Begin(w, c),
           Abstract!Effect(c, S!ToSet(snapshot)) = Abstract!Effect(c, StoredIn(m))
    PROVE  Faithful(w)'
<1>1. /\ m' = m /\ snapshot' = snapshot /\ call'[w] = c /\ pending'[w] = Script(c)
  BY DEF CacheInv, StoreOK, Shape, Begin
<1>2. GoodMap(m) BY DEF CacheInv, StoreOK
<1>3. Outcome(m, Script(c)) = Abstract!Effect(c, StoredIn(m)) BY <1>2, OutcomeScript
<1>4. Faithful(w)' <=> Outcome(m', pending'[w]) = Abstract!Effect(call'[w], S!ToSet(snapshot'))
  BY DEF Faithful
<1> QED BY <1>1, <1>3, <1>4

(* Performing an operation keeps the outcome of those that are pending. *)
LEMMA OutcomeKept ==
    ASSUME CacheInv, NEW w \in Writers, MapStep(w)
    PROVE  Outcome(m', pending'[w]) = Outcome(m, pending[w])
<1>1. pending[w] \in Seq(Ops) /\ GoodMap(m) BY DEF CacheInv, StoreOK, PendingOK
<1>2. pending[w] # <<>> /\ m' = Apply(m, Head(pending[w])) /\ pending'[w] = Tail(pending[w])
  BY DEF CacheInv, StoreOK, Shape, MapStep
<1> QED BY <1>1, <1>2, OutcomeStep

(* The swap of an edit that ran alone publishes the map. *)
LEMMA SwapPublishes ==
    ASSUME CacheInv, NEW w \in Writers, Swap(w), ~overlap
    PROVE  /\ S!ToSet(snapshot') = StoredIn(m)
           /\ Outcome(m, pending[w]) = StoredIn(m)
<1>1. progs[w] = StoredIn(m)
  BY CollectedAll, StoredIsStoredIn DEF CacheInv, SoloOK, Swap
<1>2. GoodSet(progs[w]) BY DEF CacheInv, StoreOK, WalkOK
<1>3. snapshot' = Sorted(progs[w]) /\ pending[w] = <<>> BY DEF Swap
<1> QED BY <1>1, <1>2, <1>3, SortedGood, OutcomeDone

(* The pending map operations complete the call, as long as nothing overlaps. *)
LEMMA FaithfulStep ==
    ASSUME CacheInv, AllFaithful, ~overlap, [Next]_vars, ~overlap'
    PROVE  AllFaithful'
<1>1. ASSUME NEW w \in Writers, Operation(w) PROVE AllFaithful'
  <2>1. PICK c \in Calls : GoodCall(c) /\ Begin(w, c) BY <1>1, OperationBegins
  <2>2. AllIdle /\ \A v \in Writers : v # w => Idle(v)'
    BY <2>1 DEF Begin, AllIdle, Idle, CacheInv, StoreOK, Shape
  <2>3. Faithful(w)' BY <2>1, <2>2, LiveIsStored, FaithfulBegin
  <2> QED BY <2>2, <2>3 DEF AllFaithful
<1>2. ASSUME NEW w \in Writers, MapStep(w) PROVE AllFaithful'
  <2>1. ~Idle(w) BY <1>2 DEF CacheInv, StoreOK, PendingOK, MapStep
  <2>2. \A v \in Writers : v # w => Idle(v)' BY <1>2, <2>1 DEF CacheInv, SoloOK, MapStep, Idle
  <2>3. call' = call /\ snapshot' = snapshot BY <1>2 DEF MapStep
  <2>4. Faithful(w) BY <2>1 DEF AllFaithful
  <2>5. Faithful(w)' <=> Outcome(m', pending'[w]) = Abstract!Effect(call'[w], S!ToSet(snapshot'))
    BY DEF Faithful
  <2>6. Faithful(w)' BY <1>2, <2>3, <2>4, <2>5, OutcomeKept DEF Faithful
  <2> QED BY <2>2, <2>6 DEF AllFaithful
<1>3. ASSUME NEW w \in Writers, NEW id \in Ids, RangeVisit(w, id) PROVE AllFaithful'
  <2>1. call' = call /\ snapshot' = snapshot /\ m' = m /\ pending' = pending
    BY <1>3 DEF RangeVisit
  <2>2. \A v : Faithful(v)' <=> Outcome(m', pending'[v]) = Abstract!Effect(call'[v], S!ToSet(snapshot'))
    BY DEF Faithful
  <2> QED BY <2>1, <2>2 DEF AllFaithful, Idle, Faithful
<1>4. ASSUME NEW w \in Writers, Swap(w) PROVE AllFaithful'
  <2>1. \A v \in Writers : Idle(v)' BY <1>4 DEF CacheInv, StoreOK, Shape, SoloOK, Swap, Idle
  <2> QED BY <2>1 DEF AllFaithful
<1>5. CASE UNCHANGED vars
  <2>1. call' = call /\ snapshot' = snapshot /\ m' = m /\ pending' = pending
    BY <1>5 DEF vars
  <2>2. \A v : Faithful(v)' <=> Outcome(m', pending'[v]) = Abstract!Effect(call'[v], S!ToSet(snapshot'))
    BY DEF Faithful
  <2> QED BY <2>1, <2>2 DEF AllFaithful, Idle, Faithful
<1> QED BY <1>1, <1>2, <1>3, <1>4, <1>5 DEF Next, Rebuild, Finished

(* Each step is an invocation, an effect or a stutter of the rule set. *)
LEMMA StepRefines ==
    ASSUME CacheInv, AllFaithful, ~overlap, [Next]_vars
    PROVE  [Abstract!AbsNext]_(Abstract!absVars)
<1>1. ASSUME NEW w \in Writers, Operation(w) PROVE Abstract!AbsNext
  <2>1. PICK c \in Calls : GoodCall(c) /\ Begin(w, c) BY <1>1, OperationBegins
  <2>2. call[w] = NoCall /\ call' = [call EXCEPT ![w] = c] /\ snapshot' = snapshot
    BY <2>1 DEF Begin, Idle
  <2>3. Abstract!Invoke(w, c) BY <2>2 DEF Abstract!Invoke
  <2> QED BY <2>3 DEF Abstract!AbsNext
<1>2. ASSUME NEW w \in Writers, MapStep(w) PROVE UNCHANGED Abstract!absVars
  BY <1>2 DEF MapStep, Abstract!absVars
<1>3. ASSUME NEW w \in Writers, NEW id \in Ids, RangeVisit(w, id) PROVE UNCHANGED Abstract!absVars
  BY <1>3 DEF RangeVisit, Abstract!absVars
<1>4. ASSUME NEW w \in Writers, Swap(w) PROVE Abstract!AbsNext
  <2>1. call[w] # NoCall /\ call' = [call EXCEPT ![w] = NoCall] BY <1>4 DEF Swap, Idle
  <2>2. S!ToSet(snapshot') = Abstract!Effect(call[w], S!ToSet(snapshot))
    BY <1>4, SwapPublishes DEF AllFaithful, Faithful, Swap
  <2>3. Abstract!TakeEffect(w) BY <2>1, <2>2 DEF Abstract!TakeEffect
  <2> QED BY <2>3 DEF Abstract!AbsNext
<1>5. CASE UNCHANGED vars BY <1>5 DEF vars, Abstract!absVars
<1> QED BY <1>1, <1>2, <1>3, <1>4, <1>5 DEF Next, Rebuild, Finished

(* The empty cache is the empty rule set. *)
LEMMA InitRefines == Init => Abstract!AbsInit
<1> SUFFICES ASSUME Init PROVE Abstract!AbsInit OBVIOUS
<1>1. S!ToSet(snapshot) = {} BY DEF Init, S!ToSet
<1> QED BY <1>1 DEF Init, Abstract!AbsInit

(* Any number of writers that never overlap implement the atomic rule set      *)
(* (engine.go, cache.go).                                                      *)
THEOREM SerialEditsAreAtomic == Spec /\ []~overlap => ImplementsRuleSet
<1>1. Init => AllFaithful BY DEF Init, AllFaithful, Idle
<1>2. CacheInv /\ AllFaithful /\ ~overlap /\ [Next]_vars /\ ~overlap' => AllFaithful'
  BY FaithfulStep
<1>3. CacheInv /\ AllFaithful /\ ~overlap /\ [Next]_vars => [Abstract!AbsNext]_(Abstract!absVars)
  BY StepRefines
<1> QED BY CacheInvariant, InitRefines, <1>1, <1>2, <1>3, PTL DEF Spec, ImplementsRuleSet, Abstract!AbsSpec

(* One writer implements the atomic rule set, for all rules and operations.    *)
THEOREM OneWriterIsAtomic ==
    ASSUME \A v, w \in Writers : v = w
    PROVE  Spec => ImplementsRuleSet
<1>1. Init => ~overlap BY DEF Init
<1>2. ~overlap /\ [Next]_vars => ~overlap'
  <2> SUFFICES ASSUME ~overlap, [Next]_vars PROVE ~overlap' OBVIOUS
  <2>1. ASSUME NEW w \in Writers, Operation(w) PROVE ~overlap'
    <3>1. PICK c \in Calls : Begin(w, c) BY <2>1, OperationBegins
    <3> QED BY <3>1 DEF Begin
  <2> QED BY <2>1 DEF Next, MapStep, Rebuild, RangeVisit, Swap, Finished, vars
<1> QED BY <1>1, <1>2, SerialEditsAreAtomic, PTL DEF Spec
=============================================================================
