------------------------------ MODULE RuleValue ------------------------------
(***************************************************************************)
(* The values rules compute with (pkg/vm/value.go) and what each opcode of *)
(* the VM does to them (pkg/vm/vm.go, pkg/vm/opcode.go).  A text is a      *)
(* sequence of character codes, a number an integer; how numbers are       *)
(* written and read is given by the constants.                             *)
(***************************************************************************)
EXTENDS Integers, Sequences

Sq == INSTANCE SequencesExt

CONSTANTS
    NumText,    \* strconv.FormatFloat(n, 'f', -1, 64): number -> text
    TextNum,    \* strconv.ParseFloat: the texts that are numerals -> number
    BoolText    \* strconv.FormatBool

ASSUME NumeralsAssumption == \A t \in DOMAIN TextNum : TextNum[t] \in Int

undef    == [k |-> "undef"]
numV(n)  == [k |-> "num", n |-> n]
strV(s)  == [k |-> "str", s |-> s]
boolV(b) == [k |-> "bool", b |-> b]

(* A field holding a slice, a map or another type no opcode knows. *)
otherV == [k |-> "other"]

Text  == Seq(Int)
Value == {undef} \cup [k : {"num"}, n : Int] \cup [k : {"str"}, s : Text]
                 \cup [k : {"bool"}, b : BOOLEAN]

toValue(raw) == IF raw.k = "other" THEN undef ELSE raw

asString(v) ==
    CASE v.k = "str"  -> v.s
      [] v.k = "num"  -> NumText[v.n]
      [] v.k = "bool" -> BoolText[v.b]
      [] OTHER        -> <<>>

TextLess(s, t) ==
    \/ Sq!IsStrictPrefix(s, t)
    \/ \E i \in DOMAIN s \cap DOMAIN t :
          s[i] < t[i] /\ SubSeq(s, 1, i - 1) = SubSeq(t, 1, i - 1)

HasPrefix(s, core) == Sq!IsPrefix(core, s)
HasSuffix(s, core) == Sq!IsSuffix(core, s)
Contains(s, core)  == \E i \in 1..(Len(s) + 1) : HasPrefix(SubSeq(s, i, Len(s)), core)

------------------------------------------------------------------------------
(* Opcodes: what is popped, and what the popped values become *)

Pushes   == {"LoadField", "ConstNum", "ConstStr"}
Compares == {"Eq", "Ne", "Gt", "Ge", "Lt", "Le"}
Binaries == Compares \cup {"And", "Or"}
Likes    == {"LikePrefix", "LikeSuffix", "LikeContains", "LikeEq"}
Unaries  == Likes \cup {"In", "IsNull", "IsNotNull", "Not"}
Opcodes  == Pushes \cup Binaries \cup Unaries \cup {"Between"}

eq(a, b) ==
    IF a.k = b.k /\ a.k \in {"num", "bool"} THEN a = b ELSE asString(a) = asString(b)

less(a, b) ==
    IF a.k = "num" /\ b.k = "num" THEN a.n < b.n ELSE TextLess(asString(a), asString(b))

(* A missing operand makes every comparison false, inequality included. *)
compare(a, b, op) ==
    /\ a.k # "undef" /\ b.k # "undef"
    /\ \/ op = "Eq" /\ eq(a, b)
       \/ op = "Ne" /\ ~eq(a, b)
       \/ op = "Gt" /\ less(b, a)
       \/ op = "Ge" /\ ~less(a, b)
       \/ op = "Lt" /\ less(a, b)
       \/ op = "Le" /\ ~less(b, a)

Truth(v) == v.k = "bool" /\ v.b

binaryOp(op, a, b) ==
    \/ op = "And" /\ Truth(a) /\ Truth(b)
    \/ op = "Or" /\ (Truth(a) \/ Truth(b))
    \/ op \in Compares /\ compare(a, b, op)

LikeHolds(op, s, core) ==
    \/ op = "LikePrefix" /\ HasPrefix(s, core)
    \/ op = "LikeSuffix" /\ HasSuffix(s, core)
    \/ op = "LikeContains" /\ Contains(s, core)
    \/ op = "LikeEq" /\ s = core

unaryOp(in, x) ==
    \/ in.op = "In" /\ x.k # "undef" /\ asString(x) \in in.a
    \/ in.op \in Likes /\ x.k # "undef" /\ LikeHolds(in.op, asString(x), in.a)
    \/ in.op = "IsNull" /\ x.k = "undef"
    \/ in.op = "IsNotNull" /\ x.k # "undef"
    \/ in.op = "Not" /\ x.k = "bool" /\ ~x.b

between(x, lo, hi) ==
    /\ x.k = "num" /\ lo.k = "num" /\ hi.k = "num"
    /\ lo.n <= x.n /\ x.n <= hi.n

load(in, row) ==
    IF in.op = "ConstNum" THEN numV(in.a)
    ELSE IF in.op = "ConstStr" THEN strV(in.a) ELSE toValue(row[in.a])
==============================================================================
