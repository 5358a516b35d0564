------------------------------- MODULE RuleNode -------------------------------
(***************************************************************************)
(* Rule trees (pkg/ir/ast.go), and what each stage that walks a tree does  *)
(* at one node, given what it did at the node's children: the optimizer    *)
(* (pkg/ir/optimize.go), the compiler to bytecode (pkg/vm/compile.go) and  *)
(* the tree-walking runtime (pkg/runtime/ast/ast.go).  RuleTree ties the   *)
(* recursive knots; what is here is free of recursion over trees.          *)
(***************************************************************************)
EXTENDS RuleValue

CONSTANT Error   \* a conversion that failed

ASSUME ErrorAssumption == Error \notin Int

Str(t) == [IsString |-> TRUE, text |-> t]
Num(t) == [IsString |-> FALSE, text |-> t]

Logic(op, args)         == [t |-> "Logic", Op |-> op, Args |-> args]
Cmp(f, op, v)           == [t |-> "Compare", Field |-> f, Op |-> op, Val |-> v]
Range2(f, lo, hi)       == [t |-> "Between", Field |-> f, Lo |-> lo, Hi |-> hi]
In(f, vals, neg)        == [t |-> "In", Field |-> f, Vals |-> vals, Negate |-> neg]
Like(f, p, neg)         == [t |-> "Like", Field |-> f, Pattern |-> p, Negate |-> neg]
IsNull(f, neg)          == [t |-> "IsNull", Field |-> f, Negate |-> neg]
Not(arg)                == [t |-> "Not", Arg |-> arg]

Kids(n) ==
    CASE n.t = "Logic" -> n.Args
      [] n.t = "Not"   -> <<n.Arg>>
      [] OTHER         -> <<>>

AnyError(s) == \E e \in DOMAIN s : s[e] = Error

------------------------------------------------------------------------------
(* LIKE patterns: '%' at the ends is a wildcard, the rest is the core *)

Percent == 37

Trim(p) ==
    LET ks == {k \in DOMAIN p : p[k] # Percent}
    IN  IF ks = {} THEN <<>>
        ELSE SubSeq(p, CHOOSE k \in ks : \A l \in ks : k <= l,
                       CHOOSE k \in ks : \A l \in ks : k >= l)

likeParts(p) ==
    LET pre == HasPrefix(p, <<Percent>>)
        suf == HasSuffix(p, <<Percent>>)
    IN  [op   |-> IF pre /\ suf THEN "LikeContains" ELSE IF suf THEN "LikePrefix"
                  ELSE IF pre THEN "LikeSuffix" ELSE "LikeEq",
         core |-> Trim(p)]

------------------------------------------------------------------------------
(* Optimizer *)

(* Mutant: nested logic is merged whatever its operator. *)
Flattens_any(n, a) == a.t = "Logic"

Flattens(n, a) == a.t = "Logic" /\ a.Op = n.Op

(* The optimized children of n, one after the other, those with the operator  *)
(* of n replaced by their own arguments.                                      *)
Flat(n, opt) ==
    LET upTo[j \in 0..Len(opt)] ==
            IF j = 0 THEN <<>>
            ELSE upTo[j - 1] \o (IF Flattens(n, opt[j]) THEN opt[j].Args ELSE <<opt[j]>>)
    IN  upTo[Len(opt)]

(* The arguments whose key was not seen before. *)
Dedup(args, keys) ==
    LET upTo[j \in 0..Len(args)] ==
            IF j = 0 THEN <<>>
            ELSE IF \E l \in 1..(j - 1) : keys[l] = keys[j] THEN upTo[j - 1]
            ELSE Append(upTo[j - 1], args[j])
    IN  upTo[Len(args)]

Collapse(op, uniq) == IF Len(uniq) = 1 THEN uniq[1] ELSE Logic(op, uniq)

------------------------------------------------------------------------------
(* Compiler *)

Op(op)     == <<[op |-> op]>>
Arg(op, a) == <<[op |-> op, a |-> a]>>

cmpOp ==
    [o \in {"=", "==", "!=", ">", ">=", "<", "<="} |->
        CASE o \in {"=", "=="} -> "Eq" [] o = "!=" -> "Ne" [] o = ">" -> "Gt"
          [] o = ">=" -> "Ge" [] o = "<" -> "Lt" [] o = "<=" -> "Le"]

IsNumeral(v) == ~v.IsString /\ v.text \in DOMAIN TextNum

pushVal(v) ==
    CASE v.IsString   -> Arg("ConstStr", v.text)
      [] IsNumeral(v) -> Arg("ConstNum", TextNum[v.text])
      [] OTHER        -> Error

Negation(n) == IF n.Negate THEN Op("Not") ELSE <<>>

(* The first operand, then every other one followed by the operator. *)
Chain(op, codes) ==
    LET upTo[j \in 1..Len(codes)] ==
            IF j = 1 THEN codes[1] ELSE upTo[j - 1] \o codes[j] \o Op(op)
    IN  upTo[Len(codes)]

(* The code of a node, from the codes of its children. *)
emitNode(n, codes) ==
    CASE n.t = "Logic" ->
            IF codes = <<>> \/ AnyError(codes) THEN Error
            ELSE Chain(IF n.Op = "OR" THEN "Or" ELSE "And", codes)
      [] n.t = "Not" ->
            IF AnyError(codes) THEN Error ELSE codes[1] \o Op("Not")
      [] n.t = "Compare" ->
            LET v == pushVal(n.Val)
            IN  IF v = Error THEN Error ELSE Arg("LoadField", n.Field) \o v \o Op(cmpOp[n.Op])
      [] n.t = "Between" ->
            IF IsNumeral(n.Lo) /\ IsNumeral(n.Hi)
            THEN Arg("LoadField", n.Field) \o pushVal(n.Lo) \o pushVal(n.Hi) \o Op("Between")
            ELSE Error
      [] n.t = "In" ->
            Arg("LoadField", n.Field) \o Arg("In", {n.Vals[j].text : j \in DOMAIN n.Vals}) \o Negation(n)
      [] n.t = "Like" ->
            LET p == likeParts(n.Pattern)
            IN  Arg("LoadField", n.Field) \o Arg(p.op, p.core) \o Negation(n)
      [] n.t = "IsNull" ->
            Arg("LoadField", n.Field) \o Op(IF n.Negate THEN "IsNotNull" ELSE "IsNull")

------------------------------------------------------------------------------
(* Tree-walking runtime: fields are raw, missing ones read as the empty text *)

isNil(raw) == raw.k = "undef"

litNum(v) == IF v.text \in DOMAIN TextNum THEN TextNum[v.text] ELSE Error

Ordered(op, equal, smaller, larger) ==
    CASE op = "="  -> equal   [] op = "!=" -> ~equal
      [] op = ">"  -> larger  [] op = ">=" -> ~smaller
      [] op = "<"  -> smaller [] op = "<=" -> ~larger
      [] OTHER     -> FALSE

(* Mutant: texts that look like numbers are compared as numbers. *)
numericOperands_text(raw, lit) ==
    IsNumeral(lit) /\ (raw.k = "num" \/ (raw.k = "str" /\ raw.s \in DOMAIN TextNum))

numericOperands(raw, lit) == IsNumeral(lit) /\ raw.k = "num"

treeCompare(raw, op, lit) ==
    LET fs == asString(raw)
        fn == IF raw.k = "num" THEN raw.n ELSE TextNum[fs]
    IN  IF numericOperands(raw, lit)
        THEN Ordered(op, fn = litNum(lit), fn < litNum(lit), fn > litNum(lit))
        ELSE Ordered(op, fs = lit.text, TextLess(fs, lit.text), TextLess(lit.text, fs))

(* Without a wildcard the whole pattern is compared. *)
like(s, p) ==
    LET k == likeParts(p)
    IN  IF k.op = "LikeEq" THEN s = p ELSE LikeHolds(k.op, s, k.core)

Connected(op, bs) == IF op = "OR" THEN \E j \in DOMAIN bs : bs[j] ELSE \A j \in DOMAIN bs : bs[j]

(* The verdict on a node, from the verdicts on its children. *)
evalNode(n, bs, r) ==
    LET raw == r[n.Field] IN
    CASE n.t = "Logic"   -> Connected(n.Op, bs)
      [] n.t = "Not"     -> ~bs[1]
      [] n.t = "Compare" -> treeCompare(raw, n.Op, n.Val)
      [] n.t = "Between" -> /\ raw.k = "num" /\ litNum(n.Lo) # Error /\ litNum(n.Hi) # Error
                            /\ raw.n >= litNum(n.Lo) /\ raw.n <= litNum(n.Hi)
      [] n.t = "In"      -> n.Negate # (asString(raw) \in {n.Vals[j].text : j \in DOMAIN n.Vals})
      [] n.t = "Like"    -> n.Negate # like(asString(raw), n.Pattern)
      [] n.t = "IsNull"  -> n.Negate # isNil(raw)

------------------------------------------------------------------------------
(* Reference: the meaning of a node with the VM's treatment of missing fields, *)
(* and the stack its evaluation needs                                          *)

LitV(v) == IF IsNumeral(v) THEN numV(TextNum[v.text]) ELSE strV(v.text)

meaningNode(n, ms, r) ==
    LET x == toValue(r[n.Field]) IN
    CASE n.t = "Logic"   -> Connected(n.Op, ms)
      [] n.t = "Not"     -> ~ms[1]
      [] n.t = "Compare" -> LET v  == LitV(n.Val)
                                op == IF n.Op = "==" THEN "=" ELSE n.Op IN
                            /\ x # undef
                            /\ IF x.k = "num" /\ v.k = "num"
                               THEN Ordered(op, x.n = v.n, x.n < v.n, x.n > v.n)
                               ELSE Ordered(op, asString(x) = asString(v),
                                            TextLess(asString(x), asString(v)),
                                            TextLess(asString(v), asString(x)))
      [] n.t = "Between" -> x.k = "num" /\ x.n \in TextNum[n.Lo.text]..TextNum[n.Hi.text]
      [] n.t = "In"      -> n.Negate # (x # undef /\ \E j \in DOMAIN n.Vals : asString(x) = n.Vals[j].text)
      [] n.t = "Like"    -> n.Negate # (x # undef /\ like(asString(x), n.Pattern))
      [] n.t = "IsNull"  -> n.Negate # (x = undef)

needNode(n, ds) ==
    CASE n.t = "Logic" -> LET k == {ds[j] + (IF j = 1 THEN 0 ELSE 1) : j \in DOMAIN ds}
                          IN  CHOOSE x \in k : \A y \in k : x >= y
      [] n.t = "Not"     -> ds[1]
      [] n.t = "Compare" -> 2
      [] n.t = "Between" -> 3
      [] OTHER           -> 1
==============================================================================
