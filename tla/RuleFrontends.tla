---------------------------- MODULE RuleFrontends ----------------------------
(***************************************************************************)
(* The other ways a rule comes into the engine: decision tables            *)
(* (pkg/dtable), JSON documents (pkg/parser/json), and the CEL, Expr and   *)
(* qlbridge parsers, whose syntax trees are converted to rule trees; and   *)
(* the CEL and Expr text a rule is exported to (pkg/ir/emit.go).  The      *)
(* parsers of these languages are libraries: a foreign expression is the   *)
(* syntax tree they return.                                                *)
(***************************************************************************)
EXTENDS RuleTree

LOCAL INSTANCE FiniteSetsExt

(* A scalar of a JSON document, or a literal of a foreign language. *)
toVal(v) ==
    CASE v.k = "str"  -> Str(v.s)
      [] v.k = "num"  -> Num(NumText[v.n])
      [] v.k = "bool" -> Str(BoolText[v.b])
      [] OTHER        -> Error

toVals(vs) == [j \in DOMAIN vs |-> toVal(vs[j])]

AllOf(op, nodes) ==
    IF AnyError(nodes) THEN Error ELSE IF Len(nodes) = 1 THEN nodes[1] ELSE Logic(op, nodes)

------------------------------------------------------------------------------
(* Decision tables and JSON documents *)

OpNames == {"=", "==", "!=", ">", ">=", "<", "<="}

opName(op) == CASE op = "==" -> "=" [] op = "<>" -> "!=" [] OTHER -> op

condToIR(c) ==
    CASE c.op \in OpNames    -> IF toVal(c.value) = Error THEN Error
                                ELSE Cmp(c.field, opName(c.op), toVal(c.value))
      [] c.op = "between"    -> IF Len(c.values) # 2 \/ AnyError(toVals(c.values)) THEN Error
                                ELSE Range2(c.field, toVal(c.values[1]), toVal(c.values[2]))
      [] c.op = "in"         -> IF AnyError(toVals(c.values)) THEN Error
                                ELSE In(c.field, toVals(c.values), FALSE)
      [] c.op = "like"       -> IF c.value.k # "str" THEN Error ELSE Like(c.field, c.value.s, FALSE)
      [] c.op = "isnull"     -> IsNull(c.field, FALSE)
      [] c.op = "isnotnull"  -> IsNull(c.field, TRUE)
      [] OTHER               -> Error

rowToIR(when) ==
    IF when = <<>> THEN Error ELSE AllOf("AND", [j \in DOMAIN when |-> condToIR(when[j])])

(* Rules: one rule per row, its expression the SQL text of the row's tree; a  *)
(* row that cannot be converted fails the whole table.                        *)
Rules(table) ==
    LET nodes == [j \in DOMAIN table.rows |-> rowToIR(table.rows[j].when)]
    IN  IF AnyError(nodes) THEN Error
        ELSE [j \in DOMAIN nodes |-> [id   |-> table.idBase + j - 1,
                                      expr |-> emitSQL(nodes[j])]]

Negative == [not_in |-> "in", notin |-> "in", not_like |-> "like", notlike |-> "like"]

(* A JSON leaf knows the operators of a table cell, '<>' and the negative forms. *)
leaf(d) ==
    CASE d.op = "<>"             -> IF toVal(d.value) = Error THEN Error
                                    ELSE Cmp(d.field, opName(d.op), toVal(d.value))
      [] d.op \in DOMAIN Negative ->
            LET n == condToIR([d EXCEPT !.op = Negative[d.op]])
            IN  IF n = Error THEN Error ELSE [n EXCEPT !.Negate = TRUE]
      [] OTHER                   -> condToIR(d)

RECURSIVE jsonToIR(_)
jsonToIR(d) ==
    CASE d.d \in {"and", "or"} /\ d.kids # <<>> ->
            AllOf(IF d.d = "and" THEN "AND" ELSE "OR", [j \in DOMAIN d.kids |-> jsonToIR(d.kids[j])])
      [] d.d = "not"  -> LET a == jsonToIR(d.kid) IN IF a = Error THEN Error ELSE Not(a)
      [] d.d = "leaf" -> leaf(d)
      [] OTHER        -> Error

(* engine.JSONFrontend repeats the conversion of the parser package. *)
JSONFrontend(d) == jsonToIR(d)

------------------------------------------------------------------------------
(* Foreign expressions: identifiers, literals, lists and calls *)

Ident(f)      == [x |-> "ident", name |-> f]
Bare(t)       == [x |-> "ident", text |-> t]
Lit(v)        == [x |-> "lit", v |-> v]
ListOf(es)    == [x |-> "list", elems |-> es]
Call(fn, as)  == [x |-> "call", fn |-> fn, args |-> as]

litVal(e)  == IF e.x = "lit" THEN toVal(e.v) ELSE Error
litVals(e) == [j \in DOMAIN e.elems |-> litVal(e.elems[j])]

IsIdent(e) == e.x = "ident"

(* field op literal, and field in [literals], in every foreign language. *)
comparison(e, op) ==
    LET v == litVal(e.args[2])
    IN  IF ~IsIdent(e.args[1]) \/ v = Error THEN Error ELSE Cmp(e.args[1].name, op, v)

membership(e, vals, neg) ==
    IF ~IsIdent(e.args[1]) \/ e.args[2].x # "list" \/ AnyError(vals) THEN Error
    ELSE In(e.args[1].name, vals, neg)

(* The Str of a literal that is not a string is empty. *)
litStr(v) == IF v.IsString THEN v.text ELSE <<>>

patternOf(fn, core) ==
    CASE fn = "startsWith" -> core \o <<Percent>>
      [] fn = "endsWith"   -> <<Percent>> \o core
      [] fn = "contains"   -> <<Percent>> \o core \o <<Percent>>

stringTest(e, fn) ==
    LET v == litVal(e.args[2])
    IN  IF ~IsIdent(e.args[1]) \/ v = Error THEN Error
        ELSE Like(e.args[1].name, patternOf(fn, litStr(v)), FALSE)

StringTests == {"startsWith", "endsWith", "contains"}

RECURSIVE celToIR(_)
celToIR(e) ==
    CASE e.x # "call" -> Error
      [] e.fn \in {"&&", "||"} ->
            LET as == [j \in DOMAIN e.args |-> celToIR(e.args[j])]
            IN  IF AnyError(as) THEN Error ELSE Logic(IF e.fn = "||" THEN "OR" ELSE "AND", as)
      [] e.fn = "!"   -> LET a == celToIR(e.args[1]) IN IF a = Error THEN Error ELSE Not(a)
      [] e.fn \in OpNames \ {"="} -> comparison(e, opName(e.fn))
      [] e.fn = "in"  -> membership(e, litVals(e.args[2]), FALSE)
      [] e.fn \in StringTests -> stringTest(e, e.fn)
      [] OTHER        -> Error

(* Expr has "not in", calls its helpers hasPrefix or startsWith, and knows     *)
(* contains as a call only; its infix operator contains is rejected.           *)
ExprTest ==
    [hasPrefix |-> "startsWith", startsWith |-> "startsWith", hasSuffix |-> "endsWith",
     endsWith |-> "endsWith", contains |-> "contains"]

RECURSIVE exprToIR(_)
exprToIR(e) ==
    CASE e.x # "call" -> Error
      [] e.fn \in {"&&", "||", "and", "or"} ->
            LET as == [j \in DOMAIN e.args |-> exprToIR(e.args[j])]
            IN  IF AnyError(as) THEN Error ELSE Logic(IF e.fn \in {"||", "or"} THEN "OR" ELSE "AND", as)
      [] e.fn \in {"!", "not"}    -> LET a == exprToIR(e.args[1]) IN IF a = Error THEN Error ELSE Not(a)
      [] e.fn \in OpNames \ {"="} -> comparison(e, opName(e.fn))
      [] e.fn \in {"in", "not in"} -> membership(e, litVals(e.args[2]), e.fn = "not in")
      [] e.fn \in DOMAIN ExprTest -> stringTest(e, ExprTest[e.fn])
      [] OTHER        -> Error

(* A qlbridge number keeps its text, a value that is not a string is given as  *)
(* a number, and a bare word in the place of a literal is a string.            *)
Numeral(t) == [x |-> "numeral", text |-> t]

qlLit(e) ==
    CASE e.x = "numeral"                          -> Num(e.text)
      [] e.x = "lit" /\ e.v.k = "str"             -> Str(e.v.s)
      [] e.x = "lit" /\ e.v.k \in {"num", "bool"} -> Num(asString(e.v))
      [] IsIdent(e)                               -> Str(e.text)
      [] OTHER                                    -> Error

qlLits(e) == [j \in DOMAIN e.elems |-> qlLit(e.elems[j])]

RECURSIVE qlToIR(_)
qlToIR(e) ==
    CASE e.x # "call" -> Error
      [] e.fn \in {"AND", "OR"} ->
            LET as == [j \in DOMAIN e.args |-> qlToIR(e.args[j])]
            IN  IF AnyError(as) THEN Error ELSE Logic(e.fn, as)
      [] ~IsIdent(e.args[1]) -> Error
      [] e.fn = "IN" -> membership(e, qlLits(e.args[2]), FALSE)
      [] \E j \in 2..Len(e.args) : qlLit(e.args[j]) = Error -> Error
      [] e.fn = "LIKE"    -> Like(e.args[1].name, litStr(qlLit(e.args[2])), FALSE)
      [] e.fn = "BETWEEN" -> Range2(e.args[1].name, qlLit(e.args[2]), qlLit(e.args[3]))
      [] e.fn \in OpNames -> Cmp(e.args[1].name, opName(e.fn), qlLit(e.args[2]))
      [] OTHER            -> Error

(* engine.QLBridgeFrontend repeats the conversion of the parser package. *)
QLBridgeFrontend(e) == qlToIR(e)

------------------------------------------------------------------------------
(* Export: the text that emitCode writes is a sequence of operands and the     *)
(* operators && and || between them.  An operand is a test, a text in          *)
(* parentheses, or a negated text in parentheses.                              *)

DSLs == {"cel", "expr"}

Infix(op) == <<[c |-> op]>>
Test(e)   == <<[c |-> "test", e |-> e]>>
Parens(xs) == <<[c |-> "group", xs |-> xs]>>
Bang(xs)  == <<[c |-> "bang", xs |-> xs]>>

quote(s, d) ==
    LET q == IF d = "expr" THEN DoubleQuote ELSE Quote
    IN  <<q>> \o Sq!FlattenSeq([j \in DOMAIN s |-> IF s[j] = q THEN <<Backslash, q>> ELSE <<s[j]>>])
            \o <<q>>

(* How both languages read a literal: quoted with escapes, a number, or true   *)
(* and false.                                                                  *)
literal(xs) ==
    LET l == lexString(Head(xs), <<>>, Tail(xs))
    IN  CASE Head(xs) \in {Quote, DoubleQuote} ->
                IF l = Error \/ l.rest # <<>> THEN undef ELSE strV(l.token.v)
          [] xs \in DOMAIN TextNum -> numV(TextNum[xs])
          [] OTHER                 -> boolV(xs = BoolText[TRUE])

codeVal(v, d) == Lit(literal(IF v.IsString THEN quote(v.text, d) ELSE v.text))

mapOp(op) == IF op = "=" THEN "==" ELSE op

emitLike(n, d) ==
    LET k == likeParts(n.Pattern)
        q == codeVal(Str(k.core), d)
        f == Ident(n.Field)
    IN  CASE k.op = "LikeEq"       -> Call("==", <<f, q>>)
          [] k.op = "LikePrefix"   -> Call(IF d = "cel" THEN "startsWith" ELSE "hasPrefix", <<f, q>>)
          [] k.op = "LikeSuffix"   -> Call(IF d = "cel" THEN "endsWith" ELSE "hasSuffix", <<f, q>>)
          [] k.op = "LikeContains" -> Call(IF d = "cel" THEN "contains" ELSE "infix contains", <<f, q>>)

emitIn(n, d) ==
    Call("in", <<Ident(n.Field), ListOf([j \in DOMAIN n.Vals |-> codeVal(n.Vals[j], d)])>>)

emitIsNull(n, d) ==
    LET is == IF d = "cel" THEN Call("has", <<Ident(n.Field)>>)
              ELSE Call(IF n.Negate THEN "!=" ELSE "==", <<Ident(n.Field), Lit(undef)>>)
    IN  IF d = "cel" /\ ~n.Negate THEN Call("!", <<is>>) ELSE is

Inverted(neg, e) == IF neg THEN Bang(Test(e)) ELSE Test(e)

(* Mutant: the operands of && and || are joined without parentheses. *)
wrapsCode_never(n) == FALSE

wrapsCode(n) == n.t = "Logic"

RECURSIVE emitCode(_, _)

wrapCode(n, d) == IF wrapsCode(n) THEN Parens(emitCode(n, d)) ELSE emitCode(n, d)

emitCode(n, d) ==
    CASE n.t = "Logic" ->
            Join([j \in DOMAIN n.Args |-> wrapCode(n.Args[j], d)], Infix(IF n.Op = "OR" THEN "||" ELSE "&&"))
      [] n.t = "Compare" -> Test(Call(mapOp(n.Op), <<Ident(n.Field), codeVal(n.Val, d)>>))
      [] n.t = "Between" -> Parens(Test(Call(">=", <<Ident(n.Field), codeVal(n.Lo, d)>>)) \o Infix("&&")
                                  \o Test(Call("<=", <<Ident(n.Field), codeVal(n.Hi, d)>>)))
      [] n.t = "In"      -> Inverted(n.Negate, emitIn(n, d))
      [] n.t = "Like"    -> Inverted(n.Negate, emitLike(n, d))
      [] n.t = "IsNull"  -> Test(emitIsNull(n, d))
      [] n.t = "Not"     -> Bang(emitCode(n.Arg, d))

(* How both languages read an expression: || binds loosest, then &&, and a     *)
(* chain of either is nested pairs.                                            *)
RECURSIVE readExpr(_)
readExpr(xs) ==
    LET at(op)  == {j \in DOMAIN xs : xs[j].c = op}
        cut(op) == LET j == Max(at(op))
                   IN  Call(op, <<readExpr(SubSeq(xs, 1, j - 1)), readExpr(SubSeq(xs, j + 1, Len(xs)))>>)
    IN  CASE at("||") # {} -> cut("||")
          [] at("||") = {} /\ at("&&") # {} -> cut("&&")
          [] Len(xs) = 1 /\ xs[1].c = "test"  -> xs[1].e
          [] Len(xs) = 1 /\ xs[1].c = "group" -> readExpr(xs[1].xs)
          [] Len(xs) = 1 /\ xs[1].c = "bang"  -> Call("!", <<readExpr(xs[1].xs)>>)

readBack(n, d) ==
    LET e == readExpr(emitCode(n, d)) IN IF d = "cel" THEN celToIR(e) ELSE exprToIR(e)
==============================================================================
