------------------------------- MODULE RuleText -------------------------------
(***************************************************************************)
(* The SQL text of rule trees (pkg/ir/emit.go) and the project's own lexer *)
(* and parser (pkg/ir/lexer.go, parser.go).  A rule text is a sequence of  *)
(* character codes.  A keyword, field name, operator or mark of            *)
(* punctuation is one character, with the blanks that emit puts around it  *)
(* and the lexer skips; quotes, backslashes, digits and the characters     *)
(* between quotes stand for themselves.  The only identifiers are the      *)
(* fields' names, so any other character outside quotes is refused.        *)
(***************************************************************************)
EXTENDS RuleNode

LOCAL INSTANCE FiniteSetsExt

CONSTANT Names   \* the field names the rules use

Quote       == 39
DoubleQuote == 34
Backslash   == 92
Digits      == 0..9

Reserved == <<"(", ")", ",", "=", "==", "!=", ">", ">=", "<", "<=", "<>", "!",
              "AND", "OR", "BETWEEN", "IN", "LIKE", "IS", "NOT", "NULL",
              "and", "or", "between", "in", "like", "is", "not", "null">>

Words == Reserved \o Sq!SetToSeq(Names)

(* The words come after the characters that stand for themselves. *)
firstWord == 1000

Glyph == [w \in Sq!Range(Words) |-> firstWord + CHOOSE k \in DOMAIN Words : Words[k] = w]

------------------------------------------------------------------------------
(* Emit *)

Word(w) == <<Glyph[w]>>

(* The text goes between the quotes as it is. *)
quoted(t) == <<Quote>> \o t \o <<Quote>>

sqlVal(v) == IF v.IsString THEN quoted(v.text) ELSE v.text

Join(parts, sep) ==
    Sq!FlattenSeq([j \in DOMAIN parts |-> IF j = 1 THEN parts[j] ELSE sep \o parts[j]])

Paren(xs) == Word("(") \o xs \o Word(")")

Negated(n) == IF n.Negate THEN Word("NOT") ELSE <<>>

(* Mutant: the operands of AND and OR are joined without parentheses. *)
wrapped_never(n) == FALSE

wrapped(n) == n.t = "Logic"

RECURSIVE emitSQL(_)

wrapSQL(n) == IF wrapped(n) THEN Paren(emitSQL(n)) ELSE emitSQL(n)

sqlValList(vs) == Join([j \in DOMAIN vs |-> sqlVal(vs[j])], Word(","))

emitSQL(n) ==
    CASE n.t = "Logic"   -> Join([j \in DOMAIN n.Args |-> wrapSQL(n.Args[j])], Word(n.Op))
      [] n.t = "Compare" -> Word(n.Field) \o Word(n.Op) \o sqlVal(n.Val)
      [] n.t = "Between" -> Word(n.Field) \o Word("BETWEEN") \o sqlVal(n.Lo) \o Word("AND") \o sqlVal(n.Hi)
      [] n.t = "In"      -> Word(n.Field) \o Negated(n) \o Word("IN") \o Paren(sqlValList(n.Vals))
      [] n.t = "Like"    -> Word(n.Field) \o Negated(n) \o Word("LIKE") \o quoted(n.Pattern)
      [] n.t = "IsNull"  -> Word(n.Field) \o Word("IS") \o Negated(n) \o Word("NULL")
      [] n.t = "Not"     -> Word("NOT") \o Paren(emitSQL(n.Arg))

------------------------------------------------------------------------------
(* Lexer: a token and the text after it, or Error *)

Keywords == {"AND", "OR", "BETWEEN", "IN", "LIKE", "IS", "NOT", "NULL"}

upper(w) ==
    LET lower == [and |-> "AND", or |-> "OR", between |-> "BETWEEN", in |-> "IN",
                  like |-> "LIKE", is |-> "IS", not |-> "NOT", null |-> "NULL"]
    IN  IF w \in DOMAIN lower THEN lower[w] ELSE w

Token(kind, v)  == [kind |-> kind, v |-> v]
Lexed(tk, rest) == [token |-> tk, rest |-> rest]

lexIdent(w) == IF upper(w) \in Keywords THEN Token(upper(w), w) ELSE Token("ident", w)

Operators == {"=", "==", "!=", ">", ">=", "<", "<=", "<>", "!"}

lexOp(x) == CASE x = "<>" -> Token("op", "!=") [] x = "!" -> Error [] OTHER -> Token("op", x)

(* A number starts with a digit: the lexer knows no sign. *)
lexNumber(xs) ==
    LET n == Max({k \in DOMAIN xs : \A j \in 1..k : xs[j] \in Digits})
    IN  Lexed(Token("number", SubSeq(xs, 1, n)), SubSeq(xs, n + 1, Len(xs)))

(* Up to the quote the string began with; a backslash takes the next character. *)
RECURSIVE lexString(_, _, _)
lexString(q, sb, xs) ==
    CASE xs = <<>>     -> Error
      [] xs # <<>> /\ Head(xs) = Backslash /\ Len(xs) > 1 ->
            lexString(q, Append(sb, xs[2]), SubSeq(xs, 3, Len(xs)))
      [] xs # <<>> /\ Head(xs) = q -> Lexed(Token("string", sb), Tail(xs))
      [] OTHER         -> lexString(q, Append(sb, Head(xs)), Tail(xs))

wordToken(w) ==
    IF w \in {"(", ")", ","} THEN Token(w, w) ELSE IF w \in Operators THEN lexOp(w) ELSE lexIdent(w)

IsWord(c) == c - firstWord \in DOMAIN Words

next(xs) ==
    LET c  == Head(xs)
        tk == wordToken(Words[c - firstWord])
    IN  CASE c \in {Quote, DoubleQuote}  -> lexString(c, <<>>, Tail(xs))
          [] c \in Digits               -> lexNumber(xs)
          [] IsWord(c) /\ tk # Error    -> Lexed(tk, Tail(xs))
          [] OTHER                      -> Error

RECURSIVE lexAll(_)
lexAll(xs) ==
    LET l == next(xs)
        r == lexAll(l.rest)
    IN  CASE xs = <<>> -> <<>>
          [] xs # <<>> /\ (l = Error \/ r = Error) -> Error
          [] OTHER     -> <<l.token>> \o r

------------------------------------------------------------------------------
(* Parser: each operator returns the node and the tokens after it, or Error *)

Kind(ts, j) == IF j \in DOMAIN ts THEN ts[j].kind ELSE "EOF"
From(ts, j) == SubSeq(ts, j, Len(ts))
Parsed(n, rest) == [node |-> n, rest |-> rest]

IsValue(ts, j)    == Kind(ts, j) \in {"number", "string"}
parseValue(tk)    == IF tk.kind = "number" THEN Num(tk.v) ELSE Str(tk.v)

(* IN ( value {, value} ): the list ends at the first even place without a comma. *)
parseIn(f, neg, b) ==
    LET end == Min({j \in 4..(Len(b) + 4) : j % 2 = 0 /\ Kind(b, j) # ","})
    IN  IF Kind(b, 2) = "(" /\ Kind(b, end) = ")" /\ \A j \in 3..(end - 1) : j % 2 = 1 => IsValue(b, j)
        THEN Parsed(In(f, [j \in 1..((end - 2) \div 2) |-> parseValue(b[2 * j + 1])], neg),
                    From(b, end + 1))
        ELSE Error

parsePredicate(ts) ==
    LET f   == ts[1].v
        neg == Kind(ts, 2) = "NOT"
        b   == From(ts, IF neg THEN 3 ELSE 2)
        isN == Kind(b, 2) = "NOT"
    IN  CASE Kind(ts, 1) # "ident" -> Error
          [] neg /\ Kind(b, 1) \notin {"IN", "LIKE"} -> Error
          [] Kind(b, 1) = "op" /\ IsValue(b, 2) ->
                Parsed(Cmp(f, b[1].v, parseValue(b[2])), From(b, 3))
          [] Kind(b, 1) = "BETWEEN" /\ IsValue(b, 2) /\ Kind(b, 3) = "AND" /\ IsValue(b, 4) ->
                Parsed(Range2(f, parseValue(b[2]), parseValue(b[4])), From(b, 5))
          [] Kind(b, 1) = "IN" -> parseIn(f, neg, b)
          [] Kind(b, 1) = "LIKE" /\ Kind(b, 2) = "string" ->
                Parsed(Like(f, b[2].v, neg), From(b, 3))
          [] Kind(b, 1) = "IS" /\ Kind(b, IF isN THEN 3 ELSE 2) = "NULL" ->
                Parsed(IsNull(f, isN), From(b, IF isN THEN 4 ELSE 3))
          [] OTHER -> Error

RECURSIVE parseUnary(_), parseChain(_, _, _)

Operand(op, ts) ==
    IF op = "AND" THEN parseUnary(ts) ELSE parseChain("AND", <<>>, ts)

Continues(op, ts) == Kind(ts, 1) = op

(* parseOr and parseAnd: operands, as long as the operator follows. *)
parseChain(op, args, ts) ==
    LET r    == Operand(op, ts)
        more == Append(args, r.node)
    IN  IF r = Error THEN Error
        ELSE IF Continues(op, r.rest) THEN parseChain(op, more, Tail(r.rest))
        ELSE Parsed(IF Len(more) = 1 THEN more[1] ELSE Logic(op, more), r.rest)

parseUnary(ts) ==
    CASE Kind(ts, 1) = "NOT" ->
            LET r == parseUnary(Tail(ts)) IN IF r = Error THEN Error ELSE Parsed(Not(r.node), r.rest)
      [] Kind(ts, 1) = "(" ->
            LET r == parseChain("OR", <<>>, Tail(ts))
            IN  IF r = Error \/ Kind(r.rest, 1) # ")" THEN Error ELSE Parsed(r.node, Tail(r.rest))
      [] OTHER -> parsePredicate(ts)

(* Parse: one expression, and nothing after it. *)
Parse(xs) ==
    LET ts == lexAll(xs)
        r  == parseChain("OR", <<>>, ts)
    IN  IF ts = Error \/ r = Error \/ r.rest # <<>> THEN Error ELSE r.node
==============================================================================
