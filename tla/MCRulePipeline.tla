---------------------------- MODULE MCRulePipeline ----------------------------
(* Small rules over two fields.  Characters are codes: digits 0..9, '-' is -1,  *)
(* the letters a and b, one code for "true" and one for "false", and '%'.       *)
EXTENDS RulePipeline

a == 50
b == 51
five == <<5>>
twelve == <<1, 2>>
padded == <<0, 5>>
minus3 == <<-1, 3>>
true == <<60>>

MCNumText == [n \in {5, 12, -3} |-> CASE n = 5 -> five [] n = 12 -> twelve [] n = -3 -> minus3]
MCTextNum == [t \in {five, twelve, padded, minus3} |->
                 CASE t = twelve -> 12 [] t = minus3 -> -3 [] OTHER -> 5]
MCBoolText == [v \in BOOLEAN |-> IF v THEN true ELSE <<59>>]

MCRows == {[f |-> x, g |-> y] :
    x \in {undef, otherV, numV(5), numV(12), strV(five), strV(<<a, b>>)},
    y \in {undef, strV(<<a>>), strV(<<>>), boolV(TRUE)}}

------------------------------------------------------------------------------
Preds == {
    Cmp("f", "=", Num(five)), Cmp("f", "==", Num(five)), Cmp("f", "!=", Num(five)),
    Cmp("f", ">", Num(five)), Cmp("f", "<=", Num(twelve)), Cmp("f", "<", Str(<<b>>)),
    Cmp("f", "=", Num(padded)), Cmp("g", ">=", Str(<<a>>)), Cmp("g", "!=", Str(<<>>)),
    Range2("f", Num(five), Num(twelve)), Range2("f", Num(twelve), Num(five)),
    In("f", <<Num(five), Str(<<a, b>>)>>, FALSE), In("g", <<Str(true), Str(<<>>)>>, TRUE),
    Like("f", <<a, Percent>>, FALSE), Like("f", <<Percent, b>>, TRUE),
    Like("g", <<Percent>>, FALSE), Like("g", <<a>>, FALSE),
    Cmp("g", "!=", Str(<<DoubleQuote, a>>)), IsNull("f", FALSE), IsNull("g", TRUE)}

Few == {Cmp("f", ">", Num(five)), In("g", <<Str(true), Str(<<>>)>>, TRUE),
        Range2("f", Num(five), Num(twelve)), IsNull("f", FALSE)}

Ops == {"AND", "OR"}
Nots == {Not(p) : p \in Preds} \cup {Not(Not(p)) : p \in Few}
Pairs == {Logic(o, <<p, q>>) : o \in Ops, p \in Preds, q \in Few \cup {Like("f", <<Percent, b>>, TRUE)}}
FewPairs == {Logic(o, <<p, q>>) : o \in Ops, p \in Few, q \in Few}
Two == {Cmp("f", ">", Num(five)), IsNull("f", FALSE)}
Nested == {Logic(o, <<p, q>>) : o \in Ops, p \in Two, q \in FewPairs}
    \cup {Logic(o, <<q, p>>) : o \in Ops, p \in Two, q \in {Not(r) : r \in FewPairs}}
    \cup {Logic(o, <<p, Logic(o, <<q, p>>), q>>) : o \in Ops, p \in Few, q \in Few}
    \cup {Logic("AND", <<p, Logic("OR", <<q, Logic("AND", <<q, p>>)>>)>>) : p \in Few, q \in Few}

MCTrees == Preds \cup Nots \cup Pairs \cup Nested

W(w) == Word(w)

(* Texts as people write them: escaped quotes and backslashes, either kind of  *)
(* quote, a string that does not end.                                          *)
QuotedSources == {[lang |-> "sql", doc |-> d] : d \in {
    W("g") \o W("=") \o <<Quote, a, Backslash, Quote, Quote>>,
    W("g") \o W("!=") \o <<DoubleQuote, a, DoubleQuote>>,
    W("g") \o W("=") \o <<DoubleQuote, Quote, Backslash, DoubleQuote, DoubleQuote>>
           \o W("OR") \o W("g") \o W("=") \o <<Quote, a, Quote>>,
    W("g") \o W("!=") \o <<Quote, a, Backslash, Backslash, Quote>>,
    W("g") \o W("LIKE") \o <<Quote, Backslash, a, Percent, Quote>>,
    W("g") \o W("=") \o <<Quote, a, Backslash, Quote>>}}

(* g IN ('a', 'b') AND g IN ('a\', \'b'): the second list has one text. *)
TwoLists == {[lang |-> "sql", doc |->
    W("g") \o W("IN") \o Paren(<<Quote, a, Quote>> \o W(",") \o <<Quote, b, Quote>>) \o W("AND")
    \o W("g") \o W("IN") \o Paren(<<Quote, a, Backslash, Quote>> \o W(",")
                                  \o <<Backslash, Quote, b, Quote>>)]}

SQLSources == {[lang |-> "sql", doc |-> emitSQL(n)] : n \in MCTrees} \cup QuotedSources \cup TwoLists \cup
    {[lang |-> "sql", doc |-> d] : d \in {
        W("f") \o W("<>") \o five \o W("or") \o W("g") \o W("is") \o W("null")
               \o W("and") \o W("not") \o W("f") \o W(">") \o five,
        W("f") \o W("!") \o five,
        W("f") \o W(">") \o minus3,
        W("f") \o W("NOT") \o W("BETWEEN")}}

Cell(f, o, v, vs) == [d |-> "leaf", field |-> f, op |-> o, value |-> v, values |-> vs]

Cells == {Cell("f", "==", numV(5), <<>>), Cell("f", ">", numV(-3), <<>>), Cell("f", "=", undef, <<>>),
          Cell("f", "between", undef, <<numV(5), numV(12)>>), Cell("f", "between", undef, <<numV(5)>>),
          Cell("g", "in", undef, <<boolV(TRUE), strV(<<a>>)>>), Cell("g", "in", undef, <<>>),
          Cell("g", "like", strV(<<a, Percent>>), <<>>), Cell("g", "like", numV(5), <<>>),
          Cell("g", "=", strV(<<a, Quote>>), <<>>), Cell("g", "isnotnull", undef, <<>>), Cell("f", "isnull", undef, <<>>),
          Cell("f", "<>", numV(5), <<>>), Cell("f", "near", numV(5), <<>>)}

FewCells == {Cell("f", "==", numV(5), <<>>), Cell("g", "isnotnull", undef, <<>>)}

Negatives == {Cell("g", "not_in", undef, <<strV(<<a>>)>>), Cell("g", "notlike", strV(<<a>>), <<>>)}

TableSources == {[lang |-> "table", doc |-> [idBase |-> 100, rows |-> <<[when |-> w]>>]] :
    w \in {<<>>} \cup {<<c>> : c \in Cells} \cup {<<c, d>> : c \in Cells, d \in FewCells}}

Groups == {[d |-> o, kids |-> <<c, e>>] : o \in {"and", "or"}, c \in FewCells, e \in Negatives}

JSONSources == {[lang |-> "json", doc |-> d] : d \in Cells \cup Negatives
    \cup {[d |-> o, kids |-> <<g, c>>] : o \in {"and", "or"}, g \in Groups, c \in FewCells}
    \cup {[d |-> "not", kid |-> c] : c \in Cells}
    \cup {[d |-> o, kids |-> k] : o \in {"and", "or"},
             k \in {<<>>} \cup {<<c>> : c \in Cells} \cup {<<c, e>> : c \in Cells, e \in Negatives}}}

F == Ident("f")
G == Ident("g")

ForeignLeaves ==
    {Call(o, <<F, Lit(numV(5))>>) : o \in {"==", "!=", "<", ">="}}
    \cup {Call("in", <<G, ListOf(<<Lit(strV(<<a>>)), Lit(boolV(TRUE))>>)>>),
          Call("not in", <<G, ListOf(<<Lit(strV(<<a>>))>>)>>), Call("in", <<G, Lit(numV(5))>>),
          Call("startsWith", <<F, Lit(strV(<<a>>))>>), Call("endsWith", <<F, Lit(strV(<<b>>))>>),
          Call("contains", <<F, Lit(numV(5))>>), Call("hasSuffix", <<F, Lit(strV(<<b>>))>>),
          Call("infix contains", <<F, Lit(strV(<<b>>))>>), Call("==", <<F, G>>), Call("==", <<Lit(numV(5)), F>>)}

CodeSources == {[lang |-> l, doc |-> e] : l \in DSLs, e \in ForeignLeaves \cup {F}
    \cup {Call("!", <<x>>) : x \in ForeignLeaves} \cup {Call("not", <<x>>) : x \in ForeignLeaves}
    \cup {Call(o, <<x, y>>) : o \in {"&&", "||", "or"}, x \in ForeignLeaves,
             y \in {Call(">=", <<F, Lit(numV(5))>>), Call("endsWith", <<F, Lit(strV(<<b>>))>>)}}}

QlLeaves ==
    {Call(o, <<F, Numeral(t)>>) : o \in {"=", "==", "!=", "<"}, t \in {five, padded}}
    \cup {Call("IN", <<G, ListOf(<<Lit(strV(<<a>>)), Bare(true)>>)>>), Call("LIKE", <<G, Bare(<<a, Percent>>)>>),
          Call("IN", <<G, ListOf(<<Lit(boolV(TRUE)), Lit(numV(5))>>)>>), Call("=", <<G, Lit(boolV(TRUE))>>),
          Call("LIKE", <<G, Numeral(five)>>), Call("BETWEEN", <<F, Numeral(five), Lit(numV(12))>>),
          Call("NOT", <<F>>), Call("=", <<Numeral(five), F>>), Call("=", <<F, ListOf(<<>>)>>)}

QlSources == {[lang |-> "qlbridge", doc |-> e] : e \in QlLeaves \cup {F}
    \cup {Call(o, <<x, y>>) : o \in {"AND", "OR"}, x \in QlLeaves,
             y \in {Call("=", <<F, Numeral(five)>>), Call("NOT", <<F>>)}}}

MCSources == SQLSources \cup TableSources \cup JSONSources \cup CodeSources \cup QlSources

MCRawCodes == {
    <<[op |-> "And"]>>, <<[op |-> "LoadField", a |-> "f"]>>, <<[op |-> "Not"]>>,
    <<[op |-> "ConstNum", a |-> 5], [op |-> "ConstNum", a |-> 5], [op |-> "Between"]>>,
    <<[op |-> "ConstNum", a |-> 5], [op |-> "unknown"]>>,
    [j \in 1..12 |-> [op |-> "ConstStr", a |-> <<a>>]]}
==============================================================================
