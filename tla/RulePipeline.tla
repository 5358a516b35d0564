----------------------------- MODULE RulePipeline -----------------------------
(***************************************************************************)
(* A rule on its way through the engine (pkg/engine/backend_bytecode.go,   *)
(* spi.go): a front end turns the document into a tree, the optimizer and  *)
(* the compiler turn the tree into bytecode, and the VM runs it against a  *)
(* row.  Beside it, the tree-walking runtime judges the same tree.         *)
(***************************************************************************)
EXTENDS RuleFrontends, StackVM

CONSTANTS
    Sources,    \* documents: [lang, doc]
    RawCodes,   \* bytecode that no compiler wrote
    Rows        \* rows: field -> value

VARIABLES src, rule

pipeVars == <<src, rule, vmVars>>

(* A table is one row here: its rule is the SQL text of the row, parsed again. *)
TableRule(t) == LET rs == Rules(t) IN IF rs = Error THEN Error ELSE Parse(rs[1].expr)

FrontendParse(s) ==
    CASE s.lang = "sql"      -> Parse(s.doc)
      [] s.lang = "table"    -> TableRule(s.doc)
      [] s.lang = "json"     -> JSONFrontend(s.doc)
      [] s.lang = "cel"      -> celToIR(s.doc)
      [] s.lang = "expr"     -> exprToIR(s.doc)
      [] s.lang = "qlbridge" -> QLBridgeFrontend(s.doc)

PipeInit ==
    /\ src = [lang |-> "none"] /\ rule = Error
    /\ \E r \in Rows : Load(<<>>, r)

(* Compile at load time; a rule that fails is not stored, and nothing runs. *)
CompileRule(s) ==
    /\ src' = s
    /\ rule' = FrontendParse(s)
    /\ code' = Compile(rule')
    /\ code' # Error
    /\ UNCHANGED <<row, machine>>

LoadRaw(c) ==
    /\ src' = [lang |-> "raw"]
    /\ code' = c
    /\ UNCHANGED <<rule, row, machine>>

Eval == src.lang # "none" /\ VMStep /\ UNCHANGED <<src, rule>>

PipeNext ==
    \/ src.lang = "none" /\ \E s \in Sources : CompileRule(s)
    \/ src.lang = "none" /\ \E c \in RawCodes : LoadRaw(c)
    \/ Eval

PipeSpec == PipeInit /\ [][PipeNext]_pipeVars

------------------------------------------------------------------------------
(* Properties *)

Compiled == rule # Error

RECURSIVE Leaves(_)
Leaves(n) ==
    CASE n.t = "Logic" -> UNION {Leaves(n.Args[j]) : j \in DOMAIN n.Args}
      [] n.t = "Not"   -> Leaves(n.Arg)
      [] OTHER         -> {n}

LitsOf(n) ==
    CASE n.t = "Compare" -> {n.Val} [] n.t = "Between" -> {n.Lo, n.Hi}
      [] n.t = "In" -> {n.Vals[j] : j \in DOMAIN n.Vals} [] OTHER -> {}

Lits(n) == UNION {LitsOf(l) : l \in Leaves(n)}

(* The texts of the string literals and patterns of a rule. *)
Texts(n) ==
    {v.text : v \in {w \in Lits(n) : w.IsString}}
        \cup {l.Pattern : l \in {k \in Leaves(n) : k.t = "Like"}}

Without(chars, n) == \A t \in Texts(n) : \A j \in DOMAIN t : t[j] \notin chars

Canonical(n) == \A v \in Lits(n) : IsNumeral(v) => NumText[TextNum[v.text]] = v.text

Complete(n) == \A l \in Leaves(n) : toValue(row[l.Field]) # undef

(* What the compiled bytecode of a rule returns is the meaning of the tree     *)
(* the front end built, for every row, rows with missing fields included: the  *)
(* optimizer's flattening and dedup "are strictly semantics-preserving"        *)
(* (pkg/ir/optimize.go:6), and so is the lowering (pkg/vm/compile.go:74).  The *)
(* only error exit it takes is the full stack (pkg/vm/vm.go:24), and that one  *)
(* only when the tree as written nests too deep.  Rules with a quote inside a  *)
(* text are left out: for those the dedup can go wrong (RewritesKeepMeaning).  *)
CompiledMeaning == Compiled /\ Without({Quote}, rule) => Returns(Meaning(rule, row), Need(rule))

(* What the optimizer says of every rule: "All transforms are strictly         *)
(* semantics-preserving" (pkg/ir/optimize.go:6).                               *)
RewritesKeepMeaning == Compiled /\ i = 1 => Meaning(Optimize(rule), row) = Meaning(rule, row)

(* The tree-walking runtime and the VM agree on rows that have every field of  *)
(* the rule: "Semantics mirror the bytecode VM" (pkg/runtime/ast/ast.go:6).    *)
(* It takes canonical numerals and texts without quotes, and the operator      *)
(* '==', which only the SQL front end lets through, does not occur.            *)
TreeWalkAgrees ==
    /\ Compiled /\ exit = "value" /\ Complete(rule) /\ Canonical(rule) /\ Without({Quote}, rule)
    /\ src.lang = "sql" => \A l \in Leaves(rule) : l.t # "Compare" \/ l.Op # "=="
    => eval(rule, row) = result

(* The SQL text of a rule, which decision tables and exports go through, is    *)
(* parsed to the same tree again (pkg/ir/emit.go, parser.go), unless a number  *)
(* has a sign or is none, or an IN list is empty, which the parser does not    *)
(* know, or a text holds a quote or a backslash, which emit writes as they are *)
(* and the lexer takes for the end of the string or an escape.                 *)
SQLReadsBack ==
    /\ Compiled /\ i = 1
    /\ Without({Quote, Backslash}, rule)
    /\ \A v \in Lits(rule) : v.IsString \/ Head(v.text) \in 0..9
    /\ \A l \in Leaves(rule) : l.t = "In" => l.Vals # <<>>
    => Parse(emitSQL(rule)) = rule

(* A rule exported to CEL or Expr and read back by that language's front end   *)
(* is rejected or means the same: the parentheses keep the nesting, and the    *)
(* quotes inside texts are escaped.  BETWEEN must meet numbers only, since the *)
(* exported pair of comparisons orders texts as well (pkg/ir/emit.go:109), and *)
(* a text must hold no backslash, which quote does not escape (emit.go:256).   *)
ExportKeepsMeaning ==
    /\ Compiled /\ i = 1 /\ Canonical(rule) /\ Without({Backslash}, rule)
    /\ \A l \in Leaves(rule) : l.t = "Between" => row[l.Field].k \in {"num", "undef"}
    => \A d \in DSLs : LET n == readBack(rule, d) IN n # Error => Meaning(n, row) = Meaning(rule, row)

(* An explanation passes exactly when matching does: Explain "uses the same    *)
(* semantics as Execute (and therefore the bytecode VM), so `passed` always    *)
(* matches a normal match" (pkg/runtime/ast/ast.go:254).                       *)
ExplainMatchesMatch == Compiled /\ exit = "value" => Explain(rule, row).passed = result
==============================================================================
