------------------------------- MODULE RuleTree -------------------------------
(***************************************************************************)
(* The stages that walk a rule tree, node after node: the optimizer        *)
(* (pkg/ir/optimize.go), the compiler to bytecode (pkg/vm/compile.go), and *)
(* the tree-walking runtime with its explanations (pkg/runtime/ast/ast.go).*)
(***************************************************************************)
EXTENDS RuleText

------------------------------------------------------------------------------
(* Optimizer: the dedup key is the SQL text *)

RECURSIVE Optimize(_)
Optimize(n) ==
    CASE n.t = "Not"   -> Not(Optimize(n.Arg))
      [] n.t = "Logic" ->
            LET flat == Flat(n, [j \in DOMAIN n.Args |-> Optimize(n.Args[j])])
            IN  Collapse(n.Op, Dedup(flat, [j \in DOMAIN flat |-> emitSQL(flat[j])]))
      [] OTHER         -> n

------------------------------------------------------------------------------
(* Compiler *)

RECURSIVE emit(_)
emit(n) == emitNode(n, [j \in DOMAIN Kids(n) |-> emit(Kids(n)[j])])

(* BytecodeBackend.Compile, after the front end has parsed the rule. *)
Compile(n) == IF n = Error THEN Error ELSE emit(Optimize(n))

------------------------------------------------------------------------------
(* Tree-walking runtime *)

RECURSIVE eval(_, _)
eval(n, r) == evalNode(n, [j \in DOMAIN Kids(n) |-> eval(Kids(n)[j], r)], r)

(* A reason is the failing part of the rule; its wording is left out. *)
Reason(n) == n

Pass == [passed |-> TRUE, reasons |-> <<>>]
Fail(reasons) == [passed |-> FALSE, reasons |-> reasons]

(* An AND passed when no operand contributed a reason. *)
Verdict(failed) ==
    [passed |-> Sq!FlattenSeq(failed) = <<>>, reasons |-> Sq!FlattenSeq(failed)]

RECURSIVE Explain(_, _)
Explain(n, r) ==
    CASE n.t = "Logic" ->
            LET rs     == [j \in DOMAIN n.Args |-> Explain(n.Args[j], r)]
                failed == [j \in DOMAIN rs |-> IF rs[j].passed THEN <<>> ELSE rs[j].reasons]
            IN  IF n.Op = "OR"
                THEN IF \E j \in DOMAIN rs : rs[j].passed THEN Pass ELSE Fail(<<Reason(n)>>)
                ELSE Verdict(failed)
      [] OTHER -> IF eval(n, r) THEN Pass ELSE Fail(<<Reason(n)>>)

------------------------------------------------------------------------------
(* Reference *)

RECURSIVE Meaning(_, _)
Meaning(n, r) == meaningNode(n, [j \in DOMAIN Kids(n) |-> Meaning(Kids(n)[j], r)], r)

RECURSIVE Need(_)
Need(n) == needNode(n, [j \in DOMAIN Kids(n) |-> Need(Kids(n)[j])])
==============================================================================
