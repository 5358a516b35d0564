---------------------------- MODULE MCRuleCache ----------------------------
(* Small instances of RuleCache: two ids, an edited text, a disabled rule, a   *)
(* text that does not compile, a list that names one id twice.                 *)
EXTENDS RuleCache

MCIds == {1, 2}

Rl(i, p, x, on) == [id |-> i, priority |-> p, version |-> 1, expr |-> x, enabled |-> on]

MCAddInputs == {Rl(1, 5, "a", TRUE), Rl(2, 5, "b", TRUE), Rl(2, 9, "a", FALSE),
                Rl(2, 7, "bad", TRUE)}

MCRuleLists == {<<Rl(1, 5, "a", TRUE), Rl(2, 7, "b", TRUE)>>,
                <<Rl(1, 5, "b", TRUE), Rl(2, 9, "a", FALSE), Rl(1, 6, "a", TRUE)>>}

MCCompilable == {"a", "b"}
=============================================================================
