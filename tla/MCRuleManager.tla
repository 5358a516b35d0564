---------------------------- MODULE MCRuleManager ----------------------------
(* Small instances of RuleManager: rules 1 and 2 and the self-test's id 9.     *)
EXTENDS RuleManager, TLC

Rl(i, p, v, x, on) == [id |-> i, priority |-> p, version |-> v, expr |-> x, enabled |-> on]

MCIds == {1, 2, 9}
MCTwoIds == {1, 9}
MCWriters == Admins \cup {Main, FileWatcher}
MCCompilable == {"a", "b"}
MCStartRules == <<Rl(1, 5, 1, "a", TRUE), Rl(2, 7, 1, "b", TRUE)>>
MCStartOne == <<Rl(1, 5, 1, "a", TRUE)>>
MCFileLists == {<<Rl(1, 5, 1, "b", TRUE)>>}

(* Self-tests: a user the rule matches, one it does not match, and a rule that *)
(* does not compile.                                                           *)
MCSelfTests == {[rule |-> "a", row |-> {"a", "b"}], [rule |-> "b", row |-> {"a"}],
                [rule |-> "bad", row |-> {"a"}]}
MCOneSelfTest == {[rule |-> "a", row |-> {"a"}]}

(* Edits: an unpinned one, one that disables the rule, one that does not       *)
(* compile, and one with a pinned version.                                     *)
MCAddInputs == {Rl(1, 5, 0, "b", TRUE), Rl(1, 5, 0, "bad", FALSE), Rl(1, 5, 0, "bad", TRUE),
                Rl(1, 6, 4, "a", TRUE)}
MCFewInputs == {Rl(1, 5, 0, "b", TRUE), Rl(1, 5, 0, "a", FALSE), Rl(1, 5, 0, "bad", TRUE)}

AdminSymmetry == Permutations(Admins)
==============================================================================
