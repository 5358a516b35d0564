------------------------------ MODULE MCScoring ------------------------------
(* Two slots, three requests that come back for ever, one editing goroutine.  *)
EXTENDS Scoring

Rl(i, p, x) == [id |-> i, priority |-> p, version |-> 1, expr |-> x, enabled |-> TRUE]

MCIds == {1, 2}
MCCompilable == {"hit", "miss"}
MCHitSources == {"hit"}
MCAddInputs == {Rl(1, 5, "hit"), Rl(2, 7, "miss")}
==============================================================================
