---------------------------- MODULE MCWorkerPool ----------------------------
(* A batch of N users and three rules; user 0 matches all of them, user 1     *)
(* none, and the others two or one, so that a scratch slice shrinks.          *)
EXTENDS WorkerPool

MCRuleIds == {10, 20, 30}

MCMatches ==
    [u \in 0..(N - 1) |->
        CASE u % 4 = 0 -> <<30, 10, 20>>
          [] u % 4 = 1 -> <<>>
          [] u % 4 = 2 -> <<30, 20>>
          [] u % 4 = 3 -> <<10>>]
=============================================================================
