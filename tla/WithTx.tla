------------------------------- MODULE WithTx -------------------------------
(***************************************************************************)
(* One call of WithTx (internal/infra/tx.go): begin, the caller's function *)
(* and the deferred function that commits or rolls back.  database/sql is  *)
(* external: a goroutine of its own rolls the transaction back when the    *)
(* context is done, and whoever ends the transaction first wins.           *)
(***************************************************************************)
EXTENDS Naturals

VARIABLES
    txPc,        \* idle, begin, fn, deferred, returned
    limited,     \* txTimeout > 0
    ctxDone,     \* the context of the transaction is done
    txDone,      \* sql.Tx.done
    db,          \* the database's side: none, open, lost, committed, rolledback
    result,      \* the result: zero or value
    err,         \* nil, args, begin, fn, fn+rollback, commit
    panicked     \* a panic is under way, or ended the call

txVars == <<txPc, limited, ctxDone, txDone, db, result, err, panicked>>

TxInit ==
    /\ txPc = "idle" /\ limited = FALSE /\ ctxDone = FALSE
    /\ txDone = FALSE /\ db = "none"
    /\ result = "zero" /\ err = "nil" /\ panicked = FALSE

(* The deferred cancel runs last. *)
TxReturn(e, r) ==
    /\ txPc' = "returned"
    /\ err' = e
    /\ result' = r
    /\ ctxDone' = (ctxDone \/ limited)

(* A nil database or function is an error at once. *)
CallTx(ok, timed) ==
    /\ txPc = "idle"
    /\ limited' = timed
    /\ txPc' = IF ok THEN "begin" ELSE "returned"
    /\ err' = IF ok THEN "nil" ELSE "args"
    /\ UNCHANGED <<ctxDone, txDone, db, result, panicked>>

BeginTx ==
    /\ txPc = "begin" /\ ~ctxDone
    /\ txPc' = "fn" /\ db' = "open"
    /\ UNCHANGED <<limited, ctxDone, txDone, result, err, panicked>>

BeginFails ==
    /\ txPc = "begin"
    /\ TxReturn("begin", "zero")
    /\ UNCHANGED <<limited, txDone, db, panicked>>

(* return fn(ctx, tx): the named results are set, then the deferred function   *)
(* runs; fn may hand back a value next to its error.                           *)
FnEnds(how) ==
    /\ txPc = "fn"
    /\ err' = IF how = "error" THEN "fn" ELSE "nil"
    /\ result' \in IF how = "panic" THEN {"zero"} ELSE {"zero", "value"}
    /\ panicked' = (how = "panic")
    /\ txPc' = "deferred"
    /\ UNCHANGED <<limited, ctxDone, txDone, db>>

------------------------------------------------------------------------------
(* tx.Rollback and tx.Commit *)

(* ErrTxDone when the transaction has ended; an error leaves the connection,   *)
(* and with it the transaction, to the server.                                 *)
Rollback(failed) ==
    /\ txDone' = TRUE
    /\ failed => ~txDone
    /\ db' = IF txDone THEN db ELSE IF failed THEN "lost" ELSE "rolledback"

(* A done context or an ended transaction stops Commit before the database.    *)
CommitRefused == (ctxDone \/ txDone) /\ UNCHANGED <<txDone, db>>

(* The answer to a commit may get lost after the database carried it out.      *)
CommitFails == ~ctxDone /\ ~txDone /\ txDone' = TRUE /\ db' \in {"committed", "lost"}

CommitSucceeds == ~ctxDone /\ ~txDone /\ txDone' = TRUE /\ db' = "committed"

(* The deferred function *)

(* Mutant: the recover is missing, and a panic finds err = nil. *)
Panicking_unseen == FALSE

Panicking == panicked

DeferredPanic ==
    /\ txPc = "deferred" /\ Panicking
    /\ \E failed \in BOOLEAN : Rollback(failed)
    /\ TxReturn("nil", "zero")
    /\ panicked' = TRUE
    /\ UNCHANGED limited

(* Mutant: the error is returned without a rollback. *)
RollbackOnError_skipped(failed) == ~failed /\ UNCHANGED <<txDone, db>>

RollbackOnError(failed) == Rollback(failed)

(* rollbackQuietly: only a failed rollback is added to the error. *)
DeferredError ==
    /\ txPc = "deferred" /\ ~Panicking /\ err # "nil"
    /\ \E failed \in BOOLEAN :
          /\ RollbackOnError(failed)
          /\ TxReturn(IF failed THEN "fn+rollback" ELSE "fn", "zero")
    /\ UNCHANGED <<limited, panicked>>

OnCommitError == TxReturn("commit", "zero")

DeferredCommit ==
    /\ txPc = "deferred" /\ ~Panicking /\ err = "nil"
    /\ \/ (CommitRefused \/ CommitFails) /\ OnCommitError
       \/ CommitSucceeds /\ TxReturn("nil", result)
    /\ UNCHANGED <<limited, panicked>>

Deferred == DeferredPanic \/ DeferredError \/ DeferredCommit

------------------------------------------------------------------------------
(* The caller's context, database/sql and the server *)

ContextDone ==
    /\ ~ctxDone /\ txPc # "idle"
    /\ ctxDone' = TRUE
    /\ UNCHANGED <<txPc, limited, txDone, db, result, err, panicked>>

(* database/sql waits for the context and rolls back what is still open. *)
AwaitDone ==
    /\ ctxDone /\ db = "open" /\ ~txDone
    /\ \E failed \in BOOLEAN : Rollback(failed)
    /\ UNCHANGED <<txPc, limited, ctxDone, result, err, panicked>>

(* The server rolls back the transaction of a connection that is gone. *)
ServerAborts ==
    /\ db = "lost"
    /\ db' = "rolledback"
    /\ UNCHANGED <<txPc, limited, ctxDone, txDone, result, err, panicked>>

Proceed == BeginTx \/ BeginFails \/ (\E how \in {"ok", "error", "panic"} : FnEnds(how)) \/ Deferred

TxOver == txPc = "returned" /\ UNCHANGED txVars

TxNext ==
    \/ \E ok, timed \in BOOLEAN : CallTx(ok, timed)
    \/ Proceed \/ ContextDone \/ AwaitDone \/ ServerAborts \/ TxOver

TxSpec == TxInit /\ [][TxNext]_txVars

(* fn returns, and database/sql and the server get to run. *)
TxFairness == WF_txVars(Proceed) /\ WF_txVars(AwaitDone) /\ WF_txVars(ServerAborts)

------------------------------------------------------------------------------
(* Properties *)

(* The variables keep their types. *)
TxTypeOK ==
    /\ txPc \in {"idle", "begin", "fn", "deferred", "returned"}
    /\ limited \in BOOLEAN /\ ctxDone \in BOOLEAN /\ txDone \in BOOLEAN /\ panicked \in BOOLEAN
    /\ db \in {"none", "open", "lost", "committed", "rolledback"}
    /\ result \in {"zero", "value"}
    /\ err \in {"nil", "args", "begin", "fn", "fn+rollback", "commit"}

(* What the caller is told agrees with the database: without an error the      *)
(* transaction is committed; after an error of fn or a panic it is not, and    *)
(* never will be ("fn returns error -> auto Rollback (no commit)", tx.go:20),  *)
(* whoever won the race between the timeout and the deferred function.  A      *)
(* result other than the zero value comes only with a committed transaction.   *)
ToldTheTruth ==
    txPc = "returned" =>
        /\ err = "nil" /\ ~panicked => db = "committed"
        /\ err \in {"fn", "fn+rollback"} \/ panicked => db \in {"lost", "rolledback"}
        /\ err \in {"args", "begin"} => db = "none"
        /\ result = "value" => err = "nil" /\ ~panicked /\ db = "committed"

(* Every transaction that was begun ends in the database, committed or rolled  *)
(* back, on every path through the deferred function (tx.go:60).               *)
TransactionEnds == (db = "open") ~> (db \in {"committed", "rolledback"})
=============================================================================
