----------------------------- MODULE InfraProofs -----------------------------
(***************************************************************************)
(* Proofs about the process around the engine: the transaction wrapper     *)
(* (WithTx) and the orderly end of cmd/api (Lifecycle).                    *)
(***************************************************************************)
EXTENDS WithTx, Lifecycle, TLAPS

------------------------------------------------------------------------------
(* WithTx tells its caller the truth about the transaction.  The invariant     *)
(* follows the two racers, the deferred function and the goroutine of          *)
(* database/sql that waits for the context: until the call returns, only the   *)
(* second can have ended the transaction, and only by a rollback.              *)

(* Before the transaction is begun there is nothing to end. *)
NotBegun ==
    txPc \in {"idle", "begin"} =>
        db = "none" /\ ~txDone /\ ~panicked /\ err = "nil" /\ result = "zero"

(* While fn and the deferred function run the transaction is open, or          *)
(* database/sql has rolled it back because the context is done.                *)
InFlight ==
    txPc \in {"fn", "deferred"} =>
        /\ \/ db = "open" /\ ~txDone
           \/ db \in {"lost", "rolledback"} /\ txDone /\ ctxDone
        /\ err \in {"nil", "fn"}
        /\ panicked => err = "nil"
        /\ txPc = "fn" => ~panicked /\ err = "nil" /\ result = "zero"

(* The call has returned. *)
Told == ToldTheTruth

TxInv == TxTypeOK /\ NotBegun /\ InFlight /\ Told

(* The invariant holds before the call. *)
LEMMA TxInvInit == TxInit => TxInv
  BY DEF TxInit, TxInv, TxTypeOK, NotBegun, InFlight, Told, ToldTheTruth

(* Every step of the call, of database/sql and of the server keeps it. *)
LEMMA TxInvStep == TxInv /\ [TxNext]_txVars => TxInv'
  <1> SUFFICES ASSUME TxInv, [TxNext]_txVars PROVE TxInv'
    OBVIOUS
  <1> USE DEF TxInv, TxTypeOK, NotBegun, InFlight, Told, ToldTheTruth
  <1>1. ASSUME NEW ok \in BOOLEAN, NEW timed \in BOOLEAN, CallTx(ok, timed) PROVE TxInv'
    BY <1>1 DEF CallTx
  <1>2. CASE BeginTx
    BY <1>2 DEF BeginTx
  <1>3. CASE BeginFails
    BY <1>3 DEF BeginFails, TxReturn
  <1>4. ASSUME NEW how \in {"ok", "error", "panic"}, FnEnds(how) PROVE TxInv'
    BY <1>4 DEF FnEnds
  <1>5. CASE DeferredPanic
    BY <1>5 DEF DeferredPanic, Panicking, Rollback, TxReturn
  <1>6. CASE DeferredError
    BY <1>6 DEF DeferredError, Panicking, RollbackOnError, Rollback, TxReturn
  <1>7. CASE DeferredCommit
    <2> USE DEF DeferredCommit, Panicking
    <2>1. CASE CommitRefused /\ OnCommitError
      BY <1>7, <2>1 DEF CommitRefused, OnCommitError, TxReturn
    <2>2. CASE CommitFails /\ OnCommitError
      BY <1>7, <2>2 DEF CommitFails, OnCommitError, TxReturn
    <2>3. CASE CommitSucceeds /\ TxReturn("nil", result)
      BY <1>7, <2>3 DEF CommitSucceeds, TxReturn
    <2> QED
      BY <1>7, <2>1, <2>2, <2>3
  <1>8. CASE ContextDone
    BY <1>8 DEF ContextDone
  <1>9. CASE AwaitDone
    BY <1>9 DEF AwaitDone, Rollback
  <1>10. CASE ServerAborts
    BY <1>10 DEF ServerAborts
  <1>11. CASE UNCHANGED txVars
    BY <1>11 DEF txVars
  <1> HIDE DEF TxInv
  <1> QED
    BY <1>1, <1>2, <1>3, <1>4, <1>5, <1>6, <1>7, <1>8, <1>9, <1>10, <1>11
    DEF TxNext, Proceed, Deferred, TxOver

(* The invariant of every call. *)
LEMMA TxInvariant == TxSpec => []TxInv
  BY TxInvInit, TxInvStep, PTL DEF TxSpec

(* What WithTx returns agrees with the database, whoever won the race between  *)
(* the timeout and the deferred function (tx.go:60).                           *)
THEOREM CallerIsToldTheTruth == TxSpec => []ToldTheTruth
  <1>1. TxInv => ToldTheTruth
    BY DEF TxInv, Told
  <1> QED
    BY TxInvariant, <1>1, PTL

------------------------------------------------------------------------------
(* The end of the process.  The teardown passes the components one by one, so  *)
(* how far it has come says which of them are down; the supervisor gives up on *)
(* it only when the context has expired; and Fiber, once it stopped accepting, *)
(* is never given another request.                                             *)

(* Where main, the signal goroutine and the teardown can be at the same time. *)
Progress ==
    /\ cpos \in 0..9
    /\ mpc = "boot" => spc = "unborn"
    /\ spc \in {"unborn", "notify", "wait"} => cpos = 0
    /\ spc = "done" => SuperviseOver

(* Which components are down at each position of the teardown. *)
DownSoFar ==
    /\ down \subseteq Components
    /\ "fiber" \in down <=> cpos > 1
    /\ "pprof" \in down <=> cpos > 2
    /\ "recorder" \in down <=> cpos > 3
    /\ "mem" \in down <=> cpos > 4
    /\ "pool" \in down <=> cpos > 5
    /\ "com" \in down <=> cpos > 6
    /\ "cfg" \in down <=> cpos > 7

(* After Fiber is down no request can come any more, unless it was shut down   *)
(* before it listened.                                                         *)
NoNewRequests ==
    /\ serving \in Nat
    /\ cpos > 1 /\ ~early =>
        /\ ~accepting /\ mpc \notin {"boot", "ready"}
        /\ serving = 0 \/ expired

LogsAreLast == ~logsOpen => cpos > 8 \/ expired

(* How far Stop has come says whether the recorder's goroutine and os/signal   *)
(* still hold the channel; nothing but Stop closes it.                         *)
StopInOrder ==
    /\ mpc = "boot" => recStop = "before"
    /\ recStop \in {"joined", "unregistered", "over"} => recorder = "gone"
    /\ recStop \in {"unregistered", "over"} => ~registered
    /\ sigChan = "closed" => recStop = "over"

LifeInv == Progress /\ DownSoFar /\ NoNewRequests /\ LogsAreLast /\ StopInOrder

(* The invariant holds of a process that has not booted. *)
LEMMA LifeInvInit == LifeInit => LifeInv
  BY DEF LifeInit, LifeInv, Progress, DownSoFar, NoNewRequests, LogsAreLast, StopInOrder

(* Every step of main, of the two shutdown goroutines, of the recorder and of  *)
(* the requests keeps it.                                                      *)
LEMMA LifeInvStep == LifeInv /\ [LifeNext]_lifeVars => LifeInv'
  <1> SUFFICES ASSUME LifeInv, [LifeNext]_lifeVars PROVE LifeInv'
    OBVIOUS
  <1>0. Len(Order) = 8 /\ Order[1] = "fiber" /\ Order[2] = "pprof" /\ Order[3] = "recorder"
        /\ Order[4] = "mem" /\ Order[5] = "pool" /\ Order[6] = "com" /\ Order[7] = "cfg"
        /\ Order[8] = "logs" /\ DOMAIN Order = 1..8
    BY DEF Order
  <1>a. ASSUME NEW c, At(c)
        PROVE  /\ cpos \in 1..8
               /\ c = "fiber" => cpos = 1
               /\ c = "pprof" => cpos = 2
               /\ c = "recorder" => cpos = 3
               /\ c = "mem" => cpos = 4
               /\ c = "pool" => cpos = 5
               /\ c = "com" => cpos = 6
               /\ c = "cfg" => cpos = 7
               /\ c = "logs" => cpos = 8
    <2>1. cpos \in 1..8 /\ Order[cpos] = c BY <1>0, <1>a DEF At
    <2>2. cpos = 1 \/ cpos = 2 \/ cpos = 3 \/ cpos = 4 \/ cpos = 5 \/ cpos = 6 \/ cpos = 7 \/ cpos = 8
      BY <2>1
    <2> QED BY <1>0, <2>1, <2>2
  <1> USE <1>0 DEF LifeInv, Progress, DownSoFar, NoNewRequests, LogsAreLast, StopInOrder,
                   Alive, EndProcess, recVars, SuperviseOver, Components
  <1>1. CASE MainStep
    <2>1. ASSUME NEW r \in BOOLEAN, BootOK(r) PROVE LifeInv'
      BY <2>1 DEF BootOK
    <2>2. CASE BootFails
      BY <2>2 DEF BootFails
    <2>6. CASE ListenFails
      BY <2>6 DEF ListenFails
    <2>3. CASE Listen
      BY <2>3 DEF Listen
    <2>4. CASE ListenReturns
      BY <2>4 DEF ListenReturns
    <2>5. CASE MainReturns
      BY <2>5 DEF MainReturns, MayReturn
    <2> QED
      BY <1>1, <2>1, <2>2, <2>3, <2>4, <2>5, <2>6 DEF MainStep
  <1>2. CASE Supervisor
    <2>1. CASE Notify
      BY <2>1 DEF Notify
    <2>2. CASE TakeSignal
      BY <2>2 DEF TakeSignal
    <2>3. CASE SuperviseEnds
      BY <2>3 DEF SuperviseEnds
    <2> QED
      BY <1>2, <2>1, <2>2, <2>3 DEF Supervisor
  <1>3. CASE Terminate
    BY <1>3 DEF Terminate
  <1>4. CASE ShutdownTimeout
    BY <1>4 DEF ShutdownTimeout
  <1>5. CASE Teardown
    <2>1. CASE FiberCloses
      BY <2>1 DEF FiberCloses
    <2>2. CASE FiberDown
      <3>1. cpos = 1 /\ Alive /\ spc \notin {"unborn", "notify", "wait"} BY <2>2, <1>a DEF FiberDown, At
      <3>2. cpos' = 2 /\ down' = down \cup {"fiber"} BY <2>2, <3>1 DEF FiberDown, Down
      <3>3. ~early' => mpc \notin {"boot", "ready"} BY <2>2, <3>1, Zenon DEF FiberDown
      <3> QED BY <2>2, <3>1, <3>2, <3>3 DEF FiberDown, Drained
    <2>3. ASSUME NEW c \in {"pprof", "mem", "pool", "com", "cfg"}, ComponentDown(c) PROVE LifeInv'
      <3>1. CASE c = "pprof" BY <2>3, <3>1, <1>a DEF ComponentDown, Down
      <3>2. CASE c = "mem" BY <2>3, <3>2, <1>a DEF ComponentDown, Down
      <3>3. CASE c = "pool" BY <2>3, <3>3, <1>a DEF ComponentDown, Down
      <3>4. CASE c = "com" BY <2>3, <3>4, <1>a DEF ComponentDown, Down
      <3>5. CASE c = "cfg" BY <2>3, <3>5, <1>a DEF ComponentDown, Down
      <3> QED BY <3>1, <3>2, <3>3, <3>4, <3>5
    <2>4. CASE RecorderNil
      BY <2>4, <1>a DEF RecorderNil, Down
    <2>5. CASE RecorderStops
      BY <2>5, <1>a DEF RecorderStops
    <2>9. CASE RecorderJoined
      BY <2>9, <1>a DEF RecorderJoined
    <2>6. CASE RecorderUnregisters
      BY <2>6, <1>a DEF RecorderUnregisters, Unregister
    <2>7. CASE RecorderDown
      <3>1. cpos = 3 BY <2>7, <1>a DEF RecorderDown
      <3>2. mpc # "boot" BY <3>1
      <3> QED BY <2>7, <3>1, <3>2 DEF RecorderDown, Down
    <2>8. CASE LogsClose
      <3>1. cpos = 8 BY <2>8, <1>a DEF LogsClose
      <3> QED BY <2>8, <3>1 DEF LogsClose
    <2> QED
      BY <1>5, <2>1, <2>2, <2>3, <2>4, <2>5, <2>6, <2>7, <2>8, <2>9 DEF Teardown
  <1>6. CASE RequestComes
    BY <1>6 DEF RequestComes
  <1>10. CASE RequestEnds
    BY <1>10 DEF RequestEnds
  <1>7. CASE UserSignal
    BY <1>7 DEF UserSignal
  <1>8. CASE Recorder
    <2>1. CASE DumpBegins
      BY <2>1 DEF DumpBegins
    <2>2. CASE DumpEnds
      BY <2>2 DEF DumpEnds
    <2>3. CASE RecorderLeaves
      BY <2>3 DEF RecorderLeaves
    <2> QED
      BY <1>8, <2>1, <2>2, <2>3 DEF Recorder
  <1>9. CASE UNCHANGED lifeVars
    BY <1>9 DEF lifeVars
  <1> HIDE DEF LifeInv
  <1> QED
    BY <1>1, <1>2, <1>3, <1>4, <1>5, <1>6, <1>7, <1>8, <1>9, <1>10 DEF LifeNext, ProcessOver

LEMMA LifeInvariant == LifeSpec => []LifeInv
  BY LifeInvInit, LifeInvStep, PTL DEF LifeSpec

(* The clients and pools are closed only when nothing is being served or the   *)
(* shutdown context has expired, for any number of requests (main.go).         *)
THEOREM ServerDrainsFirst == LifeSpec => []DrainedBeforeClose
  <1>1. LifeInv => DrainedBeforeClose
    BY DEF LifeInv, Progress, DownSoFar, NoNewRequests, DrainedBeforeClose
  <1> QED
    BY LifeInvariant, <1>1, PTL

(* The loggers outlive every component that may still write to them, or the    *)
(* shutdown context has expired (main.go).                                     *)
THEOREM LogsCloseLast == LifeSpec => []LogsOutliveComponents
  <1>1. LifeInv => LogsOutliveComponents
    <2> SUFFICES ASSUME LifeInv, ~logsOpen, ~expired PROVE down = Components
      BY DEF LogsOutliveComponents
    <2>1. cpos > 8 BY DEF LifeInv, LogsAreLast
    <2>2. cpos \in 0..9 BY DEF LifeInv, Progress
    <2>3. cpos > 1 /\ cpos > 2 /\ cpos > 3 /\ cpos > 4 /\ cpos > 5 /\ cpos > 6 /\ cpos > 7
      BY <2>1, <2>2
    <2>4. Components \subseteq down BY <2>3 DEF LifeInv, DownSoFar, Components
    <2> QED BY <2>4 DEF LifeInv, DownSoFar
  <1> QED
    BY LifeInvariant, <1>1, PTL

(* os/signal and the recorder's goroutine have both let go of the channel when *)
(* Stop closes it, however SIGUSR1, the dump and Stop interleave: signal.Stop  *)
(* and the join come first (FlightRecorder.Stop).                              *)
THEOREM SignalsNeverPanic == LifeSpec => []NoSignalOnClosed
  <1>1. LifeInv => NoSignalOnClosed
    BY DEF LifeInv, StopInOrder, NoSignalOnClosed
  <1> QED
    BY LifeInvariant, <1>1, PTL
==============================================================================
