------------------------------ MODULE Lifecycle ------------------------------
(***************************************************************************)
(* The life of the process cmd/api: main starts the layers and listens;    *)
(* one goroutine waits for a termination signal and supervises the         *)
(* shutdown; one tears the components down in order; the flight recorder   *)
(* has a goroutine that dumps a trace on SIGUSR1 (internal/observability). *)
(* Fiber, net/http and os/signal are external.                             *)
(***************************************************************************)
EXTENDS Naturals, Sequences

CONSTANT MaxRequests    \* bound: requests being served at once

ASSUME MaxRequestsAssumption == MaxRequests \in Nat

VARIABLES
    mpc,         \* main: boot, ready, listening, waiting, exited
    code,        \* how the process ended: none, fatal, killed, clean
    spc,         \* the signal goroutine: unborn, notify, wait, supervise, done
    signalled,   \* SIGINT, SIGTERM or SIGHUP has been sent
    expired,     \* the shutdown context is done
    cpos,        \* the teardown: the component it has come to, 0 before it starts
    down,        \* components that have been shut down
    logsOpen,    \* the loggers take entries
    accepting,   \* Fiber takes connections
    serving,     \* requests being served
    early,       \* history: Fiber was shut down before it listened
    recorder,    \* the recorder's goroutine: none, waiting, dumping, gone
    recStop,     \* FlightRecorder.Stop: before, closing, joined, unregistered, over
    registered,  \* os/signal delivers to sigChan
    sigChan      \* sigChan: empty, full, closed

lifeVars == <<mpc, code, spc, signalled, expired, cpos, down, logsOpen, accepting, serving,
              early, recorder, recStop, registered, sigChan>>

(* Mutant: the loggers are closed before the last components. *)
Order_logs_early ==
    <<"fiber", "pprof", "recorder", "mem", "pool", "com", "logs", "cfg">>

(* shutdownComponents *)
Order == <<"fiber", "pprof", "recorder", "mem", "pool", "com", "cfg", "logs">>

Components == {"fiber", "pprof", "recorder", "mem", "pool", "com", "cfg"}

LifeInit ==
    /\ mpc = "boot" /\ code = "none" /\ spc = "unborn"
    /\ signalled = FALSE /\ expired = FALSE
    /\ cpos = 0 /\ down = {} /\ logsOpen = TRUE
    /\ accepting = FALSE /\ serving = 0 /\ early = FALSE
    /\ recorder = "none" /\ recStop = "before" /\ registered = FALSE /\ sigChan = "empty"

Alive == mpc # "exited"

EndProcess(c) == mpc' = "exited" /\ code' = c

recVars == <<recorder, recStop, registered, sigChan>>
------------------------------------------------------------------------------
(* main *)

(* newApplication: a rule file that cannot be read is fatal; a recorder that   *)
(* cannot start is not.                                                        *)
BootFails ==
    /\ mpc = "boot"
    /\ EndProcess("fatal")
    /\ UNCHANGED <<spc, signalled, expired, cpos, down, logsOpen, accepting, serving, early, recVars>>

BootOK(withRecorder) ==
    /\ mpc = "boot"
    /\ mpc' = "ready" /\ spc' = "notify"
    /\ recorder' = IF withRecorder THEN "waiting" ELSE "none"
    /\ registered' = withRecorder
    /\ UNCHANGED <<code, signalled, expired, cpos, down, logsOpen, accepting, serving, early,
                   recStop, sigChan>>

Listen ==
    /\ mpc = "ready"
    /\ mpc' = "listening" /\ accepting' = TRUE
    /\ UNCHANGED <<code, spc, signalled, expired, cpos, down, logsOpen, serving, early, recVars>>

ListenFails ==
    /\ mpc = "ready"
    /\ EndProcess("fatal")
    /\ UNCHANGED <<spc, signalled, expired, cpos, down, logsOpen, accepting, serving, early, recVars>>

(* Listen returns as soon as Fiber stops accepting. *)
ListenReturns ==
    /\ mpc = "listening" /\ ~accepting
    /\ mpc' = "waiting"
    /\ UNCHANGED <<code, spc, signalled, expired, cpos, down, logsOpen, accepting, serving, early, recVars>>

(* <-shutdownDone *)
MayReturn == spc = "done"

(* The deferred logs.Close, then the end of the process. *)
MainReturns ==
    /\ mpc = "waiting" /\ MayReturn
    /\ logsOpen' = FALSE
    /\ EndProcess("clean")
    /\ UNCHANGED <<spc, signalled, expired, cpos, down, accepting, serving, early, recVars>>

MainStep == (\E r \in BOOLEAN : BootOK(r)) \/ BootFails \/ Listen \/ ListenFails \/ ListenReturns \/ MainReturns

------------------------------------------------------------------------------
(* gracefulShutdown *)

Terminate ==
    /\ Alive /\ ~signalled
    /\ signalled' = TRUE
    /\ IF spc \in {"unborn", "notify"} THEN EndProcess("killed") ELSE UNCHANGED <<mpc, code>>
    /\ UNCHANGED <<spc, expired, cpos, down, logsOpen, accepting, serving, early, recVars>>

Notify ==
    /\ Alive /\ spc = "notify"
    /\ spc' = "wait"
    /\ UNCHANGED <<mpc, code, signalled, expired, cpos, down, logsOpen, accepting, serving, early, recVars>>

TakeSignal ==
    /\ Alive /\ spc = "wait" /\ signalled
    /\ spc' = "supervise"
    /\ cpos' = 1
    /\ UNCHANGED <<mpc, code, signalled, expired, down, logsOpen, accepting, serving, early, recVars>>

ShutdownTimeout ==
    /\ Alive /\ spc = "supervise" /\ ~expired
    /\ expired' = TRUE
    /\ UNCHANGED <<mpc, code, spc, signalled, cpos, down, logsOpen, accepting, serving, early, recVars>>

(* Mutant: nothing but the end of the teardown is waited for. *)
SuperviseOver_no_timeout == cpos > Len(Order)

SuperviseOver == cpos > Len(Order) \/ expired

SuperviseEnds ==
    /\ Alive /\ spc = "supervise" /\ SuperviseOver
    /\ spc' = "done"
    /\ UNCHANGED <<mpc, code, signalled, expired, cpos, down, logsOpen, accepting, serving, early, recVars>>

Supervisor == Notify \/ TakeSignal \/ SuperviseEnds

------------------------------------------------------------------------------
(* shutdownComponents *)

At(c) == Alive /\ cpos \in DOMAIN Order /\ Order[cpos] = c

(* cfg.Close stands for the Oracle and Redis pools, telemetry and the tracer   *)
(* provider; a component that is nil, or was closed before, takes no time.     *)
Down(c) == down' = down \cup {c} /\ cpos' = cpos + 1

FiberCloses ==
    /\ At("fiber") /\ accepting
    /\ accepting' = FALSE
    /\ UNCHANGED <<mpc, code, spc, signalled, expired, cpos, down, logsOpen, serving, early, recVars>>

(* Mutant: the connections are not waited for. *)
Drained_at_once == TRUE

Drained == serving = 0 \/ expired

(* ShutdownWithContext; on a server that does not listen yet it does nothing.  *)
FiberDown ==
    /\ At("fiber") /\ ~accepting /\ Drained
    /\ early' = (mpc = "ready")
    /\ Down("fiber")
    /\ UNCHANGED <<mpc, code, spc, signalled, expired, logsOpen, accepting, serving, recVars>>

ComponentDown(c) ==
    /\ At(c)
    /\ Down(c)
    /\ UNCHANGED <<mpc, code, spc, signalled, expired, logsOpen, accepting, serving, early, recVars>>

(* FlightRecorder.Stop: close stopChan, join the goroutine, signal.Stop, close. *)
RecorderNil ==
    /\ At("recorder") /\ recorder = "none"
    /\ Down("recorder")
    /\ UNCHANGED <<mpc, code, spc, signalled, expired, logsOpen, accepting, serving, early, recVars>>

RecorderStops ==
    /\ At("recorder") /\ recorder # "none" /\ recStop = "before"
    /\ recStop' = "closing"
    /\ UNCHANGED <<mpc, code, spc, signalled, expired, cpos, down, logsOpen, accepting, serving,
                   early, recorder, registered, sigChan>>

RecorderJoined ==
    /\ At("recorder") /\ recStop = "closing" /\ recorder = "gone"
    /\ recStop' = "joined"
    /\ UNCHANGED <<mpc, code, spc, signalled, expired, cpos, down, logsOpen, accepting, serving,
                   early, recorder, registered, sigChan>>

(* Mutant: signal.Stop is left out before the channel is closed. *)
Unregister_omitted == registered' = registered

(* signal.Stop(r.sigChan) *)
Unregister == registered' = FALSE

RecorderUnregisters ==
    /\ At("recorder") /\ recStop = "joined"
    /\ Unregister
    /\ recStop' = "unregistered"
    /\ UNCHANGED <<mpc, code, spc, signalled, expired, cpos, down, logsOpen, accepting, serving,
                   early, recorder, sigChan>>

(* close(r.sigChan) *)
RecorderDown ==
    /\ At("recorder") /\ recStop = "unregistered"
    /\ sigChan' = "closed" /\ recStop' = "over"
    /\ Down("recorder")
    /\ UNCHANGED <<mpc, code, spc, signalled, expired, logsOpen, accepting, serving, early,
                   recorder, registered>>

(* logs.Flush and logs.Close; done <- struct{}{} *)
LogsClose ==
    /\ At("logs")
    /\ logsOpen' = FALSE
    /\ cpos' = cpos + 1
    /\ UNCHANGED <<mpc, code, spc, signalled, expired, down, accepting, serving, early, recVars>>

Teardown ==
    \/ FiberCloses \/ FiberDown
    \/ \E c \in {"pprof", "mem", "pool", "com", "cfg"} : ComponentDown(c)
    \/ RecorderNil \/ RecorderStops \/ RecorderJoined \/ RecorderUnregisters \/ RecorderDown
    \/ LogsClose

------------------------------------------------------------------------------
(* Requests and the recorder's goroutine *)

RequestComes ==
    /\ Alive /\ accepting /\ serving < MaxRequests
    /\ serving' = serving + 1
    /\ UNCHANGED <<mpc, code, spc, signalled, expired, cpos, down, logsOpen, accepting, early, recVars>>

RequestEnds ==
    /\ Alive /\ serving > 0
    /\ serving' = serving - 1
    /\ UNCHANGED <<mpc, code, spc, signalled, expired, cpos, down, logsOpen, accepting, early, recVars>>

(* os/signal drops a signal for which the channel has no room. *)
UserSignal ==
    /\ Alive /\ registered /\ sigChan = "empty"
    /\ sigChan' = "full"
    /\ UNCHANGED <<mpc, code, spc, signalled, expired, cpos, down, logsOpen, accepting, serving,
                   early, recorder, recStop, registered>>

DumpBegins ==
    /\ Alive /\ recorder = "waiting" /\ sigChan = "full"
    /\ sigChan' = "empty" /\ recorder' = "dumping"
    /\ UNCHANGED <<mpc, code, spc, signalled, expired, cpos, down, logsOpen, accepting, serving,
                   early, recStop, registered>>

(* dumpTrace returns, with an error once the recorder has stopped. *)
DumpEnds ==
    /\ Alive /\ recorder = "dumping"
    /\ recorder' = "waiting"
    /\ UNCHANGED <<mpc, code, spc, signalled, expired, cpos, down, logsOpen, accepting, serving,
                   early, recStop, registered, sigChan>>

RecorderLeaves ==
    /\ Alive /\ recorder = "waiting" /\ recStop # "before"
    /\ recorder' = "gone"
    /\ UNCHANGED <<mpc, code, spc, signalled, expired, cpos, down, logsOpen, accepting, serving,
                   early, recStop, registered, sigChan>>

Recorder == DumpBegins \/ DumpEnds \/ RecorderLeaves

ProcessOver == mpc = "exited" /\ UNCHANGED lifeVars

LifeNext ==
    \/ MainStep \/ Supervisor \/ Terminate \/ ShutdownTimeout \/ Teardown
    \/ RequestComes \/ RequestEnds \/ UserSignal \/ Recorder \/ ProcessOver

LifeSpec == LifeInit /\ [][LifeNext]_lifeVars

(* main and the supervisor are scheduled and the timeout fires; of the         *)
(* teardown only its first step is assumed: it may hang in any component.      *)
LifeFairness ==
    WF_lifeVars(Listen \/ ListenReturns \/ MainReturns) /\ WF_lifeVars(Supervisor)
        /\ WF_lifeVars(ShutdownTimeout) /\ WF_lifeVars(FiberCloses)

------------------------------------------------------------------------------
(* Properties *)

(* The clients and pools are closed only when no request is being served, or   *)
(* the time for that is up ("tears down every runtime component in the correct *)
(* order", main.go:111); not so when the signal came before Fiber listened.    *)
DrainedBeforeClose == {"com", "cfg"} \cap down # {} /\ ~early => serving = 0 \/ expired

(* The loggers take entries until every component has been shut down, unless   *)
(* the time for that is up: main closes them when the cleanup is over.         *)
LogsOutliveComponents == ~logsOpen => down = Components \/ expired

(* Once sigChan is closed, os/signal no longer holds it (its next signal would *)
(* panic) and the goroutine that reads it has left (it would dump again and    *)
(* again), wherever in Stop, and in a dump, SIGUSR1 comes (recorder.go:155).   *)
NoSignalOnClosed == sigChan = "closed" => ~registered /\ recorder = "gone"

(* A termination signal that finds the process serving ends it, however long   *)
(* requests, dumps or closing connections hang.                                *)
SignalEndsProcess == (signalled /\ mpc = "listening" /\ ~early) ~> (mpc = "exited")
==============================================================================
