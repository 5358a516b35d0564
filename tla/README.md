# TLA+ models of the rule engine

This directory holds TLA+ models of the parts of `tcg-rulex-engine` whose
correctness depends on order, interleaving and failure, the TLC configurations
that check them on small instances, and TLAPS proofs of the main safety
properties for every value of the constants. `PROJECT.json` lists components,
runs, mutants, hazards and theorems, and maps every definition to its source
lines. All paths below are relative to the repository.

    tlc -config components.cfg MCComponents      # a run
    tlapm KafkaConsumerProofs.tla                # a proof module

## 1. Inventory

| Component | State | Operations | Interacts with | What makes it correct |
|---|---|---|---|---|
| Rule cache and engine (`pkg/engine/cache.go`, `engine.go`) | `sync.Map` of compiled programs, published slice under a RWMutex | Put, PutAll, ReplaceAll, Delete, Rebuild; AddRule, RemoveRule, LoadRules, ReplaceRules, Match, RunBatch | edited by admin requests, boot and the file watcher; read by every scoring request | an edit takes effect as one step; the slice agrees with the map once nobody edits |
| Batch worker pool (`pkg/engine/workerpool.go`) | job channel, shared results, per-worker scratch slice and counters | Run | called by RunBatch with one snapshot | every user gets exactly its rules, Run returns |
| Rule manager and admin API (`pkg/engine/manager.go`, `internal/handler/admin.go`, `internal/infra/manager.go`) | editable rules, published versions under a mutex | Upsert, Remove, List, Publish, Versions, Rollback | calls the engine outside its mutex | editable set and live set agree; what is published compiles |
| Service self-test (`internal/service/rule_service.go`) | none, a reserved rule id | SelfTest | manager and engine | it reports what the sample user shows and leaves nothing behind |
| Scoring handlers and limiter (`internal/handler/scoring.go`, `handler.go`, `pkg/engine/limiter.go`) | semaphore channel | Match, MatchBatch, Evaluate, EvaluateAll | engine snapshot, then the map for names | slots are given back, one rule set per request, names fit ids, every request is answered |
| Latency recorder (`internal/handler/latency.go`) | ring buffer, index, full flag | Record, Percentiles | scoring handlers, /metrics | the window is the most recent observations, ranks are valid |
| Kafka consumer (`pkg/kafka/consumer.go`) | poll loop, partition goroutines, commit channel, commit worker, closing flag | subscribe, run, processPartition, enqueueCommit, commitWithRetry, onPartitionsRevoked, shutdown, Close | broker and client library | at-least-once delivery; offsets do not move back; Close drains and returns; no send on the closed channel |
| File watcher (`pkg/engine/reload.go`) | last modification time | Run, checkOnce | ReplaceRules | what was saved last goes live |
| Process boot (`cmd/api/main.go`, `internal/cli/run.go`) | the order of construction | newApplication, RunServer | all of the above | the manager knows the rules that are live |
| Graceful shutdown (`cmd/api/main.go`) | main, signal and teardown goroutines | gracefulShutdown, shutdownComponents | Fiber, recorder, clients, pools, loggers | drained before closed, logs last, the process ends |
| Flight recorder (`internal/observability/recorder.go`) | signal and stop channels | listenSignal, dumpTrace, Stop | process signals, teardown | no signal is delivered to a closed channel |
| Expression compiler and VM (`pkg/ir`, `pkg/vm`) | the stack of one Eval | Parse, Emit, Optimize, Compile, Eval | engine backends, decision tables | the bytecode computes what the tree means, inside its stack |
| AST interpreter (`pkg/runtime/ast`) | none (pure) | Execute, Explain | service Evaluate, EvaluateAll | it agrees with the VM |
| Rule parsers and front ends (`pkg/parser`, `pkg/engine/frontend_*.go`) | none (pure) | one conversion per rule language | engine | export and import keep the meaning |
| Decision tables (`pkg/dtable`) | none (pure) | Rules | `ir.Emit`, parser | the emitted rule is the row |
| HTTP clients (`internal/client/{uss,mcs,wps}`) | global client, attempt counter | NewClient, Close, doWithRetry, eight methods | remote services | effects are bounded, cancellation is obeyed, values are confirmed |
| Kafka producer (`pkg/kafka/producer.go`, `config.go`) | client buffer, options | InitProducer, SendMessage, SendMessageSync, Close | broker | reported means kept, once; Close drops nothing in time |
| Transactions (`internal/infra/tx.go`) | one transaction | WithTx | database | it ends on every path, and the caller is told the truth |
| Others: routing, middleware, masking, logs, metrics, telemetry, config, models, repositories, redis and oracle set-up, library runtimes, examples, cli demos | data and configuration | | | no protocol of their own |

Hard behaviours: unlocked windows between the map and the slice and between the
engine and the manager's map; a bounded job channel with a blocking producer;
slots shared by single and batch requests; a rebalance while commits are under
way, failed commits that the broker stored, crashes between handling and
committing, and a shutdown from any state of the consumer; retries of requests
whose answers were lost; a timeout racing a commit; a file read in the middle of
a save or saved twice within a clock tick; a revoke callback racing shutdown; a teardown that races main and the signals; and two interpreters of one
rule language. `hazards` in `PROJECT.json` gives the lines and the properties.

## 2. Modules

    RuleSet            what the rule store promises: edits are atomic
      ^ implemented by (one writer)
    RuleCache          cache.go and the engine's edits        <- MCRuleCache, RuleCacheProofs
      ^ extended by
    RuleManager        manager.go, self-test, boot, watcher   <- MCRuleManager, RuleManagerProofs
    Scoring            scoring handlers, limiter, snapshot    <- MCScoring, HandlerProofs
    Evaluation         the explaining requests over RuleCache <- HandlerProofs
    WorkerPool         workerpool.go                          <- MCWorkerPool, WorkerPoolProofs
    LatencyRing        latency.go                             <- HandlerProofs
    KafkaConsumer      consumer.go                            <- KafkaConsumerProofs
    KafkaProducer      producer.go, config.go                 <- OutboundProofs
    HttpClient         uss, mcs and wps clients               <- OutboundProofs
    WithTx             tx.go                                  <- InfraProofs
    Watcher            reload.go
    Lifecycle          cmd/api main, shutdown, recorder       <- InfraProofs
    MCComponents       the parts of the run components
    MCAdminConsumer    rule manager and Kafka consumer: the run single
    MCScoringDelivery  scoring and Kafka consumer: the run flow
    MCContended        manager, consumer and pipeline: the run contended

    RuleValue          values and opcodes (vm/value.go, vm.go, opcode.go)
      ^ extended by
    StackVM            Program.Eval, one instruction a step   <- StackVMProofs
    RuleNode           trees (ir/ast.go); optimizer, compiler, tree walk and
                       reference meaning at one node          <- StackVMProofs
      ^ extended by
    RuleText           SQL text, lexer, parser (ir/)
      ^ extended by
    RuleTree           the same stages over whole trees, Explain
    RuleFrontends      tables, JSON, CEL, Expr, qlbridge; CEL and Expr export
    RulePipeline       front end, compiler and VM composed    <- MCRulePipeline

An operator whose name ends in a suffix such as `Visited_overwrites` is a mutant:
the mutated form of the definition that follows it, used only to show that a
property notices such a bug.

**RuleCache.** `m` is the `sync.Map`, `snapshot` the published slice; `call`,
`pending`, `left` and `progs` are the stack of a goroutine inside an edit.
`AddRule`, `RemoveRule`, `LoadRules`, `ReplaceRules` compile (`compile` skips
disabled and failing rules, as `Engine.compile` does) and start; `MapStep` is one
Store, Delete or Clear; `RangeVisit` one visit of `sync.Map.Range`, which may see
any moment's value of a key; `Swap` sorts and swaps. Compilation is a choice: a
rule text is in `Compilable` or not. `overlap` is a history variable.

**RuleManager** adds the manager's map and versions. A request (`req[a]`) is the
code between two locks: `UpsertBegin` computes the version under the lock, the
engine steps of RuleCache follow, `UpsertCommit` stores under the second lock.
`Rollback`, `Remove`, `Publish` and the self-test are split the same way. A
self-test has a rule text and a sample user; a user is the set of rule texts that
are true of it, and `MatchRow(row)` the live ids whose text is among them, so a rule
the user does not satisfy is reported as not matched.
`NewManager`, `BootLoad`, `BootLoaded` give the two start orders. `solo` and
`inStep` are history variables.

**Scoring** adds requests: `Acquire` (the send on the semaphore's channel),
`TakeSnapshot`, one step per judged user, one name lookup per id, `Release`. It
uses the same `m` and `snapshot`, so edits interleave with all of them. All users
of a request are alike: what matters is which slice each is judged on.

**WorkerPool** is one `Run`: spawn, feed, close, wait, merge, return, against
workers that receive, score with the reused scratch slice, count and exit.

**LatencyRing** is Record and the ranks of Percentiles; the ring's contents are
compared with the history `seen`. Percentages are integers, and the rounding
`int(p*(n-1) + 0.5)` is integer division.

**KafkaConsumer.** One instance is one `ConsumerGrp`. `at[i]` is the poll loop,
`work[i][p]` the goroutine of a partition, `cw[i]` the commit worker, `commitCh`
the bounded channel with batches and flush barriers. `Faults` switches on failed
fetches, failed commits, time-outs and crashes. Records are offsets, a batch is
the partition and the offset one past its last record. The model takes from the
client library only what the code relies on: positions start at the committed
offset, a poll moves them past what it returns, a commit that fails may have been
stored, and a rebalance waits while the loop is between a poll and
`AllowRebalance` (`CanRebalance`). The revoke callback is a goroutine of the
client: `cb[i]` is where it is, and it runs beside the poll loop and shutdown.
`Revoke` is the look at `closing`, `SendBarrier` the send on the channel;
`BeginDrain` may come between them (`SendPanics`). `RevokeWhileClosing` is the
early return, after which the partitions are gone without a flush; the history
`skipped` records it. The client waits for a running callback before it leaves
the group (`ShutdownDone`).

**Evaluation** adds one `/evaluate` or `/evaluate/all` request to RuleCache:
`EvalCheck` is the handler's read of the live map (404), `EvalFetch` the
service's second read (400), `EvalExplain` the answer; `EvaluateAll` reads the
published slice once. Edits interleave as single map steps. `during` records what
the map held for the id since the request came.

**HttpClient** is one call. `CallMethod` picks the method and whether its URL can
be built; `SendRequest`, `AttemptFails`, `AttemptSucceeds`, `Retry`, `RetryTimer`,
`WaitCancelled` and `Decode` are the loop and the method's treatment of the
answer. `Serve` and `ServeLate` are the network: a request whose attempt timed
out is `late` and may still be carried out, an answer may get lost. The three
clients share the loop; where they differ (mcs gives up when the request cannot
be built, three methods look at `success`, GetRegisterIP never fails) the method
decides.

**WithTx** is one call: `FnEnds` is the caller's function (ok, error or panic,
with or without a value), `DeferredPanic`, `DeferredError`, `DeferredCommit` the
three branches of the deferred function. `AwaitDone` is database/sql's own
goroutine, which rolls back when the context is done; `Rollback` and the commit
outcomes say who wins. `db = "lost"` is a transaction whose connection is gone,
which the server rolls back.

**Watcher** has the file as `[content, whole, mtime]`: a save is two writes, each
with the clock's time, which may or may not have advanced since the write before;
a restore brings an old time. `SeesChange` notes the time, `Reload` reads the file
as it is by then. `statted` is the time at the watcher's last look, and `missed`
records that the last change was one the watcher cannot see (`Unseen`).

**Lifecycle** has main, the signal goroutine, the teardown and the recorder's
goroutine as processes; `Order` is `shutdownComponents`, and `cpos` the component
it has come to. Each of pprof, memstats, pool, ComManager and config is one step
that may never happen (a Close that hangs). The recorder's Stop is four steps:
the stop channel, the wait for the listener, `signal.Stop` (`Unregister`), which
alone ends the registration, and the close of the signal channel. `early` records a signal that reached
the teardown before Fiber listened.

**KafkaProducer** turns a configuration into the four facts that decide delivery
(`Acks`, `Idempotent`, `Bounded`, the flush and delivery timeouts) and runs
records through a client and a leader that may lose requests, answers and, once,
the leader with all it has not replicated.

**RuleValue, StackVM.** A value is undef, a number, a text or a boolean, a text a
sequence of character codes, so that prefixes and order are real; number
formatting and parsing are tables (`NumText`, `TextNum`), which contain a
zero-padded numeral and a negative number. `StackVM` executes one instruction a
step on the array `st` with `sp`, with every early return of `Eval` its own
action and exit.

**RuleNode.** What each stage that walks a tree does at one node, given what it
did at the node's children: `Flat`, `Dedup` and `Collapse` (Optimize), `emitNode`
(emit), `evalNode` (eval), and the reference `meaningNode` with `needNode`, the
stack a node needs. Nothing here recurses over trees, so the proofs reach it;
`RuleTree` ties the knots (`emit(n) == emitNode(n, ...emit of the children...)`).

**RuleText, RuleTree, RuleFrontends.** A rule text is a sequence of character
codes. A keyword, operator, bracket or field name is one code (`Words`), with the
blanks around it; quotes, backslashes, digits and what is between quotes are
themselves. So `sqlVal` puts a text between quotes as it is, and `lexString` ends
at the first quote of its kind and takes the character after a backslash, as the
code does. An exported CEL or Expr text is a sequence of tests, parentheses,
negations and the operators between them; `readExpr` reads it back by precedence,
so the parentheses of `wrapCode` matter, and `quote` and `literal` write and read
the escapes.
`emit`, `Optimize`, `eval`, `Explain` and `celToIR`, `exprToIR`, `qlToIR`,
`jsonToIR`, `condToIR` follow their functions case by case, with the rejections
each makes. `Meaning` is the reference: the VM's treatment of missing fields,
stated over the tree. The engine's own JSON and qlbridge front ends repeat the
parser packages' code line by line and are the same operators.

**RulePipeline** compiles one document of any front end, or takes bytecode nobody
compiled, and runs the VM.

## 3. Runs

| Run | Instance | Shows |
|---|---|---|
| `components` | one of eight components runs in each behaviour, with the bounds below | rules: RuleCache implements RuleSet (`ImplementsRuleSet`), `AnswerWasTrue`; pool: `ResultsComplete`, `Terminates`; ring: `WindowIsRecent`; http: `AppliedWithinRetries`, `OutcomeIsTrue`, `StopsSending`, `CallReturns`; tx: `ToldTheTruth`, `TransactionEnds`; watcher: `SavedGoesLive`; process: `DrainedBeforeClose`, `LogsOutliveComponents`, `NoSignalOnClosed`, `SignalEndsProcess`; producer: `DeliveredOnce`, `CloseDropsNothing`, `HardBoundReports` |
| `single` | manager: CLI boot, one admin, three ids, five edits, two versions | `EditableIsLive`, `SelfTestsSucceed` |
| | consumer: one instance, two partitions, one worker slot, failed fetches, failed and retried commits, a close | `CloseCommitsEnqueued`, `CloseReturns` |
| `contended` | manager: CLI boot, two admins, watcher, two ids, four edits | `InStepEditableIsLive`, `PublishedRulesCompile`, `SoloEditPublishesMap` |
| | consumer: two instances, crashes, failed commits, time-outs, a close | `CommittedWasHandled`, `WorkersLeaveBeforeClose` |
| | pipeline: rules of all six front ends over two fields, every row of six by four values, a stack of four | `MachineTypeOK`, `CompiledMeaning`, `TreeWalkAgrees`, `SQLReadsBack`, `ExportKeepsMeaning` |
| `flow` | scoring: three requests, two slots, batches of two, one edit | `JudgedBound`, `OneRuleSetPerRequest`, `NamesComplete`, `RequestsAnswered` |
| | consumer: two instances, one partition, three records, two revokes each, no faults | `HandledOnce`, `CommitsNeverRewind`, `AllCommitted` |
| `cache_lost_edit` | two writers, two edits | **violation** of `EditsTakeEffect` |
| `manager_api_boot` | api boot, one admin | **violation** of `EditableIsLive` |
| `scoring_cap` | two requests, two slots, batches of two | **violation** of `JudgedWithinCap` |
| `kafka_lost_fetch` | one instance, two partitions, failed fetches | **violation** of `CommittedWasHandled` |
| `kafka_send_closed` | one instance, one partition and record, closed at any moment, no faults | **violation** of `NoSendAfterClose` |
| `explain` | the SQL rules of the pipeline | **violation** of `ExplainMatchesMatch` |
| `dedup_quotes` | one rule of two IN lists, a text with quotes and a comma in one of them | **violation** of `RewritesKeepMeaning` |
| `watcher_older_file` | two contents, two saves or restores | **violation** of `TimeChangeReloads` |

The parts of a passing run share no state, so their product would add nothing: a
variable (`which`, `part`) picks the one that runs, and the others stay in their
initial states. `single`, `contended` and `flow` differ in what may happen at
once: one editor and one consumer that fails and is closed; several of each, with
crashes; and undisturbed service, where requests and records must get through.
`contended` identifies states that differ only in history variables which no step
and no invariant of that run reads (`ContendedView`).

Bounds. `MaxOps` bounds the edits: two suffice for every pair to overlap, and
two to four allow a rule to be added, changed, disabled and removed or replaced.
Seven users against two workers and a channel of four make the producer block
and every worker reuse its slice after longer and shorter matches. Three
requests on two slots make one wait. Nine observations wrap a ring of four twice.
Three records with batches of two give a full and a partial batch, a channel of
one or two fills, and two revokes hand the partition there and back.
`MaxStarts`, `MaxRevokes` and `MaxVersions` only bound the state space.
`AdminSymmetry` is used in a run of invariants only. The inputs include a
disabled rule, one that does not compile, a list with an id twice and a pinned
version, because the code treats each differently. An outbound call has the
code's three attempts. Three saves or restores of three contents allow a save
that is seen half done, a second one during the reload or within the same tick of
the clock, and a restore afterwards. The self-tests have a user the rule matches,
one it does not match, and a rule that does not compile.
Two requests at once are enough for one to be served while Fiber drains. Two
records of two tries each allow a lost answer, a repeat and a lost leader; the
configurations cover idempotence with and without the hard bound, each acks
level, a flush timeout that is too short, a half TLS key pair and SASL. The pipeline
takes every kind of leaf, nested AND, OR and NOT, duplicates and same-operator
nesting for the optimizer, texts with either quote and with backslashes, strings
that do not end, and trees that need more than the four stack slots; the real
stack has 256.

Fairness. Goroutines are scheduled: weak fairness of each (`Fairness`,
`Scheduled`), and of each request that holds a slot. A Go channel serves blocked
senders in the order they came, so `Acquire` is strongly fair. A commit attempt
returns within its timeout. `Delivered` (only for `AllCommitted`) says that the
group assigns each partition to some instance and that the broker delivers the
records it keeps being asked for. `HttpFairness`: the calling goroutine runs and its timers fire; the service
need not answer. `TxFairness`: fn returns, database/sql's goroutine and the
server run. `WatchFairness`: the ticker fires and a save that began ends; reads
may fail every time. `LifeFairness`: main and the supervisor run, the shutdown
timeout fires and Fiber stops accepting; no component's Close is assumed to
return. `ProdFairness`: delivery timeouts pass and the client acts on them.

## 4. Findings

* `cache_lost_edit`: `Rebuild` reads the map and swaps the slice without one lock
  over both. Of two overlapping edits the older collection can be swapped in
  last, and an edit that has returned is not matched until the next one.
* `manager_api_boot`: `cmd/api` constructs the manager over the empty engine and
  loads the rules afterwards; List is empty, a published version is empty, and a
  rollback to it removes the loaded rules.
* `scoring_cap`: a batch request takes one slot and starts up to the cap workers,
  so more users are judged at once than the 200 of docs/roadmap.md:40 and
  limiter.go:5. What does hold is `JudgedBound`, the square of the cap.
* `kafka_send_closed`: the revoke callback checks `closing` (consumer.go:413) and
  sends its barrier later (419); shutdown sets the flag and closes the channel
  (445-446) without waiting for it, and the send panics.
* `dedup_quotes`: the optimizer's dedup compares SQL texts, in which quotes are
  not escaped. `g IN ('a', 'b') AND g IN ('a\', \'b')` loses its second operand.
* `watcher_older_file`: a file moved into place with an older modification time
  is never loaded, although reload.go:9 promises a reload "whenever the file's
  modification time changes".
* `kafka_lost_fetch`: a poll with an error in one partition is dropped whole; the
  records of the other partitions are skipped, and the next commit of theirs
  covers them.
* `explain`: Explain and the tree walk read a missing field as the empty text and
  do not know `==`; the VM makes every test of a missing field false and takes
  `==` for `=`. `a != 5`, `a NOT IN (5)` or `a LIKE '%'` on a row without `a`
  passes or fails differently in the explanation and in the match.

The hypotheses of the other properties mark what the code does not keep. With
two writers `ImplementsRuleSet` fails: ReplaceAll clears the map, and another
edit's Rebuild publishes the gap. With two admins `SelfTestsSucceed` fails, as
two self-tests share the reserved id; two upserts may compute one version; and
`EditableIsLive` fails for good when two upserts of one rule reach the engine,
which is edited outside the manager's lock, in one order and the editable map in
the other.
With removals `NamesComplete` fails. `CommitsNeverRewind` and
`CloseCommitsEnqueued` except what follows once a partition was taken from a
closing instance: a callback that finds `closing` set returns at once, and the
partition goes to another instance while its offsets are still queued, although
consumer.go:408 says they are persisted before reassignment. The model lets the
broker take such a late commit.
`CloseCommitsEnqueued` excludes batches dropped because the context was
cancelled: `select` in `enqueueCommit` may take that branch although the channel
has room, so a clean Close can leave handled records uncommitted.
`SavedGoesLive` excepts the changes the watcher does not see: a file whose time is
older than the last one noted; a save that ends within the clock tick whose time
was noted, after its half was read, since `!ModTime().After(last)` (reload.go:66)
takes an equal time for no change; a save between the load at boot and the
watcher's first Stat; and a read that fails once. `DrainedBeforeClose` and
`SignalEndsProcess` except a signal that arrives between gracefulShutdown and
Listen: it shuts down a Fiber that does not listen yet, and main then serves with
closed components. `AnswerWasTrue` shows what `/evaluate` can promise while
ReplaceAll refills the map: a rule in every list may be answered with 404.
`TreeWalkAgrees` needs rows with every field of the rule and numerals as
FormatFloat writes them (`f = 05` is a number to both and a different text to
the tree walk's IN). It and `CompiledMeaning` leave out rules with a quote inside a
text, for which `dedup_quotes` shows the optimizer to go wrong. `SQLReadsBack`
excepts negative numbers and empty IN lists (a JSON rule or a table row with one
is valid, and its SQL text is rejected) and texts with a quote or a backslash,
which the emitter writes as they are and the lexer takes for the end of the string
or an escape. `ExportKeepsMeaning` excepts texts with a backslash, which `quote`
does not escape; it lets the importer reject (Expr rejects the infix contains it
is given) and needs numbers under BETWEEN. `CloseDropsNothing` and
`HardBoundReports` hold for the configurations they name: without
`hard_delivery_bound` an idempotent record in flight has no bound, and its sender
may wait for ever. The global `required_acks` setting is read by nothing.

## 5. Proofs

Every theorem holds for every value of the constants that the named ASSUMEs of
the modules allow; the last column gives what a theorem needs beyond them.

| Theorem | Statement | Needs |
|---|---|---|
| `RuleCacheProofs!SoloEditCorrect`, `SliceAlwaysSorted` | `Spec => []` `SoloEditPublishesMap`, `SliceSorted` | |
| `RuleCacheProofs!SerialEditsAreAtomic` | `Spec /\ []~overlap => ImplementsRuleSet` | edits that do not overlap, by any number of writers |
| `RuleCacheProofs!OneWriterIsAtomic` | `Spec => ImplementsRuleSet` | one writer |
| `RuleManagerProofs!VersionsAlwaysCompile`, `ManagedSoloEditCorrect`, `InStepIsLive` | `MgrSpec => []` `PublishedRulesCompile`, `SoloEditPublishesMap`, `InStepEditableIsLive` | |
| `RuleManagerProofs!SoleEditorIsLive` | `MgrSpec => []EditableIsLive` | `SoleEditor`: the CLI's boot, no watched file, at most one admin |
| `RuleManagerProofs!SoleSelfTestsSucceed` | `MgrSpec => []SelfTestsSucceed` | `SoleEditor`, and `IdReserved`: nobody else uses the self-test's id |
| `HandlerProofs!EvaluateToldTheTruth` | `EvalSpec => []AnswerWasTrue` | |
| `HandlerProofs!BatchSeesOneRuleSet`, `FanOutIsBounded` | `ScoreSpec => []` `OneRuleSetPerRequest`, `JudgedBound` | |
| `HandlerProofs!AddedRulesHaveNames` | `ScoreSpec => []NamesComplete` | rules are added, never removed or replaced |
| `HandlerProofs!RingTypes`, `RingWindow`, `RingRanks` | `RingSpec => []` `RingTypeOK`, `WindowIsRecent`, `RanksOrdered` | |
| `WorkerPoolProofs!PoolTypes`, `PoolSlots`, `PoolResults` | `PoolSpec => []` `PoolTypeOK`, `SlotsExclusive`, `ResultsComplete` | |
| `KafkaConsumerProofs!NoWorkerAtClosedChannel` | `KSpec => []WorkersLeaveBeforeClose` | |
| `KafkaConsumerProofs!AtLeastOnce` | `KSpec => []CommittedWasHandled` | `"fetch" \notin Faults` |
| `KafkaConsumerProofs!OrderedCommits`, `ClosedIsCommitted` | `KSpec =>` `CommitsNeverRewind`, `[]CloseCommitsEnqueued` | `"timeout" \notin Faults` |
| `KafkaConsumerProofs!DeliveredToOne` | `KSpec => []HandledOnce` | `NothingFails`: no failed commit, time-out, crash or close; lost fetches are allowed |
| `OutboundProofs!DeliveredExactlyOnce`, `FlushCoversDelivery` | `ProdSpec => []` `DeliveredOnce`, `CloseDropsNothing` | |
| `OutboundProofs!RetriesBoundEffects`, `OutcomesAreTrue`, `NothingNeedlessSent` | `HttpSpec =>` `[]AppliedWithinRetries`, `[]OutcomeIsTrue`, `StopsSending` | |
| `InfraProofs!CallerIsToldTheTruth` | `TxSpec => []ToldTheTruth` | |
| `InfraProofs!ServerDrainsFirst`, `LogsCloseLast`, `SignalsNeverPanic` | `LifeSpec => []` `DrainedBeforeClose`, `LogsOutliveComponents`, `NoSignalOnClosed` | |
| `StackVMProofs!StackInBounds` | `VMSpec => []MachineTypeOK` | any bytecode over the opcodes and unknown ones, any row |
| `StackVMProofs!CompiledCodeMeans` | `Load(C[n], r) /\ [][VMStep]_vmVars => []Returns(M[n], D[n])` | any tree `n` the compiler accepts, any row `r` |
| `StackVMProofs!OptimizedCodeMeans` | `Load(C[O[n]], r) /\ [][VMStep]_vmVars => []Returns(M[n], D[n])` | any tree without an empty AND or OR; equal dedup keys mean equal meanings |
| `StackVMProofs!TreeWalkAgreesWithCode` | `Load(C[O[n]], r) /\ [][VMStep]_vmVars => [](exit = "value" => result = W[n])` | the same, and at every leaf `Plain`: the row has the field, a compared numeral is canonical, no `==`, numeric BETWEEN bounds |

Assumptions on constants. Numbers are natural and positive where the code
requires it (`NAssumption`, `CapAssumption`, `KafkaNumbers` and so on). The rest say what Go's type checker says
(rules and programs are records of their fields, lists are sequences of rules,
rule texts are strings: `InputsAssumption`, `StartAssumption`, `TextAssumption`),
or that the markers of the model are no values of the program (`None`, `NoCall`,
`NoReq`, and `ErrorAssumption`: a failed conversion is no number), that a numeral
denotes a number (`NumeralsAssumption`), or that main, the watcher and the admins are different goroutines
(`WritersAssumption`). TLC evaluates all of them in the runs.

*RuleCache.* The property of `SoloEditCorrect` mentions only finished edits, so
`SoloInv` says what an edit on its own has done half-way: before its last map
step its walk has not begun, and afterwards it has collected exactly the visited
part of the map; without overlap at most one goroutine is inside an edit, so
nobody changes the map under the walk. At the swap nothing is left to visit, and
what is swapped in is the sorted map. The refinement maps the abstract rule set
to the published slice: beginning an operation is the abstract invocation, `Swap`
the abstract effect, and every other step stutters. The invariant adds
`Faithful`: what the writer still has to do to the map ends in the abstract
operation's effect on the published set. Existence and uniqueness of
`Sorted` are lemmas on strict orders over finite sets: without them a CHOOSE
says nothing. `SliceAlwaysSorted` needs neither one writer nor the absence of
overlap: entries of one walk have different ids.

*RuleManager.* `MgrInv` types the requests and relates each goroutine's request
to the engine call it is inside; with it `PublishedRulesCompile` needs that an
enabled editable rule compiles, because Upsert stores only after the engine took
the rule, and Rollback restores what was published. `StepInv` adds `InStepInv`:
while `inStep` holds and one request is inside its edit, the editable map and
the live map differ by exactly that edit. `AdminSteps` classifies all request
steps into those that start an edit, finish one, or publish, so that the
preservation proof has three cases and not fourteen. `SoleInv` shows that with one
admin behind the CLI's server `inStep` never ends. `TestInv` follows the
self-test: between its add and its removal the reserved rule is live and in no
published version, and a report that its rule was matched says exactly that the
sample user satisfies it.

*Scoring, Evaluation.* `OneRuleSetPerRequest` rests on the snapshot a request
keeps. `JudgedBound` counts: requests that hold slots are no more than the cap,
each judges at most the cap at once, so the judged users are a subset of the
product of the two sets, whose cardinality is at most the cap squared.
`AddedRulesHaveNames` follows an id from the map to the slice, the snapshot and
the answer: each holds only ids that the map holds, and the map only grows.

*WorkerPool.* `PoolInv` says that the channel holds the indices
`Taken .. next-1` in order (`JobsInv`); that each index below `Taken` is either
in one worker's hands with its slot empty or has its slot filled with exactly
`Matches` (`SlotsInv`); and that an exited worker saw the channel closed and
empty (`PhaseInv`). When all have exited no index is in anyone's hands.
`MatchIntoFresh` says the reused slice starts empty. `PoolTypeOK` and
`SlotsExclusive` (no two workers hold one index) are conjuncts of the argument
that the theorems state on their own.

*LatencyRing.* The window property is inductive together with the relation
between `full`, `idx` and the number of observations; the step splits on the
wrap.

*KafkaConsumer.* Three invariants, each on top of the one before.
`KInv` says, besides types: each partition's offsets below the start of a
goroutine's open batch, below each batch in the channel, in the worker's hands
and committed at the broker are handled; positions never run ahead of what is
handled except by the records a goroutine is working on; and once `closing` is
set no partition goroutine is running. Of the revoke callback, which shutdown does
not wait for, it says nothing of the kind: that is the finding `kafka_send_closed`. The hypothesis on
`"fetch"` is needed exactly there: a dropped poll moves the position past
unhandled records, which is the finding above. Crashes, stored failed commits,
time-outs, and rewinds by late commits all keep `KInv`.
`OrderInv` says that only the owner of a partition has batches of it (`HeldOK`)
and that they climb from the committed offset through the worker's hands and the
channel to the open batch; that the barrier of a flush is the last task in the
channel, so that both are empty when it was reached (`FlushOK`); and that what an
instance handled and has not given up is committed or in one of those places
(`CoveredOK`). A commit is then always the oldest offset of the only owner.
A time-out breaks `HeldOK`: it hands the partition over with batches left. So does
a callback that returns early from a closing instance, which is why both
properties except `skipped`.
`OnceInv` adds that every handled record is below the committed offset or below
what the present owner handled; a handover makes the two the same.

*KafkaProducer.* `ProdInv` says which states of a record imply that it is in the
log or on every replica: under acks=all an acknowledged record is in `safe`, so
the loss of the leader keeps it; a record that was never requested is not in the
log; and with idempotence no log holds a record twice. `FlushCoversDelivery` uses
only that the default flush timeout exceeds the delivery timeout.

*HttpClient.* `HttpInv` counts: requests carried out, late or under way never
exceed the attempts made (`Counted`); a call that waits has attempts left and no
confirmed answer (`Waiting`); and a returned call's outcome fits its answer
(`Judged`). The action property follows from these (`WhoSends`): an attempt is
only sent with a live context and from a state without a confirmed answer.

*WithTx.* `TxInv` relates the program counter, sql.Tx's own flag and the
database: before the deferred function the transaction is open, or ended by the
context and not committed; only a successful commit leaves it committed without
an error. The property alone says nothing of the states before the return.

*Lifecycle.* `LifeInv` says that how far the teardown has come determines which
components are down (`DownSoFar`); that once Fiber is down, unless it was shut
down before it listened, no request enters and none is being served or the
context has expired (`NoNewRequests`); that the loggers close after all of them
or after that expiry; and how far Stop has come (`StopInOrder`): the listener is
gone before `signal.Stop`, and `signal.Stop` has ended the registration before the
channel is closed.

*StackVM.* The type invariant is inductive by itself, given that the code stays
what it was; the proof has one step per exit and per kind of instruction.

*Compiler, optimizer and tree walk.* `CompiledMeaning` and `TreeWalkAgrees` are
about recursive operators, which the prover does not see. The theorems state them
for functions instead. `T` is any set of trees closed under children with a height
(`IsForest`); on it `C` satisfies emit's equation at every node (`Emits`), `M` that
of the reference (`Means`), `D` that of the stack need, `W` that of the tree walk
and `O` that of the optimizer. On the set of all finite trees `emit`, `Meaning`,
`Need`, `eval` and `Optimize` of RuleTree are such functions, by their definitions.
The argument has four layers.

1. `Runs(c, a, b, d, r)`: code `c` turns stack `a` into stack `b` on row `r` and
   never has more than `d` values on it. It is closed under sequencing (`RunsSeq`)
   and under values below (`RunsFrame`), as the code of a rule is put together.
2. `FollowsInv`: a machine whose code has such an outline is where the outline
   says. It is inductive (`FollowsStep`): no exit but the regular one and, beyond
   `stackMax`, the overflow can be reached.
3. The code of every node runs from the empty stack to the one boolean that is the
   node's meaning, within its need (`LeafRuns`, `NotRuns`, `ChainRuns`), and so does
   that of every tree (`CodeRuns`).
4. Flattening, dedup and collapse keep meaning and need (`FlatKeeps`, `DedupKeeps`,
   `OptimizeKeeps`); the tree walk computes the meaning (`TreeWalks`).

The prover has no induction rule for data. Where one is needed, over the height of
trees or the length of argument lists, it is a least counterexample in a set of
naturals (`LeastElement`, from it `CountUp` and `ClimbUp`); `Iterates` shows that
the recursive functions in `Chain`, `Flat` and `Dedup` exist. That equal dedup keys
mean the same (`KeysTell`) is a hypothesis: the keys are SQL texts, and that a text
determines its tree is what `SQLReadsBack` checks for texts without quotes and
backslashes; with quotes it fails (`dedup_quotes`). An empty AND or OR is left out of
the optimizer's theorems: the compiler rejects one, and its need is not defined.

Only model-checked: liveness (`Terminates`, `RequestsAnswered`, `CloseReturns`,
`AllCommitted`, `CallReturns`, `TransactionEnds`, `SavedGoesLive`,
`SignalEndsProcess`, `HardBoundReports`), which is out of the prover's reach;
`SQLReadsBack` and `ExportKeepsMeaning`, whose parsers and printers are recursive
operators; and the front ends. All other invariants and action
properties of the runs are proved, the two of RulePipeline above in the form given.

## 6. Plan

Done: all modules of section 2 with the runs of section 3 and the proofs of
section 5. Left, in this order:

1. What the consumer still guarantees when waits time out: how far a commit may
   rewind.
2. Safety lemmas for the liveness properties (which step can always be taken).
3. `SQLReadsBack` as a theorem: the parser as a function on token lists, and with
   it the premise `KeysTell`.
4. The Aviator export of `ir/emit.go`, for which the repository has no importer to
   read it back with.

## 7. Hazards only partly covered

A revoke whose flush timed out lets a late commit of the old owner move the
offset back; the code accepts the duplicates, and `CommittedWasHandled` shows that
nothing is lost. The changes the watcher misses and the signal before
Listen are excepted as section 4 says.

## 8. Not modelled

Routing, middleware, masking, logging, metrics and telemetry keep no state the
rest reads. Configuration (the consumer's topic and group merge included), models,
repositories, redis and oracle set-up are data and client construction. The CEL,
Expr and qlbridge runtimes hand the text to evaluators that are not in this
repository. The generated API docs, the web console, the CLI's demos and
benchmarks print. Float formatting and the overflow of literals are outside the
models, and so is how blanks and words are split. The request and answer fields of the HTTP clients, and the
typed HTTP errors of wps, are data only.
