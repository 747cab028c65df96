# TLA+ models of the main process

This directory holds TLA+ specifications of three parts of the repository whose
difficulty is in the order of events:

* **orchestration**: the main-process code that lets one *coordinator* hand out a
  graph of tasks to agents in terminals, hear from them by mail, and survive what
  goes wrong in between;
* **terminal history**: how the output of a terminal in the daemon gets to disk
  and is restored after a crash of either process;
* **remote runtimes**: the queue of calls to another machine and the one socket
  that they share with all subscriptions.

The models are checked with TLC on small instances, and every safety property that
a run checks is proved with TLAPS for every size; only liveness is left to TLC.

Paths below are relative to the repository root. The short names are:
`db.ts`, `coordinator.ts`, `types.ts`, `preamble.ts` in
`src/main/runtime/orchestration/`, `orchestration.ts` and
`orchestration-gates.ts` in `src/main/runtime/rpc/methods/`, `orca-runtime.ts`
in `src/main/runtime/`; `session.ts`, `terminal-host.ts`,
`daemon-pty-adapter.ts`, `history-manager.ts`, `history-reader.ts`,
`terminal-history-log.ts` in `src/main/daemon/`; `runtime-rpc-call-queue.ts` and
`remote-runtime-shared-control-*.ts` in `src/shared/`.

## 1. The system

The application is an Electron program that runs many coding agents in
terminals side by side, locally, in a daemon, over SSH, and paired with a mobile
client. The parts, the state they keep and the way they meet:

| Component | State | Operations | Meets |
|---|---|---|---|
| **Orchestration store** (`db.ts`, `types.ts`) | SQLite tables tasks, dispatch_contexts, decision_gates, messages, coordinator_runs | synchronous methods, one or several autocommitted statements each | called by the loop, the RPC methods and the terminal runtime |
| **Coordinator loop** (`coordinator.ts`) | `CoordinatorState`, `stopped`, the locals of a tick | `tick`: messages, escalations, gates, dispatch, convergence, with an await at every terminal call and a sleep between ticks | reads and writes the store, calls terminals |
| **Orchestration RPC** (`orchestration.ts`, `orchestration-gates.ts`) | `activeCoordinator` | task, dispatch, gate, message, run, stop and reset methods; `check --wait` and `ask` block | any number of clients (people, agents, scripts) at any time |
| **Terminal runtime** (`orca-runtime.ts`) | leaves, PTY records, handles, message waiters, renderer graph | PTY data and exit, `sendTerminal`, `listTerminals`, `createTerminal`, `deliverPendingMessages`, `waitForMessage` | pushes mail, fails dispatches of terminals that exit |
| **Terminal daemon** (`session.ts`, `terminal-host.ts`, ...) | sessions, attached clients, output not taken yet | create, attach, write, kill, take, adopt or replace an older daemon | a process of its own behind a socket; outlives the main process |
| **Terminal history** (`daemon-pty-adapter.ts`, `history-manager.ts`, `history-reader.ts`, `terminal-history-log.ts`) | active and dirty sessions, writers; meta.json, checkpoint.json, output.log | spawn, checkpoint pass, sleep, close, quit, launch, cold restore | takes output from the daemon, writes files that only the next process reads |
| Runtime RPC server (`runtime-rpc.ts`, `rpc/`) | connections, limits, device tokens | request, stream, abort | carries all methods above |
| **Runtime RPC call queue** (`runtime-rpc-call-queue.ts`) | two lines of calls, two counters | enqueue, pump, the finally of a call | in front of every call to a remote runtime |
| **Remote shared control** (`remote-runtime-shared-control-*.ts`) | one socket, pending requests, subscriptions, reconnect and stability timers | open, request, subscribe, unsubscribe, reconnect, close | client side of the RPC server |
| Relay and SSH (`src/relay/`, `src/main/ssh/`) | framed channel with sequence and acknowledgement numbers, PTYs in their grace period | dispatch, notify, reattach, port forwarding | a program on the remote host and its client |
| Automations (`src/main/automations/`) | schedules, runs | due, claim, dispatch, retry | starts agents |
| The rest | | settings file, updater, accounts, rate limits, git, hosting APIs, browser, renderer, CLI, mobile | mostly I/O |

All code of the main process runs on one JavaScript thread. Interleaving
happens at awaits, timers and callbacks only; that is also how the models cut
it. `PROJECT.json` lists every component with the reason why the ones that are
not modelled are not.

### What is hard about it

* Several sources act on one table: the loop, other clients through RPC, the
  exit of a terminal, the failure of a write that was awaited.
* The loop decides before an await and acts after it: snapshots of ready tasks,
  free slots, a terminal list, a dispatch context.
* Messages are matched by task and may be late: the attempt they speak of may
  be over, re-assigned or completed.
* Failures are counted in three places, and the count opens a circuit breaker.
* A dispatch is a lock on a terminal that someone has to give back.
* Gates block a task; their resolution and the loop's re-blocking race.
* The rows of a run survive the process and a reset; loops do not survive the
  first and do survive the second.
* Mail is pushed in two steps, half a second apart, and also pulled by clients
  that block, time out and disconnect.
* A checkpoint is four steps in two processes (take, decide, rename, reset), each
  followed by an await, and a crash of either process may come between any two.
* One session id lives several times; events and files of an earlier life are
  still there when the next one starts.
* A socket is replaced under requests and subscriptions that are waiting, sent,
  half cancelled, or have not been named by the server yet.

The full list, with the line where each hazard bites and the property that
would catch it, is `hazards` in `PROJECT.json`.

## 2. The modules

```
 TerminalLease  <---- implemented by ----  TaskStore  ----> TaskStoreProofs
                                              ^
                                              | EXTENDS
 WorkPlan       <---- implemented by ----  Orchestration  ----> OrchestrationProofs
                                       (loop, workers, exits,         ^
                                        operator)                     |
                                                           OrchestrationPlanProofs

 CoordinatorRuns ----> CoordinatorRunsProofs
 MessageDelivery ----> MessageDeliveryProofs

 TerminalHistory  ----> TerminalHistoryProofs
 (daemon, adapter and disk of one session)

 RemoteCalls <-- RpcCallQueue  ----> RpcCallQueueProofs <--.
      ^               ^                                    |
      |               | EXTENDS                            |
 SharedControl <-- RemoteRuntime ----> RemoteRuntimeProofs'
```

The `MC` modules only give the constants their values.

### TaskStore (db.ts)

One variable per column that matters: `taskStatus`, `taskDeps`, `dispStatus`,
`dispTask`, `dispHandle`, `dispFails`, `gateStatus`, `gateTask`. A row goes
through "none" (not inserted yet), the statuses of the code, and "deleted".
Every public method is one action (`CreateTask`, `CompleteTask` and
`SetTaskStatus` for `updateTaskStatus`, `CreateDispatchContext`,
`FailDispatch`, `CreateGate`, `ResolveGate`, `TimeoutGate`, `ResetTasks`) with
the statements the method executes, nested ones included: completing a task
promotes its children and closes its active context, failing a context goes
back over its task, creating a gate closes the context of the task it blocks.
Where the code does not look at a status before it writes, neither does the
action. Dispatch ids are numbers because the code compares the insertion order
of contexts ("the newest").

`StoreNext` lets anybody call anything at any time. That is the contract of the
store: its callers are RPC methods, with arguments that come from clients.

**TerminalLease** is what the table of contexts promises about terminals: a
terminal is leased to one dispatch at a time, a dispatch gets at most one lease
in its life, and leases that ended never come back. `LeaseImplemented` states
the refinement: `held` are the terminals of active contexts, `spent` all contexts
ever inserted.

### Orchestration (coordinator.ts, the RPC methods, orca-runtime.ts)

Extends the store with one run: the loop's program counter and locals, the
coordinator's mail, the terminals, what workers were told and have sent, and the
writes in flight.

| Place `pc` | Code |
|---|---|
| `sleep` | the poll interval in `executeLoop`; `Wake`, `StopSeen` |
| `messages` | `processMessages`, one message a step, then `processDecisionGates` |
| `plan` | `dispatchReadyTasks` up to its first await |
| `listing`, `creating` | awaiting `listTerminals`, `createTerminal` |
| `assign` | the loop over ready tasks and terminals |
| `probing` | awaiting `probeWorktreeDrift` (only with a worktree) |
| `commit` | `createDispatchContext`, or its error |
| `sending` | awaiting `sendTerminal`; `SendOk`, or the catch in `SendError` |
| `converge` | `checkConvergence`; `CheckConvergence`, or `Converge` |
| `finished` | the run has its final status |

In `Turn` the loop holds the thread and nobody else moves; everybody else acts
only while it waits (`Elsewhere`). Others are the workers (`SendDone`,
`SendForeignDone`, `SendEscalation`, `SendGate`), the exit of a terminal
(`Exit`, i.e. `failActiveDispatchOnExit`) and the operator (`GateResolve`,
`GateCreate`, `TaskUpdate`, `TaskCreate`, `DispatchRpc` with `DispatchSent`,
`RunStop`). Workers are programs outside of the repository: they may do what the
preamble tells them to do, at any time after they were told, as long as their
terminal lives, and each message once per dispatch. `May` selects which of the
optional behaviours a run has.

**WorkPlan** is what a run promises about the graph: dependencies first, one
attempt at a time, no more than the limit of concurrent tasks, at most three
attempts, and what is done or given up stays so. `PlanImplemented` states the
refinement. It is about runs without operator calls that write tasks; gates and
RPC dispatches re-open and block tasks on purpose.

### CoordinatorRuns (orchestration-gates.ts, coordinator.ts, db.ts)

Rows of `coordinator_runs`, the loops in the background, the module-level
`activeCoordinator` and the set of statuses that occur in the tasks table, over
many runs: `Run`, `RunStop`, `Tick`, `Wake`, `TaskCreate`, `TasksSettle`,
`Reset`, `Crash`. The final status, and the `finally` that gives up the
reference only if it still points to this loop, are in `End`; anything in a tick may
throw, which ends the loop with the status "failed" (`Throw`). Orchestration leaves
such a throw out: it would end the run where it is. A crash ends every
loop and forgets the reference; rows stay. A reset deletes rows; loops stay.

### MessageDelivery (orchestration.ts, orca-runtime.ts, db.ts)

One mailbox: rows with `read` and `delivered`, the terminal with its agent's
status, the timers between the write of a push and its Enter, and the clients
that block in `check --wait` or `ask`. `DeliverPending` is
`deliverPendingMessages`, with a refused write among its outcomes; `Notify` is
`notifyMessageArrived`; `ReadAndReturn` is `readAndReturn`. A woken waiter
resumes as a microtask, before any other event (`Quiet`). An `ask` ends with
`EndAsk`: it looks for the oldest reply of its thread, read or not, and marks it.
`pushes` counts what the terminal was given, and `returned` lists for each row the
calls that returned it, checks and asks alike; the properties are about them, the
code does not keep them. A `Filter` is a set of types. The empty one (`--types ','`)
is among them: the query then takes it for no filter, while the waiter lets no type
pass.

### TerminalHistory (daemon and adapter)

One session id and everything that records its output. *Records* (output, a
resize, a clear) are numbered over all lives of the session; a snapshot of the
headless terminal stands for the records of one life up to a number, so what a
restore shows is a sequence of pieces `[life, lo, hi]`, and the properties can say
whether something is shown twice or missing.

| Part | Variables | Actions |
|---|---|---|
| daemon | `life`, `alive`, `ending`, `first`, `made`, `pending`, `overflow`, `seq` | `Output`, `SessionExit`, `CreateOrAttach`, `TakePending` |
| between them | `exits`: exit events on their way | `ExitEvent` |
| adapter | `spawn`, `active`, `dirty`, `needFull`, `cached`, `killed`, `writer`, `disabled` | `SpawnStart`, `SpawnDone`, `AckColdRestore`, `MarkSessionDirty`, `Shutdown` |
| a pass | `pass` with its place and what it took | `Tick`, `Quit`, `Persist`, `WriteHeader`, `AppendBatch`, `RenameTmp`, `ResetLog`, `WriteFails` |
| disk | `meta`, `ckpt`, `log` | read by `Restored`, which is `detectColdRestore` |
| faults | `faults` | `LoseTake`, `MainCrash`, `DaemonCrash`, `PowerLoss`, `Launch` |

A pass is cut at its awaits; the synchronous stretch after a take (which of
append, checkpoint and nothing is due, and whether the writer has to find out first
what its log is) is `Persist`. A pass keeps the writer object it started with;
`own` says that it is still the registered one. An append that is under way when
the main process dies or the power goes may be torn behind any of its frames
(`MayTear`). With the daemon still alive, the next process appends behind the torn
frame: what it appends is swallowed or spoils the log. (That the bytes end the torn
frame just where another one begins is left out.)
`May` selects optional behaviours. `"overlap"` allows a new life to open the
directory while a pass of the old one is still writing; no run has it (see the
observations).

### RpcCallQueue, SharedControl, RemoteRuntime

**RpcCallQueue**: the lines, the two counters and the set of calls that run. `Pump`
is the loop of `pump` in closed form: as many foreground calls as there is room
for, then background calls if no foreground call is left. `Settle(S)` is the
`finally` of one call, or of all calls that one event ends: their finallys run as
microtasks one after the other.

**SharedControl**: `state` is `SharedControlConnectionState`, `dying` says that the
socket is CLOSING or CLOSED and its close event has not been handled; the timers are
`reconnecting` and `stable`. A request is waiting for the socket, sent, lost (sent
over a socket that was replaced) or none. A subscription is a record of its place in
the code, `sent`, whether the server named it (`id`), and `closing`. When it leaves
the map, its place says what its owner heard (`Outcome`): subscribe threw (`failed`),
`onError` and `onClose` were called (`told`), the server's last answer was passed on
(`ended`), he closed it himself (`closed`), or nothing (`dropped`). `remote` is what
the server at the other end of this very socket was asked for: it is external, and
starts empty with every new socket. Every handler is one action; what follows an
await that is resolved in it (the waiters of a handshake, the replay of the
subscriptions) is part of it, because it runs as a microtask.

**RemoteRuntime** puts the two together as the transport does: a call that runs
makes a request, or goes another way (`Bypass`); an answer, a timeout, the close of
the socket and a disconnect end requests, and with them their calls (`Settling`),
many at once in the last two cases.

### Mutants

Some definitions have a neighbour that is described as their mutant: the same
operator with a plausible mistake (a status that is not looked at, an off-by-one,
a reset that forgets). Nothing in the specifications uses the mutants.
`PROJECT.json` says which property of which run fails when a mutant takes the
place of its definition; every property that a run shows to hold has one.

## 3. The runs

| Run | Instance | Question and answer |
|---|---|---|
| `store` | 2 tasks, 2 terminals, 1 gate, 2 contexts, 3 failures counted on a context | Does any order of store calls, resets included, break the dispatch lock, the breaker's columns or the abstract lease? No. |
| `fork` | t1 before t2, t3 on its own, 1 slot, 3 terminals (1 running at first), 6 contexts, 2 faults, 3 messages; late escalations, foreign reports, stop | Do contexts, tasks and terminals stay in step (`ActiveIsCurrent`, `ExitFreesTerminal`), is the limit kept over the awaits, are dependencies first and settled tasks final, is `WorkPlan` implemented? Yes. |
| `gates` | t1 before t2, 2 gates, 2 slots, drift probes, 7 contexts, 1 fault, 3 messages | Does work go on under a pending gate, and can gates make a task skip its dependencies, when workers raise gates and the operator answers them? No. |
| `operator` | 1 task and 1 to be created, 2 calls of any method, 1 fault, 2 messages | Can the loop complete a task on the report of an attempt that is over, whatever the operator does in between? No. |
| `live` | t1 before t2, 1 gate, 3 terminals, 6 contexts, 1 fault | Does the run end, does every lock come back, does every blocked task go on? Yes, under the fairness below. |
| `runs` | 3 runs, resets and crashes | One running row; a stop reaches its loop and ends it; a stopped run is no success; records are final. Yes. |
| `mail_wait` | 2 clients, 3 messages, 1 push in flight, 1 fault, a Cursor Agent's terminal | Can a wake-up be lost, or a message go to two checks or to two asks? No; a reply may go to a check and to the ask of its thread. |
| `mail_push` | 1 client, 2 messages, 2 pushes in flight, 1 fault, silent escalations | Is mail pushed in order, stamped only when submitted, and delivered in the end? Yes. |
| `history` | 2 lives, 3 records, 3 takes a life, a buffer of 2 records, a log of 2 batches, 1 fault of any kind; sleep, close, quit | Does a cold restore ever show output twice, out of order or with a hole between two batches of one life; is there anything a clean quit does not save? No. |
| `quiet_take` | 1 life, 2 records, 3 takes, no faults | Does the disk have what was taken? **No**, see findings. |
| `control` | 2 foreground and 2 background calls, 2 slots, 1 of them for background calls; 2 subscriptions, one cancelled by its id; 2 reconnect attempts, disconnects | Do the counters match the calls that run, does a reconnect forget a subscription, does the server work on for one that is gone? They do; no; no. |
| `control_live` | 1 call of each kind, 1 slot, 2 subscriptions, 2 attempts, disconnects | Does every foreground call end, is every subscription served again or its owner told, unless he closed it or the environment was disconnected, does a flapping socket use up its attempts? Yes. |

### Bounds

Every bound is a constant with "bound:" in its comment: contexts
(`MaxDispatch`), failures counted on a context by arbitrary callers
(`MaxFailures`), faults, messages, calls, runs, timers.

* Two contexts in `store` are enough to take a terminal twice, carry a count
  over and re-dispatch after a reset; `MaxFailures` of 3 reaches the breaker. What is
  beyond is what the theorems are for.
* Two faults in `fork` let an exit meet a failed or refused call, or two
  terminals die; three messages let a report, an escalation and a report from
  elsewhere on one attempt arrive in all orders around the next attempt. One exit
  can count three times, so the breaker opens within these bounds. Six contexts
  are enough for three tasks and what these faults and messages make of them: a
  loop that found no id left would be reported as a deadlock.
* Three terminals: one that runs, one to be created after its exit, one more.
  Terminals that do not exist yet are interchangeable (`SYMMETRY`, only in
  runs without temporal properties other than action properties and refinement
  of safety specifications).
* Three runs let an old loop outlive a reset and end while a third run starts.
* Two clients and three messages let a reader take what woke another one, twice.
* `history` has two lives because everything that goes from one life to another
  (files, an exit event, a writer, a cached restore) goes to the next one. Three
  records and three takes make a checkpoint, a batch behind it and a second batch.
  With both caps at 2 a buffer overflows and is re-anchored; that a log is full is
  decided, but its snapshot would be the fourth take. One life with 5 takes, 4
  records and 1 fault, where a full log is replaced, and three lives with 2 takes,
  2 records, caps of 1 and 2 faults were checked as well, with the same result (959
  thousand and 8.4 million states; change the constants of `MCHistory.cfg`). In the run
  itself one fault comes at each step where it can, in 5.9 million states: three takes
  let an append be torn behind a batch and another one follow behind the torn frame.
* `control` needs four calls so that each line has a call waiting behind one that
  runs, and two background calls for a limit of one. Two subscriptions differ in
  how they are cancelled (`ById`). Two attempts instead of seven: the code only
  compares the count with the number of delays. Its 610 thousand states are all
  there are: calls may be made again for ever, and nothing is counted.

`CHECK_DEADLOCK` is off in `history` and `quiet_take` only, where a terminal that was
closed, or has used up its bounds, really stops. Elsewhere a run that is over
stutters in `Terminated`, and everything else can always go on.

### Fairness

`Orchestration!Fairness` is weak fairness of the loop: the process lives, timers
fire, and each call it awaits settles (`sendTerminal`, `listTerminals`,
`createTerminal` all resolve or reject). It adds strong fairness of a worker's
report and of the answer to a gate. These are assumptions about agents and
people, not about the code; they are strong because the loop's turns disable
the two again and again while the event queue keeps them waiting. They come with
their conditions: a worker whose terminal died never reports, and the number of
faults is finite.

`CoordinatorRuns` assumes that each loop's timers fire and its awaits settle.
`MessageDelivery` assumes that the timer of an Enter fires, that a woken call
resumes, and that a working agent becomes idle some time; `NextIdleDelivers`
has as hypotheses that the agent works again and again and that the terminal
is writable from some time on.

`RemoteRuntime` assumes that timers fire (the timeout of a request and of a
subscription, the reconnect), that the check in front of a call ends, which it does
by its own timeout, and three things about the network: a handshake gets through or
its socket closes, the first frame arrives on a socket that stays open, and a socket
that is CLOSING closes. The code has no timeout for a handshake, so the second is not
its doing. Keepalive frames put the timeout of a request off; that a request is
answered or fails some time means that the server does not send them for ever.
Nothing is assumed of answers: `CallSettles` holds with a server that never
answers. Background calls may starve behind foreground ones, on purpose.

## 4. Findings

The finding is a `violation` run whose trace can be replayed with
`tlc -config MCQuietTake.cfg MCTerminalHistory`.

**A take that finds nothing breaks the log** (`quiet_take`). `takePendingOutput`
counts `pendingOutputSeq` up at every take (`session.ts:221`), and
`checkpointSession` returns without an append when there are no records
(`daemon-pty-adapter.ts:709`). Writing input marks a session dirty as output does,
so such takes need no fault. The next batch carries a number that is two ahead;
`decodeTerminalHistoryLog` takes that for a lost batch and rejects the whole log
(`terminal-history-log.ts:115`). A crash then restores the last checkpoint only, or
nothing. `history-reader.ts:53` says "the log carries byte-exact output up to ~5s
before the crash". The reader errs on the safe side: `NoOutputTwice` and
`GapsAreSeen` hold.

Observations that no run of its own stands for, each seen while the models were
written and visible by changing one constant or adding a property that the modules
define or the text states.

Orchestration:

* One exit can count as three failures: `failActiveDispatchOnExit` fails the context
  (`orca-runtime.ts:6210`), the refused write fails it again in the catch of
  `dispatchTask` (`coordinator.ts:599`), and the escalation that the exit left fails
  it a third time (`coordinator.ts:411`). `failDispatch` does not look at the status
  of the context, so the breaker opens in the first attempt;
  `skills/orchestration/SKILL.md:94` speaks of three consecutive failures.
  `BreakerTakesThreeDispatches` says so and fails with one task and one exit.
* Two gates created by hand on one task, one of them resolved within an await of
  `dispatchReadyTasks`: the task is dispatched under the other gate, although
  `skills/orchestration/SKILL.md:78` says that a gate blocks progress until a
  decision is recorded (`db.ts:744`). With gates raised by workers (`gates`) it does.
* A reset deletes the row that `orchestration.run` looks for and leaves its loop
  running: two loops live, which the comment at `orchestration-gates.ts:7` excludes.
  `OneLoop` fails with `MayReset` and is proved without.
* The escalation of an exit is inserted without `notifyMessageArrived`
  (`orca-runtime.ts:6217`), which `send`, `reply` and `ask` do call: a client in
  `check --wait` sleeps on over the unread row until its timeout, or until another
  message wakes it. The comment at `orca-runtime.ts:14757` says that such a client
  "must be woken" after a message is inserted, and `src/cli/specs/orchestration.ts:39`
  that it blocks until a matching message arrives. `NoSleepOverMail` fails with
  `MayEscalate = TRUE` in `MCMailWait.cfg`.
* `check --wait --types ','` has an empty list of types: `getUnreadMessages` takes
  that for no filter (`db.ts:305`), the waiter lets no message pass
  (`orca-runtime.ts:14768`). The client sleeps over mail that it would return.
  `NoSleepOverMail` has this case as its exception.
* A reply can be handed out twice: to a `check` on the handle that asked, and to the
  `ask` of its thread, which does not look at the `read` column
  (`orchestration.ts:578`). So the answer is not lost to the one who asked for it.
  `ReadOnce` allows this and nothing else.
* `read` is set before the response is written to the socket
  (`orchestration.ts:266`, `:581`): a client that just disconnected takes its mail
  with it. The transport is not modelled.
* With `Headless = TRUE` (terminals without renderer leaves) `ExitFreesTerminal`
  fails: `onPtyExit` goes through leaves only (`orca-runtime.ts:5085`).
* With `CursorAgent = FALSE` a row can be pushed twice, since `delivered_at` is set
  half a second after the write; the comment at `db.ts:322` says "at most once".
* A failed task leaves its dependents pending for ever and the run polls for ever;
  the stuck check (`coordinator.ts:657`) counts pending tasks as active and stays
  silent. `RunEnds` has this case as its exception.
* After a crash the row of the run stays running: later runs are refused, and
  `runStop` answers `stopped: true` with nothing to stop.
* `createTask` leaves a task pending whose dependencies are completed already.
* `updateTaskStatus` to anything but completed leaves the active context, and with
  it the lock on the terminal.
* A gate blocks its task from any status: a late `decision_gate` message about a
  completed task blocks it, and the resolution makes it ready for another
  dispatch (`db.ts:714-749`). `SettledIsFinal` and `PlanImplemented` are therefore
  checked without gates.
* `check --wait` returns every unread message, not one at a time
  (`skills/orchestration/SKILL.md:69`).

Terminal history:

* The first batch behind a header or a checkpoint may be lost without notice: the
  decoder compares a batch with the one before it only (`terminal-history-log.ts:115`;
  the comment at `:80-84` promises more). `GapsAreSeen` is therefore about two
  batches of the log.
* A crash between the rename of a checkpoint and the reset of its log
  (`history-manager.ts:223-226` calls this safe) is safe for an immediate cold
  restore. After a warm reattach the writer adopts the generation of the old log,
  and everything it appends is ignored until the next checkpoint.
* A terminal that is put to sleep gets its exit event later, which closes its history
  (`daemon-pty-adapter.ts:833-842`): `endedAt` is set and waking it up finds no cold
  restore, which keeping the history was for (`:277-280`).
* An exit event carries the session id only. One that is late deactivates the next
  life: it is not checkpointed from then on.
* With `"overlap"` in `May` a pass of an old life writes into the directory that the
  new one has just emptied, and `NoOutputTwice` fails. It takes a spawn that
  overtakes a file operation of a pass.
* `onFinalCheckpoint` is never supplied, although the comment at
  `daemon-pty-adapter.ts:510` says that final checkpoints are the daemon's.

Remote runtimes:

* A request or subscription that finds the socket CLOSING opens another one without
  `closeSocket`: requests that were sent over the old one are never answered and end
  by their timeout, a subscription that was closing stays in the map. (A socket
  that closes otherwise rejects them at once.) `Lost` is that case.
* A disconnect or a new pairing drops subscriptions without `onError` or `onClose`
  (`remote-runtime-shared-control-connection.ts:88-95`, called by
  `runtime-environment-request-connections.ts:109`): their owners wait for events
  that do not come. `SubscriptionSettles` has this as its exception (`dropped`).
* A subscription that the server refuses stays in the map, and keeps the socket
  being reconnected.
* A disconnect during the capability check of a call: the call goes on and makes a
  new connection to the environment (`NewConnection`).
* Once the attempts are used up the count stays where it is until a socket was
  stable: the first failure of a later connection is final.

## 5. The proofs

All theorems are for arbitrary constants (any number of tasks, terminals,
contexts, gates, runs, messages, clients, lives, records and faults), under the
assumptions named in the modules: bounds are naturals, switches Booleans, "-" is
neither a task nor a terminal, and the set of task ids is finite
(`FiniteAssumption`; an id is a prefix and twelve hexadecimal digits, `db.ts:32`).
The last one is needed where tasks are counted.

Some theorems have a hypothesis on `May`, the optional behaviours, or on a switch. It
is never stronger than what the run that checks the same property has switched off,
and none can be spared: with any of the excluded behaviours let in, alone, TLC finds
the property violated on an instance of the size of the runs (only `reresolve` is
harmless where there are no gates at all).

| Theorem | Hypothesis | Why |
|---|---|---|
| `OrchTyped`, `OrchLocked`, `OrchCompletionIsEarned`, `OrchImplementsLease` | none | |
| `OrchWithinConcurrency` | no `dispatch`, no `taskUpdate` | the operator's calls do not count slots |
| `OrchExitFreesTerminal` | not `Headless`, no `dispatch` | an exit is found through a leaf; a dispatch of the operator writes with a delay of its own |
| `OrchPromotedWhenDue` | no `gateCreate`, no `taskUpdate` | both write a status, or block a task that is pending |
| `OrchActiveIsCurrent`, `OrchGateBlocksProgress` | `OperatorAside`: also no `dispatch`, no `reresolve` | these calls reach into a task behind the loop's back |
| `OrchSettledIsFinal`, `OrchDependenciesFirst`, `OrchPlanImplemented` | `PlainRun`: also no worker asks for a gate | a late gate blocks a completed task again |
| `HistoryTyped`, `HistoryGapsAreSeen`, `HistoryQuitSavesAll` | none | |
| `HistoryNoOutputTwice` | no `overlap` | a history opened under a writing pass mixes two lives |
| `RunsOneLoop`, `MailNoLostWakeUp` | `~MayReset`, `~MayEscalate` | see the findings |

All crashes, exits, refused writes, late and foreign reports, escalations, stops,
created tasks and answers to pending gates stay allowed.

**TaskStoreProofs.** `StoreTyped` is the type invariant, action by action.
`StoreLocked`: apart from `CreateDispatchContext`, every action leaves the
handle of a context alone, or deletes it, and only ever turns active contexts into
inactive ones (`OnlyEnds`, lemma `OthersOnlyEnd`); creation takes a terminal without
an active context and an id that has none (`CreateTakesFree`). `StoreBreaker`
follows the two columns through `FailDispatch` and the carry-over.
`StoreImplementsLease` maps creation to `Acquire` (`CreateIsAcquire`) and each of
the others to `Release` or a stutter (`EndsAreReleases`).

**OrchestrationProofs.** The base is `TypeInv`: the type invariant with `Rows` (a
context that is there names a task and a terminal, ids are used in order, nothing is
deleted by a run) and `InHand` (what the loop, the operator's writes and the workers
hold on to across their awaits is still there, and task, terminal and context fit
together). `TypeOK` alone is not inductive: `SendError` and `FailDispatch` use a
context id that was read before an await. `NextIsStoreStep` shows that a step
of a run is one store method or none, so lock, breaker and lease follow from the
lemmas of TaskStoreProofs. On top of it:

* `ReportsEarned`: a completion report in the mail comes from the worker that was told,
  unless it names a foreign terminal, which `handleWorkerDone` compares. So
  `CompletionIsEarned` holds although the operator may write any status.
* `GivenInv`: a task that has a context, a gate or a message about a gate is out of
  "pending" for good. Without it a gate on a pending task would promote it early.
* `SlotsInv`: while the loop gives tasks out, the tasks in hand, the slots it counted
  and the one it is about to use stay within the limit. `WithinConcurrency` alone says
  nothing about the slots that were counted before an await.
* `ExitInv`: the lock belongs to it, because an exit fails *one* context.

**OrchestrationPlanProofs.** `CurrentInv` adds to `TypeInv` and `ActiveIsCurrent` that the
context in hand during `sendTerminal` is still the newest (`LatestInHand`; the catch
fails it by its id) and that nothing with a pending gate is in the snapshot or in hand
(`GatesAside`; gates appear while the loop reads its mail, and
`processDecisionGates` blocks their tasks before the next snapshot is made). Steps that
give nothing out share one shape (`Ends`). `PlainInv`, for runs without gates, ties a
task to its newest context (`NewestTells`): then a late failure finds its context
ended, so `SettledIsFinal`. `DueInv` says that what left "pending" has all its
dependencies completed. `PlanInv` adds `Counted`, the number of contexts of a task
against the failures its newest one carries, which is where "at most three attempts"
comes from: the abstract plan counts attempts, the code copies a failure count.
`OrchPlanImplemented` then maps each of the steps (`PlainStep`) to an action of
WorkPlan or a stutter.

**CoordinatorRunsProofs.** The inductive invariant `IInv` adds to the type
invariant and the properties `RowsAndLoops`: a row that is not there has no loop, a
finished row's loop is over, the reference points to a living loop, and without
resets a living loop has its running row. Without the second part `OneRow` is not
inductive at the end of a loop, without the third `StopReaches` is not when an old
loop releases the reference. `RunsOneRow`, `RunsStopReaches`, `RunsStopped`
and `RunsRecordIsFinal` follow for all environments; `RunsOneLoop` under the
hypothesis `~MayReset`; with resets TLC finds two loops. `RunsTyped` is the full type
invariant.

**MessageDeliveryProofs.** `MailNoLostWakeUp` (hypothesis `~MayEscalate`; with
silent escalations TLC finds a sleeper): inductive with `WaitInv`, whose parts say
that the records are typed and that a waiting ask hears every type. `MailReadOnce`: what
was returned is read (`ReturnedIsRead`), and a check returns unread rows only, so it
comes first or not at all; a row is returned to the ask of its own thread only, which
is over then (`AskIsOpen`).
`MailPushedInOrder`: what is delivered or waits for its Enter was pushed
(`PushedAndDelivered`), so a push leaves behind no older row that was neither
pushed nor read. `MailPushedAtMostOnce`, for Cursor Agents: what was pushed is stamped (`Once`), so it
is not pending any more. `MailDeliveredWasSubmitted` counts: the pushes of a row are at
least those whose Enter is due plus one if it is stamped (`Covered`); `DueAppended` and
`DueTail` say how a push and an Enter change the number of those that are due.
`MailTyped` adds that the timers on their way are as many as the bound allows
(`FewTimers`).

**RpcCallQueueProofs.** `QueueInv` says that the lines hold each call once, that
queued and running calls are apart and finite in number, and that the counters are
cardinalities; `ApartSum` and `Taken` are the arithmetic of `Pump`, which all three
kinds of step share (`PumpKeeps`). `QueueSlotsMatch` is about the queue alone, for any set of
calls that end together.

**RemoteRuntimeProofs.** `ControlInv` is inductive for the connection: besides the
types it says of each subscription (`Fine`) that only a ready socket has a server
that was asked, that nobody waits for a ready one, that what was asked counts as
sent, and that a reconnect is due only without a socket (`Sockets`).
`AllReplayed` alone is not inductive, because it says nothing about the server of a
socket that is not ready yet. `StepOfParts` shows that each step of the composition
is a step of its parts; `PendingRuns` that a request belongs to a call with a slot,
so that what ends requests gives back slots. `RuntimeTyped`, `RuntimeSlotsMatch`,
`RuntimeReplaysAll` and `RuntimeNoOrphans` follow for any number of calls,
subscriptions, slots and attempts, with disconnects.

**TerminalHistoryProofs.** `Typed` gives every variable its shape and says that a
pass writes only for a writer whose columns are known, and that no pass outlives the
process. The effect of each step of a pass is stated once (`PersistEffect`,
`TakeEffect`, `HeaderEffect`, `AppendEffect`, `RenameEffect`, `ResetEffect`); for all
other actions `AroundEffect` says that they leave the pass as it is, disown it, open
the directory under it, or end it. `DiskChange`, `PassChange`, `TakenGrows` and
`LivesStep` are the same for the files, the take and the daemon. Three arguments
follow:

* *Nothing twice* (`TwiceInv`): whatever was taken, in flight or on disk, ends before
  what is pending (`TakenFirst`), so an increment comes after all batches
  (`InOrder`). A checkpoint stands for everything up to its end, so a log is
  replayed behind it only if it is younger (`Younger`). That is what the generation is
  for, and it holds between the rename and the reset because the generation of a
  rename is one the log does not have (`Generations`): a writer is never behind its
  log, and a pass that writes for the registered writer agrees with it.
* *No hole* (`GapInv`): nothing is added to a torn log but a new header, so its last
  batch may lack its end; for all others, of the life that goes on, no batch and no take has a number
  behind `seq` (`TakesCounted`), and the one that has it ends where the pending output
  begins, unless that overflowed (`LastTake`). So the next take, if it is an
  increment, continues it (`Adjacent`). `GapsAreSeen` alone says nothing of the take
  in flight.
* *Quit* (`QuitInv`): the pass of a quit takes from the first record of the life, nothing
  is spawned meanwhile, and when it resets the log the checkpoint is its own take
  (`QuitPass`). Only that reset can end the pass of a session that records without an
  error (`QuitEndsByReset`).

What a leaf needs is cited with it; the action lemmas split on the disjuncts of
`Next`. Most inductive invariants were checked with TLC too, at the bounds of the runs.

**Only model-checked**: the liveness properties (`RunEnds`, `LeaseReturned`,
`GateReopens`, `StopEndsLoop`, `NextIdleDelivers`, `CallSettles`,
`SubscriptionSettles`, `FlappingExhausts`), because the prover knows neither fairness nor
ENABLED. `LogIsByteExact` is refuted, see the findings.

## 6. What is not modelled, and the plan

Abstracted in the modelled parts: texts, results, priorities and group addresses
of messages, timestamps, heartbeats, log lines; which of several ready tasks or
terminals comes first (left open); a crash between two autocommitted statements of
one store method; the transport below the RPC methods. In the history: the contents
of records, pruning and older file formats, several sessions of one pass (they share
no state). In the remote runtimes: encryption and framing, the capability check,
what a server does with a request; one-shot and terminal-input sockets, which are
other classes.

The order of the next steps, the most important first:

1. `StoreCrash`: the methods of the store cut at their statements, with a crash in
   between and what a restart finds (`db.ts:505-546`, `714-725`, `727-749`).
2. Heartbeats and stale dispatches; the loop and a blocking client as two consumers
   of one inbox (Orchestration composed with MessageDelivery).
3. `DaemonSession` (`session.ts`, `terminal-host.ts`): attach tokens, kill timers,
   output buffered before the shell is ready (`post-ready-flush-gate.ts`); abstract
   specification: every byte of output goes once to the attached client, in order.
4. `RelayChannel` (`src/relay/`, `src/main/ssh/`): sequence and acknowledgement
   numbers, grace period, reattachment after a lost connection; abstract
   specification: a reliable channel per incarnation.
5. `Automations`: a due run is dispatched once, through restarts and sleep.

The share of the repository that the modules cover is small and will stay so: most of
it is user interface, API clients, parsing and drivers of external programs, whose
state is a cache of something else and whose order of events is one request and its
answer.

Left out for good, with reasons in `PROJECT.json`: user interface, command line,
drivers of external programs, API clients, parsing and text building.
