--------------------------- MODULE Orchestration ---------------------------
(***************************************************************************)
(* One coordinator run over the task store: the coordinator loop           *)
(* (coordinator.ts), its workers and their mail, terminal exits and        *)
(* terminal writes (orca-runtime.ts) and the operator's RPC methods        *)
(* (rpc/methods/orchestration*.ts).                                        *)
(*                                                                         *)
(* Everything runs on one JavaScript thread.  The loop's synchronous       *)
(* stretches are cut into steps, one per message or task handled, and      *)
(* nobody else moves until the loop reaches an await (Turn).  At an await  *)
(* (sleep, listTerminals, createTerminal, probeWorktreeDrift,              *)
(* sendTerminal) anything else may happen first.                           *)
(***************************************************************************)
EXTENDS TaskStore, Sequences, FiniteSets

CONSTANTS
    DependsOn,      \* task |-> dependency list, for the tasks created before the run
    Running,        \* terminals that exist, and are connected, when the run starts
    MaxConcurrent,  \* CoordinatorOptions.maxConcurrent
    HasWorktree,    \* CoordinatorOptions.worktree is given: drift is probed
    Headless,       \* no renderer window (`serve`): terminals have no leaf
    MaxFaults,      \* bound: exits, failed or refused calls altogether
    MaxSent,        \* bound: messages the workers send altogether
    MaxCalls,       \* bound: the operator's RPC calls altogether
    May             \* what else is allowed to happen, see below

\* "escalate", "gate", "foreign": a worker sends escalation or decision_gate
\* messages, or reports done on another terminal's dispatch; "resolve": the
\* operator resolves pending gates; "gateCreate", "reresolve", "dispatch",
\* "taskUpdate", "taskCreate", "stop": the operator's RPC methods of that name
\* ("reresolve" is gateResolve on a gate that is no longer pending).
ASSUME MayAssumption ==
    May \subseteq {"escalate", "gate", "foreign", "resolve", "gateCreate", "reresolve",
                   "dispatch", "taskUpdate", "taskCreate", "stop"}

Planned == DOMAIN DependsOn

ASSUME RunAssumption ==
    /\ Planned \subseteq Task /\ Planned # {}
    /\ \A t \in Planned : DependsOn[t] \subseteq Planned
    /\ Running \subseteq Handle
    /\ MaxConcurrent \in Nat /\ MaxFaults \in Nat /\ MaxSent \in Nat /\ MaxCalls \in Nat
    /\ HasWorktree \in BOOLEAN /\ Headless \in BOOLEAN

\* The id of a task is one of the strings of a fixed length (generateId in db.ts).
ASSUME FiniteAssumption == IsFiniteSet(Task)

VARIABLES
    pc,             \* where the coordinator loop is
    ready,          \* dispatchReadyTasks: ready tasks of the snapshot still to try
    terminals,      \* dispatchReadyTasks: terminals still to hand out
    slots,          \* dispatchReadyTasks: slotsAvailable
    job,            \* dispatchTask: the task, terminal and context in hand
    stopped,        \* Coordinator.stopped
    failedTasks,    \* CoordinatorState.failedTasks
    runStatus,      \* coordinator_runs.status
    mail,           \* unread messages to the coordinator's handle, oldest first
    terminal,       \* handle |-> "unborn", "live" or "dead"
    told,           \* dispatches whose preamble was submitted to their terminal
    sent,           \* messages the workers have sent: each <<kind, dispatch>> once
    sending,        \* dispatches of the dispatch RPC whose sendTerminal is pending
    faults,         \* exits and failed calls so far
    calls           \* RPC calls so far

loopVars == <<pc, ready, terminals, slots, job, stopped, failedTasks, runStatus>>
worldVars == <<mail, terminal, told, sent, sending, faults, calls>>
vars == <<storeVars, loopVars, worldVars>>

NoJob == [task |-> "-", handle |-> "-", disp |-> 0]
\* The places of the loop at which it holds the JavaScript thread.
Turn == {"messages", "plan", "assign", "commit", "converge"}
\* The places at which it awaits a timer or a call.
Await == {"sleep", "listing", "creating", "probing", "sending"}

Message ==
    [kind : {"done"}, task : Task, disp : DispatchId, from : Handle]
        \cup [kind : {"escalation", "gate"}, task : Task]

TypeOK ==
    /\ StoreTypeOK
    /\ pc \in Turn \cup Await \cup {"finished"}
    /\ ready \subseteq Task /\ terminals \subseteq Handle /\ slots \in 0..MaxConcurrent
    /\ job \in [task : Task \cup {"-"}, handle : Handle \cup {"-"}, disp : DispatchId \cup {0}]
    /\ stopped \in BOOLEAN /\ failedTasks \subseteq Task
    /\ runStatus \in {"running", "completed", "failed"}
    /\ mail \in Seq(Message)
    /\ terminal \in [Handle -> {"unborn", "live", "dead"}]
    /\ told \subseteq DispatchId /\ sending \subseteq DispatchId
    /\ sent \subseteq {"done", "foreign", "escalation", "gate"} \X DispatchId
    /\ faults \in 0..MaxFaults /\ calls \in 0..MaxCalls

Tasks(status) == {t \in Task : taskStatus[t] = status}
Existing == {t \in Task : TaskExists(t)}
Live == {h \in Handle : terminal[h] = "live"}
\* Mutant of Settled: only failures count.
SettledIfFailed(t) == taskStatus[t] = "failed"
Settled(t) == taskStatus[t] \in {"completed", "failed"}
\* Mutant of PendingGate: any task's gate.
SomePendingGate(t) == \E g \in Gate : gateStatus[g] = "pending"
PendingGate(t) == \E g \in Gate : gateTask[g] = t /\ gateStatus[g] = "pending"

Go(place) == pc' = place
\* Something outside the loop fails; the bound keeps that finite.
Fault == faults < MaxFaults /\ faults' = faults + 1
\* The operator calls a method; the bound keeps that finite.
Call == calls < MaxCalls /\ calls' = calls + 1
-----------------------------------------------------------------------------
(* The loop: executeLoop and tick *)

\* `while (!this.stopped)`, on entry and after each sleep.
Wake ==
    /\ pc = "sleep" /\ ~stopped
    /\ Go("messages")
    /\ UNCHANGED <<storeVars, ready, terminals, slots, job, stopped, failedTasks, runStatus, worldVars>>

\* Mutant of Finish: a run that did not complete gets a status of its own.
FinishUnsettled ==
    /\ Go("finished")
    /\ runStatus' = IF Existing = Tasks("completed") THEN "completed" ELSE "incomplete"
    /\ UNCHANGED <<storeVars, ready, terminals, slots, job, stopped, failedTasks, worldVars>>

\* The end of executeLoop, once stopped or converged.
Finish ==
    /\ Go("finished")
    /\ runStatus' = IF stopped \/ failedTasks # {} \/ Existing # Tasks("completed")
                    THEN "failed" ELSE "completed"
    /\ UNCHANGED <<storeVars, ready, terminals, slots, job, stopped, failedTasks, worldVars>>

StopSeen == pc = "sleep" /\ stopped /\ Finish

TakeMail ==
    /\ pc = "messages" /\ mail # <<>>
    /\ mail' = Tail(mail)
    /\ UNCHANGED <<pc, ready, terminals, slots, job, stopped, runStatus,
                   terminal, told, sent, sending, faults, calls>>

\* Mutants of AcceptsDone: it does not look at whether the dispatch is still
\* the current one, or at anything but the assignment.
AcceptsLate(m) == dispHandle[m.disp] = m.from /\ taskStatus[m.task] = "dispatched"
AcceptsAssigned(m) == dispHandle[m.disp] = m.from

\* handleWorkerDone accepts a report only from the terminal the dispatch was
\* given to, while that dispatch is active, the newest of its task, and the
\* task is still dispatched.
AcceptsDone(m) ==
    /\ TaskExists(m.task)
    /\ m.disp \in ContextsOf(m.task)
    /\ dispHandle[m.disp] = m.from
    /\ dispStatus[m.disp] = "dispatched"
    /\ IsLatest(m.disp, m.task)
    /\ taskStatus[m.task] = "dispatched"

HandleWorkerDone ==
    /\ TakeMail
    /\ Head(mail).kind = "done"
    /\ IF AcceptsDone(Head(mail))
       THEN CompleteTask(Head(mail).task)
       ELSE UNCHANGED storeVars
    /\ UNCHANGED failedTasks

\* handleEscalation goes by the task alone: the newest context is failed
\* whatever its status, unless the task is settled.
HandleEscalation ==
    /\ TakeMail
    /\ Head(mail).kind = "escalation"
    /\ LET t == Head(mail).task IN
       \/ /\ Settled(t) \/ ~TaskExists(t) \/ ContextsOf(t) = {}
          /\ UNCHANGED <<storeVars, failedTasks>>
       \/ /\ TaskExists(t) /\ ~Settled(t)
          /\ \E c \in DispatchId : IsLatest(c, t) /\ FailDispatch(c)
          /\ failedTasks' = failedTasks \cup {u \in {t} : taskStatus'[u] = "failed"}

\* handleDecisionGateMessage
HandleDecisionGateMessage ==
    /\ TakeMail
    /\ Head(mail).kind = "gate"
    /\ \E g \in Gate : CreateGate(g, Head(mail).task)
    /\ UNCHANGED failedTasks

\* The mailbox is drained; processDecisionGates re-blocks every task that has
\* a pending gate and is not blocked.
ProcessDecisionGates ==
    /\ pc = "messages" /\ mail = <<>>
    /\ SetTaskStatus({t \in Existing : PendingGate(t)}, "blocked")
    /\ Go("plan")
    /\ UNCHANGED <<ready, terminals, slots, job, stopped, failedTasks,
                   runStatus, worldVars>>

\* slotsAvailable; its mutant forgets the tasks in hand.
AllSlots == MaxConcurrent
FreeSlots == MaxConcurrent - Cardinality(Tasks("dispatched"))

\* dispatchReadyTasks up to its first await: snapshot and free slots.
Plan ==
    /\ pc = "plan"
    /\ IF Tasks("ready") = {} \/ FreeSlots <= 0
       THEN Go("converge") /\ UNCHANGED <<ready, slots>>
       ELSE /\ Go("listing")
            /\ ready' = Tasks("ready")
            /\ slots' = FreeSlots
    /\ UNCHANGED <<storeVars, terminals, job, stopped, failedTasks,
                   runStatus, worldVars>>

\* getAvailableTerminals leaves out the terminals of dispatched tasks (by
\* their newest context); a failed listing counts as no terminal at all.
Available ==
    {h \in Live : \A t \in Tasks("dispatched"), c \in DispatchId :
                     IsLatest(c, t) => dispHandle[c] # h}

ListTerminals ==
    /\ pc = "listing"
    /\ \/ terminals' = Available /\ UNCHANGED faults
       \/ terminals' = {} /\ Fault
    /\ Go(IF terminals' = {} THEN "creating" ELSE "assign")
    /\ UNCHANGED <<storeVars, ready, slots, job, stopped, failedTasks,
                   runStatus, mail, terminal, told, sent, sending, calls>>

\* No terminal is free: one is created, or the tick gives up dispatching.
CreateTerminal ==
    /\ pc = "creating"
    /\ \/ /\ \E h \in Handle : /\ terminal[h] = "unborn"
                               /\ terminal' = [terminal EXCEPT ![h] = "live"]
                               /\ terminals' = {h}
          /\ Go("assign")
          /\ UNCHANGED <<ready, slots, faults>>
       \/ /\ Fault
          /\ Go("converge")
          /\ ready' = {} /\ slots' = 0
          /\ UNCHANGED <<terminal, terminals>>
    /\ UNCHANGED <<storeVars, job, stopped, failedTasks, runStatus,
                   mail, told, sent, sending, calls>>
-----------------------------------------------------------------------------
(* dispatchTask, for one task of the snapshot after the other.  created_at  *)
(* has a resolution of a second and terminals come in no documented order:  *)
(* which of each is next is left open.                                      *)

Assign ==
    /\ pc = "assign"
    /\ IF slots = 0 \/ ready = {} \/ terminals = {}
       THEN /\ Go("converge")
            /\ ready' = {} /\ terminals' = {} /\ slots' = 0
            /\ UNCHANGED job
       ELSE \E t \in ready, h \in terminals :
            /\ job' = [task |-> t, handle |-> h, disp |-> 0]
            /\ ready' = ready \ {t}
            /\ terminals' = terminals \ {h}
            /\ slots' = slots - 1
            /\ Go(IF HasWorktree THEN "probing" ELSE "commit")
    /\ UNCHANGED <<storeVars, stopped, failedTasks, runStatus, worldVars>>

\* probeWorktreeDrift: a worktree too far behind skips the task for this tick.
Probe ==
    /\ pc = "probing"
    /\ \/ Go("commit") /\ UNCHANGED <<job, faults>>
       \/ Go("assign") /\ job' = NoJob /\ Fault
    /\ UNCHANGED <<storeVars, ready, terminals, slots, stopped, failedTasks, runStatus,
                   mail, terminal, told, sent, sending, calls>>

\* createDispatchContext, or the error it throws: the task is not ready any
\* more, or the terminal got a dispatch from someone else.
Commit ==
    /\ pc = "commit"
    /\ \/ /\ CreateDispatchContext(job.task, job.handle)
          /\ \E c \in DispatchId : IsNextDispatch(c) /\ job' = [job EXCEPT !.disp = c]
          /\ Go("sending")
       \/ /\ taskStatus[job.task] # "ready" \/ HandleBusy(job.handle)
          /\ UNCHANGED storeVars
          /\ job' = NoJob
          /\ Go("assign")
    /\ UNCHANGED <<ready, terminals, slots, stopped, failedTasks,
                   runStatus, worldVars>>

\* sendTerminal resolves: the preamble and, half a second later, Enter were
\* written to a live terminal.
SendOk ==
    /\ pc = "sending" /\ job.handle \in Live
    /\ told' = told \cup {job.disp}
    /\ job' = NoJob
    /\ Go("assign")
    /\ UNCHANGED <<storeVars, ready, terminals, slots, stopped, failedTasks,
                   runStatus, mail, terminal, sent, sending, faults, calls>>

\* sendTerminal rejects: the terminal is gone, or the write failed.  The catch
\* fails the context by its id, whatever has become of it meanwhile.
SendError ==
    /\ pc = "sending"
    /\ IF job.handle \in Live THEN Fault ELSE UNCHANGED faults
    /\ FailDispatch(job.disp)
    /\ failedTasks' = failedTasks \cup
                        {t \in {job.task} : dispStatus'[job.disp] = "circuit_broken"}
    /\ job' = NoJob
    /\ Go("assign")
    /\ UNCHANGED <<ready, terminals, slots, stopped, runStatus, mail,
                   terminal, told, sent, sending, calls>>

\* checkConvergence: done, or another round (a stuck run is logged, no more).
\* The mutant of Converged waits for failed tasks, too.
AllCompleted == \A t \in Existing : taskStatus[t] = "completed"
Converged == Existing = {} \/ \A t \in Existing : Settled(t)

CheckConvergence ==
    /\ pc = "converge" /\ ~Converged
    /\ Go("sleep")
    /\ UNCHANGED <<storeVars, ready, terminals, slots, job, stopped, failedTasks,
                   runStatus, worldVars>>

Converge == pc = "converge" /\ Converged /\ Finish

CoordinatorNext ==
    \/ Wake \/ StopSeen
    \/ HandleWorkerDone \/ HandleEscalation \/ HandleDecisionGateMessage
    \/ ProcessDecisionGates \/ Plan \/ ListTerminals \/ CreateTerminal
    \/ Assign \/ Probe \/ Commit \/ SendOk \/ SendError
    \/ CheckConvergence \/ Converge
-----------------------------------------------------------------------------
(* Everyone else, only between the loop's turns *)

Elsewhere == pc \notin Turn /\ UNCHANGED loopVars

\* A worker that was given dispatch c and whose terminal h still runs sends
\* one message of this kind; it may do so long after c ended.  Once the run is
\* over nobody reads the mail.
Send(kind, c, message) ==
    /\ Elsewhere /\ runStatus = "running"
    /\ c \in told
    /\ <<kind, c>> \notin sent /\ Cardinality(sent) < MaxSent
    /\ sent' = sent \cup {<<kind, c>>}
    /\ mail' = Append(mail, message)
    /\ UNCHANGED <<storeVars, terminal, told, sending, faults, calls>>

SendDone(c) ==
    /\ dispHandle[c] \in Live
    /\ Send("done", c, [kind |-> "done", task |-> dispTask[c], disp |-> c,
                        from |-> dispHandle[c]])

\* A report on c from a terminal c was not given to.
SendForeignDone(c, h) ==
    /\ "foreign" \in May /\ h \in Live \ {dispHandle[c]}
    /\ Send("foreign", c, [kind |-> "done", task |-> dispTask[c], disp |-> c, from |-> h])

SendEscalation(c) ==
    /\ "escalate" \in May /\ dispHandle[c] \in Live
    /\ Send("escalation", c, [kind |-> "escalation", task |-> dispTask[c]])

\* A decision_gate message that carries a taskId and a question.
SendGate(c) ==
    /\ "gate" \in May /\ dispHandle[c] \in Live
    /\ Cardinality({g \in Gate : gateStatus[g] = "none"})
         > Cardinality({i \in 1..Len(mail) : mail[i].kind = "gate"})
    /\ Send("gate", c, [kind |-> "gate", task |-> dispTask[c]])

\* onPtyExit calls failActiveDispatchOnExit for the leaves of the terminal: its
\* active context is failed at once and the coordinator of the running run is
\* sent an escalation for the same task.  A terminal without a renderer leaf is
\* passed over.
Exit(h) ==
    /\ Elsewhere /\ Fault
    /\ terminal[h] = "live"
    /\ terminal' = [terminal EXCEPT ![h] = "dead"]
    /\ \/ /\ ~Headless
          /\ \E c \in DispatchId :
                /\ LockOf(h, c)
                /\ FailDispatch(c)
                /\ mail' = IF runStatus = "running"
                           THEN Append(mail, [kind |-> "escalation", task |-> dispTask[c]])
                           ELSE mail
       \/ /\ Headless \/ \A c \in DispatchId : ~LockOf(h, c)
          /\ UNCHANGED <<storeVars, mail>>
    /\ UNCHANGED <<told, sent, sending, calls>>

\* orchestration.gateResolve
GateResolve(g) ==
    /\ Elsewhere
    /\ \/ gateStatus[g] = "pending" /\ "resolve" \in May /\ UNCHANGED calls
       \/ gateStatus[g] # "pending" /\ "reresolve" \in May /\ Call
    /\ ResolveGate(g)
    /\ UNCHANGED <<mail, terminal, told, sent, sending, faults>>

\* orchestration.gateCreate
GateCreate(g, t) ==
    /\ Elsewhere /\ "gateCreate" \in May /\ Call
    /\ TaskExists(t)
    /\ CreateGate(g, t)
    /\ UNCHANGED <<mail, terminal, told, sent, sending, faults>>

\* orchestration.taskUpdate
TaskUpdate(t, status) ==
    /\ Elsewhere /\ "taskUpdate" \in May /\ Call
    /\ TaskExists(t)
    /\ IF status = "completed" THEN CompleteTask(t) ELSE SetTaskStatus({t}, status)
    /\ UNCHANGED <<mail, terminal, told, sent, sending, faults>>

\* orchestration.taskCreate
TaskCreate(t, deps) ==
    /\ Elsewhere /\ "taskCreate" \in May /\ Call
    /\ CreateTask(t, deps)
    /\ UNCHANGED <<mail, terminal, told, sent, sending, faults>>

\* orchestration.dispatch: the context is created now and, with --inject, the
\* preamble is on its way; without it the caller passes the prompt on itself.
DispatchRpc(t, h, inject) ==
    /\ Elsewhere /\ "dispatch" \in May /\ Call
    /\ CreateDispatchContext(t, h)
    /\ \E c \in DispatchId :
          /\ IsNextDispatch(c)
          /\ IF inject THEN h \in Live /\ sending' = sending \cup {c} /\ UNCHANGED told
                       ELSE told' = told \cup {c} /\ UNCHANGED sending
    /\ UNCHANGED <<mail, terminal, sent, faults>>

\* The end of that sendTerminal; an error fails the context by its id.
DispatchSent(c) ==
    /\ Elsewhere
    /\ c \in sending
    /\ sending' = sending \ {c}
    /\ \/ /\ dispHandle[c] \in Live
          /\ told' = told \cup {c}
          /\ UNCHANGED <<storeVars, faults>>
       \/ /\ IF dispHandle[c] \in Live THEN Fault ELSE UNCHANGED faults
          /\ FailDispatch(c)
          /\ UNCHANGED told
    /\ UNCHANGED <<mail, terminal, sent, calls>>

\* orchestration.runStop
RunStop ==
    /\ pc \notin Turn /\ pc # "finished"
    /\ "stop" \in May
    /\ stopped' = TRUE
    /\ UNCHANGED <<storeVars, pc, ready, terminals, slots, job, failedTasks, runStatus, worldVars>>

Terminated == pc = "finished" /\ UNCHANGED vars

WorkerNext ==
    \E c \in told : \/ SendDone(c) \/ SendEscalation(c) \/ SendGate(c)
                    \/ \E h \in Handle : SendForeignDone(c, h)

OperatorNext ==
    \/ \E g \in Gate : GateResolve(g)
    \/ \E g \in Gate, t \in Task : GateCreate(g, t)
    \/ \E t \in Task, status \in TaskStatus : TaskUpdate(t, status)
    \/ \E t \in Task, deps \in SUBSET Existing : TaskCreate(t, deps)
    \/ \E t \in Task, h \in Handle, inject \in BOOLEAN : DispatchRpc(t, h, inject)
    \/ \E c \in sending : DispatchSent(c)
    \/ RunStop
-----------------------------------------------------------------------------
Init ==
    /\ taskDeps = [t \in Task |-> IF t \in Planned THEN DependsOn[t] ELSE {}]
    /\ taskStatus = [t \in Task |-> IF t \notin Planned THEN "none"
                                    ELSE IF DependsOn[t] = {} THEN "ready" ELSE "pending"]
    /\ dispStatus = [c \in DispatchId |-> "none"]
    /\ dispTask = Blank(DispatchId)
    /\ dispHandle = Blank(DispatchId)
    /\ dispFails = NoFails
    /\ gateStatus = [g \in Gate |-> "none"]
    /\ gateTask = Blank(Gate)
    /\ pc = "sleep" /\ ready = {} /\ terminals = {} /\ slots = 0 /\ job = NoJob
    /\ stopped = FALSE /\ failedTasks = {} /\ runStatus = "running"
    /\ mail = <<>> /\ told = {} /\ sent = {} /\ sending = {} /\ faults = 0 /\ calls = 0
    /\ terminal = [h \in Handle |-> IF h \in Running THEN "live" ELSE "unborn"]

Next ==
    \/ CoordinatorNext
    \/ WorkerNext
    \/ \E h \in Handle : Exit(h)
    \/ OperatorNext
    \/ Terminated

Spec == Init /\ [][Next]_vars

\* The event loop keeps running: timers fire and calls settle.  A worker that
\* was given a dispatch reports, as its preamble demands, as long as its
\* terminal lives; the operator answers the gates that are pending.  Both go
\* through the same thread as the loop and are disabled during its turns: the
\* event queue does not lose them, hence strong fairness.
Fairness ==
    /\ WF_vars(CoordinatorNext)
    /\ \A c \in DispatchId : SF_vars(SendDone(c))
    /\ \A g \in Gate : SF_vars(gateStatus[g] = "pending" /\ GateResolve(g))

FairSpec == Spec /\ Fairness
-----------------------------------------------------------------------------
(* Safety *)

\* A context is active exactly as long as its task is dispatched and no newer
\* context exists: no orphan dispatch keeps a terminal locked or a worker
\* working on a task somebody else was given, and no dispatched task is
\* without a worker to wait for.
ActiveIsCurrent ==
    /\ \A c \in DispatchId :
          Active(c) => taskStatus[dispTask[c]] = "dispatched" /\ IsLatest(c, dispTask[c])
    /\ \A t \in Tasks("dispatched") : \E c \in ContextsOf(t) : Active(c)

\* The limit on tasks in hand, counted before the awaits of a tick, still holds
\* after them.
WithinConcurrency == Cardinality(Tasks("dispatched")) <= MaxConcurrent

\* A task has been handed to a worker only once all its dependencies were
\* completed - and they still are.
DependenciesFirst ==
    \A t \in Task : ContextsOf(t) # {} => taskDeps[t] \subseteq Tasks("completed")

\* A terminal that exited keeps no active context, except while the write to
\* it is about to be refused (failActiveDispatchOnExit, catch in dispatchTask).
ExitFreesTerminal ==
    \A c \in DispatchId :
        Active(c) /\ terminal[dispHandle[c]] = "dead"
            => c \in sending \/ (pc = "sending" /\ job.disp = c)

\* A gate blocks progress until a decision is recorded: no worker is at work on
\* a task that has a pending gate.
GateBlocksProgress ==
    \A c \in DispatchId : Active(c) => ~PendingGate(dispTask[c])

\* The loop completes a task only by the report of the worker that its newest,
\* still active context was given to: neither the late report of an earlier
\* attempt nor the report of another terminal completes it, whatever the
\* operator did to the task meanwhile.
CompletionIsEarned ==
    [][pc = "messages" =>
        \A t \in Task : taskStatus[t] # "completed" /\ taskStatus'[t] = "completed" =>
          \E c \in DispatchId : /\ IsLatest(c, t) /\ dispStatus[c] = "dispatched"
                                /\ <<"done", c>> \in sent]_vars

\* A completed or failed task is never opened again by a late escalation, a
\* late report, an exit or a failed write.
SettledIsFinal == [][\A t \in Task : Settled(t) => taskStatus'[t] = taskStatus[t]]_vars

\* Neither a gate and its resolution nor a late message lets a task leave
\* pending before all its dependencies are completed.
PromotedWhenDue ==
    [][\A t \in Task : taskStatus[t] = "pending" /\ taskStatus'[t] # "pending" =>
          \A u \in taskDeps[t] : taskStatus'[u] = "completed"]_vars

\* "After 3 consecutive failures on one task, the dispatch context circuit-
\* breaks and the task is marked failed": a broken task was dispatched three
\* times.
BreakerTakesThreeDispatches ==
    \A c \in DispatchId : dispStatus[c] = "circuit_broken" =>
        Cardinality(ContextsOf(dispTask[c])) >= BreakerLimit

Plans == INSTANCE WorkPlan WITH
            Task <- Planned,
            MaxAttempts <- BreakerLimit,
            phase <- [t \in Planned |->
                        CASE taskStatus[t] \in {"pending", "ready"} -> "waiting"
                          [] taskStatus[t] = "dispatched" -> "running"
                          [] taskStatus[t] = "completed" -> "done"
                          [] OTHER -> "given up"],
            attempts <- [t \in Planned |-> Cardinality(ContextsOf(t))]

\* The run as a whole implements the abstract work plan.
PlanImplemented == Plans!Spec
-----------------------------------------------------------------------------
(* Liveness, under FairSpec *)

\* Unless a task fails that others depend on, the run comes to its end.
RunEnds ==
    [](\A t \in Task : taskDeps[t] \cap Tasks("failed") = {}) => <>(pc = "finished")

\* Every terminal a dispatch locked is given back.
LeaseReturned == \A c \in DispatchId : Active(c) ~> ~Active(c)

\* A task blocked on a gate goes on once its gates are resolved.
GateReopens == \A t \in Task : taskStatus[t] = "blocked" ~> taskStatus[t] # "blocked"
=============================================================================
