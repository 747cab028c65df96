----------------------------- MODULE TaskStore -----------------------------
(***************************************************************************)
(* The orchestration database (OrchestrationDb in db.ts): tasks with their *)
(* dependency lists, dispatch contexts and decision gates.                 *)
(*                                                                         *)
(* The store is synchronous, so each public method is one action.          *)
(* StoreNext lets any caller call any method with any argument at any      *)
(* time, which is what the RPC methods over it allow.  Row ids are random  *)
(* in the code and never come back after a reset; here a row id runs       *)
(* through "none" -> ... -> "deleted" once.  Dispatch ids are numbers      *)
(* because the code compares the insertion order (rowid) of contexts.      *)
(***************************************************************************)
EXTENDS Naturals

CONSTANTS
    Task,           \* task ids
    Handle,         \* terminal handles
    Gate,           \* decision gate ids
    MaxDispatch,    \* bound: dispatch contexts ever created
    MaxFailures     \* bound: failures counted on one context by StoreNext

ASSUME BoundsAssumption == MaxDispatch \in Nat /\ MaxFailures \in Nat

\* Stands for the columns of a context row that is not there yet.
ASSUME NoRowAssumption == "-" \notin Task /\ "-" \notin Handle

VARIABLES
    taskStatus,     \* tasks.status, or "none" / "deleted" without a row
    taskDeps,       \* tasks.deps
    dispStatus,     \* dispatch_contexts.status, or "none" / "deleted"
    dispTask,       \* dispatch_contexts.task_id
    dispHandle,     \* dispatch_contexts.assignee_handle
    dispFails,      \* dispatch_contexts.failure_count
    gateStatus,     \* decision_gates.status, or "none" / "deleted"
    gateTask        \* decision_gates.task_id

taskVars == <<taskStatus, taskDeps>>
dispVars == <<dispStatus, dispTask, dispHandle, dispFails>>
gateVars == <<gateStatus, gateTask>>
storeVars == <<taskVars, dispVars, gateVars>>

Absent == {"none", "deleted"}
TaskStatus == {"pending", "ready", "dispatched", "completed", "failed", "blocked"}
DispatchStatus == {"pending", "dispatched", "completed", "failed", "circuit_broken"}
GateStatus == {"pending", "resolved", "timeout"}
DispatchId == 1..MaxDispatch

\* failure_count at which failDispatch opens the circuit breaker.
BreakerLimit == 3

StoreTypeOK ==
    /\ taskStatus \in [Task -> TaskStatus \cup Absent]
    /\ taskDeps \in [Task -> SUBSET Task]
    /\ dispStatus \in [DispatchId -> DispatchStatus \cup Absent]
    /\ dispTask \in [DispatchId -> Task \cup {"-"}]
    /\ dispHandle \in [DispatchId -> Handle \cup {"-"}]
    /\ dispFails \in [DispatchId -> Nat]
    /\ gateStatus \in [Gate -> GateStatus \cup Absent]
    /\ gateTask \in [Gate -> Task \cup {"-"}]
-----------------------------------------------------------------------------
(* Queries *)

TaskExists(t) == taskStatus[t] \notin Absent

\* The contexts a terminal's dispatch lock counts.
Active(c) == dispStatus[c] \in {"pending", "dispatched"}

ContextsOf(t) == {c \in DispatchId : dispTask[c] = t /\ dispStatus[c] \notin Absent}

\* getDispatchContext: the newest context of a task, whatever its status.
IsLatest(c, t) == c \in ContextsOf(t) /\ \A d \in ContextsOf(t) : d <= c

\* Mutant of IsLatestActive: it looks for contexts in the wrong status.
IsLatestPending(c, t) == IsLatest(c, t) /\ dispStatus[c] = "pending"

\* The context completeActiveDispatchForTask picks: the newest active one.
IsLatestActive(c, t) ==
    /\ c \in ContextsOf(t) /\ Active(c)
    /\ \A d \in ContextsOf(t) : Active(d) => d <= c

\* Mutant of HandleBusy: only contexts that were not sent out yet count.
HandleBusyPending(h) == \E c \in DispatchId : dispHandle[c] = h /\ dispStatus[c] = "pending"

\* createDispatchContext refuses a terminal that still has an active context.
HandleBusy(h) == \E c \in DispatchId : dispHandle[c] = h /\ Active(c)

\* getActiveDispatchForTerminal; its mutant makes the same mistake as above.
PendingOf(h, c) == dispHandle[c] = h /\ dispStatus[c] = "pending"
LockOf(h, c) == dispHandle[c] = h /\ Active(c)

\* Mutant of IsNextDispatch: ids of deleted rows are used again.
IsFreeDispatch(c) ==
    /\ dispStatus[c] \in Absent
    /\ \A d \in DispatchId : d < c => dispStatus[d] \notin Absent

\* The id the next INSERT into dispatch_contexts gets.
IsNextDispatch(c) ==
    /\ dispStatus[c] = "none"
    /\ \A d \in DispatchId : d < c => dispStatus[d] # "none"

\* promoteReadyTasks, after t became completed: the pending tasks that name t
\* and have no dependency left to wait for.
Promoted(t) ==
    {u \in Task \ {t} :
        /\ taskStatus[u] = "pending"
        /\ t \in taskDeps[u]
        /\ \A d \in taskDeps[u] : d = t \/ taskStatus[d] = "completed"}
-----------------------------------------------------------------------------
(* Methods.  The ones that only touch some tables leave the rest alone.    *)

\* createTask: ready when it names no dependency, pending otherwise - even if
\* every dependency it names is already completed.
CreateTask(t, deps) ==
    /\ taskStatus[t] = "none"
    /\ taskStatus' = [taskStatus EXCEPT ![t] = IF deps = {} THEN "ready" ELSE "pending"]
    /\ taskDeps' = [taskDeps EXCEPT ![t] = deps]
    /\ UNCHANGED <<dispVars, gateVars>>

\* Mutant of CompleteActiveDispatch: the context is forgotten.
LeaveDispatch(t) == dispStatus' = dispStatus

\* completeActiveDispatchForTask
CompleteActiveDispatch(t) ==
    dispStatus' = [c \in DispatchId |->
                     IF IsLatestActive(c, t) THEN "completed" ELSE dispStatus[c]]

\* updateTaskStatus(t, "completed"): the children are promoted and the task's
\* active context is closed in the same call.
CompleteTask(t) ==
    /\ TaskExists(t)
    /\ taskStatus' = [u \in Task |-> IF u = t THEN "completed"
                                     ELSE IF u \in Promoted(t) THEN "ready"
                                     ELSE taskStatus[u]]
    /\ CompleteActiveDispatch(t)
    /\ UNCHANGED <<taskDeps, dispTask, dispHandle, dispFails, gateVars>>

\* updateTaskStatus with any other status writes that status and nothing else;
\* in particular it leaves the task's active context as it is.
SetTaskStatus(ts, status) ==
    /\ taskStatus' = [u \in Task |-> IF u \in ts THEN status ELSE taskStatus[u]]
    /\ UNCHANGED <<taskDeps, dispVars, gateVars>>

\* createDispatchContext: only a ready task, only a terminal without an active
\* context, and the failures of the task's earlier contexts are carried over.
CreateDispatchContext(t, h) ==
    /\ taskStatus[t] = "ready"
    /\ ~HandleBusy(h)
    /\ \E c \in DispatchId, prior \in {dispFails[d] : d \in ContextsOf(t)} \cup {0} :
          /\ IsNextDispatch(c)
          /\ \A d \in ContextsOf(t) : dispFails[d] <= prior
          /\ dispStatus' = [dispStatus EXCEPT ![c] = "dispatched"]
          /\ dispTask' = [dispTask EXCEPT ![c] = t]
          /\ dispHandle' = [dispHandle EXCEPT ![c] = h]
          /\ dispFails' = [dispFails EXCEPT ![c] = prior]
    /\ taskStatus' = [taskStatus EXCEPT ![t] = "dispatched"]
    /\ UNCHANGED <<taskDeps, gateVars>>

\* The circuit breaker's comparison, and its mutant: off by one.
BrokenLate(fails) == fails > BreakerLimit
Broken(fails) == fails >= BreakerLimit

\* failDispatch: whatever the context's status was, it is failed once more, and
\* its task goes back to ready or, once the breaker is open, to failed.
FailDispatch(c) ==
    LET fails == dispFails[c] + 1
        broken == Broken(fails)
    IN  /\ dispStatus[c] \notin Absent
        /\ dispFails' = [dispFails EXCEPT ![c] = fails]
        /\ dispStatus' = [dispStatus EXCEPT ![c] = IF broken THEN "circuit_broken" ELSE "failed"]
        /\ taskStatus' = [taskStatus EXCEPT ![dispTask[c]] = IF broken THEN "failed" ELSE "ready"]
        /\ UNCHANGED <<taskDeps, dispTask, dispHandle, gateVars>>

\* createGate: blocks the task from any status and closes its active context.
CreateGate(g, t) ==
    /\ gateStatus[g] = "none"
    /\ gateStatus' = [gateStatus EXCEPT ![g] = "pending"]
    /\ gateTask' = [gateTask EXCEPT ![g] = t]
    /\ CompleteActiveDispatch(t)
    /\ taskStatus' = [taskStatus EXCEPT ![t] = IF TaskExists(t) THEN "blocked" ELSE @]
    /\ UNCHANGED <<taskDeps, dispTask, dispHandle, dispFails>>

\* timeoutGate; also the mutant of resolveGate that forgets the task.
TimeoutGate(g) ==
    /\ gateStatus[g] \notin Absent
    /\ gateStatus' = [gateStatus EXCEPT ![g] = "timeout"]
    /\ UNCHANGED <<taskVars, dispVars, gateTask>>

\* resolveGate: no look at the gate's status nor at the task's.
ResolveGate(g) ==
    /\ gateStatus[g] \notin Absent
    /\ gateStatus' = [gateStatus EXCEPT ![g] = "resolved"]
    /\ taskStatus' = [taskStatus EXCEPT
                        ![gateTask[g]] = IF TaskExists(gateTask[g]) THEN "ready" ELSE @]
    /\ UNCHANGED <<taskDeps, dispVars, gateTask>>

\* A table without its rows; its mutant loses track of the ids already used.
Emptied(status) == [row \in DOMAIN status |-> "-"]
Deleted(status) == [row \in DOMAIN status |->
                      IF status[row] = "none" THEN "none" ELSE "deleted"]

\* The columns of rows that are not there.
Blank(rows) == [row \in rows |-> "-"]
NoDeps == [t \in Task |-> {}]
NoFails == [c \in DispatchId |-> 0]

\* resetTasks: every task, context and gate row goes, with its columns.
ResetTasks ==
    /\ taskStatus' = Deleted(taskStatus)
    /\ dispStatus' = Deleted(dispStatus)
    /\ gateStatus' = Deleted(gateStatus)
    /\ taskDeps' = NoDeps
    /\ dispTask' = Blank(DispatchId)
    /\ dispHandle' = Blank(DispatchId)
    /\ dispFails' = NoFails
    /\ gateTask' = Blank(Gate)
-----------------------------------------------------------------------------
StoreInit ==
    /\ taskStatus = [t \in Task |-> "none"]
    /\ dispStatus = [c \in DispatchId |-> "none"]
    /\ gateStatus = [g \in Gate |-> "none"]
    /\ taskDeps = NoDeps
    /\ dispTask = Blank(DispatchId)
    /\ dispHandle = Blank(DispatchId)
    /\ dispFails = NoFails
    /\ gateTask = Blank(Gate)

\* A dependency list may name any id handed out so far, deleted ones included.
StoreNext ==
    \/ \E t \in Task, deps \in SUBSET {u \in Task : taskStatus[u] # "none"} : CreateTask(t, deps)
    \/ \E t \in Task : CompleteTask(t)
    \/ \E t \in Task, status \in TaskStatus \ {"completed"} :
          TaskExists(t) /\ SetTaskStatus({t}, status)
    \/ \E t \in Task, h \in Handle : CreateDispatchContext(t, h)
    \/ \E c \in DispatchId : dispFails[c] < MaxFailures /\ FailDispatch(c)
    \/ \E g \in Gate, t \in Task : taskStatus[t] # "none" /\ CreateGate(g, t)
    \/ \E g \in Gate : ResolveGate(g)
    \/ \E g \in Gate : TimeoutGate(g)
    \/ ResetTasks

StoreSpec == StoreInit /\ [][StoreNext]_storeVars
-----------------------------------------------------------------------------
\* The dispatch lock: whatever the callers of the store do, in whatever order
\* they fail, complete, block and re-dispatch, no terminal ever has two active
\* contexts (the invariant createDispatchContext's lookup is there to keep).
DispatchLock ==
    \A c, d \in DispatchId :
        Active(c) /\ Active(d) /\ dispHandle[c] = dispHandle[d] => c = d

\* The breaker's two columns agree on every failed context: open exactly when
\* the count carried over plus this context's own failures reached the limit.
BreakerAgrees ==
    \A c \in DispatchId :
        /\ dispStatus[c] = "circuit_broken" => dispFails[c] >= BreakerLimit
        /\ dispStatus[c] = "failed" => dispFails[c] \in 1..(BreakerLimit - 1)

Lease == INSTANCE TerminalLease WITH
            Dispatch <- DispatchId,
            held <- {<<dispHandle[c], c>> : c \in {d \in DispatchId : Active(d)}},
            spent <- {c \in DispatchId : dispStatus[c] # "none"}

\* The table of contexts implements the abstract terminal lease: a terminal is
\* taken only when free and only by a context that never held one, and a
\* context that was closed, failed or deleted is never active again.
LeaseImplemented == Lease!Spec
=============================================================================
