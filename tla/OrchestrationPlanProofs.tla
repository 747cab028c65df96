---------------------- MODULE OrchestrationPlanProofs ----------------------
(***************************************************************************)
(* What a coordinator run does with its task graph, as long as the         *)
(* operator's part is to create tasks, to answer pending gates and to stop *)
(* the run: contexts are current, gates hold tasks back, and - without     *)
(* gates - settled tasks stay settled, dependencies come first and the run *)
(* implements the work plan.                                               *)
(***************************************************************************)
EXTENDS OrchestrationProofs

\* The operator calls that reach into a task behind the loop's back are not made.
OperatorAside == May \cap {"gateCreate", "reresolve", "dispatch", "taskUpdate"} = {}

\* The context in hand during sendTerminal is still its task's newest.
LatestInHand == pc = "sending" => IsLatest(job.disp, job.task)

\* Nothing with a pending gate is in hand, in the snapshot or about to be given
\* out: gates appear while the loop reads its mail, and processDecisionGates
\* blocks their tasks before the next snapshot.
GatesAside ==
    /\ \A t \in Tasks("dispatched") : ~PendingGate(t)
    /\ pc = "plan" => \A t \in Tasks("ready") : ~PendingGate(t)
    /\ \A t \in ready : ~PendingGate(t)
    /\ pc \in {"probing", "commit", "sending"} => ~PendingGate(job.task)
    /\ pc \in {"sleep", "messages", "plan", "converge", "finished"} => ready = {}

CurrentInv == TypeInv /\ sending = {} /\ ActiveIsCurrent /\ LatestInHand /\ GatesAside
-----------------------------------------------------------------------------
(* Steps that give nothing out *)

\* The tasks of gone are taken from their workers, and their contexts ended;
\* nothing else becomes or stops being active, and no context is new.
Ends(gone) ==
    /\ UNCHANGED dispTask
    /\ \A c \in DispatchId : dispStatus'[c] \in Absent <=> dispStatus[c] \in Absent
    /\ \A c \in DispatchId : Active(c)' <=> Active(c) /\ dispTask[c] \notin gone
    /\ Tasks("dispatched")' = Tasks("dispatched") \ gone

\* The newest contexts stay the newest.
LEMMA NewestStay ==
    ASSUME UNCHANGED dispTask,
           \A c \in DispatchId : dispStatus'[c] \in Absent <=> dispStatus[c] \in Absent
    PROVE  /\ \A t : ContextsOf(t)' = ContextsOf(t)
           /\ \A c, t : IsLatest(c, t)' <=> IsLatest(c, t)
<1>1. ASSUME NEW t PROVE ContextsOf(t)' = ContextsOf(t)
  BY DEF ContextsOf
<1> QED
  BY <1>1 DEF IsLatest

LEMMA CurrentKept ==
    ASSUME Rows, ActiveIsCurrent, NEW gone, Ends(gone)
    PROVE  ActiveIsCurrent'
<1>1. /\ \A t : ContextsOf(t)' = ContextsOf(t)
      /\ \A c, t : IsLatest(c, t)' <=> IsLatest(c, t)
  BY NewestStay DEF Ends
<1>2. ASSUME NEW c \in DispatchId, Active(c)'
      PROVE  taskStatus'[dispTask'[c]] = "dispatched" /\ IsLatest(c, dispTask[c])'
  <2>1. Active(c) /\ dispTask[c] \notin gone /\ dispTask'[c] = dispTask[c]
    BY <1>2 DEF Ends
  <2>2. taskStatus[dispTask[c]] = "dispatched" /\ IsLatest(c, dispTask[c]) /\ dispTask[c] \in Task
    BY <2>1 DEF ActiveIsCurrent, Rows, Active
  <2>3. dispTask[c] \in Tasks("dispatched")'
    BY <2>1, <2>2 DEF Ends, Tasks
  <2>4. taskStatus'[dispTask'[c]] = "dispatched"
    BY <2>1, <2>3 DEF Tasks
  <2>5. IsLatest(c, dispTask[c])'
    BY <1>1, <2>1, <2>2 DEF IsLatest
  <2> QED
    BY <2>4, <2>5
<1>3. ASSUME NEW t \in Tasks("dispatched")' PROVE \E c \in ContextsOf(t)' : Active(c)'
  <2>1. t \in Tasks("dispatched") /\ t \notin gone
    BY DEF Ends
  <2>2. PICK c \in ContextsOf(t) : Active(c)
    BY <2>1 DEF ActiveIsCurrent
  <2>3. c \in DispatchId /\ dispTask[c] = t
    BY DEF ContextsOf
  <2>4. Active(c)'
    BY <2>1, <2>2, <2>3 DEF Ends
  <2> QED
    BY <1>1, <2>4
<1> QED
  BY <1>2, <1>3 DEF ActiveIsCurrent

\* Closing the active context of a task closes all of them.
LEMMA CloseEnds ==
    ASSUME StoreTypeOK, Rows, ActiveIsCurrent, NEW t \in Task, CompleteActiveDispatch(t)
    PROVE  /\ \A c \in DispatchId : dispStatus'[c] \in Absent <=> dispStatus[c] \in Absent
           /\ \A c \in DispatchId : Active(c)' <=> Active(c) /\ dispTask[c] # t
<1>1. \A c \in DispatchId : dispStatus'[c] = IF IsLatestActive(c, t) THEN "completed" ELSE dispStatus[c]
  BY DEF CompleteActiveDispatch
<1>2. ASSUME NEW c \in DispatchId PROVE IsLatestActive(c, t) <=> Active(c) /\ dispTask[c] = t
  <2>1. ASSUME Active(c), dispTask[c] = t PROVE IsLatestActive(c, t)
    <3>1. IsLatest(c, t)
      BY <2>1 DEF ActiveIsCurrent
    <3> QED
      BY <2>1, <3>1 DEF IsLatest, IsLatestActive
  <2> QED
    BY <2>1 DEF IsLatestActive, ContextsOf
<1> QED
  BY <1>1, <1>2 DEF Active, Absent

LEMMA CompleteEnds ==
    ASSUME StoreTypeOK, Rows, ActiveIsCurrent, NEW t \in Task, CompleteTask(t)
    PROVE  Ends({t})
<1>1. Tasks("dispatched")' = Tasks("dispatched") \ {t}
  BY DEF CompleteTask, Tasks, Promoted, StoreTypeOK
<1> QED
  BY <1>1, CloseEnds DEF CompleteTask, Ends

LEMMA GateEnds ==
    ASSUME StoreTypeOK, Rows, ActiveIsCurrent, NEW g \in Gate, NEW t \in Task, CreateGate(g, t)
    PROVE  Ends({t})
<1>1. Tasks("dispatched")' = Tasks("dispatched") \ {t}
  BY DEF CreateGate, Tasks, TaskExists, Absent, StoreTypeOK
<1> QED
  BY <1>1, CloseEnds DEF CreateGate, Ends

LEMMA FailEnds ==
    ASSUME StoreTypeOK, Rows, ActiveIsCurrent, NEW c \in DispatchId,
           IsLatest(c, dispTask[c]), FailDispatch(c)
    PROVE  Ends({dispTask[c]})
<1>1. /\ dispStatus[c] \notin Absent /\ dispTask[c] \in Task
      /\ dispStatus'[c] \in {"circuit_broken", "failed"}
      /\ \A d \in DispatchId \ {c} : dispStatus'[d] = dispStatus[d]
      /\ taskStatus'[dispTask[c]] \in {"failed", "ready"}
      /\ \A u \in Task \ {dispTask[c]} : taskStatus'[u] = taskStatus[u]
      /\ UNCHANGED dispTask
  BY DEF FailDispatch, StoreTypeOK, Rows, Absent
<1>2. Tasks("dispatched")' = Tasks("dispatched") \ {dispTask[c]}
  BY <1>1 DEF Tasks
<1>3. ASSUME NEW d \in DispatchId PROVE Active(d)' <=> Active(d) /\ dispTask[d] # dispTask[c]
  <2>1. CASE d = c
    BY <1>1, <2>1 DEF Active
  <2>2. CASE d # c /\ dispTask[d] = dispTask[c]
    <3>1. ~Active(d)
      <4> SUFFICES ASSUME Active(d) PROVE FALSE
        OBVIOUS
      <4>1. IsLatest(d, dispTask[c])
        BY <2>2 DEF ActiveIsCurrent
      <4>2. d <= c /\ c <= d /\ d \in Nat /\ c \in Nat
        BY <4>1, BoundsAssumption DEF IsLatest, ContextsOf, DispatchId
      <4> QED
        BY <2>2, <4>2
    <3> QED
      BY <1>1, <2>2, <3>1 DEF Active
  <2>3. CASE d # c /\ dispTask[d] # dispTask[c]
    BY <1>1, <2>3 DEF Active
  <2> QED
    BY <2>1, <2>2, <2>3
<1> QED
  BY <1>1, <1>2, <1>3 DEF Ends, Absent

\* The other methods, when they stay away from tasks in hand.
LEMMA NothingEnds ==
    ASSUME StoreTypeOK, UNCHANGED dispVars, Tasks("dispatched")' = Tasks("dispatched")
    PROVE  Ends({})
  BY DEF Ends, dispVars, Active

\* A task that is given out is in nobody's hands, so its new context is the only
\* active one it has.
LEMMA CreateCurrent ==
    ASSUME StoreTypeOK, Rows, ActiveIsCurrent, NEW t \in Task, NEW h \in Handle,
           CreateDispatchContext(t, h), NEW c \in DispatchId, IsNextDispatch(c)
    PROVE  ActiveIsCurrent' /\ IsLatest(c, t)'
<1>1. PICK e \in DispatchId :
        /\ IsNextDispatch(e)
        /\ \A d \in DispatchId : dispStatus[d] # "none" => d < e
        /\ dispStatus' = [dispStatus EXCEPT ![e] = "dispatched"]
        /\ dispTask' = [dispTask EXCEPT ![e] = t]
        /\ taskStatus[t] = "ready" /\ taskStatus' = [taskStatus EXCEPT ![t] = "dispatched"]
  BY CreateEffect
<1>2. e = c
  BY <1>1, BoundsAssumption DEF IsNextDispatch, DispatchId
<1>3. /\ dispStatus[c] = "none" /\ dispStatus'[c] = "dispatched" /\ dispTask'[c] = t
      /\ \A d \in DispatchId \ {c} : dispStatus'[d] = dispStatus[d] /\ dispTask'[d] = dispTask[d]
      /\ taskStatus'[t] = "dispatched" /\ \A u \in Task \ {t} : taskStatus'[u] = taskStatus[u]
  BY <1>1, <1>2 DEF StoreTypeOK, IsNextDispatch
<1>4. ContextsOf(t)' = ContextsOf(t) \cup {c}
      /\ \A u \in Task \ {t} : ContextsOf(u)' = ContextsOf(u)
  BY <1>3 DEF ContextsOf, Absent
<1>5. IsLatest(c, t)'
  <2>1. \A d \in ContextsOf(t)' : d <= c
    <3>1. \A d \in ContextsOf(t) : d < c /\ d \in Nat /\ c \in Nat
      BY <1>1, <1>2, BoundsAssumption DEF ContextsOf, Absent, DispatchId
    <3> QED
      BY <1>4, <3>1, BoundsAssumption DEF DispatchId
  <2> QED
    BY <1>4, <2>1 DEF IsLatest
<1>6. ASSUME NEW d \in DispatchId, Active(d)'
      PROVE  taskStatus'[dispTask'[d]] = "dispatched" /\ IsLatest(d, dispTask[d])'
  <2>1. CASE d = c
    BY <1>3, <1>5, <2>1 DEF IsLatest
  <2>2. CASE d # c
    <3>1. Active(d) /\ dispTask'[d] = dispTask[d] /\ dispTask[d] \in Task
      BY <1>3, <1>6, <2>2 DEF Active, Rows
    <3>2. taskStatus[dispTask[d]] = "dispatched" /\ IsLatest(d, dispTask[d])
      BY <3>1 DEF ActiveIsCurrent
    <3>3. dispTask[d] # t
      BY <1>1, <3>2
    <3>4. PICK u \in Task \ {t} : u = dispTask[d]
      BY <3>1, <3>3
    <3>5. IsLatest(d, u) /\ dispTask'[d] = u
      BY <3>1, <3>2, <3>4
    <3>6. IsLatest(d, u)'
      BY <1>4, <3>5 DEF IsLatest
    <3> QED
      BY <1>3, <3>2, <3>4, <3>5, <3>6 DEF IsLatest
  <2> QED
    BY <2>1, <2>2
<1>7. ASSUME NEW u \in Tasks("dispatched")' PROVE \E d \in ContextsOf(u)' : Active(d)'
  <2>1. CASE u = t
    BY <1>3, <1>4, <2>1 DEF Active
  <2>2. CASE u # t
    <3>1. u \in Task /\ u \in Tasks("dispatched") /\ ContextsOf(u)' = ContextsOf(u)
      BY <1>3, <1>4, <2>2 DEF Tasks
    <3>2. PICK d \in ContextsOf(u) : Active(d)
      BY <3>1 DEF ActiveIsCurrent
    <3>3. d \in DispatchId /\ d # c
      BY <1>3, <3>2 DEF ContextsOf, Absent
    <3> QED
      BY <1>3, <3>1, <3>2, <3>3 DEF Active
  <2> QED
    BY <2>1, <2>2
<1> QED
  BY <1>5, <1>6, <1>7 DEF ActiveIsCurrent
-----------------------------------------------------------------------------
(* Every step of the run *)

\* A step that takes tasks from their workers, adds no gate and moves nothing in
\* the loop.
LEMMA HeldKept ==
    ASSUME CurrentInv, NEW gone, Ends(gone), \A t : PendingGate(t)' => PendingGate(t),
           UNCHANGED <<pc, ready, job>>, pc # "plan"
    PROVE  ActiveIsCurrent' /\ LatestInHand' /\ GatesAside'
<1>1. ActiveIsCurrent'
  BY CurrentKept DEF CurrentInv, TypeInv
<1>2. LatestInHand'
  <2>1. job.disp' = job.disp /\ job.task' = job.task
    OBVIOUS
  <2>2. IsLatest(job.disp, job.task) => IsLatest(job.disp, job.task)'
    BY <2>1 DEF Ends, IsLatest, ContextsOf
  <2> QED
    BY <2>2 DEF CurrentInv, LatestInHand
<1>3. GatesAside'
  <2>1. Tasks("dispatched")' \subseteq Tasks("dispatched")
    BY DEF Ends
  <2> QED
    BY <2>1 DEF CurrentInv, GatesAside
<1> QED
  BY <1>1, <1>2, <1>3

\* A step of the loop that leaves the store alone.
LEMMA StoreRests ==
    ASSUME CurrentInv, UNCHANGED storeVars
    PROVE  /\ ActiveIsCurrent'
           /\ \A c, t : IsLatest(c, t)' <=> IsLatest(c, t)
           /\ \A t : PendingGate(t)' <=> PendingGate(t)
           /\ \A status : Tasks(status)' = Tasks(status)
           /\ Ends({})
<1>1. UNCHANGED <<taskStatus, dispVars, gateStatus, gateTask>>
  BY DEF storeVars, taskVars, gateVars
<1>2. \A status : Tasks(status)' = Tasks(status)
  BY <1>1 DEF Tasks
<1>3. Ends({})
  BY <1>1, <1>2, NothingEnds DEF CurrentInv, TypeInv, TypeOK
<1>4. ActiveIsCurrent' /\ \A c, t : IsLatest(c, t)' <=> IsLatest(c, t)
  BY <1>3, CurrentKept, NewestStay DEF CurrentInv, TypeInv, Ends
<1> QED
  BY <1>1, <1>2, <1>3, <1>4 DEF PendingGate

\* The loop's steps.
LEMMA CoordinatorCurrent ==
    ASSUME CurrentInv, TypeInv', CoordinatorNext
    PROVE  ActiveIsCurrent' /\ LatestInHand' /\ GatesAside'
<1> USE DEF Go
<1>0. /\ StoreTypeOK /\ Rows /\ InHand /\ ActiveIsCurrent /\ LatestInHand /\ GatesAside
      /\ TypeOK /\ StoreTypeOK'
  BY DEF CurrentInv, TypeInv, TypeOK
<1>1. CASE Wake \/ StopSeen \/ CheckConvergence \/ Converge
  <2>1. /\ UNCHANGED <<storeVars, ready>> /\ ready = {}
        /\ pc' \in {"messages", "finished", "sleep"}
    BY <1>0, <1>1 DEF Wake, StopSeen, CheckConvergence, Converge, Finish, GatesAside
  <2> QED
    BY <1>0, <2>1, StoreRests DEF LatestInHand, GatesAside
<1>2. CASE HandleWorkerDone
  <2>1. /\ UNCHANGED <<pc, ready, job>> /\ pc = "messages" /\ mail # <<>>
        /\ CompleteTask(Head(mail).task) \/ UNCHANGED storeVars
    BY <1>2 DEF HandleWorkerDone, TakeMail
  <2>2. Head(mail).task \in Task
    BY <1>0, <2>1, HeadTyped
  <2>3. CASE CompleteTask(Head(mail).task)
    <3>1. PICK t \in Task : t = Head(mail).task
      BY <2>2
    <3>2. Ends({t}) /\ \A u : PendingGate(u)' => PendingGate(u)
      BY <1>0, <2>3, <3>1, CompleteEnds DEF CompleteTask, gateVars, PendingGate
    <3> QED
      BY <2>1, <3>2, HeldKept
  <2>4. CASE UNCHANGED storeVars
    BY <2>1, <2>4, StoreRests, HeldKept
  <2> QED
    BY <2>1, <2>3, <2>4
<1>3. CASE HandleEscalation
  <2>1. /\ UNCHANGED <<pc, ready, job>> /\ pc = "messages"
        /\ (\E c \in DispatchId : IsLatest(c, Head(mail).task) /\ FailDispatch(c)) \/ UNCHANGED storeVars
    BY <1>3 DEF HandleEscalation, TakeMail
  <2>2. ASSUME NEW c \in DispatchId, IsLatest(c, Head(mail).task), FailDispatch(c)
        PROVE  ActiveIsCurrent' /\ LatestInHand' /\ GatesAside'
    <3>1. IsLatest(c, dispTask[c])
      BY <2>2 DEF IsLatest, ContextsOf
    <3>2. PICK gone : Ends(gone)
      BY <1>0, <2>2, <3>1, FailEnds
    <3>3. \A u : PendingGate(u)' => PendingGate(u)
      BY <2>2 DEF FailDispatch, gateVars, PendingGate
    <3> QED
      BY <2>1, <3>2, <3>3, HeldKept
  <2>3. CASE UNCHANGED storeVars
    BY <2>1, <2>3, StoreRests, HeldKept
  <2> QED
    BY <2>1, <2>2, <2>3
<1>4. CASE HandleDecisionGateMessage
  <2>1. /\ UNCHANGED <<pc, ready, job>> /\ pc = "messages" /\ mail # <<>>
        /\ \E g \in Gate : CreateGate(g, Head(mail).task)
    BY <1>4 DEF HandleDecisionGateMessage, TakeMail
  <2>2. PICK t \in Task : t = Head(mail).task
    BY <1>0, <2>1, HeadTyped
  <2>3. PICK g \in Gate : CreateGate(g, t)
    BY <2>1, <2>2
  <2>4. Ends({t})
    BY <1>0, <2>3, GateEnds
  <2>5. ActiveIsCurrent'
    BY <1>0, <2>4, CurrentKept
  <2>6. \A u \in Task : PendingGate(u)' => PendingGate(u) \/ u = t
    BY <1>0, <2>3 DEF CreateGate, PendingGate, StoreTypeOK
  <2>7. \A u \in Tasks("dispatched")' : u \in Task /\ u # t /\ u \in Tasks("dispatched")
    BY <2>4 DEF Ends, Tasks
  <2>8. ready' = {}
    BY <1>0, <2>1 DEF GatesAside
  <2> QED
    BY <1>0, <2>1, <2>5, <2>6, <2>7, <2>8 DEF GatesAside, LatestInHand
<1>5. CASE ProcessDecisionGates
  <2>1. /\ pc' = "plan" /\ pc = "messages" /\ UNCHANGED ready
        /\ SetTaskStatus({t \in Existing : PendingGate(t)}, "blocked")
    BY <1>5 DEF ProcessDecisionGates
  <2>2. \A t \in Task : taskStatus'[t] = IF PendingGate(t) /\ TaskExists(t) THEN "blocked" ELSE taskStatus[t]
    BY <2>1 DEF SetTaskStatus, Existing
  <2>3. /\ \A u : PendingGate(u)' <=> PendingGate(u)
        /\ UNCHANGED dispVars
    BY <2>1 DEF SetTaskStatus, gateVars, PendingGate
  <2>4. Tasks("dispatched")' = Tasks("dispatched")
    BY <1>0, <2>2 DEF Tasks, GatesAside
  <2>5. ActiveIsCurrent'
    BY <1>0, <2>3, <2>4, NothingEnds, CurrentKept
  <2>6. \A t \in Tasks("ready")' : ~PendingGate(t)'
    BY <2>2, <2>3 DEF Tasks, TaskExists, Absent
  <2> QED
    BY <1>0, <2>1, <2>3, <2>4, <2>5, <2>6 DEF GatesAside, LatestInHand
<1>6. CASE Plan
  <2>1. UNCHANGED storeVars /\ pc = "plan"
        /\ ((pc' = "converge" /\ ready' = ready) \/ (pc' = "listing" /\ ready' = Tasks("ready")))
    BY <1>6 DEF Plan
  <2> QED
    BY <1>0, <2>1, StoreRests DEF GatesAside, LatestInHand
<1>7. CASE ListTerminals \/ CreateTerminal
  <2>1. UNCHANGED storeVars /\ ready' \subseteq ready /\ pc' \in {"creating", "assign", "converge"}
        /\ (pc' = "converge" => ready' = {})
    BY <1>7 DEF ListTerminals, CreateTerminal
  <2> QED
    BY <1>0, <2>1, StoreRests DEF GatesAside, LatestInHand
<1>8. CASE Assign
  <2>1. UNCHANGED storeVars /\ ready' \subseteq ready
        /\ \/ pc' = "converge" /\ ready' = {}
           \/ pc' \in {"probing", "commit"} /\ job'.task \in ready
    BY <1>8 DEF Assign
  <2> QED
    BY <1>0, <2>1, StoreRests DEF GatesAside, LatestInHand
<1>9. CASE Probe \/ SendOk
  <2>1. UNCHANGED storeVars /\ ready' = ready
        /\ ((pc = "probing" /\ pc' = "commit" /\ job' = job) \/ pc' = "assign")
    BY <1>9 DEF Probe, SendOk
  <2> QED
    BY <1>0, <2>1, StoreRests DEF GatesAside, LatestInHand
<1>10. CASE Commit
  <2>1. pc = "commit" /\ ready' = ready /\ job.task \in Task /\ job.handle \in Handle
        /\ ~PendingGate(job.task)
    BY <1>0, <1>10 DEF Commit, InHand, GatesAside
  <2>2. CASE UNCHANGED storeVars /\ pc' = "assign"
    BY <1>0, <2>1, <2>2, StoreRests DEF GatesAside, LatestInHand
  <2>3. CASE /\ CreateDispatchContext(job.task, job.handle) /\ pc' = "sending"
             /\ \E c \in DispatchId : IsNextDispatch(c) /\ job' = [job EXCEPT !.disp = c]
    <3>1. PICK c \in DispatchId : IsNextDispatch(c) /\ job' = [job EXCEPT !.disp = c]
      BY <2>3
    <3>2. PICK t \in Task, h \in Handle : t = job.task /\ h = job.handle
      BY <2>1
    <3>3. job'.disp = c /\ job'.task = t
      BY <1>0, <3>1, <3>2 DEF TypeOK
    <3>4. CreateDispatchContext(t, h)
      BY <2>3, <3>2
    <3>5. ActiveIsCurrent' /\ IsLatest(c, t)'
      BY <1>0, <3>1, <3>4, CreateCurrent
    <3>6. LatestInHand'
      BY <3>3, <3>5 DEF LatestInHand, IsLatest
    <3>7. \A u : PendingGate(u)' <=> PendingGate(u)
      BY <3>4 DEF CreateDispatchContext, gateVars, PendingGate
    <3>8. Tasks("dispatched")' = Tasks("dispatched") \cup {t}
      BY <1>0, <3>4, InHandShrinks
    <3> QED
      BY <1>0, <2>1, <2>3, <3>2, <3>3, <3>5, <3>6, <3>7, <3>8 DEF GatesAside
  <2> QED
    BY <1>10, <2>2, <2>3 DEF Commit
<1>11. CASE SendError
  <2>1. pc = "sending" /\ pc' = "assign" /\ FailDispatch(job.disp) /\ ready' = ready
    BY <1>11 DEF SendError
  <2>2. PICK c \in DispatchId : c = job.disp /\ IsLatest(c, dispTask[c])
    BY <1>0, <2>1 DEF InHand, LatestInHand
  <2>3. Ends({dispTask[c]})
    BY <1>0, <2>1, <2>2, FailEnds
  <2>4. \A u : PendingGate(u)' => PendingGate(u)
    BY <2>1 DEF FailDispatch, gateVars, PendingGate
  <2>5. ActiveIsCurrent'
    BY <1>0, <2>3, CurrentKept
  <2>6. Tasks("dispatched")' \subseteq Tasks("dispatched")
    BY <2>3 DEF Ends
  <2> QED
    BY <1>0, <2>1, <2>4, <2>5, <2>6 DEF GatesAside, LatestInHand
<1> QED
  BY <1>1, <1>2, <1>3, <1>4, <1>5, <1>6, <1>7, <1>8, <1>9, <1>10, <1>11 DEF CoordinatorNext

\* Everyone else's steps.
LEMMA OthersCurrent ==
    ASSUME CurrentInv, TypeInv', OperatorAside,
           WorkerNext \/ (\E h \in Handle : Exit(h)) \/ OperatorNext \/ Terminated \/ UNCHANGED vars
    PROVE  ActiveIsCurrent' /\ LatestInHand' /\ GatesAside'
<1> DEFINE Kept == ActiveIsCurrent' /\ LatestInHand' /\ GatesAside'
<1>0. /\ StoreTypeOK /\ Rows /\ InHand /\ ActiveIsCurrent /\ LatestInHand /\ GatesAside
      /\ TypeOK /\ StoreTypeOK'
  BY DEF CurrentInv, TypeInv, TypeOK
<1>1. ASSUME UNCHANGED <<storeVars, pc, ready, job>> PROVE Kept
  <2>1. CASE pc # "plan"
    BY <1>1, <2>1, StoreRests, HeldKept
  <2>2. CASE pc = "plan"
    BY <1>0, <1>1, <2>2, StoreRests DEF GatesAside, LatestInHand
  <2> QED
    BY <2>1, <2>2
<1>2. ASSUME Elsewhere PROVE UNCHANGED <<pc, ready, job>> /\ pc # "plan"
  BY <1>2 DEF Elsewhere, Turn, loopVars
<1>3. CASE WorkerNext
  BY <1>1, <1>2, <1>3 DEF WorkerNext, SendDone, SendEscalation, SendGate, SendForeignDone, Send
<1>4. ASSUME NEW h \in Handle, Exit(h) PROVE Kept
  <2>1. Elsewhere /\ (UNCHANGED storeVars \/ \E c \in DispatchId : LockOf(h, c) /\ FailDispatch(c))
    BY <1>4 DEF Exit
  <2>2. ASSUME NEW c \in DispatchId, LockOf(h, c), FailDispatch(c) PROVE Kept
    <3>1. IsLatest(c, dispTask[c])
      BY <1>0, <2>2 DEF LockOf, ActiveIsCurrent
    <3>2. PICK gone : Ends(gone)
      BY <1>0, <2>2, <3>1, FailEnds
    <3>3. \A u : PendingGate(u)' => PendingGate(u)
      BY <2>2 DEF FailDispatch, gateVars, PendingGate
    <3> QED
      BY <1>2, <2>1, <3>2, <3>3, HeldKept
  <2> QED
    BY <1>1, <1>2, <2>1, <2>2
<1>5. ASSUME NEW g \in Gate, GateResolve(g) PROVE Kept
  <2>1. Elsewhere /\ ResolveGate(g) /\ gateStatus[g] = "pending"
    BY <1>5 DEF GateResolve, OperatorAside
  <2>2. gateTask[g] \notin Tasks("dispatched")
    BY <1>0, <2>1 DEF GatesAside, PendingGate
  <2>3. Tasks("dispatched")' = Tasks("dispatched") /\ UNCHANGED dispVars
    BY <1>0, <2>1, <2>2 DEF ResolveGate, Tasks, StoreTypeOK
  <2>4. \A u : PendingGate(u)' => PendingGate(u)
    BY <1>0, <2>1 DEF ResolveGate, PendingGate, StoreTypeOK
  <2> QED
    BY <1>0, <1>2, <2>1, <2>3, <2>4, NothingEnds, HeldKept
<1>6. ASSUME NEW t \in Task, NEW deps, TaskCreate(t, deps) PROVE Kept
  <2>1. Elsewhere /\ CreateTask(t, deps)
    BY <1>6 DEF TaskCreate
  <2>2. Tasks("dispatched")' = Tasks("dispatched") /\ UNCHANGED dispVars
    BY <1>0, <2>1 DEF CreateTask, Tasks, StoreTypeOK
  <2>3. \A u : PendingGate(u)' => PendingGate(u)
    BY <2>1 DEF CreateTask, gateVars, PendingGate
  <2> QED
    BY <1>0, <1>2, <2>1, <2>2, <2>3, NothingEnds, HeldKept
<1>7. CASE OperatorNext
  <2>1. ASSUME NEW g, NEW t, GateCreate(g, t) PROVE FALSE
    BY <2>1 DEF GateCreate, OperatorAside
  <2>2. ASSUME NEW t, NEW status, TaskUpdate(t, status) PROVE FALSE
    BY <2>2 DEF TaskUpdate, OperatorAside
  <2>3. ASSUME NEW t, NEW h, NEW inject, DispatchRpc(t, h, inject) PROVE FALSE
    BY <2>3 DEF DispatchRpc, OperatorAside
  <2>4. ASSUME NEW c \in sending PROVE FALSE
    BY <2>4 DEF CurrentInv
  <2>5. ASSUME RunStop PROVE Kept
    BY <1>1, <2>5 DEF RunStop
  <2> HIDE DEF Kept
  <2>6. Kept
    BY <1>5, <1>6, <1>7, <2>1, <2>2, <2>3, <2>4, <2>5, Zenon DEF OperatorNext
  <2> QED
    BY <2>6 DEF Kept
<1>8. CASE Terminated \/ UNCHANGED vars
  BY <1>1, <1>8 DEF Terminated, vars, loopVars
<1> QED
  BY <1>3, <1>4, <1>7, <1>8

\* Only the operator's dispatch has a write of its own pending.
LEMMA NothingSending ==
    ASSUME sending = {}, [Next]_vars, OperatorAside
    PROVE  sending' = {}
<1>1. CASE CoordinatorNext
  BY <1>1 DEF CoordinatorNext, Wake, StopSeen, Finish, HandleWorkerDone, HandleEscalation,
     HandleDecisionGateMessage, TakeMail, ProcessDecisionGates, Plan, ListTerminals, CreateTerminal,
     Assign, Probe, Commit, SendOk, SendError, CheckConvergence, Converge, worldVars
<1>2. CASE WorkerNext
  BY <1>2 DEF WorkerNext, SendDone, SendEscalation, SendGate, SendForeignDone, Send
<1>3. CASE \E h \in Handle : Exit(h)
  BY <1>3 DEF Exit
<1>4. CASE OperatorNext \/ Terminated \/ UNCHANGED vars
  BY <1>4 DEF OperatorNext, GateResolve, GateCreate, TaskUpdate, TaskCreate, DispatchRpc, OperatorAside,
     RunStop, Terminated, vars, worldVars
<1> QED
  BY <1>1, <1>2, <1>3, <1>4 DEF Next

LEMMA CurrentStep ==
    ASSUME CurrentInv, [Next]_vars, OperatorAside
    PROVE  CurrentInv'
<1>1. TypeInv' /\ sending' = {}
  BY TypeStep, NothingSending DEF CurrentInv
<1>2. ActiveIsCurrent' /\ LatestInHand' /\ GatesAside'
  BY <1>1, CoordinatorCurrent, OthersCurrent, Zenon DEF Next
<1> QED
  BY <1>1, <1>2 DEF CurrentInv

LEMMA OrchCurrentInv ==
    ASSUME OperatorAside
    PROVE  Spec => []CurrentInv
<1>1. Init => CurrentInv
  <2> SUFFICES ASSUME Init PROVE CurrentInv
    OBVIOUS
  <2>1. ActiveIsCurrent
    BY DEF Init, ActiveIsCurrent, Active, Tasks
  <2>2. LatestInHand /\ GatesAside /\ sending = {}
    BY DEF Init, LatestInHand, GatesAside, Tasks, PendingGate
  <2> QED
    BY <2>1, <2>2, TypeInit DEF CurrentInv
<1>2. CurrentInv /\ [Next]_vars => CurrentInv'
  BY CurrentStep
<1> QED
  BY <1>1, <1>2, PTL DEF Spec

\* However exits, late and foreign reports, escalations, gates, refused and
\* failed writes interleave with the loop: an active context is its task's
\* newest and its task is in hand, and every task in hand has one.
THEOREM OrchActiveIsCurrent ==
    ASSUME OperatorAside
    PROVE  Spec => []ActiveIsCurrent
<1>1. CurrentInv => ActiveIsCurrent
  BY DEF CurrentInv
<1> QED
  BY OrchCurrentInv, <1>1, PTL

\* And nobody works on a task that has a pending gate.
THEOREM OrchGateBlocksProgress ==
    ASSUME OperatorAside
    PROVE  Spec => []GateBlocksProgress
<1>1. CurrentInv => GateBlocksProgress
  BY DEF CurrentInv, TypeInv, Rows, Active, ActiveIsCurrent, GatesAside, GateBlocksProgress, Tasks
<1> QED
  BY OrchCurrentInv, <1>1, PTL
-----------------------------------------------------------------------------
(* Without gates *)

\* No worker asks for a gate, either.
PlainRun == May \cap {"gateCreate", "reresolve", "dispatch", "taskUpdate", "gate"} = {}

\* What the status of a task's newest context says about the task.
Tells(contextStatus, status) ==
    \/ contextStatus = "dispatched" /\ status = "dispatched"
    \/ contextStatus = "completed" /\ status = "completed"
    \/ contextStatus = "failed" /\ status = "ready"
    \/ contextStatus = "circuit_broken" /\ status = "failed"

NewestTells(t) ==
    \/ ContextsOf(t) = {} /\ taskStatus[t] \in {"none", "pending", "ready"}
    \/ \E c \in DispatchId : IsLatest(c, t) /\ Tells(dispStatus[c], taskStatus[t])

\* Task and newest context never disagree; a write that is refused cannot find
\* its context completed.
PlainInv ==
    /\ CurrentInv /\ BreakerAgrees
    /\ \A g \in Gate : gateStatus[g] = "none"
    /\ \A m \in Letters(mail) : m.kind # "gate"
    /\ \A t \in Task : NewestTells(t)
    /\ pc = "sending" => dispStatus[job.disp] # "completed"

\* What one step does to the store.
PlainStep ==
    \/ UNCHANGED storeVars
    \/ /\ pc = "messages"
       /\ \E t \in Task, c \in DispatchId :
             /\ IsLatest(c, t) /\ dispStatus[c] = "dispatched" /\ taskStatus[t] = "dispatched"
             /\ CompleteTask(t)
    \/ \E c \in DispatchId :
          /\ IsLatest(c, dispTask[c]) /\ dispStatus[c] # "completed"
          /\ FailDispatch(c)
    \/ /\ pc = "commit" /\ job.task \in Task /\ job.handle \in Handle
       /\ CreateDispatchContext(job.task, job.handle)
    \/ \E t \in Task, deps \in SUBSET Existing : CreateTask(t, deps)

\* A task has one newest context.
LEMMA OneNewest ==
    ASSUME NEW t, NEW c \in DispatchId, NEW d \in DispatchId, IsLatest(c, t), IsLatest(d, t)
    PROVE  c = d
  BY BoundsAssumption DEF IsLatest, DispatchId

LEMMA NextIsPlainStep ==
    ASSUME PlainInv, [Next]_vars, PlainRun
    PROVE  PlainStep
<1>0. /\ StoreTypeOK /\ Rows /\ InHand /\ ActiveIsCurrent /\ LatestInHand /\ TypeOK /\ CurrentInv
  BY DEF PlainInv, CurrentInv, TypeInv, TypeOK
<1> USE DEF PlainStep
<1>1. ASSUME UNCHANGED storeVars PROVE PlainStep
  BY <1>1
<1>2. CASE Wake \/ StopSeen \/ Plan \/ ListTerminals \/ CreateTerminal \/ Assign \/ Probe
           \/ SendOk \/ CheckConvergence \/ Converge
  BY <1>1, <1>2 DEF Wake, StopSeen, Finish, Plan, ListTerminals, CreateTerminal, Assign, Probe,
     SendOk, CheckConvergence, Converge
<1>3. CASE HandleWorkerDone
  <2>1. CASE UNCHANGED storeVars
    BY <2>1
  <2>2. CASE AcceptsDone(Head(mail)) /\ CompleteTask(Head(mail).task)
    <3>1. mail # <<>> /\ Head(mail).kind = "done" /\ pc = "messages"
      BY <1>3 DEF HandleWorkerDone, TakeMail
    <3>2. PICK t \in Task, c \in DispatchId : t = Head(mail).task /\ c = Head(mail).disp
      BY <1>0, <3>1, HeadTyped
    <3>3. IsLatest(c, t) /\ dispStatus[c] = "dispatched" /\ taskStatus[t] = "dispatched"
          /\ CompleteTask(t)
      BY <2>2, <3>2 DEF AcceptsDone
    <3> QED
      BY <3>1, <3>3
  <2> QED
    BY <1>3, <2>1, <2>2 DEF HandleWorkerDone
<1>4. CASE HandleEscalation
  <2>1. CASE UNCHANGED storeVars
    BY <2>1
  <2>2. CASE \E c \in DispatchId : IsLatest(c, Head(mail).task) /\ FailDispatch(c)
    <3>1. mail # <<>>
      BY <1>4 DEF HandleEscalation, TakeMail
    <3>2. PICK t \in Task : t = Head(mail).task
      BY <1>0, <3>1, HeadTyped
    <3>3. PICK c \in DispatchId : IsLatest(c, t) /\ FailDispatch(c)
      BY <2>2, <3>2
    <3>4. dispTask[c] = t /\ ContextsOf(t) # {}
      BY <3>3 DEF IsLatest, ContextsOf
    <3>5. CASE Settled(t)
      BY <1>1, <1>4, <3>2, <3>5, <3>4 DEF HandleEscalation
    <3>6. CASE ~Settled(t)
      <4>1. PICK d \in DispatchId : IsLatest(d, t) /\ Tells(dispStatus[d], taskStatus[t])
        BY <3>4 DEF PlainInv, NewestTells
      <4>2. c = d
        BY <3>3, <4>1, OneNewest
      <4>3. dispStatus[c] # "completed"
        BY <3>6, <4>1, <4>2 DEF Tells, Settled
      <4> QED
        BY <3>3, <3>4, <4>3
    <3> QED
      BY <3>5, <3>6
  <2> QED
    BY <1>4, <2>1, <2>2 DEF HandleEscalation
<1>5. CASE HandleDecisionGateMessage
  <2>1. mail # <<>> /\ Head(mail).kind = "gate"
    BY <1>5 DEF HandleDecisionGateMessage, TakeMail
  <2>2. Head(mail) \in Letters(mail)
    BY <1>0, <2>1, HeadTyped
  <2> QED
    BY <2>1, <2>2 DEF PlainInv
<1>6. CASE ProcessDecisionGates
  <2>1. SetTaskStatus({t \in Existing : PendingGate(t)}, "blocked")
    BY <1>6 DEF ProcessDecisionGates
  <2>2. {t \in Existing : PendingGate(t)} = {}
    BY DEF PlainInv, PendingGate
  <2>3. taskStatus' = taskStatus
    BY <1>0, <2>1, <2>2 DEF SetTaskStatus, StoreTypeOK
  <2>4. UNCHANGED storeVars
    BY <2>1, <2>3 DEF SetTaskStatus, storeVars, taskVars
  <2> QED
    BY <2>4
<1>7. CASE Commit
  <2>1. pc = "commit" /\ job.task \in Task /\ job.handle \in Handle
    BY <1>0, <1>7 DEF Commit, InHand
  <2> QED
    BY <1>1, <1>7, <2>1 DEF Commit
<1>8. CASE SendError
  <2>1. FailDispatch(job.disp) /\ pc = "sending"
    BY <1>8 DEF SendError
  <2>2. job.disp \in DispatchId /\ IsLatest(job.disp, dispTask[job.disp]) /\ dispStatus[job.disp] # "completed"
    BY <1>0, <2>1 DEF InHand, LatestInHand, PlainInv
  <2> QED
    BY <2>1, <2>2
<1>9. CASE WorkerNext
  BY <1>1, <1>9 DEF WorkerNext, SendDone, SendEscalation, SendGate, SendForeignDone, Send
<1>10. CASE \E h \in Handle : Exit(h)
  <2>1. CASE UNCHANGED storeVars
    BY <2>1
  <2>2. CASE \E h \in Handle, c \in DispatchId : LockOf(h, c) /\ FailDispatch(c)
    <3>1. PICK c \in DispatchId : Active(c) /\ FailDispatch(c)
      BY <2>2 DEF LockOf
    <3>2. IsLatest(c, dispTask[c]) /\ dispStatus[c] # "completed"
      BY <1>0, <3>1 DEF ActiveIsCurrent, Active
    <3> QED
      BY <3>1, <3>2
  <2> QED
    BY <1>10, <2>1, <2>2 DEF Exit
<1>11. CASE OperatorNext
  <2>1. ASSUME NEW t \in Task, NEW deps \in SUBSET Existing, TaskCreate(t, deps) PROVE PlainStep
    BY <2>1 DEF TaskCreate
  <2>2. ASSUME NEW g \in Gate, GateResolve(g) PROVE FALSE
    BY <2>2 DEF GateResolve, ResolveGate, PlainInv, Absent
  <2>3. ASSUME NEW g, NEW t, GateCreate(g, t) PROVE FALSE
    BY <2>3 DEF GateCreate, PlainRun
  <2>4. ASSUME NEW t, NEW status, TaskUpdate(t, status) PROVE FALSE
    BY <2>4 DEF TaskUpdate, PlainRun
  <2>5. ASSUME NEW t, NEW h, NEW inject, DispatchRpc(t, h, inject) PROVE FALSE
    BY <2>5 DEF DispatchRpc, PlainRun
  <2>6. ASSUME NEW c \in sending PROVE FALSE
    BY <1>0, <2>6 DEF CurrentInv
  <2>7. ASSUME RunStop PROVE PlainStep
    BY <1>1, <2>7 DEF RunStop
  <2> HIDE DEF PlainStep
  <2> QED
    BY <1>11, <2>1, <2>2, <2>3, <2>4, <2>5, <2>6, <2>7, Zenon DEF OperatorNext
<1>12. CASE Terminated \/ UNCHANGED vars
  BY <1>1, <1>12 DEF Terminated, vars
<1> HIDE DEF PlainStep
<1>13. CASE CoordinatorNext
  BY <1>2, <1>3, <1>4, <1>5, <1>6, <1>7, <1>8, <1>13 DEF CoordinatorNext
<1> QED
  BY <1>9, <1>10, <1>11, <1>12, <1>13, Zenon DEF Next

\* The loop comes to the write with the context it just made, and stays with it
\* until the write ends.
LEMMA SendingHeld ==
    ASSUME [Next]_vars, pc' = "sending"
    PROVE  \/ pc = "sending" /\ job' = job
           \/ /\ pc = "commit" /\ CreateDispatchContext(job.task, job.handle)
              /\ \E c \in DispatchId : IsNextDispatch(c) /\ job' = [job EXCEPT !.disp = c]
<1> USE DEF Go
<1>1. CASE CoordinatorNext
  <2>1. CASE Commit
    BY <2>1 DEF Commit
  <2>2. CASE HandleWorkerDone \/ HandleEscalation \/ HandleDecisionGateMessage
    BY <2>2 DEF HandleWorkerDone, HandleEscalation, HandleDecisionGateMessage, TakeMail
  <2>3. CASE ~Commit /\ ~(HandleWorkerDone \/ HandleEscalation \/ HandleDecisionGateMessage)
    BY <1>1, <2>3 DEF CoordinatorNext, Wake, StopSeen, Finish, ProcessDecisionGates, Plan, ListTerminals,
       CreateTerminal, Assign, Probe, SendOk, SendError, CheckConvergence, Converge
  <2> QED
    BY <2>1, <2>2, <2>3
<1>2. CASE ~CoordinatorNext
  <2>1. UNCHANGED <<pc, job>>
    <3>1. WorkerNext => UNCHANGED <<pc, job>>
      BY DEF WorkerNext, SendDone, SendEscalation, SendGate, SendForeignDone, Send, Elsewhere, loopVars
    <3>2. (\E h \in Handle : Exit(h)) => UNCHANGED <<pc, job>>
      BY DEF Exit, Elsewhere, loopVars
    <3>3. OperatorNext => UNCHANGED <<pc, job>>
      BY DEF OperatorNext, GateResolve, GateCreate, TaskUpdate, TaskCreate, DispatchRpc, DispatchSent,
         RunStop, Elsewhere, loopVars
    <3>4. Terminated \/ UNCHANGED vars => UNCHANGED <<pc, job>>
      BY DEF Terminated, vars, loopVars
    <3> QED
      BY <1>2, <3>1, <3>2, <3>3, <3>4 DEF Next
  <2> QED
    BY <2>1
<1> QED
  BY <1>1, <1>2

\* The effects of the methods, as far as tasks and newest contexts go.
LEMMA CompleteEffect ==
    ASSUME StoreTypeOK, Rows, ActiveIsCurrent, NEW t \in Task, NEW c \in DispatchId,
           IsLatest(c, t), dispStatus[c] = "dispatched", CompleteTask(t)
    PROVE  /\ dispStatus'[c] = "completed"
           /\ \A d \in DispatchId \ {c} : dispStatus'[d] = dispStatus[d]
           /\ taskStatus' = [u \in Task |-> IF u = t THEN "completed"
                                            ELSE IF u \in Promoted(t) THEN "ready" ELSE taskStatus[u]]
           /\ UNCHANGED <<taskDeps, dispTask, dispHandle, dispFails, gateVars>>
           /\ \A u : ContextsOf(u)' = ContextsOf(u)
<1>1. IsLatestActive(c, t)
  BY DEF IsLatest, IsLatestActive, Active
<1>2. ASSUME NEW d \in DispatchId, IsLatestActive(d, t) PROVE d = c
  BY <1>1, <1>2, BoundsAssumption DEF IsLatestActive, DispatchId
<1>3. /\ dispStatus' = [d \in DispatchId |-> IF IsLatestActive(d, t) THEN "completed" ELSE dispStatus[d]]
      /\ UNCHANGED <<taskDeps, dispTask, dispHandle, dispFails, gateVars>>
  BY DEF CompleteTask, CompleteActiveDispatch
<1>4. /\ dispStatus'[c] = "completed"
      /\ \A d \in DispatchId \ {c} : dispStatus'[d] = dispStatus[d]
  BY <1>1, <1>2, <1>3
<1>5. \A u : ContextsOf(u)' = ContextsOf(u)
  BY <1>3, <1>4 DEF ContextsOf, Absent
<1> QED
  BY <1>3, <1>4, <1>5 DEF CompleteTask

LEMMA FailEffect ==
    ASSUME StoreTypeOK, Rows, NEW c \in DispatchId, FailDispatch(c)
    PROVE  /\ dispTask[c] \in Task /\ dispStatus[c] # "none" /\ dispFails[c] \in Nat
           /\ \/ /\ dispFails[c] + 1 >= BreakerLimit
                 /\ dispStatus'[c] = "circuit_broken" /\ taskStatus'[dispTask[c]] = "failed"
              \/ /\ ~(dispFails[c] + 1 >= BreakerLimit)
                 /\ dispStatus'[c] = "failed" /\ taskStatus'[dispTask[c]] = "ready"
           /\ dispFails'[c] = dispFails[c] + 1
           /\ \A d \in DispatchId \ {c} : dispStatus'[d] = dispStatus[d] /\ dispFails'[d] = dispFails[d]
           /\ \A u \in Task \ {dispTask[c]} : taskStatus'[u] = taskStatus[u]
           /\ UNCHANGED <<taskDeps, dispTask, dispHandle, gateVars>>
           /\ \A u : ContextsOf(u)' = ContextsOf(u)
<1>1. dispTask[c] \in Task /\ dispStatus[c] \notin Absent /\ dispFails[c] \in Nat
  BY DEF FailDispatch, StoreTypeOK, Rows, Absent
<1>2. /\ \/ /\ dispFails[c] + 1 >= BreakerLimit
            /\ dispStatus'[c] = "circuit_broken" /\ taskStatus'[dispTask[c]] = "failed"
         \/ /\ ~(dispFails[c] + 1 >= BreakerLimit)
            /\ dispStatus'[c] = "failed" /\ taskStatus'[dispTask[c]] = "ready"
      /\ dispFails'[c] = dispFails[c] + 1
  BY <1>1 DEF FailDispatch, Broken, StoreTypeOK
<1>3. /\ \A d \in DispatchId \ {c} : dispStatus'[d] = dispStatus[d] /\ dispFails'[d] = dispFails[d]
      /\ \A u \in Task \ {dispTask[c]} : taskStatus'[u] = taskStatus[u]
      /\ UNCHANGED <<taskDeps, dispTask, dispHandle, gateVars>>
  BY <1>1 DEF FailDispatch, StoreTypeOK
<1>4. \A u : ContextsOf(u)' = ContextsOf(u)
  BY <1>1, <1>2, <1>3 DEF ContextsOf, Absent
<1> QED
  BY <1>1, <1>2, <1>3, <1>4 DEF Absent

LEMMA GiveOutEffect ==
    ASSUME StoreTypeOK, Rows, NEW t \in Task, NEW h \in Handle, CreateDispatchContext(t, h)
    PROVE  \E c \in DispatchId, prior \in Nat :
              /\ dispStatus[c] = "none" /\ IsNextDispatch(c) /\ c \notin ContextsOf(t)
              /\ \A d \in ContextsOf(t) : dispFails[d] <= prior
              /\ dispStatus'[c] = "dispatched" /\ dispFails'[c] = prior
              /\ \A d \in DispatchId \ {c} : dispStatus'[d] = dispStatus[d] /\ dispFails'[d] = dispFails[d]
              /\ taskStatus[t] = "ready" /\ taskStatus'[t] = "dispatched"
              /\ \A u \in Task \ {t} : taskStatus'[u] = taskStatus[u]
              /\ ContextsOf(t)' = ContextsOf(t) \cup {c}
              /\ \A u \in Task \ {t} : ContextsOf(u)' = ContextsOf(u)
              /\ \A d : IsLatest(d, t)' <=> d = c
              /\ UNCHANGED <<taskDeps, gateStatus, gateTask>>
<1>1. PICK c \in DispatchId, prior \in Nat :
        /\ IsNextDispatch(c)
        /\ \A d \in DispatchId : dispStatus[d] # "none" => d < c
        /\ \A d \in ContextsOf(t) : dispFails[d] <= prior
        /\ dispStatus' = [dispStatus EXCEPT ![c] = "dispatched"]
        /\ dispTask' = [dispTask EXCEPT ![c] = t]
        /\ dispFails' = [dispFails EXCEPT ![c] = prior]
        /\ taskStatus[t] = "ready" /\ taskStatus' = [taskStatus EXCEPT ![t] = "dispatched"]
        /\ UNCHANGED <<taskDeps, gateStatus, gateTask>>
  BY CreateEffect
<1>2. /\ dispStatus[c] = "none" /\ dispStatus'[c] = "dispatched" /\ dispFails'[c] = prior
      /\ dispTask'[c] = t
      /\ \A d \in DispatchId \ {c} :
            dispStatus'[d] = dispStatus[d] /\ dispFails'[d] = dispFails[d] /\ dispTask'[d] = dispTask[d]
      /\ taskStatus'[t] = "dispatched" /\ \A u \in Task \ {t} : taskStatus'[u] = taskStatus[u]
  BY <1>1 DEF StoreTypeOK, IsNextDispatch
<1>3. /\ ContextsOf(t)' = ContextsOf(t) \cup {c} /\ c \notin ContextsOf(t)
      /\ \A u \in Task \ {t} : ContextsOf(u)' = ContextsOf(u)
  BY <1>2 DEF ContextsOf, Absent
<1>4. \A d \in ContextsOf(t) : d < c /\ d \in Nat /\ c \in Nat
  BY <1>1, BoundsAssumption DEF ContextsOf, Absent, DispatchId
<1>5. ASSUME NEW d PROVE IsLatest(d, t)' <=> d = c
  <2>1. IsLatest(d, t)' <=> d \in ContextsOf(t) \cup {c} /\ \A e \in ContextsOf(t) \cup {c} : e <= d
    BY <1>3 DEF IsLatest
  <2>2. c \in Nat
    BY BoundsAssumption DEF DispatchId
  <2>3. \A e \in ContextsOf(t) \cup {c} : e <= c
    BY <1>4, <2>2
  <2>4. ASSUME d \in ContextsOf(t), c <= d PROVE FALSE
    BY <1>4, <2>4
  <2> QED
    BY <2>1, <2>3, <2>4
<1> QED
  BY <1>1, <1>2, <1>3, <1>5

LEMMA NewTaskEffect ==
    ASSUME StoreTypeOK, NEW t \in Task, NEW deps \in SUBSET Existing, CreateTask(t, deps)
    PROVE  /\ taskStatus[t] = "none"
           /\ (deps = {} /\ taskStatus'[t] = "ready") \/ taskStatus'[t] = "pending"
           /\ taskDeps'[t] = deps
           /\ \A u \in Task \ {t} : taskStatus'[u] = taskStatus[u] /\ taskDeps'[u] = taskDeps[u]
           /\ UNCHANGED <<dispVars, gateVars>>
           /\ \A u : ContextsOf(u)' = ContextsOf(u)
<1>1. UNCHANGED dispVars
  BY DEF CreateTask
<1>2. \A u : ContextsOf(u)' = ContextsOf(u)
  BY <1>1 DEF dispVars, ContextsOf
<1> QED
  BY <1>2 DEF CreateTask, StoreTypeOK

\* Nothing about this task changes.
LEMMA TellsKept ==
    ASSUME NEW u \in Task, NewestTells(u), ContextsOf(u)' = ContextsOf(u),
           \A d \in ContextsOf(u) : dispStatus'[d] = dispStatus[d], taskStatus'[u] = taskStatus[u]
    PROVE  NewestTells(u)'
  BY DEF NewestTells, IsLatest

\* Every method writes the task and its newest context together.
LEMMA TellsStep ==
    ASSUME PlainInv, PlainStep, NEW u \in Task
    PROVE  NewestTells(u)'
<1>0. StoreTypeOK /\ Rows /\ ActiveIsCurrent /\ NewestTells(u)
  BY DEF PlainInv, CurrentInv, TypeInv, TypeOK
<1>1. CASE UNCHANGED storeVars
  <2>1. UNCHANGED <<taskStatus, dispStatus, dispTask>>
    BY <1>1 DEF storeVars, taskVars, dispVars
  <2>2. ContextsOf(u)' = ContextsOf(u)
    BY <2>1 DEF ContextsOf
  <2> QED
    BY <1>0, <2>1, <2>2, TellsKept
<1>2. ASSUME NEW t \in Task, NEW c \in DispatchId, IsLatest(c, t), dispStatus[c] = "dispatched",
             CompleteTask(t)
      PROVE  NewestTells(u)'
  <2>1. /\ dispStatus'[c] = "completed"
        /\ \A d \in DispatchId \ {c} : dispStatus'[d] = dispStatus[d]
        /\ taskStatus' = [v \in Task |-> IF v = t THEN "completed"
                                         ELSE IF v \in Promoted(t) THEN "ready" ELSE taskStatus[v]]
        /\ ContextsOf(u)' = ContextsOf(u)
    BY <1>0, <1>2, CompleteEffect
  <2>2. CASE u = t
    <3>1. IsLatest(c, u)' /\ taskStatus'[u] = "completed"
      BY <1>2, <2>1, <2>2 DEF IsLatest
    <3> QED
      BY <2>1, <3>1 DEF NewestTells, Tells
  <2>3. CASE u \in Promoted(t)
    <3>1. taskStatus[u] = "pending" /\ u # t
      BY <2>3 DEF Promoted
    <3>2. ContextsOf(u) = {} /\ taskStatus'[u] = "ready"
      BY <1>0, <2>1, <2>3, <3>1 DEF NewestTells, Tells
    <3> QED
      BY <2>1, <3>2 DEF NewestTells
  <2>4. CASE u # t /\ u \notin Promoted(t)
    <3>1. \A d \in ContextsOf(u) : d \in DispatchId \ {c}
      BY <1>2, <2>4 DEF IsLatest, ContextsOf
    <3> QED
      BY <1>0, <2>1, <2>4, <3>1, TellsKept
  <2> QED
    BY <2>2, <2>3, <2>4
<1>3. ASSUME NEW c \in DispatchId, IsLatest(c, dispTask[c]), FailDispatch(c) PROVE NewestTells(u)'
  <2>1. ContextsOf(u)' = ContextsOf(u)
    BY <1>0, <1>3, FailEffect
  <2>2. CASE u = dispTask[c]
    <3>1. IsLatest(c, u)'
      BY <1>3, <2>1, <2>2 DEF IsLatest
    <3>2. Tells(dispStatus'[c], taskStatus'[u])
      BY <1>0, <1>3, <2>2, FailEffect DEF Tells
    <3> QED
      BY <3>1, <3>2 DEF NewestTells, Tells
  <2>3. CASE u # dispTask[c]
    <3>1. \A d \in ContextsOf(u) : d \in DispatchId \ {c}
      BY <2>3 DEF ContextsOf
    <3>2. taskStatus'[u] = taskStatus[u] /\ \A d \in DispatchId \ {c} : dispStatus'[d] = dispStatus[d]
      BY <1>0, <1>3, <2>3, FailEffect
    <3> QED
      BY <1>0, <2>1, <3>1, <3>2, TellsKept
  <2> QED
    BY <2>2, <2>3
<1>4. ASSUME NEW t \in Task, NEW h \in Handle, CreateDispatchContext(t, h) PROVE NewestTells(u)'
  <2>1. PICK c \in DispatchId :
              /\ dispStatus[c] = "none" /\ dispStatus'[c] = "dispatched"
              /\ \A d \in DispatchId \ {c} : dispStatus'[d] = dispStatus[d]
              /\ taskStatus'[t] = "dispatched"
              /\ \A v \in Task \ {t} : taskStatus'[v] = taskStatus[v]
              /\ \A v \in Task \ {t} : ContextsOf(v)' = ContextsOf(v)
              /\ \A d : IsLatest(d, t)' <=> d = c
    BY <1>0, <1>4, GiveOutEffect
  <2>2. CASE u = t
    BY <2>1, <2>2 DEF NewestTells, Tells
  <2>3. CASE u # t
    <3>1. \A d \in ContextsOf(u) : d \in DispatchId \ {c}
      BY <2>1 DEF ContextsOf, Absent
    <3> QED
      BY <1>0, <2>1, <2>3, <3>1, TellsKept
  <2> QED
    BY <2>2, <2>3
<1>5. ASSUME NEW t \in Task, NEW deps \in SUBSET Existing, CreateTask(t, deps) PROVE NewestTells(u)'
  <2>1. /\ taskStatus[t] = "none" /\ taskStatus'[t] \in {"ready", "pending"}
        /\ \A v \in Task \ {t} : taskStatus'[v] = taskStatus[v]
        /\ dispStatus' = dispStatus /\ ContextsOf(u)' = ContextsOf(u)
    BY <1>0, <1>5, NewTaskEffect DEF dispVars
  <2>2. CASE u = t
    <3>1. ContextsOf(u) = {}
      BY <1>0, <2>1, <2>2 DEF NewestTells, Tells
    <3> QED
      BY <2>1, <2>2, <3>1 DEF NewestTells
  <2>3. CASE u # t
    BY <1>0, <2>1, <2>3, TellsKept
  <2> QED
    BY <2>2, <2>3
<1> QED
  BY <1>1, <1>2, <1>3, <1>4, <1>5, Zenon DEF PlainStep

\* The gates stay unused.
LEMMA GatesUnused ==
    ASSUME PlainInv, [Next]_vars, PlainRun
    PROVE  (\A g \in Gate : gateStatus'[g] = "none") /\ (\A m \in Letters(mail') : m.kind # "gate")
<1>0. StoreTypeOK /\ Rows /\ ActiveIsCurrent /\ TypeInv /\ PlainStep
  BY NextIsPlainStep DEF PlainInv, CurrentInv, TypeInv, TypeOK
<1>1. UNCHANGED gateStatus
  <2>1. CASE UNCHANGED storeVars
    BY <2>1 DEF storeVars, gateVars
  <2>2. ASSUME NEW t, CompleteTask(t) PROVE UNCHANGED gateStatus
    BY <2>2 DEF CompleteTask, gateVars
  <2>3. ASSUME NEW c, FailDispatch(c) PROVE UNCHANGED gateStatus
    BY <2>3 DEF FailDispatch, gateVars
  <2>4. ASSUME NEW t, NEW h, CreateDispatchContext(t, h) PROVE UNCHANGED gateStatus
    BY <2>4 DEF CreateDispatchContext, gateVars
  <2>5. ASSUME NEW t, NEW deps, CreateTask(t, deps) PROVE UNCHANGED gateStatus
    BY <2>5 DEF CreateTask, gateVars
  <2> QED
    BY <1>0, <2>1, <2>2, <2>3, <2>4, <2>5, Zenon DEF PlainStep
<1>2. ASSUME NEW m \in Letters(mail') PROVE m.kind # "gate"
  <2>1. CASE m \in Letters(mail)
    BY <2>1 DEF PlainInv
  <2>2. CASE WorkerNext /\ mail' = Append(mail, m)
    <3>0. PICK c \in told : \/ SendDone(c) \/ SendEscalation(c)
                            \/ \E h \in Handle : SendForeignDone(c, h)
      BY <2>2 DEF WorkerNext, SendGate, PlainRun
    <3>1. \E n : mail' = Append(mail, n) /\ n.kind # "gate"
      <4>1. ASSUME NEW kind, NEW n, Send(kind, c, n), n.kind # "gate"
            PROVE  \E x : mail' = Append(mail, x) /\ x.kind # "gate"
        BY <4>1 DEF Send
      <4>2. CASE SendDone(c)
        BY <4>1, <4>2 DEF SendDone
      <4>3. CASE SendEscalation(c)
        BY <4>1, <4>3 DEF SendEscalation
      <4>4. CASE \E h \in Handle : SendForeignDone(c, h)
        BY <4>1, <4>4 DEF SendForeignDone
      <4> QED
        BY <3>0, <4>2, <4>3, <4>4
    <3>2. PICK n : mail' = Append(mail, n) /\ n.kind # "gate"
      BY <3>1
    <3>3. Append(mail, n)[Len(mail) + 1] = n /\ Append(mail, m)[Len(mail) + 1] = m
      BY <1>0 DEF TypeInv, TypeOK
    <3> QED
      BY <2>2, <3>2, <3>3
  <2>3. CASE \E t \in Task : m = [kind |-> "escalation", task |-> t]
    BY <2>3
  <2>4. \/ m \in Letters(mail)
        \/ WorkerNext /\ mail' = Append(mail, m)
        \/ \E t \in Task : m = [kind |-> "escalation", task |-> t]
    BY <1>0, MailStep
  <2> QED
    BY <2>1, <2>2, <2>3, <2>4
<1> QED
  BY <1>1, <1>2 DEF PlainInv

\* During the write its context may fail, but is not completed.
LEMMA HandStep ==
    ASSUME PlainInv, [Next]_vars, PlainRun, pc' = "sending"
    PROVE  dispStatus'[job'.disp] # "completed"
<1>0. StoreTypeOK /\ Rows /\ InHand /\ TypeOK /\ PlainStep
  BY NextIsPlainStep DEF PlainInv, CurrentInv, TypeInv, TypeOK
<1>1. CASE pc = "sending" /\ job' = job
  <2>1. job.disp \in DispatchId /\ dispStatus[job.disp] # "completed"
    BY <1>0, <1>1 DEF InHand, PlainInv
  <2>2. CASE UNCHANGED storeVars
    BY <1>1, <2>1, <2>2 DEF storeVars, dispVars
  <2>3. ASSUME NEW c \in DispatchId, FailDispatch(c) PROVE dispStatus'[job.disp] # "completed"
    BY <1>0, <2>1, <2>3, FailEffect
  <2>4. ASSUME NEW t, NEW deps, CreateTask(t, deps) PROVE dispStatus'[job.disp] # "completed"
    BY <2>1, <2>4 DEF CreateTask, dispVars
  <2> QED
    BY <1>0, <1>1, <2>2, <2>3, <2>4 DEF PlainStep
<1>2. CASE /\ pc = "commit" /\ CreateDispatchContext(job.task, job.handle)
           /\ \E c \in DispatchId : IsNextDispatch(c) /\ job' = [job EXCEPT !.disp = c]
  <2>1. PICK t \in Task, h \in Handle : t = job.task /\ h = job.handle
    BY <1>0, <1>2 DEF InHand
  <2>2. PICK c \in DispatchId : IsNextDispatch(c) /\ dispStatus'[c] = "dispatched"
    BY <1>0, <1>2, <2>1, GiveOutEffect
  <2>3. PICK d \in DispatchId : IsNextDispatch(d) /\ job' = [job EXCEPT !.disp = d]
    BY <1>2
  <2>4. c = d
    BY <2>2, <2>3, BoundsAssumption DEF IsNextDispatch, DispatchId
  <2>5. job'.disp = d
    BY <1>0, <2>3 DEF TypeOK
  <2> QED
    BY <2>2, <2>4, <2>5
<1> QED
  BY <1>1, <1>2, SendingHeld

LEMMA PlainInvStep ==
    ASSUME PlainInv, [Next]_vars, PlainRun
    PROVE  PlainInv'
<1>1. CurrentInv'
  <2>1. OperatorAside
    BY DEF PlainRun, OperatorAside
  <2> QED
    BY <2>1, CurrentStep DEF PlainInv
<1>2. BreakerAgrees'
  BY TypeStep, StoreStepKeeps DEF PlainInv, CurrentInv, TypeInv, TypeOK
<1>3. \A u \in Task : NewestTells(u)'
  BY NextIsPlainStep, TellsStep
<1>4. (\A g \in Gate : gateStatus'[g] = "none") /\ (\A m \in Letters(mail') : m.kind # "gate")
  BY GatesUnused
<1>5. pc' = "sending" => dispStatus'[job'.disp] # "completed"
  BY HandStep
<1> QED
  BY <1>1, <1>2, <1>3, <1>4, <1>5 DEF PlainInv

LEMMA OrchPlainInv ==
    ASSUME PlainRun
    PROVE  Spec => []PlainInv
<1>1. Init => BreakerAgrees /\ (\A g \in Gate : gateStatus[g] = "none")
              /\ (\A m \in Letters(mail) : m.kind # "gate") /\ (\A t \in Task : NewestTells(t))
              /\ (pc = "sending" => dispStatus[job.disp] # "completed")
  <2> SUFFICES ASSUME Init
               PROVE  BreakerAgrees /\ (\A g \in Gate : gateStatus[g] = "none")
                      /\ (\A m \in Letters(mail) : m.kind # "gate") /\ (\A t \in Task : NewestTells(t))
                      /\ (pc = "sending" => dispStatus[job.disp] # "completed")
    OBVIOUS
  <2>1. BreakerAgrees /\ (\A g \in Gate : gateStatus[g] = "none") /\ pc # "sending"
    BY DEF Init, BreakerAgrees
  <2>2. \A m \in Letters(mail) : m.kind # "gate"
    BY DEF Init, Letters
  <2>3. \A t \in Task : NewestTells(t)
    BY DEF Init, NewestTells, ContextsOf, Absent
  <2> QED
    BY <2>1, <2>2, <2>3
<1>2. Spec => []CurrentInv
  <2>1. OperatorAside
    BY DEF PlainRun, OperatorAside
  <2> QED
    BY <2>1, OrchCurrentInv
<1>3. CurrentInv /\ Init => PlainInv
  BY <1>1 DEF PlainInv
<1>4. PlainInv /\ [Next]_vars => PlainInv'
  BY PlainInvStep
<1> QED
  BY <1>2, <1>3, <1>4, PTL DEF Spec

\* A settled task's newest context is closed or broken, and neither is opened again.
LEMMA SettledStep ==
    ASSUME PlainInv, PlainStep, NEW u \in Task, Settled(u)
    PROVE  taskStatus'[u] = taskStatus[u]
<1>0. StoreTypeOK /\ Rows /\ ActiveIsCurrent /\ NewestTells(u) /\ BreakerAgrees
  BY DEF PlainInv, CurrentInv, TypeInv, TypeOK
<1>1. CASE UNCHANGED storeVars
  BY <1>1 DEF storeVars, taskVars
<1>2. ASSUME NEW t \in Task, taskStatus[t] = "dispatched", CompleteTask(t)
      PROVE  taskStatus'[u] = taskStatus[u]
  BY <1>2 DEF CompleteTask, Promoted, Settled
<1>3. ASSUME NEW c \in DispatchId, IsLatest(c, dispTask[c]), dispStatus[c] # "completed", FailDispatch(c)
      PROVE  taskStatus'[u] = taskStatus[u]
  <2>1. CASE u = dispTask[c]
    <3>1. PICK d \in DispatchId : IsLatest(d, u) /\ Tells(dispStatus[d], taskStatus[u])
      BY <1>0, <2>1 DEF NewestTells, Settled
    <3>2. d = c
      BY <1>3, <2>1, <3>1, OneNewest
    <3>3. dispStatus[c] = "circuit_broken" /\ taskStatus[u] = "failed"
      BY <1>3, <3>1, <3>2 DEF Tells, Settled
    <3>4. dispFails[c] >= BreakerLimit
      BY <1>0, <3>3 DEF BreakerAgrees
    <3> QED
      BY <1>0, <1>3, <2>1, <3>3, <3>4, FailEffect DEF BreakerLimit
  <2>2. CASE u # dispTask[c]
    BY <1>0, <1>3, <2>2, FailEffect
  <2> QED
    BY <2>1, <2>2
<1>4. ASSUME NEW t \in Task, NEW h \in Handle, CreateDispatchContext(t, h)
      PROVE  taskStatus'[u] = taskStatus[u]
  <2>1. u # t
    BY <1>4 DEF CreateDispatchContext, Settled
  <2> QED
    BY <1>4, <2>1 DEF CreateDispatchContext
<1>5. ASSUME NEW t \in Task, NEW deps, CreateTask(t, deps)
      PROVE  taskStatus'[u] = taskStatus[u]
  <2>1. u # t
    BY <1>5 DEF CreateTask, Settled
  <2> QED
    BY <1>5, <2>1 DEF CreateTask
<1> QED
  BY <1>1, <1>2, <1>3, <1>4, <1>5, Zenon DEF PlainStep

\* Without gates: neither late or foreign reports, late escalations, exits, refused
\* writes nor their order open a completed or failed task again.
THEOREM OrchSettledIsFinal ==
    ASSUME PlainRun
    PROVE  Spec => SettledIsFinal
<1>1. PlainInv /\ [Next]_vars => [\A t \in Task : Settled(t) => taskStatus'[t] = taskStatus[t]]_vars
  BY NextIsPlainStep, SettledStep
<1> QED
  BY OrchPlainInv, <1>1, PTL DEF Spec, SettledIsFinal
-----------------------------------------------------------------------------
(* Dependencies *)

\* A task that has left pending has its dependencies behind it.
DueInv == \A t \in Task : taskStatus[t] \notin {"none", "pending"} => taskDeps[t] \subseteq Tasks("completed")

LEMMA DueStep ==
    ASSUME PlainInv, DueInv, PlainStep
    PROVE  DueInv'
<1>0. StoreTypeOK /\ Rows /\ ActiveIsCurrent /\ BreakerAgrees
  BY DEF PlainInv, CurrentInv, TypeInv, TypeOK
<1>1. Tasks("completed") \subseteq Tasks("completed")'
  BY SettledStep DEF Tasks, Settled
<1>2. ASSUME NEW u \in Task, taskDeps'[u] = taskDeps[u], taskStatus[u] \notin {"none", "pending"}
      PROVE  taskDeps'[u] \subseteq Tasks("completed")'
  BY <1>1, <1>2 DEF DueInv
<1>3. CASE UNCHANGED storeVars
  BY <1>2, <1>3 DEF DueInv, storeVars, taskVars
<1>4. ASSUME NEW t \in Task, NEW c \in DispatchId, IsLatest(c, t), dispStatus[c] = "dispatched",
             taskStatus[t] = "dispatched", CompleteTask(t)
      PROVE  DueInv'
  <2>1. /\ taskStatus' = [u \in Task |-> IF u = t THEN "completed"
                                         ELSE IF u \in Promoted(t) THEN "ready" ELSE taskStatus[u]]
        /\ taskDeps' = taskDeps
    BY <1>4 DEF CompleteTask
  <2>2. ASSUME NEW u \in Promoted(t) PROVE taskDeps'[u] \subseteq Tasks("completed")'
    <3>1. u \in Task /\ taskDeps[u] \subseteq Task /\ \A d \in taskDeps[u] : d = t \/ taskStatus[d] = "completed"
      BY <1>0 DEF Promoted, StoreTypeOK
    <3>2. t \in Tasks("completed")'
      BY <2>1 DEF Tasks
    <3> QED
      BY <1>1, <2>1, <3>1, <3>2 DEF Tasks
  <2>3. ASSUME NEW u \in Task, u \notin Promoted(t), taskStatus'[u] \notin {"none", "pending"}
        PROVE  taskDeps'[u] \subseteq Tasks("completed")'
    <3>1. taskStatus[u] \notin {"none", "pending"}
      BY <1>4, <2>1, <2>3
    <3> QED
      BY <1>2, <2>1, <3>1
  <2> QED
    BY <2>2, <2>3 DEF DueInv
<1>5. ASSUME NEW c \in DispatchId, IsLatest(c, dispTask[c]), FailDispatch(c) PROVE DueInv'
  <2>1. /\ dispTask[c] \in Task /\ taskDeps' = taskDeps
        /\ \A u \in Task \ {dispTask[c]} : taskStatus'[u] = taskStatus[u]
    BY <1>0, <1>5, FailEffect
  <2>2. PICK t \in Task : t = dispTask[c]
    BY <2>1
  <2>3. taskStatus[t] \notin {"none", "pending"}
    <3>1. NewestTells(t) /\ ContextsOf(t) # {}
      BY <1>5, <2>2 DEF PlainInv, IsLatest
    <3> QED
      BY <3>1 DEF NewestTells, Tells
  <2> QED
    BY <1>2, <2>1, <2>2, <2>3 DEF DueInv
<1>6. ASSUME NEW t \in Task, NEW h \in Handle, CreateDispatchContext(t, h) PROVE DueInv'
  <2>1. /\ taskStatus[t] = "ready" /\ taskDeps' = taskDeps
        /\ \A u \in Task \ {t} : taskStatus'[u] = taskStatus[u]
    BY <1>6 DEF CreateDispatchContext
  <2> QED
    BY <1>2, <2>1 DEF DueInv
<1>7. ASSUME NEW t \in Task, NEW deps \in SUBSET Existing, CreateTask(t, deps) PROVE DueInv'
  <2>1. /\ (deps = {} /\ taskStatus'[t] = "ready") \/ taskStatus'[t] = "pending"
        /\ taskDeps'[t] = deps
        /\ \A u \in Task \ {t} : taskStatus'[u] = taskStatus[u] /\ taskDeps'[u] = taskDeps[u]
    BY <1>0, <1>7, NewTaskEffect
  <2> QED
    BY <1>2, <2>1 DEF DueInv
<1> QED
  BY <1>3, <1>4, <1>5, <1>6, <1>7, Zenon DEF PlainStep

LEMMA OrchDueInv ==
    ASSUME PlainRun
    PROVE  Spec => []DueInv
<1>1. Init => DueInv
  <2> SUFFICES ASSUME Init, NEW t \in Task, taskStatus[t] \notin {"none", "pending"}
               PROVE  taskDeps[t] \subseteq Tasks("completed")
    BY DEF DueInv
  <2>1. t \in Planned /\ DependsOn[t] = {}
    BY DEF Init
  <2> QED
    BY <2>1 DEF Init
<1>2. PlainInv /\ DueInv /\ [Next]_vars => DueInv'
  BY NextIsPlainStep, DueStep
<1> QED
  BY <1>1, <1>2, OrchPlainInv, PTL DEF Spec

\* Without gates: no worker was ever given a task before all that it waits for was
\* completed, and none of that is ever undone.
THEOREM OrchDependenciesFirst ==
    ASSUME PlainRun
    PROVE  Spec => []DependenciesFirst
<1>1. PlainInv /\ DueInv => DependenciesFirst
  <2> SUFFICES ASSUME PlainInv, DueInv, NEW t \in Task, ContextsOf(t) # {}
               PROVE  taskDeps[t] \subseteq Tasks("completed")
    BY DEF DependenciesFirst
  <2>1. taskStatus[t] \notin {"none", "pending"}
    BY DEF PlainInv, NewestTells, Tells
  <2> QED
    BY <2>1 DEF DueInv
<1> QED
  BY <1>1, OrchPlainInv, OrchDueInv, PTL
-----------------------------------------------------------------------------
(* The work plan *)

\* A task has been given out at most as often as its newest context has counted
\* failures, and once more while that one has not failed.
Counted ==
    \A t \in Task, c \in DispatchId : IsLatest(c, t) =>
        \/ dispStatus[c] = "failed" /\ Cardinality(ContextsOf(t)) <= dispFails[c]
        \/ dispStatus[c] # "failed" /\ Cardinality(ContextsOf(t)) <= dispFails[c] + 1

\* The tasks created before the run keep their rows and their dependencies.
PlannedStay == \A t \in Planned : taskStatus[t] # "none" /\ taskDeps[t] = DependsOn[t]

PlanInv == PlainInv /\ SlotsInv /\ DueInv /\ Counted /\ PlannedStay

\* A task's contexts are finite in number.
LEMMA ContextsFinite ==
    ASSUME NEW t
    PROVE  IsFiniteSet(ContextsOf(t)) /\ Cardinality(ContextsOf(t)) \in Nat
<1>1. IsFiniteSet(DispatchId)
  BY BoundsAssumption, FS_Interval DEF DispatchId
<1> QED
  BY <1>1, FS_Subset, FS_CardinalityType DEF ContextsOf

LEMMA CountedStep ==
    ASSUME PlainInv, Counted, PlainStep
    PROVE  Counted'
<1>0. StoreTypeOK /\ Rows /\ ActiveIsCurrent /\ dispFails \in [DispatchId -> Nat]
  BY DEF PlainInv, CurrentInv, TypeInv, TypeOK, StoreTypeOK
<1>1. CASE UNCHANGED storeVars
  BY <1>1 DEF storeVars, dispVars, Counted, IsLatest, ContextsOf
<1>2. ASSUME NEW x \in Task, NEW e \in DispatchId, IsLatest(e, x), dispStatus[e] = "dispatched",
             CompleteTask(x)
      PROVE  Counted'
  <2>1. /\ dispStatus'[e] = "completed" /\ dispFails' = dispFails
        /\ \A d \in DispatchId \ {e} : dispStatus'[d] = dispStatus[d]
        /\ \A u : ContextsOf(u)' = ContextsOf(u)
    BY <1>0, <1>2, CompleteEffect
  <2> SUFFICES ASSUME NEW t \in Task, NEW c \in DispatchId, IsLatest(c, t)'
               PROVE  \/ dispStatus'[c] = "failed" /\ Cardinality(ContextsOf(t)') <= dispFails'[c]
                      \/ dispStatus'[c] # "failed" /\ Cardinality(ContextsOf(t)') <= dispFails'[c] + 1
    BY DEF Counted
  <2>2. IsLatest(c, t)
    BY <2>1 DEF IsLatest
  <2> QED
    BY <1>2, <2>1, <2>2 DEF Counted
<1>3. ASSUME NEW e \in DispatchId, FailDispatch(e) PROVE Counted'
  <2>1. /\ dispStatus'[e] \in {"failed", "circuit_broken"} /\ dispFails'[e] = dispFails[e] + 1
        /\ \A d \in DispatchId \ {e} : dispStatus'[d] = dispStatus[d] /\ dispFails'[d] = dispFails[d]
        /\ \A u : ContextsOf(u)' = ContextsOf(u)
    BY <1>0, <1>3, FailEffect
  <2> SUFFICES ASSUME NEW t \in Task, NEW c \in DispatchId, IsLatest(c, t)'
               PROVE  \/ dispStatus'[c] = "failed" /\ Cardinality(ContextsOf(t)') <= dispFails'[c]
                      \/ dispStatus'[c] # "failed" /\ Cardinality(ContextsOf(t)') <= dispFails'[c] + 1
    BY DEF Counted
  <2>2. IsLatest(c, t) /\ Cardinality(ContextsOf(t)) \in Nat /\ dispFails[c] \in Nat
    BY <1>0, <2>1, ContextsFinite DEF IsLatest
  <2>3. Cardinality(ContextsOf(t)) <= dispFails[c] + 1
    BY <2>2 DEF Counted
  <2>4. CASE c = e
    BY <2>1, <2>2, <2>3, <2>4
  <2>5. CASE c # e
    BY <2>1, <2>2, <2>5 DEF Counted
  <2> QED
    BY <2>4, <2>5
<1>4. ASSUME NEW x \in Task, NEW h \in Handle, CreateDispatchContext(x, h) PROVE Counted'
  <2>1. PICK e \in DispatchId, prior \in Nat :
              /\ dispStatus[e] = "none" /\ e \notin ContextsOf(x)
              /\ \A d \in ContextsOf(x) : dispFails[d] <= prior
              /\ dispStatus'[e] = "dispatched" /\ dispFails'[e] = prior
              /\ \A d \in DispatchId \ {e} : dispStatus'[d] = dispStatus[d] /\ dispFails'[d] = dispFails[d]
              /\ taskStatus[x] = "ready"
              /\ ContextsOf(x)' = ContextsOf(x) \cup {e}
              /\ \A u \in Task \ {x} : ContextsOf(u)' = ContextsOf(u)
              /\ \A d : IsLatest(d, x)' <=> d = e
    BY <1>0, <1>4, GiveOutEffect
  <2>2. Cardinality(ContextsOf(x)) \in Nat /\ Cardinality(ContextsOf(x)') = Cardinality(ContextsOf(x)) + 1
    BY <2>1, ContextsFinite, FS_AddElement
  <2>3. Cardinality(ContextsOf(x)) <= prior
    <3>1. NewestTells(x)
      BY DEF PlainInv
    <3>2. CASE ContextsOf(x) = {}
      BY <3>2, FS_EmptySet
    <3>3. CASE ContextsOf(x) # {}
      <4>1. PICK d \in DispatchId : IsLatest(d, x) /\ dispStatus[d] = "failed"
        BY <2>1, <3>1, <3>3 DEF NewestTells, Tells
      <4>2. Cardinality(ContextsOf(x)) <= dispFails[d] /\ dispFails[d] <= prior /\ dispFails[d] \in Nat
        BY <1>0, <2>1, <4>1 DEF Counted, IsLatest
      <4> QED
        BY <2>2, <4>2
    <3> QED
      BY <3>2, <3>3
  <2> SUFFICES ASSUME NEW t \in Task, NEW c \in DispatchId, IsLatest(c, t)'
               PROVE  \/ dispStatus'[c] = "failed" /\ Cardinality(ContextsOf(t)') <= dispFails'[c]
                      \/ dispStatus'[c] # "failed" /\ Cardinality(ContextsOf(t)') <= dispFails'[c] + 1
    BY DEF Counted
  <2>4. CASE t = x
    <3>1. c = e
      BY <2>1, <2>4
    <3> QED
      BY <2>1, <2>2, <2>3, <2>4, <3>1
  <2>5. CASE t # x
    <3>1. ContextsOf(t)' = ContextsOf(t) /\ IsLatest(c, t)
      BY <2>1, <2>5 DEF IsLatest
    <3>2. c # e
      BY <2>1, <3>1 DEF IsLatest, ContextsOf, Absent
    <3> QED
      BY <2>1, <3>1, <3>2 DEF Counted
  <2> QED
    BY <2>4, <2>5
<1>5. ASSUME NEW x \in Task, NEW deps \in SUBSET Existing, CreateTask(x, deps) PROVE Counted'
  BY <1>5 DEF CreateTask, dispVars, Counted, IsLatest, ContextsOf
<1> QED
  BY <1>1, <1>2, <1>3, <1>4, <1>5, Zenon DEF PlainStep

LEMMA PlannedStep ==
    ASSUME PlainInv, PlannedStay, PlainStep
    PROVE  PlannedStay'
<1>0. StoreTypeOK /\ Rows /\ Planned \subseteq Task
  BY RunAssumption DEF PlainInv, CurrentInv, TypeInv, TypeOK
<1>1. CASE UNCHANGED storeVars
  BY <1>1 DEF storeVars, taskVars, PlannedStay
<1>2. ASSUME NEW x \in Task, CompleteTask(x) PROVE PlannedStay'
  BY <1>0, <1>2 DEF CompleteTask, PlannedStay
<1>3. ASSUME NEW e \in DispatchId, FailDispatch(e) PROVE PlannedStay'
  BY <1>0, <1>3, FailEffect DEF PlannedStay
<1>4. ASSUME NEW x \in Task, NEW h \in Handle, CreateDispatchContext(x, h) PROVE PlannedStay'
  BY <1>0, <1>4 DEF CreateDispatchContext, PlannedStay, StoreTypeOK
<1>5. ASSUME NEW x \in Task, NEW deps \in SUBSET Existing, CreateTask(x, deps) PROVE PlannedStay'
  BY <1>0, <1>5, NewTaskEffect DEF PlannedStay
<1> QED
  BY <1>1, <1>2, <1>3, <1>4, <1>5, Zenon DEF PlainStep

LEMMA OrchPlanInv ==
    ASSUME PlainRun
    PROVE  Spec => []PlanInv
<1>1. Init => Counted /\ PlannedStay
  <2> SUFFICES ASSUME Init PROVE Counted /\ PlannedStay
    OBVIOUS
  <2>1. Counted
    BY DEF Init, Counted, IsLatest, ContextsOf, Absent
  <2>2. PlannedStay
    BY RunAssumption DEF Init, PlannedStay
  <2> QED
    BY <2>1, <2>2
<1>2. PlainInv /\ Counted /\ PlannedStay /\ [Next]_vars => Counted' /\ PlannedStay'
  BY NextIsPlainStep, CountedStep, PlannedStep
<1>3. Spec => []SlotsInv
  <2>1. "dispatch" \notin May /\ "taskUpdate" \notin May
    BY DEF PlainRun
  <2> QED
    BY <2>1, OrchSlotsInv
<1>4. PlainInv /\ SlotsInv /\ DueInv /\ Counted /\ PlannedStay => PlanInv
  BY DEF PlanInv
<1> QED
  BY <1>1, <1>2, <1>3, <1>4, OrchPlainInv, OrchDueInv, PTL DEF Spec

\* The abstract state of the plan.
PhaseNow == [t \in Planned |->
                CASE taskStatus[t] \in {"pending", "ready"} -> "waiting"
                  [] taskStatus[t] = "dispatched" -> "running"
                  [] taskStatus[t] = "completed" -> "done"
                  [] OTHER -> "given up"]
AttemptsNow == [t \in Planned |-> Cardinality(ContextsOf(t))]

\* The phase as far as a status determines it.
LEMMA PhaseOf ==
    ASSUME NEW t \in Planned
    PROVE  /\ taskStatus[t] \in {"pending", "ready"} => PhaseNow[t] = "waiting"
           /\ taskStatus[t] = "dispatched" => PhaseNow[t] = "running"
           /\ taskStatus[t] = "completed" => PhaseNow[t] = "done"
           /\ taskStatus[t] = "failed" => PhaseNow[t] = "given up"
           /\ PhaseNow[t] = "running" => taskStatus[t] = "dispatched"
  BY DEF PhaseNow

LEMMA PhaseStays ==
    ASSUME NEW t \in Planned,
           taskStatus'[t] = taskStatus[t]
             \/ (taskStatus[t] \in {"pending", "ready"} /\ taskStatus'[t] \in {"pending", "ready"})
    PROVE  PhaseNow'[t] = PhaseNow[t]
  BY DEF PhaseNow

\* A step that moves one task, or none.
LEMMA PhaseMoves ==
    ASSUME NEW t, \A u \in Planned \ {t} :
             taskStatus'[u] = taskStatus[u]
               \/ (taskStatus[u] \in {"pending", "ready"} /\ taskStatus'[u] \in {"pending", "ready"})
    PROVE  /\ t \notin Planned => PhaseNow' = PhaseNow
           /\ t \in Planned => PhaseNow' = [PhaseNow EXCEPT ![t] = PhaseNow'[t]]
<1>1. \A u \in Planned \ {t} : PhaseNow'[u] = PhaseNow[u]
  BY PhaseStays
<1>2. /\ PhaseNow = [u \in Planned |-> PhaseNow[u]]
      /\ PhaseNow' = [u \in Planned |-> PhaseNow'[u]]
  BY DEF PhaseNow
<1>3. CASE t \notin Planned
  BY <1>1, <1>2, <1>3
<1>4. CASE t \in Planned
  BY <1>1, <1>2, <1>4
<1> QED
  BY <1>3, <1>4

\* The same contexts, the same attempts.
LEMMA AttemptsStay ==
    ASSUME \A t \in Planned : ContextsOf(t)' = ContextsOf(t)
    PROVE  AttemptsNow' = AttemptsNow
  BY DEF AttemptsNow

\* A report that is accepted finishes its task.
LEMMA CompleteIsFinish ==
    ASSUME PlanInv, NEW t \in Task, NEW c \in DispatchId, IsLatest(c, t),
           dispStatus[c] = "dispatched", taskStatus[t] = "dispatched", CompleteTask(t)
    PROVE  [Plans!Next]_Plans!vars
<1>0. StoreTypeOK /\ Rows /\ ActiveIsCurrent /\ Planned \subseteq Task
  BY RunAssumption DEF PlanInv, PlainInv, CurrentInv, TypeInv, TypeOK
<1>1. /\ taskStatus' = [u \in Task |-> IF u = t THEN "completed"
                                       ELSE IF u \in Promoted(t) THEN "ready" ELSE taskStatus[u]]
      /\ \A u : ContextsOf(u)' = ContextsOf(u)
  BY <1>0, CompleteEffect
<1>2. AttemptsNow' = AttemptsNow
  BY <1>1, AttemptsStay
<1>3. \A u \in Planned \ {t} :
         taskStatus'[u] = taskStatus[u]
           \/ (taskStatus[u] \in {"pending", "ready"} /\ taskStatus'[u] \in {"pending", "ready"})
  BY <1>0, <1>1 DEF Promoted
<1>4. CASE t \notin Planned
  <2>1. PhaseNow' = PhaseNow
    BY <1>3, <1>4, PhaseMoves
  <2> QED
    BY <1>2, <2>1 DEF Plans!vars, PhaseNow, AttemptsNow
<1>5. CASE t \in Planned
  <2>1. PhaseNow[t] = "running" /\ PhaseNow'[t] = "done"
    BY <1>1, <1>5, PhaseOf DEF PhaseNow
  <2>2. PhaseNow' = [PhaseNow EXCEPT ![t] = "done"]
    BY <1>3, <1>5, <2>1, PhaseMoves
  <2>3. Plans!Finish(t)
    BY <1>2, <2>1, <2>2 DEF Plans!Finish, PhaseNow, AttemptsNow
  <2> QED
    BY <1>5, <2>3 DEF Plans!Next
<1> QED
  BY <1>4, <1>5

\* A failure gives a task back or gives it up; one more failure of a context
\* that failed before leaves the task as it is or gives it up.
LEMMA FailIsGiveBack ==
    ASSUME PlanInv, PlainStep, NEW c \in DispatchId, IsLatest(c, dispTask[c]),
           dispStatus[c] # "completed", FailDispatch(c)
    PROVE  [Plans!Next]_Plans!vars
<1>0. StoreTypeOK /\ Rows /\ PlainInv /\ Planned \subseteq Task
  BY RunAssumption DEF PlanInv, PlainInv, CurrentInv, TypeInv, TypeOK
<1>1. PICK t \in Task : t = dispTask[c]
  BY <1>0, FailEffect
<1>2. /\ taskStatus'[t] \in {"failed", "ready"}
      /\ \A u \in Task \ {t} : taskStatus'[u] = taskStatus[u]
      /\ \A u : ContextsOf(u)' = ContextsOf(u)
  BY <1>0, <1>1, FailEffect
<1>3. taskStatus[t] \in {"dispatched", "ready", "failed"}
  <2>1. NewestTells(t) /\ ContextsOf(t) # {}
    BY <1>0, <1>1 DEF PlainInv, IsLatest
  <2>2. PICK d \in DispatchId : IsLatest(d, t) /\ Tells(dispStatus[d], taskStatus[t])
    BY <2>1 DEF NewestTells
  <2>3. d = c
    BY <1>1, <2>2, OneNewest
  <2> QED
    BY <2>2, <2>3 DEF Tells
<1>4. taskStatus[t] = "failed" => taskStatus'[t] = "failed"
  BY <1>0, SettledStep DEF Settled
<1>5. AttemptsNow' = AttemptsNow
  BY <1>2, AttemptsStay
<1>6. \A u \in Planned \ {t} : taskStatus'[u] = taskStatus[u]
  BY <1>0, <1>2
<1>7. CASE t \notin Planned \/ PhaseNow'[t] = PhaseNow[t]
  <2>1. \A u \in Planned : PhaseNow'[u] = PhaseNow[u]
    BY <1>6, <1>7, PhaseStays
  <2>2. /\ PhaseNow = [u \in Planned |-> PhaseNow[u]]
        /\ PhaseNow' = [u \in Planned |-> PhaseNow'[u]]
    BY DEF PhaseNow
  <2>3. PhaseNow' = PhaseNow
    BY <2>1, <2>2
  <2> QED
    BY <1>5, <2>3 DEF Plans!vars, PhaseNow, AttemptsNow
<1>8. CASE t \in Planned /\ taskStatus[t] = "dispatched" /\ taskStatus'[t] = "ready"
  <2>1. PhaseNow[t] = "running" /\ PhaseNow'[t] = "waiting"
    BY <1>8 DEF PhaseNow
  <2>2. PhaseNow' = [PhaseNow EXCEPT ![t] = "waiting"]
    BY <1>6, <1>8, <2>1, PhaseMoves
  <2>3. Plans!GiveBack(t)
    BY <1>5, <2>1, <2>2 DEF Plans!GiveBack, PhaseNow, AttemptsNow
  <2> QED
    BY <1>8, <2>3 DEF Plans!Next
<1>9. CASE t \in Planned /\ taskStatus[t] \in {"dispatched", "ready"} /\ taskStatus'[t] = "failed"
  <2>1. PhaseNow[t] \in {"waiting", "running"} /\ PhaseNow'[t] = "given up"
    BY <1>9 DEF PhaseNow
  <2>2. PhaseNow' = [PhaseNow EXCEPT ![t] = "given up"]
    BY <1>6, <1>9, <2>1, PhaseMoves
  <2>3. AttemptsNow[t] > 0
    <3>1. c \in ContextsOf(t)
      BY <1>1 DEF IsLatest
    <3>2. Cardinality(ContextsOf(t)) # 0
      BY <3>1, ContextsFinite, FS_EmptySet
    <3> QED
      BY <1>9, <3>2, ContextsFinite DEF AttemptsNow
  <2>4. Plans!GiveUp(t)
    BY <1>5, <2>1, <2>2, <2>3 DEF Plans!GiveUp, PhaseNow, AttemptsNow
  <2> QED
    BY <1>9, <2>4 DEF Plans!Next
<1>10. t \in Planned /\ ((taskStatus[t] = "ready" /\ taskStatus'[t] = "ready")
                           \/ (taskStatus[t] = "failed" /\ taskStatus'[t] = "failed"))
         => PhaseNow'[t] = PhaseNow[t]
  BY PhaseStays
<1> QED
  BY <1>2, <1>3, <1>4, <1>7, <1>8, <1>9, <1>10

\* A task is started when the plan allows it: it waits, what it depends on is
\* done, there is a slot and there are attempts left.
LEMMA GiveOutIsStart ==
    ASSUME PlanInv, pc = "commit", NEW t \in Task, NEW h \in Handle, CreateDispatchContext(t, h)
    PROVE  [Plans!Next]_Plans!vars
<1>0. /\ StoreTypeOK /\ Rows /\ PlainInv /\ BreakerAgrees /\ slots \in Nat
      /\ Planned \subseteq Task /\ MaxConcurrent \in Nat
  BY RunAssumption DEF PlanInv, PlainInv, CurrentInv, TypeInv, TypeOK
<1>1. PICK c \in DispatchId :
        /\ c \notin ContextsOf(t)
        /\ taskStatus[t] = "ready" /\ taskStatus'[t] = "dispatched"
        /\ \A u \in Task \ {t} : taskStatus'[u] = taskStatus[u]
        /\ ContextsOf(t)' = ContextsOf(t) \cup {c}
        /\ \A u \in Task \ {t} : ContextsOf(u)' = ContextsOf(u)
  BY <1>0, GiveOutEffect
<1>2. \A u \in Planned \ {t} : taskStatus'[u] = taskStatus[u]
  BY <1>0, <1>1
<1>3. CASE t \notin Planned
  <2>1. PhaseNow' = PhaseNow
    BY <1>2, <1>3, PhaseMoves
  <2>2. \A u \in Planned : ContextsOf(u)' = ContextsOf(u)
    BY <1>0, <1>1, <1>3
  <2>3. AttemptsNow' = AttemptsNow
    BY <2>2, AttemptsStay
  <2> QED
    BY <2>1, <2>3 DEF Plans!vars, PhaseNow, AttemptsNow
<1>4. CASE t \in Planned
  <2>1. PhaseNow[t] = "waiting" /\ PhaseNow'[t] = "running"
    BY <1>1, <1>4 DEF PhaseNow
  <2>2. PhaseNow' = [PhaseNow EXCEPT ![t] = "running"]
    BY <1>2, <1>4, <2>1, PhaseMoves
  <2>3. /\ Cardinality(ContextsOf(t)) \in Nat
        /\ Cardinality(ContextsOf(t)') = Cardinality(ContextsOf(t)) + 1
    BY <1>1, ContextsFinite, FS_AddElement
  <2>4. AttemptsNow[t] < BreakerLimit
    <3>1. NewestTells(t)
      BY <1>0 DEF PlainInv
    <3>2. CASE ContextsOf(t) = {}
      BY <1>4, <3>2, FS_EmptySet DEF AttemptsNow, BreakerLimit
    <3>3. CASE ContextsOf(t) # {}
      <4>1. PICK d \in DispatchId : IsLatest(d, t) /\ dispStatus[d] = "failed"
        BY <1>1, <3>1, <3>3 DEF NewestTells, Tells
      <4>2. Cardinality(ContextsOf(t)) <= dispFails[d] /\ dispFails[d] \in 1..(BreakerLimit - 1)
        BY <1>0, <4>1 DEF PlanInv, Counted, BreakerAgrees
      <4> QED
        BY <1>4, <2>3, <4>2 DEF AttemptsNow, BreakerLimit
    <3> QED
      BY <3>2, <3>3
  <2>5. AttemptsNow' = [AttemptsNow EXCEPT ![t] = @ + 1]
    <3>1. AttemptsNow'[t] = AttemptsNow[t] + 1
      BY <1>4, <2>3 DEF AttemptsNow
    <3>2. \A u \in Planned \ {t} : AttemptsNow'[u] = AttemptsNow[u]
      BY <1>0, <1>1 DEF AttemptsNow
    <3>3. /\ AttemptsNow = [u \in Planned |-> AttemptsNow[u]]
          /\ AttemptsNow' = [u \in Planned |-> AttemptsNow'[u]]
      BY DEF AttemptsNow
    <3> QED
      BY <1>4, <3>1, <3>2, <3>3
  <2>6. DependsOn[t] \subseteq {u \in Planned : PhaseNow[u] = "done"}
    <3>1. DependsOn[t] \subseteq Planned /\ DependsOn[t] \subseteq Tasks("completed")
      BY <1>0, <1>1, <1>4, RunAssumption DEF PlanInv, PlannedStay, DueInv
    <3> QED
      BY <3>1, PhaseOf DEF Tasks
  <2>7. Cardinality({u \in Planned : PhaseNow[u] = "running"}) < MaxConcurrent
    <3>1. {u \in Planned : PhaseNow[u] = "running"} \subseteq Tasks("dispatched")
      BY <1>0, PhaseOf DEF Tasks
    <3>2. /\ IsFiniteSet(Tasks("dispatched")) /\ Cardinality(Tasks("dispatched")) \in Nat
          /\ Cardinality(Tasks("dispatched")) + slots + 1 <= MaxConcurrent
      BY <1>0, DispatchedFinite DEF PlanInv, SlotsInv, Dispatching, Taken
    <3>3. /\ Cardinality({u \in Planned : PhaseNow[u] = "running"}) <= Cardinality(Tasks("dispatched"))
          /\ Cardinality({u \in Planned : PhaseNow[u] = "running"}) \in Nat
      BY <3>1, <3>2, FS_Subset, FS_CardinalityType
    <3> QED
      BY <1>0, <3>2, <3>3
  <2>8. \A S : Plans!Cardinality(S) = Cardinality(S)
    BY DEF Plans!Cardinality, Cardinality
  <2>9. Plans!Start(t)
    BY <2>1, <2>2, <2>4, <2>5, <2>6, <2>7, <2>8 DEF Plans!Start, Plans!In, PhaseNow, AttemptsNow
  <2> QED
    BY <1>4, <2>9 DEF Plans!Next
<1> QED
  BY <1>3, <1>4

\* Without gates the run - its loop, awaits, mail, failing terminals and writes - implements
\* the plan: tasks are attempted one at a time each, when all they depend on is
\* done, within the limit, at most three times, and what is done or given up
\* stays so.
THEOREM OrchPlanImplemented ==
    ASSUME PlainRun
    PROVE  Spec => PlanImplemented
<1>1. Init => Plans!Init
  <2> SUFFICES ASSUME Init PROVE Plans!Init
    OBVIOUS
  <2>1. \A t \in Planned : taskStatus[t] \in {"pending", "ready"} /\ ContextsOf(t) = {}
    BY RunAssumption DEF Init, ContextsOf, Absent
  <2>2. \A t \in Planned : Cardinality(ContextsOf(t)) = 0
    BY <2>1, FS_EmptySet
  <2> QED
    BY <2>1, <2>2 DEF Plans!Init
<1>2. PlanInv /\ [Next]_vars => [Plans!Next]_Plans!vars
  <2> SUFFICES ASSUME PlanInv, [Next]_vars PROVE [Plans!Next]_Plans!vars
    OBVIOUS
  <2>0. StoreTypeOK /\ Planned \subseteq Task /\ PlainStep
    BY NextIsPlainStep, RunAssumption DEF PlanInv, PlainInv, CurrentInv, TypeInv, TypeOK
  <2>1. CASE UNCHANGED storeVars
    BY <2>1 DEF storeVars, taskVars, dispVars, Plans!vars, ContextsOf
  <2>2. ASSUME NEW t \in Task, NEW deps \in SUBSET Existing, CreateTask(t, deps)
        PROVE  [Plans!Next]_Plans!vars
    <3>1. t \notin Planned /\ \A u \in Planned \ {t} : taskStatus'[u] = taskStatus[u]
      BY <2>0, <2>2, NewTaskEffect DEF PlanInv, PlannedStay
    <3>2. PhaseNow' = PhaseNow
      BY <3>1, PhaseMoves
    <3>3. AttemptsNow' = AttemptsNow
      BY <2>0, <2>2, NewTaskEffect, AttemptsStay
    <3> QED
      BY <3>2, <3>3 DEF Plans!vars, PhaseNow, AttemptsNow
  <2>3. CASE pc = "commit" /\ job.task \in Task /\ job.handle \in Handle
             /\ CreateDispatchContext(job.task, job.handle)
    <3>1. PICK t \in Task, h \in Handle : t = job.task /\ h = job.handle
      BY <2>3
    <3> QED
      BY <2>3, <3>1, GiveOutIsStart
  <2> QED
    BY <2>0, <2>1, <2>2, <2>3, CompleteIsFinish, FailIsGiveBack, Zenon DEF PlainStep
<1>3. Spec => []PlanInv
  BY OrchPlanInv
<1> QED
  BY <1>1, <1>2, <1>3, PTL DEF Spec, PlanImplemented, Plans!Spec
=============================================================================
