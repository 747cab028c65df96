-------------------------- MODULE TaskStoreProofs --------------------------
(***************************************************************************)
(* What holds of the task store for every number of tasks, terminals,      *)
(* gates and dispatches, whatever its callers do.                          *)
(***************************************************************************)
EXTENDS TaskStore, TLAPS

\* Type correctness, method by method: none writes a status outside its column's
\* CHECK constraint.
LEMMA MethodsTyped ==
    ASSUME StoreTypeOK
    PROVE  /\ \A t \in Task, deps \in SUBSET Task : CreateTask(t, deps) => StoreTypeOK'
           /\ \A t \in Task : CompleteTask(t) => StoreTypeOK'
           /\ \A ts \in SUBSET Task, status \in TaskStatus :
                 SetTaskStatus(ts, status) => StoreTypeOK'
           /\ \A t \in Task, h \in Handle : CreateDispatchContext(t, h) => StoreTypeOK'
           /\ \A c \in DispatchId : FailDispatch(c) => StoreTypeOK'
           /\ \A g \in Gate, t \in Task : CreateGate(g, t) => StoreTypeOK'
           /\ \A g \in Gate : ResolveGate(g) => StoreTypeOK'
<1> USE DEF StoreTypeOK, DispatchId, TaskStatus, DispatchStatus, GateStatus, Absent
<1>1. ASSUME NEW t \in Task, NEW deps \in SUBSET Task, CreateTask(t, deps)
      PROVE  StoreTypeOK'
  BY <1>1 DEF CreateTask, dispVars, gateVars
<1>2. ASSUME NEW t \in Task, CompleteTask(t)
      PROVE  StoreTypeOK'
  BY <1>2 DEF CompleteTask, CompleteActiveDispatch, gateVars
<1>3. ASSUME NEW ts \in SUBSET Task, NEW status \in TaskStatus, SetTaskStatus(ts, status)
      PROVE  StoreTypeOK'
  BY <1>3 DEF SetTaskStatus, dispVars, gateVars
<1>4. ASSUME NEW t \in Task, NEW h \in Handle, CreateDispatchContext(t, h)
      PROVE  StoreTypeOK'
  <2>1. PICK c \in DispatchId, prior \in {dispFails[d] : d \in ContextsOf(t)} \cup {0} :
           /\ dispStatus' = [dispStatus EXCEPT ![c] = "dispatched"]
           /\ dispTask' = [dispTask EXCEPT ![c] = t]
           /\ dispHandle' = [dispHandle EXCEPT ![c] = h]
           /\ dispFails' = [dispFails EXCEPT ![c] = prior]
    BY <1>4 DEF CreateDispatchContext
  <2>2. prior \in Nat
    BY DEF ContextsOf
  <2> QED
    BY <1>4, <2>1, <2>2 DEF CreateDispatchContext, gateVars
<1>5. ASSUME NEW c \in DispatchId, FailDispatch(c)
      PROVE  StoreTypeOK'
  <2> DEFINE broken == dispFails[c] + 1 >= BreakerLimit
  <2>1. /\ dispFails' = [dispFails EXCEPT ![c] = dispFails[c] + 1]
        /\ dispStatus' = [dispStatus EXCEPT ![c] = IF broken THEN "circuit_broken" ELSE "failed"]
        /\ taskStatus' = [taskStatus EXCEPT ![dispTask[c]] = IF broken THEN "failed" ELSE "ready"]
        /\ UNCHANGED <<taskDeps, dispTask, dispHandle, gateStatus, gateTask>>
    BY <1>5 DEF FailDispatch, Broken, gateVars
  <2>2. taskStatus' \in [Task -> TaskStatus \cup Absent]
    BY <2>1
  <2>3. dispFails' \in [DispatchId -> Nat]
    BY <2>1
  <2>4. dispStatus' \in [DispatchId -> DispatchStatus \cup Absent]
    BY <2>1
  <2> QED
    BY <2>1, <2>2, <2>3, <2>4
<1>6. ASSUME NEW g \in Gate, NEW t \in Task, CreateGate(g, t)
      PROVE  StoreTypeOK'
  BY <1>6 DEF CreateGate, CompleteActiveDispatch
<1>7. ASSUME NEW g \in Gate, ResolveGate(g)
      PROVE  StoreTypeOK'
  BY <1>7 DEF ResolveGate, dispVars
<1> QED
  BY <1>1, <1>2, <1>3, <1>4, <1>5, <1>6, <1>7

\* Any caller's step keeps the types.
LEMMA StoreTypeStep ==
    ASSUME StoreTypeOK, [StoreNext]_storeVars
    PROVE  StoreTypeOK'
<1>1. ASSUME NEW g \in Gate, TimeoutGate(g)
      PROVE  StoreTypeOK'
  BY <1>1 DEF TimeoutGate, taskVars, dispVars, StoreTypeOK, GateStatus
<1>2. ASSUME ResetTasks
      PROVE  StoreTypeOK'
  BY <1>2 DEF ResetTasks, Deleted, NoDeps, Blank, NoFails, StoreTypeOK, Absent
<1>3. ASSUME UNCHANGED storeVars
      PROVE  StoreTypeOK'
  BY <1>3 DEF storeVars, taskVars, dispVars, gateVars, StoreTypeOK
<1>4. ASSUME NEW t \in Task, NEW deps \in SUBSET {u \in Task : taskStatus[u] # "none"},
             CreateTask(t, deps)
      PROVE  StoreTypeOK'
  BY <1>4, MethodsTyped
<1>5. ASSUME NEW t \in Task, NEW status \in TaskStatus, SetTaskStatus({t}, status)
      PROVE  StoreTypeOK'
  BY <1>5, MethodsTyped, {t} \in SUBSET Task
<1> QED
  BY <1>1, <1>2, <1>3, <1>4, <1>5, MethodsTyped DEF StoreNext

\* Every column of every row keeps its type (the schema of db.ts).
THEOREM StoreTyped == StoreSpec => []StoreTypeOK
<1>1. StoreInit => StoreTypeOK
  BY DEF StoreInit, StoreTypeOK, NoDeps, Blank, NoFails, Absent
<1>2. StoreTypeOK /\ [StoreNext]_storeVars => StoreTypeOK'
  BY StoreTypeStep
<1> QED
  BY <1>1, <1>2, PTL DEF StoreSpec

-----------------------------------------------------------------------------
(* The dispatch lock.  Only createDispatchContext makes a context active;  *)
(* every other method can only end contexts.                               *)

\* A step makes no context active, moves none to another terminal, and creates none.
OnlyEnds ==
    \A c \in DispatchId :
        /\ Active(c)' => Active(c) /\ dispHandle'[c] = dispHandle[c]
        /\ dispStatus'[c] = "none" <=> dispStatus[c] = "none"

\* Every method but createDispatchContext only ends contexts: completion,
\* failure, a new gate.
LEMMA MethodsOnlyEnd ==
    ASSUME StoreTypeOK
    PROVE  /\ UNCHANGED dispVars => OnlyEnds
           /\ \A t \in Task : CompleteTask(t) => OnlyEnds
           /\ \A c \in DispatchId : FailDispatch(c) => OnlyEnds
           /\ \A g \in Gate, t \in Task : CreateGate(g, t) => OnlyEnds
<1> USE DEF OnlyEnds, Active, StoreTypeOK, DispatchStatus, Absent
<1>1. ASSUME UNCHANGED dispVars PROVE OnlyEnds
  BY <1>1 DEF dispVars
<1>2. ASSUME NEW t \in Task, CompleteActiveDispatch(t), UNCHANGED dispHandle
      PROVE  OnlyEnds
  BY <1>2 DEF CompleteActiveDispatch, IsLatestActive
<1>3. ASSUME NEW c \in DispatchId, FailDispatch(c)
      PROVE  OnlyEnds
  BY <1>3 DEF FailDispatch
<1>4. ASSUME NEW t \in Task, CompleteTask(t) PROVE OnlyEnds
  BY <1>2, <1>4 DEF CompleteTask
<1>5. ASSUME NEW g \in Gate, NEW t \in Task, CreateGate(g, t) PROVE OnlyEnds
  BY <1>2, <1>5 DEF CreateGate
<1> QED
  BY <1>1, <1>3, <1>4, <1>5

\* So does every other step of the store's callers, a reset included.
LEMMA OthersOnlyEnd ==
    ASSUME StoreTypeOK, [StoreNext]_storeVars,
           \A t \in Task, h \in Handle : ~CreateDispatchContext(t, h)
    PROVE  OnlyEnds
<1>1. CASE ResetTasks
  BY <1>1 DEF ResetTasks, Deleted, OnlyEnds, Active, StoreTypeOK
<1>2. CASE \E t \in Task, deps \in SUBSET {u \in Task : taskStatus[u] # "none"} :
              CreateTask(t, deps)
  BY <1>2, MethodsOnlyEnd DEF CreateTask
<1>3. CASE \E t \in Task, status \in TaskStatus \ {"completed"} : SetTaskStatus({t}, status)
  BY <1>3, MethodsOnlyEnd DEF SetTaskStatus
<1>4. CASE \E g \in Gate : ResolveGate(g) \/ TimeoutGate(g)
  BY <1>4, MethodsOnlyEnd DEF ResolveGate, TimeoutGate
<1>5. CASE UNCHANGED storeVars
  BY <1>5, MethodsOnlyEnd DEF storeVars
<1> QED
  BY <1>1, <1>2, <1>3, <1>4, <1>5, MethodsOnlyEnd DEF StoreNext

\* createDispatchContext takes a free terminal for a context that never was.
LEMMA CreateTakesFree ==
    ASSUME StoreTypeOK, NEW t \in Task, NEW h \in Handle, CreateDispatchContext(t, h)
    PROVE  \E c \in DispatchId :
              /\ dispStatus[c] = "none"
              /\ ~HandleBusy(h)
              /\ dispStatus' = [dispStatus EXCEPT ![c] = "dispatched"]
              /\ dispHandle' = [dispHandle EXCEPT ![c] = h]
  BY DEF CreateDispatchContext, IsNextDispatch

\* Neither of the two kinds of step undermines the lock.
LEMMA LockKept ==
    ASSUME StoreTypeOK, DispatchLock,
           OnlyEnds \/ \E t \in Task, h \in Handle : CreateDispatchContext(t, h)
    PROVE  DispatchLock'
<1>1. CASE \E t \in Task, h \in Handle : CreateDispatchContext(t, h)
  <2>1. PICK h \in Handle, c \in DispatchId :
           /\ dispStatus[c] = "none"
           /\ ~HandleBusy(h)
           /\ dispStatus' = [dispStatus EXCEPT ![c] = "dispatched"]
           /\ dispHandle' = [dispHandle EXCEPT ![c] = h]
    BY <1>1, CreateTakesFree
  <2> QED
    BY <2>1 DEF DispatchLock, HandleBusy, Active, StoreTypeOK
<1>2. CASE OnlyEnds
  BY <1>2 DEF OnlyEnds, DispatchLock, Active
<1> QED
  BY <1>1, <1>2

\* No terminal ever has two active dispatch contexts, whatever the callers of
\* the store do: the lock createDispatchContext takes is never undermined.
THEOREM StoreLocked == StoreSpec => []DispatchLock
<1>1. StoreInit => DispatchLock
  BY DEF StoreInit, DispatchLock, Active
<1>2. StoreTypeOK /\ DispatchLock /\ [StoreNext]_storeVars => DispatchLock'
  BY LockKept, OthersOnlyEnd
<1> QED
  BY <1>1, <1>2, StoreTyped, PTL DEF StoreSpec

-----------------------------------------------------------------------------
\* Each method keeps the two columns of the breaker in agreement.
LEMMA MethodsKeepBreaker ==
    ASSUME StoreTypeOK, BreakerAgrees
    PROVE  /\ UNCHANGED dispVars => BreakerAgrees'
           /\ \A t \in Task : CompleteTask(t) => BreakerAgrees'
           /\ \A c \in DispatchId : FailDispatch(c) => BreakerAgrees'
           /\ \A g \in Gate, t \in Task : CreateGate(g, t) => BreakerAgrees'
           /\ \A t \in Task, h \in Handle : CreateDispatchContext(t, h) => BreakerAgrees'
<1> USE DEF BreakerAgrees, StoreTypeOK
<1>1. ASSUME UNCHANGED dispVars PROVE BreakerAgrees'
  BY <1>1 DEF dispVars
<1>2. ASSUME NEW t \in Task, CompleteActiveDispatch(t), UNCHANGED dispFails
      PROVE  BreakerAgrees'
  BY <1>2 DEF CompleteActiveDispatch
<1>3. ASSUME NEW t \in Task, NEW h \in Handle, CreateDispatchContext(t, h)
      PROVE  BreakerAgrees'
  BY <1>3 DEF CreateDispatchContext
<1>4. ASSUME NEW c \in DispatchId, FailDispatch(c)
      PROVE  BreakerAgrees'
  BY <1>4 DEF FailDispatch, Broken, BreakerLimit
<1>5. ASSUME NEW t \in Task, CompleteTask(t) PROVE BreakerAgrees'
  BY <1>2, <1>5 DEF CompleteTask
<1>6. ASSUME NEW g \in Gate, NEW t \in Task, CreateGate(g, t) PROVE BreakerAgrees'
  BY <1>2, <1>6 DEF CreateGate
<1> QED
  BY <1>1, <1>3, <1>4, <1>5, <1>6

\* The breaker: a context's status and its failure count never disagree, over
\* any sequence of failures, retries, completions and resets.
THEOREM StoreBreaker == StoreSpec => []BreakerAgrees
<1>1. StoreInit => BreakerAgrees
  BY DEF StoreInit, BreakerAgrees
<1>2. StoreTypeOK /\ BreakerAgrees /\ [StoreNext]_storeVars => BreakerAgrees'
  <2> SUFFICES ASSUME StoreTypeOK, BreakerAgrees, [StoreNext]_storeVars
               PROVE  BreakerAgrees'
    OBVIOUS
  <2>1. CASE ResetTasks
    BY <2>1 DEF ResetTasks, Deleted, BreakerAgrees, StoreTypeOK
  <2>2. CASE \E t \in Task, deps \in SUBSET {u \in Task : taskStatus[u] # "none"} :
                CreateTask(t, deps)
    BY <2>2, MethodsKeepBreaker DEF CreateTask
  <2>3. CASE \E t \in Task, status \in TaskStatus \ {"completed"} : SetTaskStatus({t}, status)
    BY <2>3, MethodsKeepBreaker DEF SetTaskStatus
  <2>4. CASE \E g \in Gate : ResolveGate(g) \/ TimeoutGate(g)
    BY <2>4, MethodsKeepBreaker DEF ResolveGate, TimeoutGate
  <2>5. CASE UNCHANGED storeVars
    BY <2>5, MethodsKeepBreaker DEF storeVars
  <2> QED
    BY <2>1, <2>2, <2>3, <2>4, <2>5, MethodsKeepBreaker DEF StoreNext
<1> QED
  BY <1>1, <1>2, StoreTyped, PTL DEF StoreSpec

-----------------------------------------------------------------------------
(* The abstract lease of TerminalLease.tla *)

HeldNow == {<<dispHandle[c], c>> : c \in {d \in DispatchId : Active(d)}}
SpentNow == {c \in DispatchId : dispStatus[c] # "none"}

\* Ending contexts is a release of the leases that are gone, or nothing.
LEMMA EndsAreReleases ==
    ASSUME StoreTypeOK, OnlyEnds
    PROVE  [Lease!Next]_Lease!vars
<1>1. HeldNow' \subseteq HeldNow
  BY DEF HeldNow, OnlyEnds, Active
<1>2. SpentNow' = SpentNow
  BY DEF SpentNow, OnlyEnds
<1>3. PICK gone \in SUBSET HeldNow : HeldNow' = HeldNow \ gone
  <2>1. HeldNow \ HeldNow' \in SUBSET HeldNow /\ HeldNow' = HeldNow \ (HeldNow \ HeldNow')
    BY <1>1
  <2> QED
    BY <2>1
<1>4. CASE gone = {}
  BY <1>2, <1>3, <1>4 DEF Lease!vars, HeldNow, SpentNow, Active
<1>5. CASE gone # {}
  <2>1. Lease!Release(gone)
    BY <1>2, <1>3, <1>5 DEF Lease!Release, HeldNow, SpentNow, Active
  <2>2. \E g \in SUBSET HeldNow : Lease!Release(g)
    BY <1>3, <2>1
  <2> QED
    BY <2>2, Zenon DEF Lease!Next, HeldNow
<1> QED
  BY <1>4, <1>5

\* Creating a context acquires a free terminal for it.
LEMMA CreateIsAcquire ==
    ASSUME StoreTypeOK, NEW t \in Task, NEW h \in Handle, CreateDispatchContext(t, h)
    PROVE  Lease!Next
<1>1. PICK c \in DispatchId :
         /\ dispStatus[c] = "none"
         /\ ~HandleBusy(h)
         /\ dispStatus' = [dispStatus EXCEPT ![c] = "dispatched"]
         /\ dispHandle' = [dispHandle EXCEPT ![c] = h]
  BY CreateTakesFree
<1>2. HeldNow' = HeldNow \cup {<<h, c>>}
  BY <1>1 DEF HeldNow, Active, StoreTypeOK
<1>3. SpentNow' = SpentNow \cup {c}
  BY <1>1 DEF SpentNow, StoreTypeOK
<1>4. c \notin SpentNow
  BY <1>1 DEF SpentNow
<1>5. h \notin {lease[1] : lease \in HeldNow}
  BY <1>1 DEF HeldNow, HandleBusy, Active
<1>6. Lease!Acquire(h, c)
  BY <1>2, <1>3, <1>4, <1>5 DEF Lease!Acquire, Lease!Leased, HeldNow, SpentNow, Active
<1> QED
  BY <1>6 DEF Lease!Next

\* The dispatch table implements the abstract terminal lease: every method of
\* the store acquires one free terminal, releases some, or touches no lease.
THEOREM StoreImplementsLease == StoreSpec => LeaseImplemented
<1>1. StoreInit => Lease!Init
  BY DEF StoreInit, Lease!Init, Active
<1>2. StoreTypeOK /\ [StoreNext]_storeVars => [Lease!Next]_Lease!vars
  <2> SUFFICES ASSUME StoreTypeOK, [StoreNext]_storeVars
               PROVE  [Lease!Next]_Lease!vars
    OBVIOUS
  <2>1. CASE \E t \in Task, h \in Handle : CreateDispatchContext(t, h)
    BY <2>1, CreateIsAcquire
  <2>2. CASE \A t \in Task, h \in Handle : ~CreateDispatchContext(t, h)
    BY <2>2, OthersOnlyEnd, EndsAreReleases
  <2> QED
    BY <2>1, <2>2
<1> QED
  BY <1>1, <1>2, StoreTyped, PTL DEF StoreSpec, LeaseImplemented, Lease!Spec
=============================================================================
