------------------------ MODULE OrchestrationProofs ------------------------
(***************************************************************************)
(* Safety of a coordinator run, for any task graph, any number of          *)
(* terminals, gates and dispatches and any concurrency limit.              *)
(***************************************************************************)
EXTENDS Orchestration, TaskStoreProofs, FiniteSetTheorems, SequenceTheorems

\* What one step may do to the store: one method, or nothing.
StoreStep ==
    \/ UNCHANGED storeVars
    \/ \E t \in Task : CompleteTask(t)
    \/ \E c \in DispatchId : FailDispatch(c)
    \/ \E g \in Gate, t \in Task : CreateGate(g, t)
    \/ \E g \in Gate : ResolveGate(g)
    \/ \E ts \in SUBSET Task, status \in TaskStatus : SetTaskStatus(ts, status)
    \/ \E t \in Task, h \in Handle : CreateDispatchContext(t, h)
    \/ \E t \in Task, deps \in SUBSET Task : CreateTask(t, deps)

\* A context that is there names a task and a terminal, and ids are used in order.
Rows ==
    \A c \in DispatchId : dispStatus[c] # "none" =>
        /\ dispStatus[c] # "deleted"
        /\ dispTask[c] \in Task /\ dispHandle[c] \in Handle
        /\ \A d \in DispatchId : d < c => dispStatus[d] # "none"

\* What the loop, the operator's calls and the workers hold on to across their
\* awaits: contexts that are there, and a task and a terminal that fit together.
InHand ==
    /\ \A c \in told \cup sending : dispStatus[c] # "none"
    /\ pc \in {"probing", "commit", "sending"} => job.task \in Task /\ job.handle \in Handle
    /\ pc = "sending" => /\ job.disp \in DispatchId /\ dispStatus[job.disp] # "none"
                         /\ dispTask[job.disp] = job.task /\ dispHandle[job.disp] = job.handle

TypeInv == TypeOK /\ Rows /\ InHand

\* The messages of a mailbox.
Letters(box) == {box[i] : i \in 1..Len(box)}
-----------------------------------------------------------------------------
(* Lemmas about mailboxes and contexts *)

\* Taking the head off a mailbox.
LEMMA TailLetters ==
    ASSUME NEW S, NEW box \in Seq(S), box # <<>>
    PROVE  /\ Head(box) \in Letters(box) /\ Head(box) \in S
           /\ Tail(box) \in Seq(S) /\ Letters(Tail(box)) \subseteq Letters(box)
<1>1. /\ Len(box) \in Nat \ {0} /\ Head(box) = box[1]
      /\ Tail(box) \in Seq(S) /\ Len(Tail(box)) = Len(box) - 1
      /\ \A i \in 1..Len(Tail(box)) : Tail(box)[i] = box[i+1]
  BY EmptySeq, HeadTailProperties
<1>2. Head(box) \in Letters(box)
  BY <1>1 DEF Letters
<1>3. Letters(Tail(box)) \subseteq Letters(box)
  <2> SUFFICES ASSUME NEW i \in 1..Len(Tail(box)) PROVE Tail(box)[i] \in Letters(box)
    BY DEF Letters
  <2>1. i + 1 \in 1..Len(box) /\ Tail(box)[i] = box[i+1]
    BY <1>1
  <2> QED
    BY <2>1 DEF Letters
<1> QED
  BY <1>1, <1>2, <1>3, HeadTailProperties

\* Putting a message at the end of a mailbox.
LEMMA AppendLetters ==
    ASSUME NEW S, NEW box \in Seq(S), NEW m \in S
    PROVE  Append(box, m) \in Seq(S) /\ Letters(Append(box, m)) = Letters(box) \cup {m}
<1>1. /\ Len(box) \in Nat /\ Append(box, m) \in Seq(S)
      /\ Len(Append(box, m)) = Len(box) + 1
      /\ \A i \in 1..Len(box) : Append(box, m)[i] = box[i]
      /\ Append(box, m)[Len(box) + 1] = m
  OBVIOUS
<1>2. Letters(Append(box, m)) \subseteq Letters(box) \cup {m}
  BY <1>1 DEF Letters
<1>3. Letters(box) \subseteq Letters(Append(box, m))
  <2> SUFFICES ASSUME NEW i \in 1..Len(box) PROVE box[i] \in Letters(Append(box, m))
    BY DEF Letters
  <2> QED
    BY <1>1 DEF Letters
<1>4. m \in Letters(Append(box, m))
  <2>1. Len(box) + 1 \in 1..Len(Append(box, m))
    BY <1>1
  <2> QED
    BY <1>1, <2>1 DEF Letters
<1> QED
  BY <1>1, <1>2, <1>3, <1>4

\* Every method keeps the types of the store.
LEMMA StoreStepTyped ==
    ASSUME StoreTypeOK, StoreStep
    PROVE  StoreTypeOK'
<1>1. CASE UNCHANGED storeVars
  BY <1>1 DEF storeVars, taskVars, dispVars, gateVars, StoreTypeOK
<1> QED
  BY <1>1, MethodsTyped DEF StoreStep

\* Creating a context, read off the store: the new one is the newest of all.
LEMMA CreateEffect ==
    ASSUME StoreTypeOK, Rows, NEW t \in Task, NEW h \in Handle, CreateDispatchContext(t, h)
    PROVE  \E c \in DispatchId, prior \in Nat :
              /\ IsNextDispatch(c)
              /\ \A d \in DispatchId : dispStatus[d] # "none" => d < c
              /\ \A d \in ContextsOf(t) : dispFails[d] <= prior
              /\ dispStatus' = [dispStatus EXCEPT ![c] = "dispatched"]
              /\ dispTask' = [dispTask EXCEPT ![c] = t]
              /\ dispHandle' = [dispHandle EXCEPT ![c] = h]
              /\ dispFails' = [dispFails EXCEPT ![c] = prior]
              /\ taskStatus[t] = "ready" /\ taskStatus' = [taskStatus EXCEPT ![t] = "dispatched"]
              /\ ~HandleBusy(h)
              /\ UNCHANGED <<taskDeps, gateStatus, gateTask>>
<1>1. PICK c \in DispatchId, prior \in {dispFails[d] : d \in ContextsOf(t)} \cup {0} :
         /\ IsNextDispatch(c)
         /\ \A d \in ContextsOf(t) : dispFails[d] <= prior
         /\ dispStatus' = [dispStatus EXCEPT ![c] = "dispatched"]
         /\ dispTask' = [dispTask EXCEPT ![c] = t]
         /\ dispHandle' = [dispHandle EXCEPT ![c] = h]
         /\ dispFails' = [dispFails EXCEPT ![c] = prior]
  BY DEF CreateDispatchContext
<1>2. prior \in Nat
  BY DEF ContextsOf, StoreTypeOK
<1>3. ASSUME NEW d \in DispatchId, dispStatus[d] # "none" PROVE d < c
  <2>1. dispStatus[c] = "none" /\ ~(c < d) /\ c # d
    BY <1>1, <1>3 DEF Rows, IsNextDispatch
  <2> QED
    BY <2>1, BoundsAssumption DEF DispatchId
<1> QED
  BY <1>1, <1>2, <1>3 DEF CreateDispatchContext, gateVars

\* No method takes a context's row away, or gives it another task or terminal.
LEMMA StoreStepRows ==
    ASSUME StoreTypeOK, Rows, StoreStep
    PROVE  /\ Rows'
           /\ \A c \in DispatchId : dispStatus[c] # "none" =>
                 dispStatus'[c] # "none" /\ dispTask'[c] = dispTask[c] /\ dispHandle'[c] = dispHandle[c]
<1> DEFINE Kept == \A c \in DispatchId : dispStatus[c] # "none" =>
              dispStatus'[c] # "none" /\ dispTask'[c] = dispTask[c] /\ dispHandle'[c] = dispHandle[c]
<1>1. ASSUME UNCHANGED dispVars PROVE Rows' /\ Kept
  BY <1>1 DEF Rows, dispVars
<1>2. ASSUME NEW t \in Task, CompleteActiveDispatch(t), UNCHANGED <<dispTask, dispHandle>>
      PROVE  Rows' /\ Kept
  <2>1. \A c \in DispatchId : dispStatus'[c] \in {dispStatus[c], "completed"}
                                /\ (dispStatus[c] = "none" => dispStatus'[c] = "none")
    BY <1>2 DEF CompleteActiveDispatch, IsLatestActive, Active, StoreTypeOK
  <2> QED
    BY <1>2, <2>1 DEF Rows
<1>3. ASSUME NEW c \in DispatchId, FailDispatch(c) PROVE Rows' /\ Kept
  <2>1. /\ dispStatus[c] # "none" /\ dispStatus'[c] \notin Absent
        /\ \A d \in DispatchId \ {c} : dispStatus'[d] = dispStatus[d]
        /\ UNCHANGED <<dispTask, dispHandle>>
    BY <1>3 DEF FailDispatch, StoreTypeOK, Absent
  <2> QED
    BY <2>1 DEF Rows, Absent
<1>4. ASSUME NEW t \in Task, NEW h \in Handle, CreateDispatchContext(t, h) PROVE Rows' /\ Kept
  <2>1. PICK c \in DispatchId :
          /\ IsNextDispatch(c)
          /\ dispStatus' = [dispStatus EXCEPT ![c] = "dispatched"]
          /\ dispTask' = [dispTask EXCEPT ![c] = t]
          /\ dispHandle' = [dispHandle EXCEPT ![c] = h]
    BY <1>4, CreateEffect
  <2> QED
    BY <2>1 DEF Rows, IsNextDispatch, StoreTypeOK
<1>5. ASSUME NEW t \in Task, CompleteTask(t) PROVE Rows' /\ Kept
  BY <1>2, <1>5 DEF CompleteTask
<1>6. ASSUME NEW g \in Gate, NEW t \in Task, CreateGate(g, t) PROVE Rows' /\ Kept
  BY <1>2, <1>6 DEF CreateGate
<1>7. ASSUME NEW g \in Gate, ResolveGate(g) PROVE Rows' /\ Kept
  BY <1>1, <1>7 DEF ResolveGate
<1>8. ASSUME NEW ts, NEW status, SetTaskStatus(ts, status) PROVE Rows' /\ Kept
  BY <1>1, <1>8 DEF SetTaskStatus
<1>9. ASSUME NEW t, NEW deps, CreateTask(t, deps) PROVE Rows' /\ Kept
  BY <1>1, <1>9 DEF CreateTask
<1>10. ASSUME UNCHANGED storeVars PROVE Rows' /\ Kept
  BY <1>1, <1>10 DEF storeVars
<1> HIDE DEF Kept
<1>11. Rows' /\ Kept
  BY <1>3, <1>4, <1>5, <1>6, <1>7, <1>8, <1>9, <1>10, Zenon DEF StoreStep
<1> QED
  BY <1>11 DEF Kept
-----------------------------------------------------------------------------
(* The types, and what a step may do to the store *)

\* The oldest message names a task; a report names a context and a terminal, too.
LEMMA HeadTyped ==
    ASSUME TypeOK, mail # <<>>
    PROVE  /\ Head(mail) \in Message /\ Head(mail) \in Letters(mail)
           /\ Head(mail).task \in Task
           /\ Head(mail).kind = "done" => Head(mail).disp \in DispatchId /\ Head(mail).from \in Handle
           /\ Tail(mail) \in Seq(Message) /\ Letters(Tail(mail)) \subseteq Letters(mail)
<1>1. mail \in Seq(Message)
  BY DEF TypeOK
<1>2. /\ Head(mail) \in Message /\ Head(mail) \in Letters(mail)
      /\ Tail(mail) \in Seq(Message) /\ Letters(Tail(mail)) \subseteq Letters(mail)
  BY <1>1, TailLetters
<1> QED
  BY <1>2 DEF Message

\* A step calls one method of the store at most.
LEMMA NextIsStoreStep ==
    ASSUME TypeInv, [Next]_vars
    PROVE  StoreStep
<1> USE DEF StoreStep
<1>1. ASSUME UNCHANGED storeVars PROVE StoreStep
  BY <1>1
<1>2. CASE Wake \/ StopSeen \/ Plan \/ ListTerminals \/ CreateTerminal \/ Assign \/ Probe
           \/ SendOk \/ CheckConvergence \/ Converge
  BY <1>1, <1>2 DEF Wake, StopSeen, Finish, Plan, ListTerminals, CreateTerminal, Assign, Probe,
     SendOk, CheckConvergence, Converge
<1>3. CASE HandleWorkerDone
  <2>1. Head(mail).task \in Task
    BY <1>3, HeadTyped DEF HandleWorkerDone, TakeMail, TypeInv
  <2> QED
    BY <1>1, <1>3, <2>1 DEF HandleWorkerDone
<1>4. CASE HandleEscalation
  BY <1>1, <1>4 DEF HandleEscalation
<1>5. CASE HandleDecisionGateMessage
  <2>1. Head(mail).task \in Task
    BY <1>5, HeadTyped DEF HandleDecisionGateMessage, TakeMail, TypeInv
  <2> QED
    BY <1>5, <2>1 DEF HandleDecisionGateMessage
<1>6. CASE ProcessDecisionGates
  <2>1. {t \in Existing : PendingGate(t)} \in SUBSET Task /\ "blocked" \in TaskStatus
    BY DEF Existing, TaskStatus
  <2> QED
    BY <1>6, <2>1, Zenon DEF ProcessDecisionGates
<1>7. CASE Commit
  <2>1. job.task \in Task /\ job.handle \in Handle
    BY <1>7 DEF Commit, TypeInv, InHand
  <2> QED
    BY <1>1, <1>7, <2>1 DEF Commit
<1>8. CASE SendError
  BY <1>8 DEF SendError, TypeInv, InHand
<1>9. CASE WorkerNext
  BY <1>1, <1>9 DEF WorkerNext, SendDone, SendEscalation, SendGate, SendForeignDone, Send
<1>10. CASE \E h \in Handle : Exit(h)
  BY <1>1, <1>10 DEF Exit
<1>11. CASE \E t \in Task, status \in TaskStatus : TaskUpdate(t, status)
  <2>1. PICK t \in Task, status \in TaskStatus : TaskUpdate(t, status)
    BY <1>11
  <2>2. CompleteTask(t) \/ SetTaskStatus({t}, status)
    BY <2>1 DEF TaskUpdate
  <2>3. {t} \in SUBSET Task
    OBVIOUS
  <2> QED
    BY <2>2, <2>3, Zenon
<1>12. CASE \E t \in Task, deps \in SUBSET Existing : TaskCreate(t, deps)
  <2>1. PICK t \in Task, deps \in SUBSET Existing : CreateTask(t, deps)
    BY <1>12 DEF TaskCreate
  <2>2. deps \in SUBSET Task
    BY DEF Existing
  <2> QED
    BY <2>1, <2>2, Zenon
<1>13. CASE \/ \E g \in Gate : GateResolve(g)
            \/ \E g \in Gate, t \in Task : GateCreate(g, t)
            \/ \E t \in Task, h \in Handle, inject \in BOOLEAN : DispatchRpc(t, h, inject)
  BY <1>13 DEF GateResolve, GateCreate, DispatchRpc
<1>14. CASE \E c \in sending : DispatchSent(c)
  <2>1. \A c \in sending : c \in DispatchId
    BY DEF TypeInv, TypeOK
  <2> QED
    BY <1>1, <1>14, <2>1 DEF DispatchSent
<1>15. CASE RunStop \/ Terminated \/ UNCHANGED vars
  BY <1>1, <1>15 DEF RunStop, Terminated, vars
<1> HIDE DEF StoreStep
<1>16. CASE CoordinatorNext
  BY <1>2, <1>3, <1>4, <1>5, <1>6, <1>7, <1>8, <1>16 DEF CoordinatorNext
<1>17. CASE OperatorNext
  BY <1>11, <1>12, <1>13, <1>14, <1>15, <1>17, Zenon DEF OperatorNext
<1> QED
  BY <1>9, <1>10, <1>15, <1>16, <1>17, Zenon DEF Next

\* The tasks in hand are finite in number.
LEMMA DispatchedFinite ==
    ASSUME StoreTypeOK
    PROVE  /\ IsFiniteSet(Tasks("dispatched")) /\ Cardinality(Tasks("dispatched")) \in Nat
  BY FiniteAssumption, FS_Subset, FS_CardinalityType DEF Tasks

\* The typing of everything outside the store.
RunTypeOK ==
    /\ pc \in Turn \cup Await \cup {"finished"}
    /\ ready \subseteq Task /\ terminals \subseteq Handle /\ slots \in 0..MaxConcurrent
    /\ job \in [task : Task \cup {"-"}, handle : Handle \cup {"-"}, disp : DispatchId \cup {0}]
    /\ stopped \in BOOLEAN /\ failedTasks \subseteq Task
    /\ runStatus \in {"running", "completed", "failed"}
    /\ mail \in Seq(Message)
    /\ terminal \in [Handle -> {"unborn", "live", "dead"}]
    /\ told \subseteq DispatchId /\ sending \subseteq DispatchId
    /\ sent \subseteq {"done", "foreign", "escalation", "gate"} \X DispatchId
    /\ faults \in 0..MaxFaults /\ calls \in 0..MaxCalls

\* Contexts outlive every step.
RowsStay == \A c \in DispatchId : dispStatus[c] # "none" =>
    dispStatus'[c] # "none" /\ dispTask'[c] = dispTask[c] /\ dispHandle'[c] = dispHandle[c]

\* A step that leaves alone what the loop and the callers hold keeps it true.
LEMMA InHandStays ==
    ASSUME InHand, RunTypeOK, RowsStay, UNCHANGED <<told, sending>>,
           pc' = pc \/ pc' \notin {"probing", "commit", "sending"}, UNCHANGED job \/ pc' # pc
    PROVE  InHand'
<1>1. \A c \in told' \cup sending' : dispStatus'[c] # "none"
  BY DEF InHand, RunTypeOK, RowsStay
<1>2. CASE pc' = pc
  BY <1>1, <1>2 DEF InHand, RowsStay
<1>3. CASE pc' # pc
  BY <1>1, <1>3 DEF InHand
<1> QED
  BY <1>2, <1>3

\* The loop's steps keep the types.
LEMMA CoordinatorTyped ==
    ASSUME TypeInv, StoreTypeOK', RowsStay, CoordinatorNext
    PROVE  RunTypeOK' /\ InHand'
<1> USE DEF Go, Turn, Await
<1>0. RunTypeOK /\ StoreTypeOK /\ InHand
  BY DEF TypeInv, TypeOK, RunTypeOK
<1>1. CASE Wake \/ CheckConvergence
  <2>1. RunTypeOK'
    BY <1>0, <1>1 DEF Wake, CheckConvergence, RunTypeOK, loopVars, worldVars
  <2>2. pc' \in {"messages", "sleep"} /\ pc \in {"sleep", "converge"}
        /\ UNCHANGED <<job, told, sending>>
    BY <1>1 DEF Wake, CheckConvergence, worldVars
  <2> QED
    BY <1>0, <2>1, <2>2, InHandStays
<1>2. CASE StopSeen \/ Converge
  <2>1. RunTypeOK'
    BY <1>0, <1>2 DEF StopSeen, Converge, Finish, RunTypeOK, worldVars
  <2>2. pc' = "finished" /\ UNCHANGED <<job, told, sending>>
    BY <1>2 DEF StopSeen, Converge, Finish, worldVars
  <2> QED
    BY <1>0, <2>1, <2>2, InHandStays
<1>3. CASE HandleWorkerDone \/ HandleEscalation \/ HandleDecisionGateMessage
  <2>1. /\ mail # <<>> /\ mail' = Tail(mail) /\ failedTasks' \subseteq Task
        /\ UNCHANGED <<pc, ready, terminals, slots, job, stopped, runStatus,
                       terminal, told, sent, sending, faults, calls>>
    <3>1. mail # <<>> => Head(mail).task \in Task
      BY HeadTyped DEF TypeInv
    <3> QED
      BY <1>0, <1>3, <3>1 DEF HandleWorkerDone, HandleEscalation, HandleDecisionGateMessage, TakeMail,
         RunTypeOK
  <2>2. mail' \in Seq(Message)
    BY <2>1, HeadTyped DEF TypeInv
  <2>3. RunTypeOK'
    BY <1>0, <2>1, <2>2 DEF RunTypeOK
  <2> QED
    BY <1>0, <2>1, <2>3, InHandStays
<1>4. CASE ProcessDecisionGates
  <2>1. RunTypeOK'
    BY <1>0, <1>4 DEF ProcessDecisionGates, RunTypeOK, worldVars
  <2>2. pc' = "plan" /\ UNCHANGED <<job, told, sending>>
    BY <1>4 DEF ProcessDecisionGates, worldVars
  <2> QED
    BY <1>0, <2>1, <2>2, InHandStays
<1>5. CASE Plan
  <2>1. /\ pc' \in {"converge", "listing"}
        /\ (UNCHANGED <<ready, slots>>)
              \/ (ready' = Tasks("ready") /\ slots' = FreeSlots /\ ~(FreeSlots <= 0))
        /\ UNCHANGED <<terminals, job, stopped, failedTasks, runStatus, worldVars>>
    BY <1>5 DEF Plan
  <2>2. ~(FreeSlots <= 0) => FreeSlots \in 0..MaxConcurrent
    BY <1>0, DispatchedFinite, RunAssumption DEF FreeSlots
  <2>3. RunTypeOK'
    BY <1>0, <2>1, <2>2 DEF RunTypeOK, worldVars, Tasks
  <2> QED
    BY <1>0, <2>1, <2>3, InHandStays DEF worldVars
<1>6. CASE ListTerminals
  <2>1. /\ pc' \in {"creating", "assign"} /\ terminals' \subseteq Handle
        /\ faults' = faults \/ Fault
        /\ UNCHANGED <<ready, slots, job, stopped, failedTasks, runStatus, mail, terminal, told,
                       sent, sending, calls>>
    BY <1>6 DEF ListTerminals, Available, Live
  <2>2. RunTypeOK'
    BY <1>0, <2>1, RunAssumption DEF RunTypeOK, Fault
  <2> QED
    BY <1>0, <2>1, <2>2, InHandStays
<1>7. CASE CreateTerminal
  <2>1. /\ pc' \in {"assign", "converge"} /\ terminals' \subseteq Handle
        /\ terminal' \in [Handle -> {"unborn", "live", "dead"}]
        /\ ready' \subseteq ready /\ slots' \in {slots, 0}
        /\ faults' = faults \/ Fault
        /\ UNCHANGED <<job, stopped, failedTasks, runStatus, mail, told, sent, sending, calls>>
    BY <1>0, <1>7 DEF CreateTerminal, RunTypeOK
  <2>2. RunTypeOK'
    BY <1>0, <2>1, RunAssumption DEF RunTypeOK, Fault
  <2> QED
    BY <1>0, <2>1, <2>2, InHandStays
<1>8. CASE Assign
  <2>1. CASE slots = 0 \/ ready = {} \/ terminals = {}
    <3>1. RunTypeOK'
      BY <1>0, <1>8, <2>1, RunAssumption DEF Assign, RunTypeOK, worldVars
    <3>2. pc' = "converge" /\ UNCHANGED <<job, told, sending>>
      BY <1>8, <2>1 DEF Assign, worldVars
    <3> QED
      BY <1>0, <3>1, <3>2, InHandStays
  <2>2. CASE ~(slots = 0 \/ ready = {} \/ terminals = {})
    <3>1. PICK t \in ready, h \in terminals :
            /\ job' = [task |-> t, handle |-> h, disp |-> 0]
            /\ ready' = ready \ {t} /\ terminals' = terminals \ {h} /\ slots' = slots - 1
            /\ pc' \in {"probing", "commit"}
      BY <1>8, <2>2 DEF Assign
    <3>2. UNCHANGED <<storeVars, stopped, failedTasks, runStatus, worldVars>>
      BY <1>8 DEF Assign
    <3>3. t \in Task /\ h \in Handle /\ slots' \in 0..MaxConcurrent
      BY <1>0, <2>2, <3>1, RunAssumption DEF RunTypeOK
    <3>4. RunTypeOK'
      BY <1>0, <3>1, <3>2, <3>3 DEF RunTypeOK, worldVars
    <3>5. InHand'
      BY <1>0, <3>1, <3>2, <3>3 DEF InHand, RowsStay, RunTypeOK, worldVars
    <3> QED
      BY <3>4, <3>5
  <2> QED
    BY <2>1, <2>2
<1>9. CASE Probe
  <2>1. /\ pc = "probing" /\ pc' \in {"commit", "assign"}
        /\ (pc' = "commit" /\ UNCHANGED <<job, faults>>) \/ (pc' = "assign" /\ job' = NoJob /\ Fault)
        /\ UNCHANGED <<ready, terminals, slots, stopped, failedTasks, runStatus,
                       mail, terminal, told, sent, sending, calls>>
    BY <1>9 DEF Probe
  <2>2. RunTypeOK'
    BY <1>0, <2>1, RunAssumption DEF RunTypeOK, Fault, NoJob
  <2>3. InHand'
    BY <1>0, <2>1 DEF InHand, RowsStay, RunTypeOK
  <2> QED
    BY <2>2, <2>3
<1>10. CASE Commit
  <2>0. /\ pc = "commit" /\ job.task \in Task /\ job.handle \in Handle
        /\ UNCHANGED <<ready, terminals, slots, stopped, failedTasks, runStatus, worldVars>>
    BY <1>0, <1>10 DEF Commit, InHand
  <2>1. CASE job' = NoJob /\ pc' = "assign"
    <3>1. RunTypeOK'
      BY <1>0, <2>0, <2>1 DEF RunTypeOK, NoJob, worldVars
    <3> QED
      BY <1>0, <2>0, <2>1, <3>1, InHandStays DEF worldVars
  <2>2. CASE /\ CreateDispatchContext(job.task, job.handle) /\ pc' = "sending"
             /\ \E c \in DispatchId : IsNextDispatch(c) /\ job' = [job EXCEPT !.disp = c]
    <3>1. PICK c \in DispatchId : IsNextDispatch(c) /\ job' = [job EXCEPT !.disp = c]
      BY <2>2
    <3>2. PICK d \in DispatchId :
            /\ IsNextDispatch(d)
            /\ dispStatus' = [dispStatus EXCEPT ![d] = "dispatched"]
            /\ dispTask' = [dispTask EXCEPT ![d] = job.task]
            /\ dispHandle' = [dispHandle EXCEPT ![d] = job.handle]
      BY <2>0, <2>2, CreateEffect DEF TypeInv, TypeOK
    <3>3. c = d
      BY <3>1, <3>2, BoundsAssumption DEF IsNextDispatch, DispatchId
    <3>4. job' = [task |-> job.task, handle |-> job.handle, disp |-> c]
      BY <1>0, <3>1 DEF RunTypeOK
    <3>5. RunTypeOK'
      BY <1>0, <2>0, <2>2, <3>4 DEF RunTypeOK, worldVars
    <3>6. InHand'
      BY <1>0, <2>0, <2>2, <3>2, <3>3, <3>4 DEF InHand, RowsStay, RunTypeOK, StoreTypeOK, worldVars
    <3> QED
      BY <3>5, <3>6
  <2> QED
    BY <1>10, <2>1, <2>2 DEF Commit
<1>11. CASE SendOk
  <2>1. /\ pc = "sending" /\ pc' = "assign" /\ job' = NoJob /\ told' = told \cup {job.disp}
        /\ UNCHANGED <<ready, terminals, slots, stopped, failedTasks, runStatus, mail, terminal,
                       sent, sending, faults, calls>>
    BY <1>11 DEF SendOk
  <2>2. job.disp \in DispatchId /\ dispStatus[job.disp] # "none"
    BY <1>0, <2>1 DEF InHand
  <2>3. RunTypeOK'
    BY <1>0, <2>1, <2>2 DEF RunTypeOK, NoJob
  <2>4. InHand'
    BY <1>0, <2>1, <2>2 DEF InHand, RowsStay, RunTypeOK
  <2> QED
    BY <2>3, <2>4
<1>12. CASE SendError
  <2>1. /\ pc = "sending" /\ pc' = "assign" /\ job' = NoJob
        /\ failedTasks' \subseteq failedTasks \cup {job.task} /\ (faults' = faults \/ Fault)
        /\ UNCHANGED <<ready, terminals, slots, stopped, runStatus, mail, terminal, told,
                       sent, sending, calls>>
    BY <1>12 DEF SendError
  <2>2. RunTypeOK'
    <3>0. job.task \in Task /\ failedTasks \subseteq Task
      BY <1>0, <2>1 DEF InHand, RunTypeOK
    <3>1. failedTasks' \subseteq Task
      BY <2>1, <3>0
    <3>2. faults' \in 0..MaxFaults
      BY <1>0, <2>1, RunAssumption DEF RunTypeOK, Fault
    <3> QED
      BY <1>0, <2>1, <3>1, <3>2 DEF RunTypeOK, NoJob
  <2> QED
    BY <1>0, <2>1, <2>2, InHandStays
<1> QED
  BY <1>1, <1>2, <1>3, <1>4, <1>5, <1>6, <1>7, <1>8, <1>9, <1>10, <1>11, <1>12 DEF CoordinatorNext

\* So do the steps of everyone else.
LEMMA OthersTyped ==
    ASSUME TypeInv, StoreTypeOK', RowsStay,
           WorkerNext \/ (\E h \in Handle : Exit(h)) \/ OperatorNext \/ Terminated \/ UNCHANGED vars
    PROVE  RunTypeOK' /\ InHand'
<1> USE DEF Elsewhere, Turn, Await
<1>0. RunTypeOK /\ StoreTypeOK /\ InHand /\ Rows
  BY DEF TypeInv, TypeOK, RunTypeOK
<1>1. ASSUME NEW kind \in {"done", "foreign", "escalation", "gate"}, NEW c \in told,
             NEW message \in Message, Send(kind, c, message)
      PROVE  RunTypeOK' /\ InHand'
  <2>1. mail' \in Seq(Message)
    BY <1>0, <1>1, AppendLetters DEF Send, RunTypeOK
  <2>2. sent' \subseteq {"done", "foreign", "escalation", "gate"} \X DispatchId
    BY <1>0, <1>1 DEF Send, RunTypeOK
  <2>3. RunTypeOK'
    BY <1>0, <1>1, <2>1, <2>2 DEF Send, RunTypeOK, loopVars
  <2>4. UNCHANGED <<pc, job, told, sending>>
    BY <1>1 DEF Send, loopVars
  <2> QED
    BY <1>0, <2>3, <2>4, InHandStays
<1>2. CASE WorkerNext
  <2>1. PICK c \in told : \/ SendDone(c) \/ SendEscalation(c) \/ SendGate(c)
                          \/ \E h \in Handle : SendForeignDone(c, h)
    BY <1>2 DEF WorkerNext
  <2>2. c \in DispatchId /\ dispTask[c] \in Task /\ dispHandle[c] \in Handle
    BY <1>0, <2>1 DEF InHand, Rows, RunTypeOK
  <2>3. ASSUME NEW h \in Handle
        PROVE  [kind |-> "done", task |-> dispTask[c], disp |-> c, from |-> h] \in Message
    BY <2>2, <2>3 DEF Message
  <2>4. ASSUME NEW kind \in {"escalation", "gate"}
        PROVE  [kind |-> kind, task |-> dispTask[c]] \in Message
    BY <2>2, <2>4 DEF Message
  <2>5. CASE SendDone(c)
    BY <1>1, <2>2, <2>3, <2>5 DEF SendDone
  <2>6. CASE SendEscalation(c)
    BY <1>1, <2>4, <2>6 DEF SendEscalation
  <2>7. CASE SendGate(c)
    BY <1>1, <2>4, <2>7 DEF SendGate
  <2>8. ASSUME NEW h \in Handle, SendForeignDone(c, h) PROVE RunTypeOK' /\ InHand'
    BY <1>1, <2>3, <2>8 DEF SendForeignDone
  <2> QED
    BY <2>1, <2>5, <2>6, <2>7, <2>8
<1>3. ASSUME NEW h \in Handle, Exit(h) PROVE RunTypeOK' /\ InHand'
  <2>1. /\ terminal' = [terminal EXCEPT ![h] = "dead"] /\ Fault
        /\ UNCHANGED <<loopVars, told, sent, sending, calls>>
    BY <1>3 DEF Exit
  <2>2. mail' \in Seq(Message)
    <3>1. ASSUME NEW c \in DispatchId, LockOf(h, c)
          PROVE  [kind |-> "escalation", task |-> dispTask[c]] \in Message
      BY <1>0, <3>1 DEF LockOf, Active, Rows, Message
    <3>2. mail' = mail \/ \E c \in DispatchId :
            LockOf(h, c) /\ mail' = Append(mail, [kind |-> "escalation", task |-> dispTask[c]])
      BY <1>3 DEF Exit
    <3>3. ASSUME NEW m \in Message, mail' = Append(mail, m) PROVE mail' \in Seq(Message)
      BY <1>0, <3>3, AppendLetters DEF RunTypeOK
    <3> QED
      BY <1>0, <3>1, <3>2, <3>3, Zenon DEF RunTypeOK
  <2>3. faults' \in 0..MaxFaults
    BY <1>0, <2>1, RunAssumption DEF RunTypeOK, Fault
  <2>4. RunTypeOK'
    BY <1>0, <2>1, <2>2, <2>3 DEF RunTypeOK, loopVars
  <2> QED
    BY <1>0, <2>1, <2>4, InHandStays DEF loopVars
<1>4. ASSUME UNCHANGED <<loopVars, mail, terminal, told, sent, sending, faults>>, Call \/ calls' = calls
      PROVE  RunTypeOK' /\ InHand'
  <2>1. calls' \in 0..MaxCalls
    BY <1>0, <1>4, RunAssumption DEF RunTypeOK, Call
  <2>2. RunTypeOK'
    BY <1>0, <1>4, <2>1 DEF RunTypeOK, loopVars
  <2> QED
    BY <1>0, <1>4, <2>2, InHandStays DEF loopVars
<1>5. ASSUME NEW g \in Gate, GateResolve(g) PROVE RunTypeOK' /\ InHand'
  BY <1>4, <1>5 DEF GateResolve
<1>6. ASSUME NEW g, NEW t, GateCreate(g, t) PROVE RunTypeOK' /\ InHand'
  BY <1>4, <1>6 DEF GateCreate
<1>7. ASSUME NEW t, NEW status, TaskUpdate(t, status) PROVE RunTypeOK' /\ InHand'
  BY <1>4, <1>7 DEF TaskUpdate
<1>8. ASSUME NEW t, NEW deps, TaskCreate(t, deps) PROVE RunTypeOK' /\ InHand'
  BY <1>4, <1>8 DEF TaskCreate
<1>9. ASSUME NEW t \in Task, NEW h \in Handle, NEW inject \in BOOLEAN, DispatchRpc(t, h, inject)
      PROVE  RunTypeOK' /\ InHand'
  <2>1. PICK c \in DispatchId : /\ IsNextDispatch(c)
                               /\ told' \cup sending' = told \cup sending \cup {c}
                               /\ told \subseteq told' /\ sending \subseteq sending'
    BY <1>9 DEF DispatchRpc
  <2>2. /\ Call /\ CreateDispatchContext(t, h)
        /\ UNCHANGED <<loopVars, mail, terminal, sent, faults>>
    BY <1>9 DEF DispatchRpc
  <2>3. dispStatus'[c] # "none"
    <3>1. PICK d \in DispatchId : IsNextDispatch(d) /\ dispStatus' = [dispStatus EXCEPT ![d] = "dispatched"]
      BY <2>2 DEF CreateDispatchContext
    <3>2. c = d
      BY <2>1, <3>1, BoundsAssumption DEF IsNextDispatch, DispatchId
    <3> QED
      BY <1>0, <3>1, <3>2 DEF StoreTypeOK
  <2>4. calls' \in 0..MaxCalls
    BY <1>0, <2>2, RunAssumption DEF RunTypeOK, Call
  <2>5. RunTypeOK'
    BY <1>0, <2>1, <2>2, <2>4 DEF RunTypeOK, loopVars
  <2>6. \A d \in told' \cup sending' : dispStatus'[d] # "none"
    BY <1>0, <2>1, <2>3 DEF InHand, RowsStay, RunTypeOK
  <2>7. InHand'
    BY <1>0, <2>2, <2>6 DEF InHand, RowsStay, loopVars
  <2> QED
    BY <2>5, <2>7
<1>10. ASSUME NEW c \in sending, DispatchSent(c) PROVE RunTypeOK' /\ InHand'
  <2>0. c \in DispatchId /\ dispStatus[c] # "none"
    BY <1>0 DEF RunTypeOK, InHand
  <2>1. /\ sending' \subseteq sending /\ told' \subseteq told \cup {c} /\ (faults' = faults \/ Fault)
        /\ UNCHANGED <<loopVars, mail, terminal, sent, calls>>
    BY <1>10 DEF DispatchSent
  <2>2. faults' \in 0..MaxFaults
    BY <1>0, <2>1, RunAssumption DEF RunTypeOK, Fault
  <2>3. RunTypeOK'
    <3>1. told' \subseteq DispatchId /\ sending' \subseteq DispatchId
      BY <1>0, <2>0, <2>1 DEF RunTypeOK
    <3> QED
      BY <1>0, <2>1, <2>2, <3>1 DEF RunTypeOK, loopVars
  <2>4. InHand'
    <3>1. told' \cup sending' \subseteq told \cup sending
      BY <2>1
    <3>2. \A d \in told' \cup sending' : dispStatus'[d] # "none"
      BY <1>0, <3>1 DEF InHand, RowsStay, RunTypeOK
    <3> QED
      BY <1>0, <2>1, <3>2 DEF InHand, RowsStay, loopVars
  <2> QED
    BY <2>3, <2>4
<1>11. CASE RunStop
  <2>1. RunTypeOK'
    BY <1>0, <1>11 DEF RunStop, RunTypeOK, worldVars
  <2> QED
    BY <1>0, <1>11, <2>1, InHandStays DEF RunStop, worldVars
<1>12. CASE Terminated \/ UNCHANGED vars
  <2>1. UNCHANGED <<loopVars, worldVars>>
    BY <1>12 DEF Terminated, vars
  <2> QED
    BY <1>4, <2>1 DEF worldVars
<1>13. CASE OperatorNext
  BY <1>5, <1>6, <1>7, <1>8, <1>9, <1>10, <1>11, <1>13, Zenon DEF OperatorNext
<1> QED
  BY <1>2, <1>3, <1>12, <1>13

\* The loop and everyone else together.
LEMMA TypeStep ==
    ASSUME TypeInv, [Next]_vars
    PROVE  TypeInv' /\ RowsStay /\ StoreStep
<1>1. StoreTypeOK /\ Rows /\ StoreStep
  BY NextIsStoreStep DEF TypeInv, TypeOK
<1>2. StoreTypeOK' /\ Rows' /\ RowsStay
  BY <1>1, StoreStepTyped, StoreStepRows DEF RowsStay
<1>3. RunTypeOK' /\ InHand'
  BY <1>2, CoordinatorTyped, OthersTyped, Zenon DEF Next
<1> QED
  BY <1>1, <1>2, <1>3 DEF TypeInv, TypeOK, RunTypeOK

\* Before the run: its tasks are there, and nothing else is.
LEMMA TypeInit == Init => TypeInv
<1> SUFFICES ASSUME Init PROVE TypeInv
  OBVIOUS
<1>1. StoreTypeOK
  BY RunAssumption DEF Init, StoreTypeOK, Blank, NoFails, TaskStatus, Absent
<1>2. RunTypeOK
  <2>1. mail \in Seq(Message)
    BY EmptySeq DEF Init
  <2>2. slots \in 0..MaxConcurrent /\ faults \in 0..MaxFaults /\ calls \in 0..MaxCalls
    BY RunAssumption DEF Init
  <2>3. terminal \in [Handle -> {"unborn", "live", "dead"}]
    BY DEF Init
  <2>4. job \in [task : Task \cup {"-"}, handle : Handle \cup {"-"}, disp : DispatchId \cup {0}]
    BY DEF Init, NoJob
  <2> QED
    BY <2>1, <2>2, <2>3, <2>4 DEF Init, RunTypeOK, Await
<1>3. Rows /\ InHand
  BY DEF Init, Rows, InHand
<1> QED
  BY <1>1, <1>2, <1>3 DEF TypeInv, TypeOK, RunTypeOK

\* The inductive part of the typing: what is in hand across an await exists.
LEMMA OrchTypeInv == Spec => []TypeInv
<1>1. TypeInv /\ [Next]_vars => TypeInv'
  BY TypeStep
<1> QED
  BY TypeInit, <1>1, PTL DEF Spec

\* Whatever the operator calls and whenever terminals and calls fail, every
\* column, every local of the loop and every message keeps its type.
THEOREM OrchTyped == Spec => []TypeOK
<1>1. TypeInv => TypeOK
  BY DEF TypeInv
<1> QED
  BY OrchTypeInv, <1>1, PTL
-----------------------------------------------------------------------------
(* What the store promises holds in a run, too *)

\* One method keeps the lock and the breaker's columns.
LEMMA StoreStepKeeps ==
    ASSUME StoreTypeOK, StoreStep
    PROVE  (DispatchLock => DispatchLock') /\ (BreakerAgrees => BreakerAgrees')
<1>1. ASSUME UNCHANGED dispVars
      PROVE  (DispatchLock => DispatchLock') /\ (BreakerAgrees => BreakerAgrees')
  BY <1>1, MethodsOnlyEnd, LockKept, MethodsKeepBreaker
<1>2. CASE \E t \in Task : CompleteTask(t)
  BY <1>2, MethodsOnlyEnd, LockKept, MethodsKeepBreaker
<1>3. CASE \E c \in DispatchId : FailDispatch(c)
  BY <1>3, MethodsOnlyEnd, LockKept, MethodsKeepBreaker
<1>4. CASE \E g \in Gate, t \in Task : CreateGate(g, t)
  BY <1>4, MethodsOnlyEnd, LockKept, MethodsKeepBreaker
<1>5. CASE \E t \in Task, h \in Handle : CreateDispatchContext(t, h)
  BY <1>5, LockKept, MethodsKeepBreaker
<1>6. CASE \E g \in Gate : ResolveGate(g)
  BY <1>1, <1>6 DEF ResolveGate
<1>7. CASE \E ts \in SUBSET Task, status \in TaskStatus : SetTaskStatus(ts, status)
  BY <1>1, <1>7 DEF SetTaskStatus
<1>8. CASE \E t \in Task, deps \in SUBSET Task : CreateTask(t, deps)
  BY <1>1, <1>8 DEF CreateTask
<1>9. CASE UNCHANGED storeVars
  BY <1>1, <1>9 DEF storeVars
<1> QED
  BY <1>2, <1>3, <1>4, <1>5, <1>6, <1>7, <1>8, <1>9, Zenon DEF StoreStep

\* However the loop, the exits and the operator's calls interleave, no terminal
\* has two active contexts, and a context's status fits its failure count.
THEOREM OrchLocked == Spec => [](DispatchLock /\ BreakerAgrees)
<1>1. Init => DispatchLock /\ BreakerAgrees
  BY DEF Init, DispatchLock, BreakerAgrees, Active
<1>2. TypeInv /\ DispatchLock /\ BreakerAgrees /\ [Next]_vars => DispatchLock' /\ BreakerAgrees'
  BY NextIsStoreStep, StoreStepKeeps DEF TypeInv, TypeOK
<1> QED
  BY <1>1, <1>2, OrchTypeInv, PTL DEF Spec

-----------------------------------------------------------------------------
(* Completion *)

\* A report that is on its way names a context that is there, and comes from the
\* context's own worker or from a terminal that the context was not given to.
Report(m) ==
    m.kind = "done" =>
        /\ dispStatus[m.disp] # "none"
        /\ dispHandle[m.disp] = m.from => <<"done", m.disp>> \in sent

ReportsEarned == \A m \in Letters(mail) : Report(m)

\* A message once in order stays so.
LEMMA ReportStays ==
    ASSUME RowsStay, sent \subseteq sent', NEW m \in Message, Report(m)
    PROVE  Report(m)'
<1>1. m.kind = "done" => m.disp \in DispatchId
  BY DEF Message
<1> QED
  BY <1>1 DEF Report, RowsStay

\* What is new in the mailbox after a step: nothing, or one message of a worker
\* or of an exit.
LEMMA MailStep ==
    ASSUME TypeInv, [Next]_vars
    PROVE  \/ Letters(mail') \subseteq Letters(mail) /\ sent' = sent
           \/ /\ WorkerNext
              /\ \E m \in Message : mail' = Append(mail, m) /\ Letters(mail') = Letters(mail) \cup {m}
           \/ /\ sent' = sent
              /\ \E h \in Handle : Exit(h)
              /\ \E t \in Task :
                    /\ \E c \in DispatchId : dispStatus[c] # "none" /\ dispTask[c] = t
                    /\ Letters(mail') = Letters(mail) \cup {[kind |-> "escalation", task |-> t]}
<1>0. mail \in Seq(Message) /\ told \subseteq DispatchId /\ Rows
      /\ \A c \in told : dispStatus[c] # "none"
  BY DEF TypeInv, TypeOK, InHand
<1>1. ASSUME UNCHANGED <<mail, sent>> PROVE Letters(mail') \subseteq Letters(mail) /\ sent' = sent
  BY <1>1
<1>2. CASE HandleWorkerDone \/ HandleEscalation \/ HandleDecisionGateMessage
  <2>1. mail # <<>> /\ mail' = Tail(mail) /\ sent' = sent
    BY <1>2 DEF HandleWorkerDone, HandleEscalation, HandleDecisionGateMessage, TakeMail
  <2> QED
    BY <2>1, HeadTyped DEF TypeInv
<1>3. CASE CoordinatorNext /\ ~(HandleWorkerDone \/ HandleEscalation \/ HandleDecisionGateMessage)
  BY <1>1, <1>3 DEF CoordinatorNext, Wake, StopSeen, Finish, ProcessDecisionGates, Plan, ListTerminals,
     CreateTerminal, Assign, Probe, Commit, SendOk, SendError, CheckConvergence, Converge, worldVars
<1>4. CASE WorkerNext
  <2>1. PICK m : mail' = Append(mail, m) /\ m \in Message
    <3>1. PICK c \in told : \/ SendDone(c) \/ SendEscalation(c) \/ SendGate(c)
                            \/ \E h \in Handle : SendForeignDone(c, h)
      BY <1>4 DEF WorkerNext
    <3>2. c \in DispatchId /\ dispTask[c] \in Task /\ dispHandle[c] \in Handle
      BY <1>0, <3>1 DEF Rows
    <3>3. ASSUME NEW h \in Handle
          PROVE  [kind |-> "done", task |-> dispTask[c], disp |-> c, from |-> h] \in Message
      BY <3>2, <3>3 DEF Message
    <3>4. ASSUME NEW kind \in {"escalation", "gate"}
          PROVE  [kind |-> kind, task |-> dispTask[c]] \in Message
      BY <3>2, <3>4 DEF Message
    <3>5. CASE SendDone(c)
      BY <3>2, <3>3, <3>5 DEF SendDone, Send
    <3>6. CASE SendEscalation(c)
      BY <3>4, <3>6 DEF SendEscalation, Send
    <3>7. CASE SendGate(c)
      BY <3>4, <3>7 DEF SendGate, Send
    <3>8. CASE \E h \in Handle : SendForeignDone(c, h)
      BY <3>3, <3>8 DEF SendForeignDone, Send
    <3> QED
      BY <3>1, <3>5, <3>6, <3>7, <3>8
  <2>2. Letters(mail') = Letters(mail) \cup {m}
    BY <1>0, <2>1, AppendLetters
  <2> QED
    BY <1>4, <2>1, <2>2
<1>5. CASE \E h \in Handle : Exit(h)
  <2>1. PICK h \in Handle : Exit(h)
    BY <1>5
  <2>2. ASSUME NEW c \in DispatchId, LockOf(h, c),
               mail' = Append(mail, [kind |-> "escalation", task |-> dispTask[c]])
        PROVE  /\ dispStatus[c] # "none" /\ dispTask[c] \in Task
               /\ Letters(mail') = Letters(mail) \cup {[kind |-> "escalation", task |-> dispTask[c]]}
    <3>1. dispStatus[c] # "none" /\ dispTask[c] \in Task
      BY <1>0, <2>2 DEF LockOf, Active, Rows
    <3>2. [kind |-> "escalation", task |-> dispTask[c]] \in Message
      BY <3>1 DEF Message
    <3> QED
      BY <1>0, <2>2, <3>1, <3>2, AppendLetters
  <2>3. sent' = sent
        /\ (mail' = mail \/ \E c \in DispatchId :
              LockOf(h, c) /\ mail' = Append(mail, [kind |-> "escalation", task |-> dispTask[c]]))
    BY <2>1 DEF Exit
  <2> QED
    BY <1>1, <1>5, <2>2, <2>3
<1>6. CASE OperatorNext \/ Terminated \/ UNCHANGED vars
  BY <1>1, <1>6 DEF OperatorNext, GateResolve, GateCreate, TaskUpdate, TaskCreate, DispatchRpc,
     DispatchSent, RunStop, Terminated, vars, worldVars
<1> QED
  BY <1>2, <1>3, <1>4, <1>5, <1>6 DEF Next

\* Workers' reports are in order when they are sent, and stay in order.
LEMMA ReportsStep ==
    ASSUME TypeInv, ReportsEarned, [Next]_vars
    PROVE  ReportsEarned'
<1>0. RowsStay /\ TypeInv' /\ mail \in Seq(Message) /\ mail' \in Seq(Message)
      /\ told \subseteq DispatchId /\ \A c \in told : dispStatus[c] # "none"
  BY TypeStep DEF TypeInv, TypeOK, InHand
<1>1. Letters(mail) \subseteq Message /\ Letters(mail') \subseteq Message
  BY <1>0, ElementOfSeq DEF Letters
<1>2. ASSUME sent \subseteq sent', NEW m \in Letters(mail) PROVE Report(m)'
  BY <1>0, <1>1, <1>2, ReportStays DEF ReportsEarned
<1>3. CASE Letters(mail') \subseteq Letters(mail) /\ sent' = sent
  BY <1>2, <1>3 DEF ReportsEarned
<1>4. ASSUME NEW c \in told, NEW n \in Message, n.kind = "done", n.disp = c,
             <<"done", c>> \in sent' \/ dispHandle[c] # n.from
      PROVE  Report(n)'
  <2>1. dispStatus'[c] # "none" /\ dispHandle'[c] = dispHandle[c]
    BY <1>0, <1>4 DEF RowsStay
  <2> QED
    BY <1>4, <2>1 DEF Report
<1>5. CASE WorkerNext /\ \E m \in Message :
              mail' = Append(mail, m) /\ Letters(mail') = Letters(mail) \cup {m}
  <2>1. PICK m \in Message : mail' = Append(mail, m) /\ Letters(mail') = Letters(mail) \cup {m}
    BY <1>5
  <2>2. PICK c \in told : \/ SendDone(c) \/ SendEscalation(c) \/ SendGate(c)
                          \/ \E h \in Handle : SendForeignDone(c, h)
    BY <1>5 DEF WorkerNext
  <2>3. c \in DispatchId /\ dispTask[c] \in Task /\ dispHandle[c] \in Handle
    BY <1>0, <2>2 DEF TypeInv, Rows
  <2>4. ASSUME NEW kind, NEW n, n \in Message, Send(kind, c, n)
        PROVE  m = n /\ sent' = sent \cup {<<kind, c>>}
    <3>1. mail' = Append(mail, n) /\ sent' = sent \cup {<<kind, c>>}
      BY <2>4 DEF Send
    <3>2. /\ Append(mail, m)[Len(mail) + 1] = m
          /\ Append(mail, n)[Len(mail) + 1] = n
      BY <1>0, <2>4
    <3> QED
      BY <2>1, <3>1, <3>2
  <2>5. ASSUME SendDone(c) PROVE sent \subseteq sent' /\ Report(m)'
    <3> DEFINE n == [kind |-> "done", task |-> dispTask[c], disp |-> c, from |-> dispHandle[c]]
    <3>1. Send("done", c, n) /\ n \in Message
      BY <2>3, <2>5 DEF SendDone, Message
    <3>2. m = n /\ sent' = sent \cup {<<"done", c>>}
      BY <2>4, <3>1
    <3>3. m.kind = "done" /\ m.disp = c
      BY <3>2
    <3> QED
      BY <1>4, <2>1, <3>2, <3>3
  <2>6. ASSUME NEW h \in Handle, SendForeignDone(c, h) PROVE sent \subseteq sent' /\ Report(m)'
    <3>1. /\ Send("foreign", c, [kind |-> "done", task |-> dispTask[c], disp |-> c, from |-> h])
          /\ [kind |-> "done", task |-> dispTask[c], disp |-> c, from |-> h] \in Message
          /\ h # dispHandle[c]
      BY <2>3, <2>6 DEF SendForeignDone, Message
    <3>2. /\ m.kind = "done" /\ m.disp = c /\ m.from = h
          /\ sent' = sent \cup {<<"foreign", c>>}
      BY <2>4, <3>1
    <3> QED
      BY <1>4, <2>1, <3>1, <3>2
  <2>7. ASSUME NEW kind \in {"escalation", "gate"},
               Send(kind, c, [kind |-> kind, task |-> dispTask[c]])
        PROVE  sent \subseteq sent' /\ Report(m)'
    <3>1. [kind |-> kind, task |-> dispTask[c]] \in Message
      BY <2>3 DEF Message
    <3>2. m.kind # "done" /\ sent \subseteq sent'
      BY <2>4, <2>7, <3>1
    <3> QED
      BY <3>2 DEF Report
  <2>8. sent \subseteq sent' /\ Report(m)'
    <3>1. SendEscalation(c) => sent \subseteq sent' /\ Report(m)'
      BY <2>7 DEF SendEscalation
    <3>2. SendGate(c) => sent \subseteq sent' /\ Report(m)'
      BY <2>7 DEF SendGate
    <3> QED
      BY <2>2, <2>5, <2>6, <3>1, <3>2
  <2> QED
    BY <1>2, <2>1, <2>8 DEF ReportsEarned
<1>6. CASE sent' = sent /\ \E t \in Task :
              Letters(mail') = Letters(mail) \cup {[kind |-> "escalation", task |-> t]}
  <2>1. PICK t \in Task : Letters(mail') = Letters(mail) \cup {[kind |-> "escalation", task |-> t]}
    BY <1>6
  <2>2. Report([kind |-> "escalation", task |-> t])'
    BY DEF Report
  <2> QED
    BY <1>2, <1>6, <2>1, <2>2 DEF ReportsEarned
<1> QED
  BY <1>3, <1>5, <1>6, MailStep

\* Only the handling of a report completes a task during the loop's turn, and
\* the report must be about the newest and still active context.
LEMMA CompletionStep ==
    ASSUME TypeInv, ReportsEarned, [Next]_vars, pc = "messages",
           NEW t \in Task, taskStatus[t] # "completed", taskStatus'[t] = "completed"
    PROVE  \E c \in DispatchId : /\ IsLatest(c, t) /\ dispStatus[c] = "dispatched"
                                 /\ <<"done", c>> \in sent
<1>0. StoreTypeOK
  BY DEF TypeInv, TypeOK
<1>1. UNCHANGED taskStatus => FALSE
  OBVIOUS
<1>2. CASE HandleWorkerDone
  <2>1. /\ mail # <<>> /\ Head(mail).kind = "done" /\ AcceptsDone(Head(mail))
        /\ CompleteTask(Head(mail).task)
    BY <1>1, <1>2 DEF HandleWorkerDone, TakeMail, storeVars, taskVars
  <2>2. Head(mail).disp \in DispatchId /\ Head(mail) \in Letters(mail)
    BY <2>1, HeadTyped DEF TypeInv
  <2>3. t = Head(mail).task
    BY <2>1 DEF CompleteTask
  <2>4. <<"done", Head(mail).disp>> \in sent
    BY <2>1, <2>2 DEF ReportsEarned, Report, AcceptsDone
  <2> QED
    BY <2>1, <2>2, <2>3, <2>4 DEF AcceptsDone
<1>3. CASE HandleEscalation
  BY <1>0, <1>1, <1>3 DEF HandleEscalation, FailDispatch, StoreTypeOK, storeVars, taskVars
<1>4. CASE HandleDecisionGateMessage
  BY <1>0, <1>4 DEF HandleDecisionGateMessage, CreateGate, StoreTypeOK
<1>5. CASE ProcessDecisionGates
  BY <1>5 DEF ProcessDecisionGates, SetTaskStatus
<1>6. CASE ~(HandleWorkerDone \/ HandleEscalation \/ HandleDecisionGateMessage \/ ProcessDecisionGates)
  <2>1. ~CoordinatorNext
    BY <1>6 DEF CoordinatorNext, Wake, StopSeen, Plan, ListTerminals, CreateTerminal, Assign, Probe,
       Commit, SendOk, SendError, CheckConvergence, Converge
  <2>2. ~WorkerNext
    BY DEF WorkerNext, SendDone, SendForeignDone, SendEscalation, SendGate, Send, Elsewhere, Turn
  <2>3. ~(\E h \in Handle : Exit(h))
    BY DEF Exit, Elsewhere, Turn
  <2>4. ~OperatorNext
    BY DEF OperatorNext, GateResolve, GateCreate, TaskUpdate, TaskCreate, DispatchRpc, DispatchSent,
       RunStop, Elsewhere, Turn
  <2> QED
    BY <1>1, <2>1, <2>2, <2>3, <2>4 DEF Next, Terminated, vars, storeVars, taskVars
<1> QED
  BY <1>2, <1>3, <1>4, <1>5, <1>6

\* The loop completes a task only by the report of the worker that its newest,
\* still active context was given to, whatever exits, late and foreign reports
\* and the operator's calls came before.
THEOREM OrchCompletionIsEarned == Spec => CompletionIsEarned
<1>1. Init => ReportsEarned
  BY DEF Init, ReportsEarned, Letters
<1>2. TypeInv /\ ReportsEarned /\ [Next]_vars => ReportsEarned'
  BY ReportsStep
<1>3. TypeInv /\ ReportsEarned /\ [Next]_vars =>
        [pc = "messages" =>
          \A t \in Task : taskStatus[t] # "completed" /\ taskStatus'[t] = "completed" =>
            \E c \in DispatchId : /\ IsLatest(c, t) /\ dispStatus[c] = "dispatched"
                                  /\ <<"done", c>> \in sent]_vars
  BY CompletionStep
<1> QED
  BY <1>1, <1>2, <1>3, OrchTypeInv, PTL DEF Spec, CompletionIsEarned

\* Every method but createDispatchContext only ends contexts, the others of a
\* run included.
LEMMA StepOnlyEnds ==
    ASSUME StoreTypeOK, StoreStep, ~\E t \in Task, h \in Handle : CreateDispatchContext(t, h)
    PROVE  OnlyEnds
<1>1. ASSUME UNCHANGED dispVars PROVE OnlyEnds
  BY <1>1, MethodsOnlyEnd
<1>2. ASSUME NEW g \in Gate, ResolveGate(g) PROVE OnlyEnds
  BY <1>1, <1>2 DEF ResolveGate
<1>3. ASSUME NEW ts, NEW status, SetTaskStatus(ts, status) PROVE OnlyEnds
  BY <1>1, <1>3 DEF SetTaskStatus
<1>4. ASSUME NEW t, NEW deps, CreateTask(t, deps) PROVE OnlyEnds
  BY <1>1, <1>4 DEF CreateTask
<1>5. ASSUME UNCHANGED storeVars PROVE OnlyEnds
  BY <1>1, <1>5 DEF storeVars
<1> QED
  BY <1>2, <1>3, <1>4, <1>5, MethodsOnlyEnd, Zenon DEF StoreStep

\* A run is a client of the store: its contexts, too, keep the terminal lease.
THEOREM OrchImplementsLease == Spec => LeaseImplemented
<1>1. Init => Lease!Init
  BY DEF Init, Lease!Init, Active
<1>2. StoreTypeOK /\ StoreStep => [Lease!Next]_Lease!vars
  BY StepOnlyEnds, CreateIsAcquire, EndsAreReleases
<1>3. TypeInv /\ [Next]_vars => [Lease!Next]_Lease!vars
  BY <1>2, TypeStep DEF TypeInv, TypeOK
<1> QED
  BY <1>1, <1>3, OrchTypeInv, PTL DEF Spec, LeaseImplemented, Lease!Spec
-----------------------------------------------------------------------------
(* Promotion, as long as the operator neither writes a status nor adds gates *)

\* Without those two calls, what a step does to the store, and on which row.
RunStep ==
    \/ UNCHANGED storeVars
    \/ /\ mail # <<>> /\ Head(mail).kind = "done" /\ AcceptsDone(Head(mail))
       /\ CompleteTask(Head(mail).task)
    \/ \E c \in DispatchId : FailDispatch(c)
    \/ /\ mail # <<>> /\ Head(mail).kind = "gate"
       /\ \E g \in Gate : CreateGate(g, Head(mail).task)
    \/ SetTaskStatus({t \in Existing : PendingGate(t)}, "blocked")
    \/ \E g \in Gate : ResolveGate(g)
    \/ \E t \in Task, h \in Handle : CreateDispatchContext(t, h)
    \/ \E t \in Task, deps \in SUBSET Existing : CreateTask(t, deps)

LEMMA NextIsRunStep ==
    ASSUME TypeInv, [Next]_vars, "gateCreate" \notin May, "taskUpdate" \notin May
    PROVE  RunStep
<1> USE DEF RunStep
<1>1. ASSUME UNCHANGED storeVars PROVE RunStep
  BY <1>1
<1>2. CASE Wake \/ StopSeen \/ Plan \/ ListTerminals \/ CreateTerminal \/ Assign \/ Probe
           \/ SendOk \/ CheckConvergence \/ Converge
  BY <1>1, <1>2 DEF Wake, StopSeen, Finish, Plan, ListTerminals, CreateTerminal, Assign, Probe,
     SendOk, CheckConvergence, Converge
<1>3. CASE HandleWorkerDone
  BY <1>1, <1>3 DEF HandleWorkerDone, TakeMail
<1>4. CASE HandleEscalation
  BY <1>1, <1>4 DEF HandleEscalation
<1>5. CASE HandleDecisionGateMessage
  BY <1>5 DEF HandleDecisionGateMessage, TakeMail
<1>6. CASE ProcessDecisionGates
  BY <1>6 DEF ProcessDecisionGates
<1>7. CASE Commit
  <2>1. job.task \in Task /\ job.handle \in Handle
    BY <1>7 DEF Commit, TypeInv, InHand
  <2> QED
    BY <1>1, <1>7, <2>1 DEF Commit
<1>8. CASE SendError
  BY <1>8 DEF SendError, TypeInv, InHand
<1>9. CASE WorkerNext
  BY <1>1, <1>9 DEF WorkerNext, SendDone, SendEscalation, SendGate, SendForeignDone, Send
<1>10. CASE \E h \in Handle : Exit(h)
  BY <1>1, <1>10 DEF Exit
<1>11. CASE OperatorNext
  <2>1. ASSUME NEW t \in Task, NEW deps \in SUBSET Existing, TaskCreate(t, deps) PROVE RunStep
    BY <2>1 DEF TaskCreate
  <2>2. ASSUME NEW g \in Gate, GateResolve(g) PROVE RunStep
    BY <2>2 DEF GateResolve
  <2>3. ASSUME NEW t \in Task, NEW h \in Handle, NEW inject, DispatchRpc(t, h, inject) PROVE RunStep
    BY <2>3 DEF DispatchRpc
  <2>4. ASSUME NEW c \in sending, DispatchSent(c) PROVE RunStep
    BY <1>1, <2>4 DEF DispatchSent, TypeInv, TypeOK
  <2>5. ASSUME RunStop PROVE RunStep
    BY <1>1, <2>5 DEF RunStop
  <2>6. ASSUME NEW g, NEW t, GateCreate(g, t) PROVE FALSE
    BY <2>6 DEF GateCreate
  <2>7. ASSUME NEW t, NEW status, TaskUpdate(t, status) PROVE FALSE
    BY <2>7 DEF TaskUpdate
  <2> HIDE DEF RunStep
  <2> QED
    BY <1>11, <2>1, <2>2, <2>3, <2>4, <2>5, <2>6, <2>7, Zenon DEF OperatorNext
<1>12. CASE Terminated \/ UNCHANGED vars
  BY <1>1, <1>12 DEF Terminated, vars
<1> HIDE DEF RunStep
<1>13. CASE CoordinatorNext
  BY <1>2, <1>3, <1>4, <1>5, <1>6, <1>7, <1>8, <1>13 DEF CoordinatorNext
<1> QED
  BY <1>9, <1>10, <1>11, <1>12, <1>13, Zenon DEF Next

\* A task that was given out, or that a gate or a question about a gate names,
\* has left pending for good.
WasGiven(t) == \E c \in DispatchId : dispStatus[c] # "none" /\ dispTask[c] = t
GivenInv ==
    /\ \A c \in DispatchId : dispStatus[c] # "none" => taskStatus[dispTask[c]] \notin {"none", "pending"}
    /\ \A g \in Gate : gateStatus[g] # "none" => WasGiven(gateTask[g])
    /\ \A m \in Letters(mail) : m.kind = "gate" => WasGiven(m.task)

\* Only a completed dependency promotes, and by then all of them are.
LEMMA PromotionStep ==
    ASSUME TypeInv, GivenInv, [Next]_vars, "gateCreate" \notin May, "taskUpdate" \notin May
    PROVE  /\ \A t \in Task : taskStatus'[t] \in {"none", "pending"} => taskStatus[t] \in {"none", "pending"}
           /\ \A t \in Task : taskStatus[t] = "pending" /\ taskStatus'[t] # "pending" =>
                \A u \in taskDeps[t] : taskStatus'[u] = "completed"
<1> DEFINE Due == /\ \A t \in Task : taskStatus'[t] \in {"none", "pending"} => taskStatus[t] \in {"none", "pending"}
                  /\ \A t \in Task : taskStatus[t] = "pending" /\ taskStatus'[t] # "pending" =>
                        \A u \in taskDeps[t] : taskStatus'[u] = "completed"
<1>0. StoreTypeOK /\ Rows /\ RunStep
  BY NextIsRunStep DEF TypeInv, TypeOK
<1>1. ASSUME UNCHANGED taskStatus PROVE Due
  BY <1>1
<1>2. ASSUME mail # <<>>, AcceptsDone(Head(mail)), CompleteTask(Head(mail).task) PROVE Due
  <2> DEFINE x == Head(mail).task
  <2>1. taskStatus[x] = "dispatched"
    BY <1>2 DEF AcceptsDone
  <2>2. taskStatus' = [u \in Task |-> IF u = x THEN "completed"
                                      ELSE IF u \in Promoted(x) THEN "ready" ELSE taskStatus[u]]
    BY <1>2 DEF CompleteTask
  <2>3. ASSUME NEW t \in Task, taskStatus[t] = "pending", taskStatus'[t] # "pending", NEW u \in taskDeps[t]
        PROVE  taskStatus'[u] = "completed"
    <3>1. t \in Promoted(x) /\ u \in Task
      BY <1>0, <2>1, <2>2, <2>3 DEF StoreTypeOK
    <3>2. u = x \/ taskStatus[u] = "completed"
      BY <3>1 DEF Promoted
    <3> QED
      BY <2>2, <3>1, <3>2 DEF Promoted
  <2>4. \A t \in Task : taskStatus'[t] \in {"none", "pending"} => taskStatus[t] \in {"none", "pending"}
    BY <2>2
  <2> QED
    BY <2>3, <2>4
<1>3. ASSUME NEW c \in DispatchId, FailDispatch(c) PROVE Due
  <2>1. taskStatus[dispTask[c]] # "pending" /\ dispTask[c] \in Task
    BY <1>0, <1>3 DEF FailDispatch, GivenInv, Rows, Absent
  <2> QED
    BY <1>0, <1>3, <2>1 DEF FailDispatch, StoreTypeOK
<1>4. ASSUME mail # <<>>, Head(mail).kind = "gate", NEW g \in Gate, CreateGate(g, Head(mail).task) PROVE Due
  <2>1. taskStatus[Head(mail).task] \notin {"none", "pending"} /\ Head(mail).task \in Task
    BY <1>4, HeadTyped DEF TypeInv, GivenInv, WasGiven
  <2> QED
    BY <1>0, <1>4, <2>1 DEF CreateGate, StoreTypeOK
<1>5. ASSUME SetTaskStatus({t \in Existing : PendingGate(t)}, "blocked") PROVE Due
  <2>1. ASSUME NEW t \in Task, PendingGate(t) PROVE taskStatus[t] # "pending"
    BY <2>1 DEF PendingGate, GivenInv, WasGiven
  <2> QED
    BY <1>0, <1>5, <2>1 DEF SetTaskStatus, StoreTypeOK
<1>6. ASSUME NEW g \in Gate, ResolveGate(g) PROVE Due
  <2>1. taskStatus[gateTask[g]] # "pending"
    BY <1>6 DEF ResolveGate, Absent, GivenInv, WasGiven
  <2> QED
    BY <1>0, <1>6, <2>1 DEF ResolveGate, StoreTypeOK
<1>7. ASSUME NEW t \in Task, NEW h \in Handle, CreateDispatchContext(t, h) PROVE Due
  BY <1>0, <1>7 DEF CreateDispatchContext, StoreTypeOK
<1>8. ASSUME NEW t \in Task, NEW deps \in SUBSET Existing, CreateTask(t, deps) PROVE Due
  BY <1>0, <1>8 DEF CreateTask, StoreTypeOK
<1>9. ASSUME UNCHANGED storeVars PROVE Due
  BY <1>1, <1>9 DEF storeVars, taskVars
<1> HIDE DEF Due
<1>10. Due
  BY <1>0, <1>2, <1>3, <1>4, <1>5, <1>6, <1>7, <1>8, <1>9, Zenon DEF RunStep
<1> QED
  BY <1>10 DEF Due

\* Tasks are given out when they are ready; gates come from the workers they
\* were given to.
LEMMA GivenStep ==
    ASSUME TypeInv, GivenInv, [Next]_vars, "gateCreate" \notin May, "taskUpdate" \notin May
    PROVE  GivenInv'
<1>0. StoreTypeOK /\ Rows /\ StoreTypeOK' /\ Rows' /\ RunStep /\ RowsStay
  BY NextIsRunStep, TypeStep DEF TypeInv, TypeOK
<1>1. ASSUME NEW c \in DispatchId, dispStatus[c] # "none"
      PROVE  dispStatus'[c] # "none" /\ dispTask'[c] = dispTask[c]
  BY <1>0, <1>1 DEF RowsStay
<1>2. ASSUME NEW c \in DispatchId, dispStatus'[c] # "none"
      PROVE  taskStatus'[dispTask'[c]] \notin {"none", "pending"}
  <2>1. CASE dispStatus[c] # "none"
    <3>1. dispTask'[c] = dispTask[c] /\ dispTask[c] \in Task
      BY <1>0, <2>1 DEF RowsStay, Rows
    <3>2. taskStatus[dispTask[c]] \notin {"none", "pending"}
      BY <2>1 DEF GivenInv
    <3> QED
      BY <3>1, <3>2, PromotionStep
  <2>2. CASE dispStatus[c] = "none"
    <3>1. PICK t \in Task, h \in Handle : CreateDispatchContext(t, h)
      <4>1. ASSUME dispStatus'[c] = "none" PROVE FALSE
        BY <1>2, <4>1
      <4>2. ASSUME UNCHANGED dispVars PROVE FALSE
        BY <2>2, <4>1, <4>2 DEF dispVars
      <4>3. ASSUME NEW t, CompleteActiveDispatch(t) PROVE FALSE
        BY <2>2, <4>1, <4>3 DEF CompleteActiveDispatch, IsLatestActive, Active
      <4>4. ASSUME NEW d \in DispatchId, FailDispatch(d) PROVE FALSE
        BY <1>0, <2>2, <4>1, <4>4 DEF FailDispatch, StoreTypeOK, Absent
      <4>5. ASSUME NEW t, CompleteTask(t) PROVE FALSE
        BY <4>3, <4>5 DEF CompleteTask
      <4>6. ASSUME NEW g, NEW t, CreateGate(g, t) PROVE FALSE
        BY <4>3, <4>6 DEF CreateGate
      <4>7. ASSUME NEW g, ResolveGate(g) PROVE FALSE
        BY <4>2, <4>7 DEF ResolveGate
      <4>8. ASSUME NEW ts, NEW status, SetTaskStatus(ts, status) PROVE FALSE
        BY <4>2, <4>8 DEF SetTaskStatus
      <4>9. ASSUME NEW t, NEW deps, CreateTask(t, deps) PROVE FALSE
        BY <4>2, <4>9 DEF CreateTask
      <4>10. ASSUME UNCHANGED storeVars PROVE FALSE
        BY <4>2, <4>10 DEF storeVars
      <4> QED
        BY <1>0, <4>4, <4>5, <4>6, <4>7, <4>8, <4>9, <4>10, Zenon DEF RunStep
    <3>2. dispTask'[c] = t
      <4>1. PICK d \in DispatchId : /\ dispStatus' = [dispStatus EXCEPT ![d] = "dispatched"]
                                    /\ dispTask' = [dispTask EXCEPT ![d] = t]
        BY <3>1 DEF CreateDispatchContext
      <4>2. c = d
        BY <1>0, <1>2, <2>2, <4>1 DEF StoreTypeOK
      <4> QED
        BY <1>0, <4>1, <4>2 DEF StoreTypeOK
    <3> QED
      BY <1>0, <3>1, <3>2 DEF CreateDispatchContext, StoreTypeOK
  <2> QED
    BY <2>1, <2>2
<1>3. ASSUME NEW g \in Gate, gateStatus'[g] # "none" PROVE WasGiven(gateTask[g])'
  <2>1. CASE gateStatus[g] # "none" /\ gateTask'[g] = gateTask[g]
    BY <1>1, <2>1 DEF GivenInv, WasGiven
  <2>2. CASE ~(gateStatus[g] # "none" /\ gateTask'[g] = gateTask[g])
    <3>0. ASSUME gateTask' = gateTask, gateStatus' = gateStatus PROVE FALSE
      BY <1>3, <2>2, <3>0
    <3>1. ASSUME NEW f \in Gate, ResolveGate(f) PROVE FALSE
      BY <1>0, <1>3, <2>2, <3>1 DEF ResolveGate, StoreTypeOK, Absent
    <3>2. PICK f \in Gate : /\ mail # <<>> /\ Head(mail).kind = "gate"
                            /\ CreateGate(f, Head(mail).task)
      <4>1. ASSUME NEW t, CompleteTask(t) PROVE FALSE
        BY <3>0, <4>1 DEF CompleteTask, gateVars
      <4>2. ASSUME NEW c, FailDispatch(c) PROVE FALSE
        BY <3>0, <4>2 DEF FailDispatch, gateVars
      <4>3. ASSUME NEW ts, NEW status, SetTaskStatus(ts, status) PROVE FALSE
        BY <3>0, <4>3 DEF SetTaskStatus, gateVars
      <4>4. ASSUME NEW t, NEW h, CreateDispatchContext(t, h) PROVE FALSE
        BY <3>0, <4>4 DEF CreateDispatchContext, gateVars
      <4>5. ASSUME NEW t, NEW deps, CreateTask(t, deps) PROVE FALSE
        BY <3>0, <4>5 DEF CreateTask, gateVars
      <4>6. ASSUME UNCHANGED storeVars PROVE FALSE
        BY <3>0, <4>6 DEF storeVars, gateVars
      <4> QED
        BY <1>0, <3>1, <4>1, <4>2, <4>3, <4>4, <4>5, <4>6, Zenon DEF RunStep
    <3>3. WasGiven(Head(mail).task)
      BY <3>2, HeadTyped DEF TypeInv, GivenInv
    <3>4. f = g /\ gateTask'[g] = Head(mail).task
      BY <1>0, <1>3, <2>2, <3>2 DEF CreateGate, StoreTypeOK
    <3> QED
      BY <1>1, <3>3, <3>4 DEF WasGiven
  <2> QED
    BY <2>1, <2>2
<1>4. ASSUME NEW m \in Letters(mail'), m.kind = "gate" PROVE WasGiven(m.task)'
  <2>1. CASE m \in Letters(mail)
    BY <1>1, <1>4, <2>1 DEF GivenInv, WasGiven
  <2>2. CASE WorkerNext /\ mail' = Append(mail, m)
    <3>1. PICK c \in told : \/ SendDone(c) \/ SendEscalation(c) \/ SendGate(c)
                            \/ \E h \in Handle : SendForeignDone(c, h)
      BY <2>2 DEF WorkerNext
    <3>2. c \in DispatchId /\ dispStatus[c] # "none" /\ dispTask[c] \in Task /\ dispHandle[c] \in Handle
      BY <3>1, <1>0 DEF TypeInv, TypeOK, InHand, Rows
    <3>4. ASSUME NEW n, mail' = Append(mail, n), n.task = dispTask[c] PROVE m.task = dispTask[c]
      <4>1. /\ Append(mail, n)[Len(mail) + 1] = n /\ Append(mail, m)[Len(mail) + 1] = m
        BY DEF TypeInv, TypeOK
      <4> QED
        BY <2>2, <3>4, <4>1
    <3>5. m.task = dispTask[c]
      BY <3>1, <3>4 DEF SendDone, SendEscalation, SendGate, SendForeignDone, Send
    <3> QED
      BY <1>1, <3>2, <3>5 DEF WasGiven
  <2>3. CASE \E t \in Task : m = [kind |-> "escalation", task |-> t]
    BY <1>4, <2>3
  <2>4. \/ m \in Letters(mail)
        \/ WorkerNext /\ mail' = Append(mail, m)
        \/ \E t \in Task : m = [kind |-> "escalation", task |-> t]
    BY <1>4, MailStep
  <2> QED
    BY <2>1, <2>2, <2>3, <2>4
<1> QED
  BY <1>2, <1>3, <1>4 DEF GivenInv

\* Unless the operator creates gates or writes statuses himself: whatever workers
\* ask, gates are answered and re-answered, terminals exit and the operator
\* dispatches, no task leaves pending before all that it waits for is completed.
THEOREM OrchPromotedWhenDue ==
    ASSUME May \cap {"gateCreate", "taskUpdate"} = {}
    PROVE  Spec => PromotedWhenDue
<1>0. "gateCreate" \notin May /\ "taskUpdate" \notin May
  OBVIOUS
<1>1. Init => GivenInv
  BY DEF Init, GivenInv, Letters
<1>2. TypeInv /\ GivenInv /\ [Next]_vars => GivenInv'
  BY <1>0, GivenStep
<1>3. TypeInv /\ GivenInv /\ [Next]_vars =>
        [\A t \in Task : taskStatus[t] = "pending" /\ taskStatus'[t] # "pending" =>
            \A u \in taskDeps[t] : taskStatus'[u] = "completed"]_vars
  BY <1>0, PromotionStep
<1> QED
  BY <1>1, <1>2, <1>3, OrchTypeInv, PTL DEF Spec, PromotedWhenDue
-----------------------------------------------------------------------------
(* The concurrency limit, as long as only the loop gives tasks out *)

\* The places between counting the free slots and using the last of them.
Dispatching == {"listing", "creating", "assign", "probing", "commit", "sending"}

\* The slot the task about to be given out has taken already.
Taken == IF pc \in {"probing", "commit"} THEN 1 ELSE 0

\* The slots still to be used were free when they were counted, and nobody else
\* uses them.
SlotsInv ==
    /\ Cardinality(Tasks("dispatched")) <= MaxConcurrent
    /\ pc \in Dispatching => Cardinality(Tasks("dispatched")) + slots + Taken <= MaxConcurrent

\* Only giving a task out puts it in hand.
LEMMA InHandShrinks ==
    ASSUME StoreTypeOK
    PROVE  /\ \A t \in Task : CompleteTask(t) => Tasks("dispatched")' \subseteq Tasks("dispatched")
           /\ \A c \in DispatchId : FailDispatch(c) => Tasks("dispatched")' \subseteq Tasks("dispatched")
           /\ \A g \in Gate, t \in Task : CreateGate(g, t) => Tasks("dispatched")' \subseteq Tasks("dispatched")
           /\ \A g \in Gate : ResolveGate(g) => Tasks("dispatched")' \subseteq Tasks("dispatched")
           /\ \A ts, status : SetTaskStatus(ts, status) /\ status # "dispatched" =>
                 Tasks("dispatched")' \subseteq Tasks("dispatched")
           /\ \A t \in Task : \A deps : CreateTask(t, deps) => Tasks("dispatched")' \subseteq Tasks("dispatched")
           /\ UNCHANGED storeVars => Tasks("dispatched")' \subseteq Tasks("dispatched")
           /\ \A t \in Task : \A h : CreateDispatchContext(t, h) =>
                 Tasks("dispatched")' = Tasks("dispatched") \cup {t}
<1> USE DEF Tasks, StoreTypeOK
<1>1. ASSUME NEW t \in Task, CompleteTask(t) PROVE Tasks("dispatched")' \subseteq Tasks("dispatched")
  BY <1>1 DEF CompleteTask
<1>2. ASSUME NEW c \in DispatchId, FailDispatch(c)
      PROVE  Tasks("dispatched")' \subseteq Tasks("dispatched")
  BY <1>2 DEF FailDispatch
<1>3. ASSUME NEW g \in Gate, NEW t \in Task, CreateGate(g, t)
      PROVE  Tasks("dispatched")' \subseteq Tasks("dispatched")
  BY <1>3 DEF CreateGate
<1>4. ASSUME NEW g \in Gate, ResolveGate(g) PROVE Tasks("dispatched")' \subseteq Tasks("dispatched")
  BY <1>4 DEF ResolveGate
<1>5. ASSUME NEW ts, NEW status, SetTaskStatus(ts, status), status # "dispatched"
      PROVE  Tasks("dispatched")' \subseteq Tasks("dispatched")
  BY <1>5 DEF SetTaskStatus
<1>6. ASSUME NEW t \in Task, NEW deps, CreateTask(t, deps)
      PROVE  Tasks("dispatched")' \subseteq Tasks("dispatched")
  BY <1>6 DEF CreateTask
<1>7. ASSUME UNCHANGED storeVars PROVE Tasks("dispatched")' \subseteq Tasks("dispatched")
  BY <1>7 DEF storeVars, taskVars
<1>8. ASSUME NEW t \in Task, NEW h, CreateDispatchContext(t, h)
      PROVE  Tasks("dispatched")' = Tasks("dispatched") \cup {t}
  BY <1>8 DEF CreateDispatchContext
<1> QED
  BY <1>1, <1>2, <1>3, <1>4, <1>5, <1>6, <1>7, <1>8

\* Fewer tasks in hand, or one more: what that does to their number.
LEMMA InHandCounted ==
    ASSUME StoreTypeOK, StoreTypeOK'
    PROVE  /\ Tasks("dispatched")' \subseteq Tasks("dispatched") =>
                 Cardinality(Tasks("dispatched"))' <= Cardinality(Tasks("dispatched"))
           /\ \A t \in Task : Tasks("dispatched")' = Tasks("dispatched") \cup {t} =>
                 Cardinality(Tasks("dispatched"))' <= Cardinality(Tasks("dispatched")) + 1
           /\ Cardinality(Tasks("dispatched")) \in Nat /\ Cardinality(Tasks("dispatched"))' \in Nat
<1> DEFINE D == Tasks("dispatched")
<1>1. /\ IsFiniteSet(D) /\ Cardinality(D) \in Nat
      /\ IsFiniteSet(D') /\ Cardinality(D') \in Nat
  BY DispatchedFinite, FiniteAssumption, FS_Subset, FS_CardinalityType DEF Tasks
<1>2. D' \subseteq D => Cardinality(D') <= Cardinality(D)
  BY <1>1, FS_Subset
<1>3. ASSUME NEW t \in Task, D' = D \cup {t} PROVE Cardinality(D') <= Cardinality(D) + 1
  <2>1. Cardinality(D \cup {t}) = IF t \in D THEN Cardinality(D) ELSE Cardinality(D) + 1
    BY <1>1, FS_AddElement
  <2>2. CASE t \in D
    <3>1. D' = D
      BY <1>3, <2>2
    <3> QED
      BY <1>1, <3>1
  <2>3. CASE t \notin D
    BY <1>1, <1>3, <2>1, <2>3
  <2> QED
    BY <2>2, <2>3
<1> QED
  BY <1>1, <1>2, <1>3

\* Only the loop's own call puts a task in hand, and only after it took a slot.
LEMMA SlotsStep ==
    ASSUME TypeInv, SlotsInv, [Next]_vars, "dispatch" \notin May, "taskUpdate" \notin May
    PROVE  SlotsInv'
<1> DEFINE D == Cardinality(Tasks("dispatched"))
<1>0. /\ TypeInv' /\ StoreTypeOK /\ StoreTypeOK' /\ D \in Nat /\ D' \in Nat
      /\ slots \in Nat /\ slots' \in Nat /\ MaxConcurrent \in Nat
  BY TypeStep, InHandCounted, RunAssumption DEF TypeInv, TypeOK
<1>1. ASSUME Tasks("dispatched")' \subseteq Tasks("dispatched"), UNCHANGED <<pc, slots>>
      PROVE  SlotsInv'
  <2>1. D' <= D
    BY <1>0, <1>1, InHandCounted
  <2>2. Taken' = Taken /\ Taken \in Nat
    BY <1>1 DEF Taken
  <2> HIDE DEF D
  <2> QED
    BY <1>0, <1>1, <2>1, <2>2 DEF SlotsInv, D
<1>2. ASSUME UNCHANGED storeVars, pc' \notin Dispatching PROVE SlotsInv'
  <2>1. D' = D
    BY <1>2 DEF storeVars, taskVars, Tasks
  <2> QED
    BY <1>2, <2>1 DEF SlotsInv
<1>3. CASE Wake \/ StopSeen \/ CheckConvergence \/ Converge
  BY <1>2, <1>3 DEF Wake, StopSeen, CheckConvergence, Converge, Finish, Go, Dispatching
<1>4. CASE HandleWorkerDone \/ HandleEscalation \/ HandleDecisionGateMessage
  <2>1. UNCHANGED <<pc, slots>> /\ mail # <<>>
    BY <1>4 DEF HandleWorkerDone, HandleEscalation, HandleDecisionGateMessage, TakeMail
  <2>2. Head(mail).task \in Task
    BY <2>1, HeadTyped DEF TypeInv
  <2>3. Tasks("dispatched")' \subseteq Tasks("dispatched")
    BY <1>0, <1>4, <2>2, InHandShrinks DEF HandleWorkerDone, HandleEscalation, HandleDecisionGateMessage
  <2> QED
    BY <1>1, <2>1, <2>3
<1>5. CASE ProcessDecisionGates
  <2>1. D' <= D
    BY <1>0, <1>5, InHandShrinks, InHandCounted DEF ProcessDecisionGates
  <2>2. pc' = "plan"
    BY <1>5 DEF ProcessDecisionGates, Go
  <2> QED
    BY <1>0, <2>1, <2>2 DEF SlotsInv, Dispatching
<1>6. CASE Plan
  <2>0. D' = D
    BY <1>6 DEF Plan, storeVars, taskVars, Tasks
  <2>1. CASE pc' = "converge"
    BY <1>2, <1>6, <2>1 DEF Plan, Dispatching
  <2>2. CASE pc' = "listing" /\ slots' = FreeSlots
    BY <1>0, <2>0, <2>2 DEF SlotsInv, FreeSlots, Taken
  <2> QED
    BY <1>6, <2>1, <2>2 DEF Plan, Go
<1>7. CASE ListTerminals \/ CreateTerminal \/ Probe \/ SendOk
  <2>1. CASE pc' = "converge"
    BY <1>2, <1>7, <2>1 DEF ListTerminals, CreateTerminal, Probe, SendOk, Dispatching
  <2>2. CASE pc' # "converge"
    <3>1. UNCHANGED storeVars /\ slots' = slots /\ pc \in Dispatching /\ Taken' <= Taken
      BY <1>7, <2>2 DEF ListTerminals, CreateTerminal, Probe, SendOk, Go, Dispatching, Taken
    <3>2. D' = D /\ Taken \in Nat /\ Taken' \in Nat
      BY <3>1 DEF storeVars, taskVars, Tasks, Taken
    <3> HIDE DEF D
    <3> QED
      BY <1>0, <3>1, <3>2 DEF SlotsInv, D
  <2> QED
    BY <2>1, <2>2
<1>8. CASE Assign
  <2>0. D' = D
    BY <1>8 DEF Assign, storeVars, taskVars, Tasks
  <2>1. CASE pc' = "converge"
    BY <1>2, <1>8, <2>1 DEF Assign, Dispatching
  <2>2. CASE pc' # "converge"
    <3>1. pc = "assign" /\ slots' = slots - 1 /\ pc' \in {"probing", "commit"}
      BY <1>8, <2>2 DEF Assign, Go
    <3> QED
      BY <1>0, <2>0, <3>1 DEF SlotsInv, Dispatching, Taken
  <2> QED
    BY <2>1, <2>2
<1>9. CASE Commit
  <2>0. pc = "commit" /\ slots' = slots /\ pc' \in {"sending", "assign"} /\ job.task \in Task
    BY <1>9 DEF Commit, Go, TypeInv, InHand
  <2>1. D' <= D + 1
    <3>1. CASE UNCHANGED storeVars
      BY <1>0, <3>1 DEF storeVars, taskVars, Tasks
    <3>2. CASE CreateDispatchContext(job.task, job.handle)
      BY <1>0, <2>0, <3>2, InHandShrinks, InHandCounted
    <3> QED
      BY <1>9, <3>1, <3>2 DEF Commit
  <2> QED
    BY <1>0, <2>0, <2>1 DEF SlotsInv, Dispatching, Taken
<1>10. CASE SendError
  <2>0. pc = "sending" /\ slots' = slots /\ pc' = "assign" /\ job.disp \in DispatchId
    BY <1>10 DEF SendError, Go, TypeInv, InHand
  <2>1. D' <= D
    BY <1>0, <1>10, <2>0, InHandShrinks, InHandCounted DEF SendError
  <2> QED
    BY <1>0, <2>0, <2>1 DEF SlotsInv, Dispatching, Taken
<1>11. CASE WorkerNext
  BY <1>0, <1>1, <1>11, InHandShrinks DEF WorkerNext, SendDone, SendEscalation, SendGate,
     SendForeignDone, Send, Elsewhere, loopVars
<1>12. CASE \E h \in Handle : Exit(h)
  BY <1>0, <1>1, <1>12, InHandShrinks DEF Exit, Elsewhere, loopVars
<1>13. CASE OperatorNext
  <2>1. ASSUME NEW g \in Gate, GateResolve(g) PROVE SlotsInv'
    BY <1>0, <1>1, <2>1, InHandShrinks DEF GateResolve, Elsewhere, loopVars
  <2>2. ASSUME NEW g \in Gate, NEW t \in Task, GateCreate(g, t) PROVE SlotsInv'
    BY <1>0, <1>1, <2>2, InHandShrinks DEF GateCreate, Elsewhere, loopVars
  <2>3. ASSUME NEW t, NEW status, TaskUpdate(t, status) PROVE SlotsInv'
    BY <2>3 DEF TaskUpdate
  <2>4. ASSUME NEW t \in Task, NEW deps, TaskCreate(t, deps) PROVE SlotsInv'
    BY <1>0, <1>1, <2>4, InHandShrinks DEF TaskCreate, Elsewhere, loopVars
  <2>5. ASSUME NEW t, NEW h, NEW inject, DispatchRpc(t, h, inject) PROVE SlotsInv'
    BY <2>5 DEF DispatchRpc
  <2>6. ASSUME NEW c \in sending, DispatchSent(c) PROVE SlotsInv'
    <3>1. c \in DispatchId
      BY DEF TypeInv, TypeOK
    <3> QED
      BY <1>0, <1>1, <2>6, <3>1, InHandShrinks DEF DispatchSent, Elsewhere, loopVars
  <2>7. ASSUME RunStop PROVE SlotsInv'
    BY <1>0, <1>1, <2>7, InHandShrinks DEF RunStop
  <2> QED
    BY <1>13, <2>1, <2>2, <2>3, <2>4, <2>5, <2>6, <2>7, Zenon DEF OperatorNext
<1>14. CASE Terminated \/ UNCHANGED vars
  BY <1>0, <1>1, <1>14, InHandShrinks DEF Terminated, vars, loopVars
<1>15. CASE CoordinatorNext
  BY <1>3, <1>4, <1>5, <1>6, <1>7, <1>8, <1>9, <1>10, <1>15 DEF CoordinatorNext
<1> QED
  BY <1>11, <1>12, <1>13, <1>14, <1>15, Zenon DEF Next

LEMMA OrchSlotsInv ==
    ASSUME "dispatch" \notin May, "taskUpdate" \notin May
    PROVE  Spec => []SlotsInv
<1>1. Init => SlotsInv
  <2> SUFFICES ASSUME Init PROVE SlotsInv
    OBVIOUS
  <2>1. Tasks("dispatched") = {}
    BY DEF Init, Tasks
  <2>2. Cardinality(Tasks("dispatched")) = 0
    BY <2>1, FS_EmptySet, Zenon
  <2>3. pc \notin Dispatching
    BY DEF Init, Dispatching
  <2> QED
    BY <2>2, <2>3, RunAssumption DEF SlotsInv
<1>2. TypeInv /\ SlotsInv /\ [Next]_vars => SlotsInv'
  BY SlotsStep
<1> QED
  BY <1>1, <1>2, OrchTypeInv, PTL DEF Spec

\* However long the awaits between counting the slots and giving the tasks out,
\* and whatever exits, fails, is asked or answered meanwhile, no more tasks are
\* in hand than the limit allows; the operator's own dispatches and status writes
\* do not ask for a slot and are left out.
THEOREM OrchWithinConcurrency ==
    ASSUME May \cap {"dispatch", "taskUpdate"} = {}
    PROVE  Spec => []WithinConcurrency
<1>1. "dispatch" \notin May /\ "taskUpdate" \notin May
  OBVIOUS
<1>2. SlotsInv => WithinConcurrency
  BY DEF SlotsInv, WithinConcurrency
<1>3. Spec => []SlotsInv
  BY <1>1, OrchSlotsInv
<1> QED
  BY <1>2, <1>3, PTL
-----------------------------------------------------------------------------
(* Exits, as long as terminals have leaves and only the loop gives tasks out *)

\* The lock is part of the invariant: an exit fails one context, so there must
\* not be another.
ExitInv == DispatchLock /\ ExitFreesTerminal /\ sending = {}

\* A step that only ends contexts, kills no terminal and leaves a pending write
\* pending.
LEMMA ExitKept ==
    ASSUME StoreTypeOK, ExitInv, OnlyEnds, sending' = sending,
           \A h \in Handle : terminal'[h] = "dead" => terminal[h] = "dead",
           \A c \in DispatchId : Active(c) => dispHandle[c] \in Handle,
           pc = "sending" => UNCHANGED <<pc, job>>
    PROVE  ExitInv'
<1>1. DispatchLock'
  BY LockKept DEF ExitInv
<1>2. ASSUME NEW c \in DispatchId, Active(c)', terminal'[dispHandle'[c]] = "dead"
      PROVE  pc' = "sending" /\ job'.disp = c
  <2>1. Active(c) /\ dispHandle'[c] = dispHandle[c] /\ dispHandle[c] \in Handle
    BY <1>2 DEF OnlyEnds
  <2>2. pc = "sending" /\ job.disp = c
    BY <1>2, <2>1 DEF ExitInv, ExitFreesTerminal
  <2> QED
    BY <2>2
<1>3. ExitFreesTerminal'
  BY <1>2 DEF ExitFreesTerminal
<1> QED
  BY <1>1, <1>3 DEF ExitInv

LEMMA ExitStep ==
    ASSUME TypeInv, ExitInv, [Next]_vars, ~Headless, "dispatch" \notin May
    PROVE  ExitInv'
<1>0. /\ StoreTypeOK /\ Rows /\ InHand /\ terminal \in [Handle -> {"unborn", "live", "dead"}]
      /\ \A c \in DispatchId : Active(c) => dispHandle[c] \in Handle
  BY DEF TypeInv, TypeOK, Rows, Active
<1>1. ASSUME UNCHANGED <<storeVars, terminal, sending>>, pc = "sending" => UNCHANGED <<pc, job>>
      PROVE  ExitInv'
  <2>1. OnlyEnds
    BY <1>0, <1>1, MethodsOnlyEnd DEF storeVars
  <2> QED
    BY <1>0, <1>1, <2>1, ExitKept
<1>2. ASSUME OnlyEnds, UNCHANGED <<terminal, sending, pc, job>> PROVE ExitInv'
  BY <1>0, <1>2, ExitKept
<1>3. CASE Wake \/ StopSeen \/ CheckConvergence \/ Converge \/ Plan \/ ListTerminals \/ Assign \/ Probe
  BY <1>1, <1>3 DEF Wake, StopSeen, CheckConvergence, Converge, Finish, Plan, ListTerminals, Assign,
     Probe, worldVars
<1>4. CASE HandleWorkerDone \/ HandleEscalation \/ HandleDecisionGateMessage
  <2>1. UNCHANGED <<terminal, sending, pc, job>> /\ mail # <<>>
    BY <1>4 DEF HandleWorkerDone, HandleEscalation, HandleDecisionGateMessage, TakeMail
  <2>2. Head(mail).task \in Task
    BY <2>1, HeadTyped DEF TypeInv
  <2>3. OnlyEnds
    BY <1>0, <1>4, <2>2, MethodsOnlyEnd DEF HandleWorkerDone, HandleEscalation,
       HandleDecisionGateMessage, storeVars
  <2> QED
    BY <1>2, <2>1, <2>3
<1>5. CASE ProcessDecisionGates
  <2>1. OnlyEnds /\ UNCHANGED <<terminal, sending>> /\ pc # "sending"
    BY <1>0, <1>5, MethodsOnlyEnd DEF ProcessDecisionGates, SetTaskStatus, worldVars
  <2> QED
    BY <1>0, <2>1, ExitKept
<1>6. CASE CreateTerminal
  <2>1. UNCHANGED <<storeVars, sending>> /\ pc # "sending"
        /\ (\A h \in Handle : terminal'[h] = "dead" => terminal[h] = "dead")
    BY <1>0, <1>6 DEF CreateTerminal
  <2>2. OnlyEnds
    BY <1>0, <2>1, MethodsOnlyEnd DEF storeVars
  <2> QED
    BY <1>0, <2>1, <2>2, ExitKept
<1>7. CASE Commit
  <2>0. pc = "commit" /\ UNCHANGED <<terminal, sending>> /\ job.task \in Task /\ job.handle \in Handle
    BY <1>0, <1>7 DEF Commit, worldVars, InHand
  <2>1. CASE UNCHANGED storeVars
    BY <1>1, <2>0, <2>1
  <2>2. CASE /\ CreateDispatchContext(job.task, job.handle) /\ pc' = "sending"
             /\ \E c \in DispatchId : IsNextDispatch(c) /\ job' = [job EXCEPT !.disp = c]
    <3>1. PICK c \in DispatchId : IsNextDispatch(c) /\ job' = [job EXCEPT !.disp = c]
      BY <2>2
    <3>2. PICK d \in DispatchId :
            /\ IsNextDispatch(d)
            /\ dispStatus' = [dispStatus EXCEPT ![d] = "dispatched"]
            /\ dispHandle' = [dispHandle EXCEPT ![d] = job.handle]
      BY <1>0, <2>0, <2>2, CreateEffect
    <3>3. c = d
      BY <3>1, <3>2, BoundsAssumption DEF IsNextDispatch, DispatchId
    <3>4. job'.disp = c
      BY <3>1 DEF TypeInv, TypeOK
    <3>5. ASSUME NEW e \in DispatchId, Active(e)', terminal'[dispHandle'[e]] = "dead" PROVE e = c
      <4> SUFFICES ASSUME e # c PROVE FALSE
        OBVIOUS
      <4>1. Active(e) /\ dispHandle'[e] = dispHandle[e]
        BY <1>0, <3>2, <3>3, <3>5 DEF Active, StoreTypeOK
      <4> QED
        BY <2>0, <3>5, <4>1 DEF ExitInv, ExitFreesTerminal
    <3>6. DispatchLock'
      BY <1>0, <2>0, <2>2, LockKept DEF ExitInv
    <3> QED
      BY <2>0, <2>2, <3>4, <3>5, <3>6 DEF ExitInv, ExitFreesTerminal
  <2> QED
    BY <1>7, <2>1, <2>2 DEF Commit, Go
<1>8. CASE SendOk
  <2>1. /\ pc = "sending" /\ terminal[job.handle] = "live"
        /\ UNCHANGED <<storeVars, terminal, sending>>
    BY <1>8 DEF SendOk, Live
  <2>2. dispHandle[job.disp] = job.handle
    BY <1>0, <2>1 DEF InHand
  <2>3. OnlyEnds
    BY <1>0, <2>1, MethodsOnlyEnd DEF storeVars
  <2>4. DispatchLock'
    BY <1>0, <2>3, LockKept DEF ExitInv
  <2>5. ASSUME NEW e \in DispatchId, Active(e)', terminal'[dispHandle'[e]] = "dead" PROVE FALSE
    <3>1. Active(e) /\ terminal[dispHandle[e]] = "dead"
      BY <2>1, <2>3, <2>5 DEF OnlyEnds
    <3>2. job.disp = e
      BY <3>1 DEF ExitInv, ExitFreesTerminal
    <3> QED
      BY <2>1, <2>2, <3>1, <3>2
  <2> QED
    BY <2>1, <2>4, <2>5 DEF ExitInv, ExitFreesTerminal
<1>9. CASE SendError
  <2>1. pc = "sending" /\ FailDispatch(job.disp) /\ UNCHANGED <<terminal, sending>>
    BY <1>9 DEF SendError
  <2>2. job.disp \in DispatchId
    BY <1>0, <2>1 DEF InHand
  <2>3. OnlyEnds /\ dispStatus'[job.disp] \notin {"pending", "dispatched"}
    BY <1>0, <2>1, <2>2, MethodsOnlyEnd DEF FailDispatch, StoreTypeOK
  <2>4. DispatchLock'
    BY <1>0, <2>3, LockKept DEF ExitInv
  <2>5. ASSUME NEW e \in DispatchId, Active(e)', terminal'[dispHandle'[e]] = "dead" PROVE FALSE
    <3>1. Active(e) /\ terminal[dispHandle[e]] = "dead"
      BY <2>1, <2>3, <2>5 DEF OnlyEnds
    <3>2. job.disp = e
      BY <3>1 DEF ExitInv, ExitFreesTerminal
    <3>3. ~Active(e)'
      BY <2>3, <3>2 DEF Active
    <3> QED
      BY <2>5, <3>3
  <2> QED
    BY <2>1, <2>4, <2>5 DEF ExitInv, ExitFreesTerminal
<1>10. CASE WorkerNext
  BY <1>1, <1>10 DEF WorkerNext, SendDone, SendEscalation, SendGate, SendForeignDone, Send, Elsewhere,
     loopVars
<1>11. ASSUME NEW h \in Handle, Exit(h) PROVE ExitInv'
  <2>1. /\ terminal' = [terminal EXCEPT ![h] = "dead"] /\ UNCHANGED <<pc, job, sending>>
        /\ \/ \E c \in DispatchId : LockOf(h, c) /\ FailDispatch(c)
           \/ (\A c \in DispatchId : ~LockOf(h, c)) /\ UNCHANGED storeVars
    BY <1>11 DEF Exit, Elsewhere, loopVars
  <2>2. OnlyEnds
    BY <1>0, <2>1, MethodsOnlyEnd DEF storeVars
  <2>3. ASSUME NEW e \in DispatchId, Active(e)' PROVE dispHandle[e] # h
    <3> SUFFICES ASSUME dispHandle[e] = h PROVE FALSE
      OBVIOUS
    <3>1. Active(e)
      BY <2>2, <2>3 DEF OnlyEnds
    <3>2. PICK c \in DispatchId : LockOf(h, c) /\ FailDispatch(c)
      BY <2>1, <3>1 DEF LockOf
    <3>3. c = e
      BY <3>1, <3>2 DEF LockOf, ExitInv, DispatchLock
    <3>4. dispStatus'[e] \notin {"pending", "dispatched"}
      BY <1>0, <3>2, <3>3 DEF FailDispatch, StoreTypeOK
    <3> QED
      BY <2>3, <3>4 DEF Active
  <2>4. ASSUME NEW e \in DispatchId, Active(e)', terminal'[dispHandle'[e]] = "dead"
        PROVE  pc = "sending" /\ job.disp = e
    <3>1. Active(e) /\ dispHandle'[e] = dispHandle[e] /\ dispHandle[e] # h /\ dispHandle[e] \in Handle
      BY <1>0, <2>2, <2>3, <2>4 DEF OnlyEnds
    <3>2. terminal[dispHandle[e]] = "dead"
      BY <1>0, <2>1, <2>4, <3>1
    <3> QED
      BY <3>1, <3>2 DEF ExitInv, ExitFreesTerminal
  <2>5. DispatchLock'
    BY <1>0, <2>2, LockKept DEF ExitInv
  <2> QED
    BY <2>1, <2>4, <2>5 DEF ExitInv, ExitFreesTerminal
<1>12. CASE OperatorNext
  <2>1. ASSUME NEW g \in Gate, GateResolve(g) PROVE ExitInv'
    BY <1>0, <1>2, <2>1, MethodsOnlyEnd DEF GateResolve, ResolveGate, Elsewhere, loopVars
  <2>2. ASSUME NEW g \in Gate, NEW t \in Task, GateCreate(g, t) PROVE ExitInv'
    BY <1>0, <1>2, <2>2, MethodsOnlyEnd DEF GateCreate, Elsewhere, loopVars
  <2>3. ASSUME NEW t \in Task, NEW status, TaskUpdate(t, status) PROVE ExitInv'
    BY <1>0, <1>2, <2>3, MethodsOnlyEnd DEF TaskUpdate, SetTaskStatus, Elsewhere, loopVars
  <2>4. ASSUME NEW t, NEW deps, TaskCreate(t, deps) PROVE ExitInv'
    BY <1>0, <1>2, <2>4, MethodsOnlyEnd DEF TaskCreate, CreateTask, Elsewhere, loopVars
  <2>5. ASSUME NEW t, NEW h, NEW inject, DispatchRpc(t, h, inject) PROVE ExitInv'
    BY <2>5 DEF DispatchRpc
  <2>6. ASSUME NEW c \in sending, DispatchSent(c) PROVE ExitInv'
    BY <2>6 DEF ExitInv
  <2>7. ASSUME RunStop PROVE ExitInv'
    BY <1>1, <2>7 DEF RunStop, worldVars
  <2> QED
    BY <1>12, <2>1, <2>2, <2>3, <2>4, <2>5, <2>6, <2>7, Zenon DEF OperatorNext
<1>13. CASE Terminated \/ UNCHANGED vars
  BY <1>1, <1>13 DEF Terminated, vars, loopVars, worldVars
<1>14. CASE CoordinatorNext
  BY <1>3, <1>4, <1>5, <1>6, <1>7, <1>8, <1>9, <1>14 DEF CoordinatorNext
<1> QED
  BY <1>10, <1>11, <1>12, <1>13, <1>14, Zenon DEF Next

\* With a renderer, and only the loop dispatching:
\* whenever a terminal exits, before its context is written, while the preamble
\* is on its way, or when its worker has long reported: its lock is given back,
\* at the latest by the write that is refused.
THEOREM OrchExitFreesTerminal ==
    ASSUME ~Headless, "dispatch" \notin May
    PROVE  Spec => []ExitFreesTerminal
<1>1. Init => ExitInv
  BY DEF Init, ExitInv, DispatchLock, ExitFreesTerminal, Active
<1>2. TypeInv /\ ExitInv /\ [Next]_vars => ExitInv'
  BY ExitStep
<1>3. ExitInv => ExitFreesTerminal
  BY DEF ExitInv
<1> QED
  BY <1>1, <1>2, <1>3, OrchTypeInv, PTL DEF Spec
=============================================================================
