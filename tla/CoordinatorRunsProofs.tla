----------------------- MODULE CoordinatorRunsProofs -----------------------
(* Safety of CoordinatorRuns, for any number of runs. *)
EXTENDS CoordinatorRuns, TLAPS

\* What a row says about its loop.  A row that is not there yet has no loop; a
\* finished row's loop is over; the reference points to a loop that is alive;
\* without resets, a loop that is alive still has its running row.
RowsAndLoops ==
    /\ \A r \in RunId : loop[r] # "none" => row[r] # "none"
    /\ \A r \in RunId : row[r] \in {"completed", "failed"} => loop[r] = "over"
    /\ activeCoordinator # 0 => activeCoordinator \in Alive
    /\ MayReset \/ \A r \in Alive : row[r] = "running"

\* The inductive invariant: the three properties need each other's company and
\* RowsAndLoops, which links the table to the memory of the process.
IInv == TypeOK /\ RowsAndLoops /\ OneRow /\ StopReaches /\ StoppedIsNotSuccess

\* Zero, the null reference, is not a run.
LEMMA ZeroIsNoRun == 0 \notin RunId /\ \A r \in RunId : r \in Nat /\ r # 0
  BY RunsAssumption DEF RunId

\* The first state satisfies the inductive invariant.
LEMMA RunsInit == Init => IInv
  BY ZeroIsNoRun DEF Init, IInv, TypeOK, RowsAndLoops, OneRow, StopReaches,
     StoppedIsNotSuccess, Alive

\* The end of a loop, by convergence, by a stop or by an exception, keeps it.
LEMMA EndKeeps ==
    ASSUME IInv, NEW r \in RunId, r \in Alive, End(r) \/ Throw(r)
    PROVE  IInv'
<1> USE ZeroIsNoRun
<1>1. PICK status \in {"completed", "failed"} :
         (r \in stopped => status = "failed") /\ EndAs(r, status)
  BY DEF End, Throw, FinalStatus
<1>2. row[r] # "none" /\ row' = [row EXCEPT ![r] = IF row[r] = "deleted" THEN "deleted"
                                                  ELSE status]
  BY <1>1 DEF EndAs, UpdateCoordinatorRun, IInv, TypeOK, RowsAndLoops, Alive
<1>3. /\ loop' = [loop EXCEPT ![r] = "over"]
      /\ activeCoordinator' = IF activeCoordinator = r THEN 0 ELSE activeCoordinator
      /\ UNCHANGED <<stopped, blamed, tasks, acked>>
  BY <1>1 DEF EndAs, ReleaseReference
<1>4. TypeOK'
  BY <1>1, <1>2, <1>3 DEF IInv, TypeOK
<1>5. RowsAndLoops'
  BY <1>1, <1>2, <1>3 DEF IInv, TypeOK, RowsAndLoops, Alive
<1>6. OneRow'
  BY <1>1, <1>2, <1>3 DEF IInv, TypeOK, OneRow
<1>7. StopReaches'
  BY <1>1, <1>2, <1>3 DEF IInv, TypeOK, StopReaches, Alive
<1>8. StoppedIsNotSuccess'
  BY <1>1, <1>2, <1>3 DEF IInv, TypeOK, StoppedIsNotSuccess
<1>9. QED
  BY <1>4, <1>5, <1>6, <1>7, <1>8 DEF IInv

\* Every step keeps the inductive invariant.
LEMMA RunsStep == IInv /\ [Next]_vars => IInv'
<1> SUFFICES ASSUME IInv, [Next]_vars PROVE IInv'
  OBVIOUS
<1> USE ZeroIsNoRun
<1>1. ASSUME NEW r \in RunId, Run(r) PROVE IInv'
  <2>1. TypeOK'
    BY <1>1 DEF Run, IInv, TypeOK
  <2>2. RowsAndLoops'
    BY <1>1 DEF Run, IInv, TypeOK, RowsAndLoops, Alive
  <2>3. OneRow'
    BY <1>1 DEF Run, NoActiveRun, IInv, TypeOK, OneRow
  <2>4. StopReaches'
    BY <1>1 DEF Run, NoActiveRun, IInv, TypeOK, StopReaches, Alive
  <2>5. StoppedIsNotSuccess'
    BY <1>1 DEF Run, IInv, TypeOK, StoppedIsNotSuccess
  <2>6. QED
    BY <2>1, <2>2, <2>3, <2>4, <2>5 DEF IInv
<1>2. ASSUME NEW r \in RunId, RunStop(r) PROVE IInv'
  <2>1. TypeOK' /\ RowsAndLoops' /\ OneRow'
    BY <1>2 DEF RunStop, IInv, TypeOK, RowsAndLoops, OneRow, Alive
  <2>2. StopReaches'
    BY <1>2 DEF RunStop, IInv, TypeOK, StopReaches, Alive
  <2>3. StoppedIsNotSuccess'
    BY <1>2 DEF RunStop, IInv, TypeOK, RowsAndLoops, StoppedIsNotSuccess, Alive
  <2>4. QED
    BY <2>1, <2>2, <2>3 DEF IInv
<1>3. ASSUME NEW r \in RunId, Tick(r) PROVE IInv'
  <2>1. CASE End(r) \/ Throw(r)
    BY <1>3, <2>1, EndKeeps DEF Tick, Alive
  <2>2. CASE ~(End(r) \/ Throw(r))
    <3>1. /\ loop[r] = "working" /\ loop' = [loop EXCEPT ![r] = "asleep"]
          /\ UNCHANGED <<row, stopped, blamed, activeCoordinator, tasks, acked>>
      BY <1>3, <2>2 DEF Tick
    <3>2. TypeOK' /\ Alive' = Alive
      BY <3>1 DEF IInv, TypeOK, Alive
    <3>3. RowsAndLoops' /\ OneRow' /\ StopReaches' /\ StoppedIsNotSuccess'
      BY <3>1, <3>2 DEF IInv, TypeOK, RowsAndLoops, OneRow, StopReaches, StoppedIsNotSuccess
    <3>4. QED
      BY <3>2, <3>3 DEF IInv
  <2>3. QED
    BY <2>1, <2>2
<1>4. ASSUME NEW r \in RunId, Wake(r) PROVE IInv'
  <2>1. CASE End(r)
    BY <1>4, <2>1, EndKeeps DEF Wake, Alive
  <2>2. CASE ~End(r)
    BY <1>4, <2>2 DEF Wake, IInv, TypeOK, RowsAndLoops, OneRow, StopReaches,
       StoppedIsNotSuccess, Alive
  <2>3. QED
    BY <2>1, <2>2
<1>5. CASE TaskCreate
  BY <1>5 DEF TaskCreate, IInv, TypeOK, RowsAndLoops, OneRow, StopReaches,
     StoppedIsNotSuccess, Alive
<1>6. ASSUME NEW result \in {"completed", "failed"}, NEW noted \in SUBSET Alive,
             TasksSettle(result, noted)
      PROVE  IInv'
  BY <1>6 DEF TasksSettle, IInv, TypeOK, RowsAndLoops, OneRow, StopReaches,
     StoppedIsNotSuccess, Alive
<1>7. CASE Reset
  BY <1>7 DEF Reset, IInv, TypeOK, RowsAndLoops, OneRow, StopReaches,
     StoppedIsNotSuccess, Alive
<1>8. CASE Crash
  BY <1>8 DEF Crash, IInv, TypeOK, RowsAndLoops, OneRow, StopReaches,
     StoppedIsNotSuccess, Alive
<1>9. CASE UNCHANGED vars
  BY <1>9 DEF vars, IInv, TypeOK, RowsAndLoops, OneRow, StopReaches,
     StoppedIsNotSuccess, Alive
<1>10. QED
  BY <1>1, <1>2, <1>3, <1>4, <1>5, <1>6, <1>7, <1>8, <1>9 DEF Next

\* The inductive invariant holds throughout.
LEMMA RunsInvariant == Spec => []IInv
  BY RunsInit, RunsStep, PTL DEF Spec

\* The active-run check of orchestration.run: however runs are started,
\* stopped, reset and interrupted by crashes, at most one row is running.
THEOREM RunsOneRow == Spec => []OneRow
<1>1. IInv => OneRow
  BY DEF IInv
<1>2. QED
  BY RunsInvariant, <1>1, PTL

\* The single reference suffices: a running loop that was not told to stop is
\* the one the reference points to, whatever older loops are still ending.
THEOREM RunsStopReaches == Spec => []StopReaches
<1>1. IInv => StopReaches
  BY DEF IInv
<1>2. QED
  BY RunsInvariant, <1>1, PTL

\* executeLoop's final status: a run that was told to stop never ends completed.
THEOREM RunsStopped == Spec => []StoppedIsNotSuccess
<1>1. IInv => StoppedIsNotSuccess
  BY DEF IInv
<1>2. QED
  BY RunsInvariant, <1>1, PTL

\* "Only one coordinator can run at a time" is true as long as nobody resets
\* the tables: crashes included, there are never two loops.
THEOREM RunsOneLoop ==
    ASSUME ~MayReset
    PROVE  Spec => []OneLoop
<1>1. ~MayReset
  OBVIOUS
<1>2. IInv => OneLoop
  BY <1>1 DEF IInv, RowsAndLoops, OneRow, OneLoop, Alive
<1>3. QED
  BY <1>2, RunsInvariant, PTL

\* updateCoordinatorRun is called once per run: the record of a finished run
\* stays and its loop stays ended, until a reset deletes the row.
THEOREM RunsRecordIsFinal == Spec => RecordIsFinal
<1>1. ASSUME IInv, [Next]_vars, NEW r \in RunId, row[r] \in {"completed", "failed"}
      PROVE  row'[r] \in {row[r], "deleted"} /\ loop'[r] = "over"
  <2> USE <1>1
  <2>1. loop[r] = "over" /\ row \in [RunId -> {"none", "running", "completed", "failed", "deleted"}]
        /\ loop \in [RunId -> {"none", "working", "asleep", "over"}]
    BY DEF IInv, RowsAndLoops, TypeOK
  <2>2. ASSUME NEW s \in RunId, Run(s) \/ RunStop(s) PROVE row'[r] = row[r] /\ loop'[r] = loop[r]
    BY <2>1, <2>2 DEF Run, RunStop
  <2>3. ASSUME NEW s \in RunId, Tick(s) \/ Wake(s) PROVE row'[r] = row[r] /\ loop'[r] = loop[r]
    BY <2>1, <2>3 DEF Tick, Wake, End, Throw, EndAs, UpdateCoordinatorRun
  <2>4. CASE Reset
    BY <2>1, <2>4 DEF Reset
  <2>5. CASE Crash
    BY <2>1, <2>5 DEF Crash
  <2>6. CASE TaskCreate \/ UNCHANGED vars
    BY <2>1, <2>6 DEF TaskCreate, vars
  <2>7. ASSUME NEW result, NEW noted, TasksSettle(result, noted)
        PROVE  row'[r] = row[r] /\ loop'[r] = loop[r]
    BY <2>7 DEF TasksSettle
  <2>8. QED
    BY <2>1, <2>2, <2>3, <2>4, <2>5, <2>6, <2>7 DEF Next
<1>2. IInv /\ [Next]_vars =>
        [\A r \in RunId : row[r] \in {"completed", "failed"} =>
           row'[r] \in {row[r], "deleted"} /\ loop'[r] = "over"]_vars
  BY <1>1
<1>3. QED
  BY RunsInvariant, <1>2, PTL DEF Spec, RecordIsFinal

\* The columns and references have the values the code gives them.
THEOREM RunsTyped == Spec => []TypeOK
<1>1. IInv => TypeOK
  BY DEF IInv
<1>2. QED
  BY RunsInvariant, <1>1, PTL
=============================================================================
