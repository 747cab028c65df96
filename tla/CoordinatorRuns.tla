-------------------------- MODULE CoordinatorRuns --------------------------
(***************************************************************************)
(* The life of coordinator runs: orchestration.run, orchestration.runStop, *)
(* the rows of coordinator_runs, the loops in the background and the one   *)
(* module-level reference to the loop that a stop is sent to               *)
(* (activeCoordinator in orchestration-gates.ts).                          *)
(*                                                                         *)
(* What a loop does to the tasks is the subject of Orchestration.  Here    *)
(* the tasks table is the set of statuses that occur in it, which is all   *)
(* that starting, converging and the final status look at.  The rows live  *)
(* in a file and survive a crash of the process; loops and the reference   *)
(* do not.                                                                 *)
(***************************************************************************)
EXTENDS Naturals, FiniteSets

CONSTANTS
    MaxRuns,        \* bound: runs ever started
    MayReset,       \* the operator calls orchestration.reset --tasks or --all
    MayCrash        \* the process dies and is started again

ASSUME RunsAssumption == MaxRuns \in Nat /\ MayReset \in BOOLEAN /\ MayCrash \in BOOLEAN

RunId == 1..MaxRuns

VARIABLES
    row,            \* coordinator_runs.status, or "none" / "deleted"
    loop,           \* "none", "working" (in a tick), "asleep" (between two) or "over"
    stopped,        \* runs whose Coordinator.stopped is set
    blamed,         \* runs whose CoordinatorState.failedTasks is not empty
    activeCoordinator, \* the run a stop is sent to, 0 for null
    tasks,          \* the statuses that occur in tasks; "open" is any unsettled one
    acked           \* runs that runStop answered "stopped: true" for

vars == <<row, loop, stopped, blamed, activeCoordinator, tasks, acked>>

Alive == {r \in RunId : loop[r] \in {"working", "asleep"}}

TypeOK ==
    /\ row \in [RunId -> {"none", "running", "completed", "failed", "deleted"}]
    /\ loop \in [RunId -> {"none", "working", "asleep", "over"}]
    /\ stopped \subseteq RunId /\ blamed \subseteq RunId /\ acked \subseteq RunId
    /\ activeCoordinator \in RunId \cup {0}
    /\ tasks \subseteq {"open", "completed", "failed"}
-----------------------------------------------------------------------------
\* updateCoordinatorRun: an UPDATE, which does nothing to a row that is gone.
UpdateCoordinatorRun(r, status) ==
    row' = [row EXCEPT ![r] = IF @ \in {"none", "deleted"} THEN @ ELSE status]

\* getActiveCoordinatorRun finds nothing; its mutant asks the reference.
NoReference == activeCoordinator = 0
NoActiveRun == \A s \in RunId : row[s] # "running"

\* orchestration.run: refused while a row is running.  The loop starts at once;
\* decompose throws when there is no task to work on, and the run has failed.
Run(r) ==
    /\ row[r] = "none" /\ \A s \in RunId : s < r => row[s] # "none"
    /\ NoActiveRun
    /\ IF tasks = {}
       THEN /\ row' = [row EXCEPT ![r] = "failed"]
            /\ loop' = [loop EXCEPT ![r] = "over"]
            /\ activeCoordinator' = 0
       ELSE /\ row' = [row EXCEPT ![r] = "running"]
            /\ loop' = [loop EXCEPT ![r] = "working"]
            /\ activeCoordinator' = r
    /\ UNCHANGED <<stopped, blamed, tasks, acked>>

\* orchestration.runStop: answers for the running row, whatever became of its
\* loop, and signals the loop the reference points to, if any.
RunStop(r) ==
    /\ row[r] = "running"
    /\ stopped' = stopped \cup ({activeCoordinator} \ {0})
    /\ activeCoordinator' = 0
    /\ acked' = acked \cup {r}
    /\ UNCHANGED <<row, loop, blamed, tasks>>

\* Convergence, as far as the statuses tell: nothing is unsettled.
Converged == "open" \notin tasks

\* Mutants of FinalStatus: a status of its own for stopped runs, and none.
StoppedStatus(r) == IF r \in stopped THEN "stopped" ELSE "failed"
StatusOfTasks(r) == IF "failed" \in tasks \/ ~Converged THEN "failed" ELSE "completed"

FinalStatus(r) ==
    IF r \in stopped \/ r \in blamed \/ "failed" \in tasks \/ ~Converged
    THEN "failed" ELSE "completed"

\* The finally of orchestration.run only gives up the reference if it still
\* points to this loop.
DropReference(r) == activeCoordinator' = 0  \* its mutant: whatever it points to
ReleaseReference(r) ==
    activeCoordinator' = IF activeCoordinator = r THEN 0 ELSE activeCoordinator

\* Mutant of End: the loop goes on after it converged.
EndWithoutBreak(r) ==
    /\ loop' = [loop EXCEPT ![r] = "asleep"]
    /\ UpdateCoordinatorRun(r, FinalStatus(r))
    /\ UNCHANGED <<stopped, blamed, activeCoordinator, tasks, acked>>

EndAs(r, status) ==
    /\ loop' = [loop EXCEPT ![r] = "over"]
    /\ UpdateCoordinatorRun(r, status)
    /\ ReleaseReference(r)
    /\ UNCHANGED <<stopped, blamed, tasks, acked>>

\* The end of executeLoop, and its catch.
End(r) == EndAs(r, FinalStatus(r))
Throw(r) == EndAs(r, "failed")

\* The rest of a tick after its last await; anything in a tick may throw.
Tick(r) ==
    /\ loop[r] = "working"
    /\ \/ Converged /\ End(r)
       \/ Throw(r)
       \/ /\ ~Converged
          /\ loop' = [loop EXCEPT ![r] = "asleep"]
          /\ UNCHANGED <<row, stopped, blamed, activeCoordinator, tasks, acked>>

\* Mutant of Wake: nobody looks at stopped.
WakeAlways(r) ==
    /\ loop[r] = "asleep"
    /\ loop' = [loop EXCEPT ![r] = "working"]
    /\ UNCHANGED <<row, stopped, blamed, activeCoordinator, tasks, acked>>

\* The poll interval is over: `while (!this.stopped)`.
Wake(r) ==
    /\ loop[r] = "asleep"
    /\ \/ r \in stopped /\ End(r)
       \/ /\ r \notin stopped
          /\ loop' = [loop EXCEPT ![r] = "working"]
          /\ UNCHANGED <<row, stopped, blamed, activeCoordinator, tasks, acked>>

\* orchestration.taskCreate
TaskCreate ==
    /\ tasks' = tasks \cup {"open"}
    /\ UNCHANGED <<row, loop, stopped, blamed, activeCoordinator, acked>>

\* Some open tasks settle; a loop that handled a failure remembers it.
TasksSettle(result, noted) ==
    /\ "open" \in tasks
    /\ tasks' \in {tasks \cup {result}, (tasks \ {"open"}) \cup {result}}
    /\ blamed' = IF result = "failed" THEN blamed \cup noted ELSE blamed
    /\ UNCHANGED <<row, loop, stopped, activeCoordinator, acked>>

\* resetTasks and resetAll: every row of runs and tasks is deleted; loops are
\* not told.
Reset ==
    /\ MayReset
    /\ row' = [r \in RunId |-> IF row[r] = "none" THEN "none" ELSE "deleted"]
    /\ tasks' = {}
    /\ UNCHANGED <<loop, stopped, blamed, activeCoordinator, acked>>

\* The process dies; its successor finds the rows and nothing else.
Crash ==
    /\ MayCrash
    /\ loop' = [r \in RunId |-> IF loop[r] = "none" THEN "none" ELSE "over"]
    /\ stopped' = {} /\ blamed' = {} /\ activeCoordinator' = 0
    /\ UNCHANGED <<row, tasks, acked>>
-----------------------------------------------------------------------------
Init ==
    /\ row = [r \in RunId |-> "none"] /\ loop = [r \in RunId |-> "none"]
    /\ stopped = {} /\ blamed = {} /\ acked = {}
    /\ activeCoordinator = 0 /\ tasks = {}

Next ==
    \/ \E r \in RunId : Run(r) \/ RunStop(r) \/ Tick(r) \/ Wake(r)
    \/ TaskCreate
    \/ \E result \in {"completed", "failed"}, noted \in SUBSET Alive : TasksSettle(result, noted)
    \/ Reset
    \/ Crash

Spec == Init /\ [][Next]_vars

\* Timers fire and the calls a tick awaits settle, for every loop.
FairSpec == Spec /\ \A r \in RunId : WF_vars(Tick(r) \/ Wake(r))
-----------------------------------------------------------------------------
\* The active-run check of orchestration.run, whatever was reset or crashed
\* before: no two rows are running.
OneRow == \A r, s \in RunId : row[r] = "running" /\ row[s] = "running" => r = s

\* "Only one coordinator can run at a time (enforced by the DB's active-run
\* check), so a single reference suffices": no two loops work on the tasks.
OneLoop == \A r, s \in Alive : r = s

\* A running row whose loop was not told to stop is the one a stop will reach;
\* the end of an older loop does not take the reference away from it.
StopReaches == \A r \in Alive : row[r] = "running" /\ r \notin stopped => activeCoordinator = r

\* A run that was stopped is never recorded as completed, even when its last
\* tick, already under way, settled every task.
StoppedIsNotSuccess == \A r \in stopped : row[r] # "completed"

\* A run recorded as completed or failed keeps that record, and its loop has
\* ended, until a reset deletes it.
RecordIsFinal ==
    [][\A r \in RunId : row[r] \in {"completed", "failed"} =>
          row'[r] \in {row[r], "deleted"} /\ loop'[r] = "over"]_vars

\* "Stop the active coordinator run": once a stop was acknowledged, the loop of
\* the run comes to its end, even if its row is deleted meanwhile.
StopEndsLoop == \A r \in RunId : r \in acked ~> loop[r] = "over"
=============================================================================
