------------------------------ MODULE WorkPlan ------------------------------
(***************************************************************************)
(* What a coordinator run promises about a task graph, with no terminal,   *)
(* message or database row in sight: a task is attempted only when all its *)
(* dependencies are done, by one attempt at a time, at most MaxAttempts    *)
(* times; at most MaxConcurrent tasks are in hand at once; and a task that *)
(* is done, or given up, stays so.                                         *)
(* Orchestration implements this specification (PlanImplemented there)     *)
(* while nothing but the coordinator, its workers and terminal exits acts. *)
(***************************************************************************)
EXTENDS Naturals, FiniteSets

CONSTANTS
    Task,
    DependsOn,      \* DependsOn[t]: the tasks t waits for
    MaxConcurrent,
    MaxAttempts

VARIABLES
    phase,          \* "waiting", "running", "done" or "given up"
    attempts        \* how often the task was started

vars == <<phase, attempts>>

In(p) == {t \in Task : phase[t] = p}

Init == /\ phase = [t \in Task |-> "waiting"]
        /\ attempts = [t \in Task |-> 0]

Start(t) ==
    /\ phase[t] = "waiting"
    /\ DependsOn[t] \subseteq In("done")
    /\ Cardinality(In("running")) < MaxConcurrent
    /\ attempts[t] < MaxAttempts
    /\ phase' = [phase EXCEPT ![t] = "running"]
    /\ attempts' = [attempts EXCEPT ![t] = @ + 1]

Finish(t) ==
    /\ phase[t] = "running"
    /\ phase' = [phase EXCEPT ![t] = "done"]
    /\ UNCHANGED attempts

\* The attempt failed; the task waits for another one.
GiveBack(t) ==
    /\ phase[t] = "running"
    /\ phase' = [phase EXCEPT ![t] = "waiting"]
    /\ UNCHANGED attempts

\* Too many failures: no further attempt.
GiveUp(t) ==
    /\ phase[t] \in {"waiting", "running"}
    /\ attempts[t] > 0
    /\ phase' = [phase EXCEPT ![t] = "given up"]
    /\ UNCHANGED attempts

Next == \E t \in Task : Start(t) \/ Finish(t) \/ GiveBack(t) \/ GiveUp(t)

Spec == Init /\ [][Next]_vars
=============================================================================
