-------------------------- MODULE MCOrchestration --------------------------
(* Instances of Orchestration for TLC. *)
EXTENDS Orchestration, TLC
CONSTANTS t1, t2, t3, h1, h2, h3, g1, g2
OneTask == {t1}
TwoTasks == {t1, t2}
ThreeTasks == {t1, t2, t3}
TwoHandles == {h1, h2}
ThreeHandles == {h1, h2, h3}
FirstHandle == {h1}
NoGates == {}
OneGate == {g1}
TwoGates == {g1, g2}
\* Dependency graphs of the tasks created before the run.
Alone == t1 :> {}
Chain == t1 :> {} @@ t2 :> {t1}
Fork == t1 :> {} @@ t2 :> {t1} @@ t3 :> {}
\* Terminals that do not exist yet are interchangeable.
Symmetry == Permutations(Handle \ Running)
=============================================================================
