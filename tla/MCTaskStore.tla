---------------------------- MODULE MCTaskStore ----------------------------
(* Instance of TaskStore for TLC. *)
EXTENDS TaskStore
CONSTANTS t1, t2, h1, h2, g1
MCTask == {t1, t2}
MCHandle == {h1, h2}
MCGate == {g1}
=============================================================================
