--------------------------- MODULE TerminalLease ---------------------------
(***************************************************************************)
(* What the dispatch table promises about terminals, with no task, gate or *)
(* retry counter in sight: a terminal is leased to at most one dispatch at *)
(* a time, a dispatch is leased a terminal at most once in its life, and a *)
(* lease, once given up, is never picked up again.                         *)
(* TaskStore implements this specification (see LeaseImplemented there).   *)
(***************************************************************************)
CONSTANTS
    Handle,     \* terminal handles
    Dispatch    \* identities of dispatches

VARIABLES
    held,       \* the pairs <<handle, dispatch>> of the leases in force
    spent       \* dispatches that have, or once had, a lease

vars == <<held, spent>>

\* The handles under a lease.
Leased == {lease[1] : lease \in held}

Init == /\ held = {}
        /\ spent = {}

\* A fresh dispatch takes a terminal nobody holds.
Acquire(h, d) ==
    /\ h \notin Leased
    /\ d \notin spent
    /\ held' = held \cup {<<h, d>>}
    /\ spent' = spent \cup {d}

\* Leases end, one or several at a time.
Release(gone) ==
    /\ gone # {}
    /\ held' = held \ gone
    /\ UNCHANGED spent

Next == \/ \E h \in Handle, d \in Dispatch : Acquire(h, d)
        \/ \E gone \in SUBSET held : Release(gone)

Spec == Init /\ [][Next]_vars
=============================================================================
