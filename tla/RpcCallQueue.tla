---------------------------- MODULE RpcCallQueue ----------------------------
(***************************************************************************)
(* The queue of calls to one remote runtime                                *)
(* (src/shared/runtime-rpc-call-queue.ts): two lines, foreground first, a  *)
(* limit on the calls that run and a smaller one on background calls.      *)
(***************************************************************************)
EXTENDS RemoteCalls, Integers, Sequences, FiniteSets

CONSTANTS
    Concurrency,           \* 8 in the code
    BackgroundConcurrency  \* 2 in the code

ASSUME QueueAssumption ==
    Concurrency \in Nat \ {0} /\ BackgroundConcurrency \in Nat \ {0}

VARIABLES
    foreground,        \* the two lines, in order of arrival
    background,
    active,            \* the two counters of the queue
    backgroundActive,
    running            \* calls whose run() has not settled

queueVars == <<foreground, background, active, backgroundActive, running>>

Elements(line) == {line[i] : i \in DOMAIN line}
Queued == Elements(foreground) \cup Elements(background)
Least(m, n) == IF m < n THEN m ELSE n
-----------------------------------------------------------------------------
\* Mutant of BackgroundRoom: room in general is room for background calls.
BackgroundRoomAnyway(room, act) == room

\* pump: how many background calls may start where `room` calls may.
BackgroundRoom(room, act) == Least(room, BackgroundConcurrency - act)

\* pump: the loop starts foreground calls while there is room, then background
\* calls.  fg and bg are the lines, act and bgAct the counters, run the calls
\* that run when it begins.
Pump(fg, bg, act, bgAct, run) ==
    LET n == Least(Concurrency - act, Len(fg))
        m == IF n < Len(fg) THEN 0
             ELSE Least(BackgroundRoom(Concurrency - act - n, bgAct), Len(bg))
    IN  /\ foreground' = SubSeq(fg, n + 1, Len(fg))
        /\ background' = SubSeq(bg, m + 1, Len(bg))
        /\ active' = act + n + m
        /\ backgroundActive' = bgAct + m
        /\ running' = run \cup Elements(SubSeq(fg, 1, n)) \cup Elements(SubSeq(bg, 1, m))

Enqueue(c) ==
    /\ c \notin Queued \cup running
    /\ IF c \in Background
       THEN Pump(foreground, Append(background, c), active, backgroundActive, running)
       ELSE Pump(Append(foreground, c), background, active, backgroundActive, running)

\* Mutant of Settle: slots are given back, and nobody looks for the next call.
SettleWithoutPump(S) ==
    /\ S \subseteq running
    /\ active' = active - Cardinality(S)
    /\ backgroundActive' = backgroundActive - Cardinality(S \cap Background)
    /\ running' = running \ S
    /\ UNCHANGED <<foreground, background>>

\* The finally of each call of S; calls that one event ends pump one after the
\* other and start what one pump would.  A queue that is empty and idle is
\* dropped from the pool: the one made by the next enqueue is the same.
Settle(S) ==
    /\ S \subseteq running
    /\ Pump(foreground, background, active - Cardinality(S),
            backgroundActive - Cardinality(S \cap Background), running \ S)

QueueInit ==
    /\ foreground = <<>> /\ background = <<>> /\ running = {}
    /\ active = 0 /\ backgroundActive = 0

QueueNext == (\E c \in Call : Enqueue(c)) \/ (\E S \in SUBSET running : Settle(S))
QueueSpec == QueueInit /\ [][QueueNext]_queueVars
-----------------------------------------------------------------------------
QueueTypeOK ==
    /\ foreground \in Seq(Call \ Background) /\ background \in Seq(Background)
    /\ running \subseteq Call
    /\ active \in Nat /\ backgroundActive \in Nat

\* The counters, kept over awaits and errors, are the calls that run, and the
\* limits of the transport hold (pump, and the finally of a call).
SlotsMatch ==
    /\ active = Cardinality(running) /\ active <= Concurrency
    /\ backgroundActive = Cardinality(running \cap Background)
    /\ backgroundActive <= BackgroundConcurrency
=============================================================================
