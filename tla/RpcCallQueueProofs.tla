------------------------- MODULE RpcCallQueueProofs -------------------------
(* Proofs about RpcCallQueue, for any calls and limits. *)
EXTENDS RpcCallQueue, FiniteSetTheorems, TLAPS

\* A call is in a line once.
Distinct(line) == \A i, j \in DOMAIN line : line[i] = line[j] => i = j

\* What pump starts from and leaves: lines and running calls are apart, and the
\* counters are the calls that run.
Sound(fg, bg, act, bgAct, run) ==
    /\ fg \in Seq(Call \ Background) /\ Distinct(fg) /\ Elements(fg) \cap run = {}
    /\ bg \in Seq(Background) /\ Distinct(bg) /\ Elements(bg) \cap run = {}
    /\ run \subseteq Call /\ IsFiniteSet(run)
    /\ act = Cardinality(run) /\ act <= Concurrency
    /\ bgAct = Cardinality(run \cap Background) /\ bgAct <= BackgroundConcurrency

QueueInv == Sound(foreground, background, active, backgroundActive, running)
-----------------------------------------------------------------------------
(* Lines *)

LEMMA LeastIsLeast ==
    ASSUME NEW m \in Int, NEW n \in Int
    PROVE  Least(m, n) \in {m, n} /\ Least(m, n) <= m /\ Least(m, n) <= n
BY DEF Least

\* The first n calls of a line: n of them, and none is left behind them.
LEMMA Taken ==
    ASSUME NEW T, NEW line \in Seq(T), Distinct(line), NEW n \in 0..Len(line)
    PROVE  LET front == Elements(SubSeq(line, 1, n))
               rest == SubSeq(line, n + 1, Len(line))
           IN  /\ front \subseteq Elements(line) /\ front \subseteq T
               /\ IsFiniteSet(front) /\ Cardinality(front) = n
               /\ rest \in Seq(T) /\ Distinct(rest)
               /\ Elements(rest) \subseteq Elements(line)
               /\ Elements(rest) \cap front = {}
<1> DEFINE head == SubSeq(line, 1, n)
           rest == SubSeq(line, n + 1, Len(line))
           f == [i \in 1..n |-> line[i]]
<1>1. Len(line) \in Nat /\ DOMAIN line = 1..Len(line) /\ n \in Nat /\ n <= Len(line)
  OBVIOUS
<1>2. /\ head \in Seq(T) /\ DOMAIN head = 1..n
      /\ \A i \in 1..n : head[i] = line[i]
  BY <1>1
<1>3. /\ rest \in Seq(T) /\ DOMAIN rest = 1..Len(line)-n
      /\ \A i \in 1..Len(line)-n : rest[i] = line[n + i]
  BY <1>1
<1>4. Elements(head) = {line[i] : i \in 1..n}
  BY <1>2 DEF Elements
<1>5. f \in Bijection(1..n, Elements(head))
  <2>1. \A i, j \in 1..n : f[i] = f[j] => i = j
    BY <1>1 DEF Distinct
  <2>2. f \in [1..n -> Elements(head)]
    BY <1>4
  <2>3. \A x \in Elements(head) : \E i \in 1..n : f[i] = x
    BY <1>4
  <2>4. QED
    BY <2>1, <2>2, <2>3, Zenon DEF Bijection, Injection, Surjection, IsInjective
<1>6. ExistsBijection(1..n, Elements(head))
  BY <1>5 DEF ExistsBijection
<1>7. IsFiniteSet(Elements(head)) /\ Cardinality(Elements(head)) = n
  <2>1. IsFiniteSet(1..n)
    BY FS_Interval, <1>1
  <2>2. QED
    BY <1>1, <1>6, <2>1, FS_Bijection, FS_CountingElements
<1>8. Elements(head) \subseteq Elements(line) /\ Elements(head) \subseteq T
  BY <1>1, <1>4 DEF Elements
<1>9. Elements(rest) \subseteq Elements(line) /\ Distinct(rest)
  <2>1. \A i \in DOMAIN rest : n + i \in DOMAIN line /\ rest[i] = line[n + i]
    BY <1>1, <1>3
  <2> HIDE DEF rest
  <2>2. Elements(rest) \subseteq Elements(line)
    BY <2>1 DEF Elements
  <2>3. ASSUME NEW i \in DOMAIN rest, NEW j \in DOMAIN rest, rest[i] = rest[j] PROVE i = j
    <3>1. n + i = n + j
      BY <2>1, <2>3, Zenon DEF Distinct
    <3>2. QED
      BY <1>1, <1>3, <3>1
  <2>4. QED
    BY <2>2, <2>3, Zenon DEF Distinct
<1>10. Elements(rest) \cap Elements(head) = {}
  <2>1. \A i \in 1..Len(line)-n, j \in 1..n : rest[i] # line[j]
    BY <1>1, <1>3 DEF Distinct
  <2>2. QED
    BY <1>3, <1>4, <2>1 DEF Elements
<1>11. QED
  BY <1>3, <1>7, <1>8, <1>9, <1>10

\* A call that is neither queued nor running goes to the end of its line.
LEMMA Appending ==
    ASSUME NEW T, NEW line \in Seq(T), Distinct(line), NEW c \in T, c \notin Elements(line)
    PROVE  /\ Append(line, c) \in Seq(T) /\ Distinct(Append(line, c))
           /\ Elements(Append(line, c)) = Elements(line) \cup {c}
<1> DEFINE new == Append(line, c)
<1>1. /\ Len(line) \in Nat /\ DOMAIN line = 1..Len(line)
      /\ new \in Seq(T) /\ DOMAIN new = 1..Len(line)+1
      /\ \A i \in 1..Len(line) : new[i] = line[i]
      /\ new[Len(line)+1] = c
  OBVIOUS
<1>2. Distinct(new)
  BY <1>1 DEF Distinct, Elements
<1>3. Elements(new) = Elements(line) \cup {c}
  BY <1>1 DEF Elements
<1>4. QED
  BY <1>1, <1>2, <1>3
\* Sets that are apart are counted one by one.
LEMMA ApartSum ==
    ASSUME NEW S, NEW T, IsFiniteSet(S), IsFiniteSet(T), S \cap T = {}
    PROVE  IsFiniteSet(S \cup T) /\ Cardinality(S \cup T) = Cardinality(S) + Cardinality(T)
<1>1. Cardinality(S \cap T) = 0 /\ Cardinality(S) \in Nat /\ Cardinality(T) \in Nat
  BY FS_EmptySet, FS_CardinalityType
<1>2. /\ IsFiniteSet(S \cup T)
      /\ Cardinality(S \cup T) = Cardinality(S) + Cardinality(T) - Cardinality(S \cap T)
  BY FS_Union
<1>3. QED
  BY <1>1, <1>2
-----------------------------------------------------------------------------
(* The pump *)

\* pump keeps both limits and counts what it starts.
LEMMA PumpKeeps ==
    ASSUME NEW fg, NEW bg, NEW act, NEW bgAct, NEW run,
           Sound(fg, bg, act, bgAct, run), Pump(fg, bg, act, bgAct, run)
    PROVE  QueueInv'
<1> DEFINE n == Least(Concurrency - act, Len(fg))
           m == IF n < Len(fg) THEN 0
                ELSE Least(BackgroundRoom(Concurrency - act - n, bgAct), Len(bg))
           A == Elements(SubSeq(fg, 1, n))
           B == Elements(SubSeq(bg, 1, m))
<1>1. /\ act \in Nat /\ bgAct \in Nat /\ IsFiniteSet(run \cap Background)
      /\ Concurrency \in Nat /\ BackgroundConcurrency \in Nat
      /\ Len(fg) \in Nat /\ Len(bg) \in Nat
  <2>1. IsFiniteSet(run \cap Background)
    BY FS_Intersection DEF Sound
  <2>2. QED
    BY <2>1, FS_CardinalityType, QueueAssumption DEF Sound
<1>2. n \in 0..Len(fg) /\ act + n <= Concurrency
  <2>1. Concurrency - act \in Nat
    BY <1>1 DEF Sound
  <2>2. QED
    BY <1>1, <2>1, LeastIsLeast
<1>3. m \in 0..Len(bg) /\ act + n + m <= Concurrency /\ bgAct + m <= BackgroundConcurrency
  <2>1. /\ Concurrency - act - n \in Nat /\ BackgroundConcurrency - bgAct \in Nat
    BY <1>1, <1>2 DEF Sound
  <2>2. CASE n < Len(fg)
    BY <1>1, <1>2, <2>1, <2>2
  <2>3. CASE ~(n < Len(fg))
    <3> DEFINE room == BackgroundRoom(Concurrency - act - n, bgAct)
    <3>1. /\ room \in Nat /\ room <= Concurrency - act - n
          /\ room <= BackgroundConcurrency - bgAct
      BY <2>1, LeastIsLeast DEF BackgroundRoom
    <3>2. m = Least(room, Len(bg))
      BY <2>3
    <3>3. m \in Nat /\ m <= room /\ m <= Len(bg)
      <4> HIDE DEF room, m
      <4>1. QED
        BY <1>1, <3>1, <3>2, LeastIsLeast
    <3> HIDE DEF room, m, n
    <3>4. QED
      BY <1>1, <1>2, <2>1, <3>1, <3>3
  <2>4. QED
    BY <2>2, <2>3
<1> HIDE DEF n, m
<1>4. /\ foreground' = SubSeq(fg, n + 1, Len(fg)) /\ background' = SubSeq(bg, m + 1, Len(bg))
      /\ active' = act + n + m /\ backgroundActive' = bgAct + m
      /\ running' = run \cup A \cup B
  BY DEF Pump, n, m
<1>5. /\ A \subseteq Elements(fg) /\ A \subseteq Call \ Background
      /\ IsFiniteSet(A) /\ Cardinality(A) = n
      /\ foreground' \in Seq(Call \ Background) /\ Distinct(foreground')
      /\ Elements(foreground') \subseteq Elements(fg) /\ Elements(foreground') \cap A = {}
  BY <1>2, <1>4, Taken DEF Sound
<1>6. /\ B \subseteq Elements(bg) /\ B \subseteq Background
      /\ IsFiniteSet(B) /\ Cardinality(B) = m
      /\ background' \in Seq(Background) /\ Distinct(background')
      /\ Elements(background') \subseteq Elements(bg) /\ Elements(background') \cap B = {}
  BY <1>3, <1>4, Taken DEF Sound
<1> HIDE DEF A, B
<1>7. Elements(fg) \subseteq Call \ Background /\ Elements(bg) \subseteq Background
  BY DEF Sound, Elements
<1>8. IsFiniteSet(running') /\ Cardinality(running') = act + n + m
  <2>1. run \cap A = {} /\ (run \cup A) \cap B = {}
    BY <1>5, <1>6, <1>7 DEF Sound
  <2>2. IsFiniteSet(run \cup A) /\ Cardinality(run \cup A) = act + n
    BY <1>1, <1>2, <1>5, <2>1, ApartSum DEF Sound
  <2>3. /\ IsFiniteSet((run \cup A) \cup B)
        /\ Cardinality((run \cup A) \cup B) = act + n + m
    BY <1>6, <2>1, <2>2, ApartSum
  <2>4. QED
    BY <1>4, <2>3
<1>9. Cardinality(running' \cap Background) = bgAct + m
  <2>1. /\ running' \cap Background = (run \cap Background) \cup B
        /\ (run \cap Background) \cap B = {}
    BY <1>4, <1>5, <1>6, <1>7 DEF Sound
  <2>2. QED
    BY <1>1, <1>6, <2>1, ApartSum DEF Sound
<1>10. /\ running' \subseteq Call
       /\ Elements(foreground') \cap running' = {} /\ Elements(background') \cap running' = {}
  BY <1>4, <1>5, <1>6, <1>7, CallAssumption DEF Sound
<1>11. QED
  BY <1>3, <1>4, <1>5, <1>6, <1>8, <1>9, <1>10 DEF QueueInv, Sound

LEMMA EnqueueKeeps ==
    ASSUME QueueInv, NEW c \in Call, Enqueue(c)
    PROVE  QueueInv'
<1>1. c \notin Elements(foreground) /\ c \notin Elements(background) /\ c \notin running
  BY DEF Enqueue, Queued
<1>2. CASE c \in Background
  <2>1. Sound(foreground, Append(background, c), active, backgroundActive, running)
    BY <1>1, <1>2, Appending DEF QueueInv, Sound
  <2>2. QED
    BY <1>2, <2>1, PumpKeeps DEF Enqueue
<1>3. CASE c \notin Background
  <2>1. Sound(Append(foreground, c), background, active, backgroundActive, running)
    BY <1>1, <1>3, Appending DEF QueueInv, Sound
  <2>2. QED
    BY <1>3, <2>1, PumpKeeps DEF Enqueue
<1>4. QED
  BY <1>2, <1>3

\* The finally of several calls gives back as many slots as there are calls.
LEMMA SettleKeeps ==
    ASSUME QueueInv, NEW S, Settle(S)
    PROVE  QueueInv'
<1> DEFINE act == active - Cardinality(S)
           bgAct == backgroundActive - Cardinality(S \cap Background)
<1>1. S \subseteq running /\ IsFiniteSet(running) /\ IsFiniteSet(running \cap Background)
  BY FS_Intersection DEF Settle, QueueInv, Sound
<1>2. Cardinality(running \ S) = act /\ IsFiniteSet(running \ S)
  <2>1. running \cap S = S
    BY <1>1
  <2>2. QED
    BY <1>1, <2>1, FS_Difference DEF QueueInv, Sound
<1>3. Cardinality((running \ S) \cap Background) = bgAct
  <2>1. /\ (running \ S) \cap Background = (running \cap Background) \ (S \cap Background)
        /\ (running \cap Background) \cap (S \cap Background) = S \cap Background
    BY <1>1
  <2>2. Cardinality((running \cap Background) \ (S \cap Background))
          = Cardinality(running \cap Background)
            - Cardinality((running \cap Background) \cap (S \cap Background))
    BY <1>1, FS_Difference
  <2>3. QED
    BY <2>1, <2>2 DEF QueueInv, Sound
<1>4. act <= Concurrency /\ bgAct <= BackgroundConcurrency
  <2>1. /\ Cardinality(S) \in Nat /\ Cardinality(S \cap Background) \in Nat
        /\ Cardinality(running) \in Nat /\ Cardinality(running \cap Background) \in Nat
    <3>1. IsFiniteSet(S) /\ IsFiniteSet(S \cap Background)
      BY <1>1, FS_Subset, FS_Intersection
    <3>2. QED
      BY <1>1, <3>1, FS_CardinalityType
  <2>2. QED
    BY <2>1, QueueAssumption DEF QueueInv, Sound
<1>5. Sound(foreground, background, act, bgAct, running \ S)
  <2>1. /\ Elements(foreground) \cap (running \ S) = {}
        /\ Elements(background) \cap (running \ S) = {}
    BY DEF QueueInv, Sound
  <2> HIDE DEF act, bgAct
  <2>2. QED
    BY <1>2, <1>3, <1>4, <2>1 DEF QueueInv, Sound
<1>6. QED
  BY <1>5, PumpKeeps DEF Settle
-----------------------------------------------------------------------------
LEMMA QueueStarts == QueueInit => QueueInv
<1> SUFFICES ASSUME QueueInit PROVE QueueInv
  OBVIOUS
<1>1. /\ foreground \in Seq(Call \ Background) /\ background \in Seq(Background)
      /\ Elements(foreground) = {} /\ Elements(background) = {}
      /\ Distinct(foreground) /\ Distinct(background)
  BY DEF QueueInit, Elements, Distinct
<1>2. running = {} /\ running \cap Background = {} /\ IsFiniteSet({}) /\ Cardinality({}) = 0
  BY FS_EmptySet DEF QueueInit
<1>3. QED
  BY <1>1, <1>2, QueueAssumption DEF QueueInit, QueueInv, Sound

LEMMA QueueStep == QueueInv /\ [QueueNext]_queueVars => QueueInv'
<1> SUFFICES ASSUME QueueInv, [QueueNext]_queueVars PROVE QueueInv'
  OBVIOUS
<1>1. CASE \E c \in Call : Enqueue(c)
  BY <1>1, EnqueueKeeps
<1>2. CASE \E S \in SUBSET running : Settle(S)
  BY <1>2, SettleKeeps
<1>3. CASE UNCHANGED queueVars
  BY <1>3 DEF queueVars, QueueInv
<1>4. QED
  BY <1>1, <1>2, <1>3 DEF QueueNext

LEMMA QueueImplies == QueueInv => SlotsMatch /\ QueueTypeOK
<1> SUFFICES ASSUME QueueInv PROVE SlotsMatch /\ QueueTypeOK
  OBVIOUS
<1>1. IsFiniteSet(running \cap Background)
  BY FS_Intersection DEF QueueInv, Sound
<1>2. active \in Nat /\ backgroundActive \in Nat
  BY <1>1, FS_CardinalityType DEF QueueInv, Sound
<1>3. QED
  BY <1>2 DEF QueueInv, Sound, SlotsMatch, QueueTypeOK

\* The counters of the queue are the calls that run, within both limits, for any
\* number of calls, slots and errors (pump, and the finally of a call).
THEOREM QueueSlotsMatch == QueueSpec => []SlotsMatch
<1>1. QED
  BY QueueStarts, QueueStep, QueueImplies, PTL DEF QueueSpec
=============================================================================
