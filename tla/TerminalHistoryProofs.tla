------------------------ MODULE TerminalHistoryProofs ------------------------
(***************************************************************************)
(* Safety of TerminalHistory, for any number of lives, records, takes and  *)
(* faults.  Three arguments share one typing:                              *)
(*   - nothing twice: what is on disk ends before what the daemon still    *)
(*     has, and a log continues a checkpoint only if it is younger;        *)
(*   - no hole: a batch on disk with the number of the last take ends      *)
(*     where the pending output begins;                                    *)
(*   - a quit: its pass takes everything of the life that is still there.  *)
(***************************************************************************)
EXTENDS TerminalHistory, SequenceTheorems, TLAPS

BatchShape == [seq : Nat, life : Nat, lo : Nat \ {0}, hi : Nat]
LogShape == [state : {"none", "ok", "spoiled", "garbage"}, gen : Nat,
             batches : Seq(BatchShape), torn : BOOLEAN]
CkptShape == [kind : {"checkpoint"}, gen : Nat, life : Nat, lo : Nat \ {0}, hi : Nat]
PassShape == [at : {"idle", "asked", "taken", "header", "append", "rename", "reset"},
              full : BOOLEAN, anchor : BOOLEAN, quit : BOOLEAN, own : BOOLEAN,
              gen : Nat, seq : Nat, life : Nat, lo : Nat \ {0}, hi : Nat, over : BOOLEAN]
SpawnShape == [at : {"idle", "asked", "answered"}, restore : BOOLEAN, new : BOOLEAN]

\* The daemon: what is pending of a life was produced by it.
CountsTyped ==
    /\ life \in 0..MaxLives /\ seq \in 0..MaxTakes
    /\ made \in 0..MaxOutput /\ first \in 0..made
    /\ pending \in 0..made /\ pending <= PendingCap
FlagsTyped == alive \in BOOLEAN /\ ending \in BOOLEAN /\ overflow \in BOOLEAN
DaemonTyped == CountsTyped /\ FlagsTyped

EventsTyped ==
    /\ exits \in Nat /\ faults \in 0..MaxFaults
    /\ up \in BOOLEAN /\ killed \in BOOLEAN

DiskTyped ==
    /\ meta \in {"none", "open", "ended"}
    /\ ckpt \in {None} \cup CkptShape
    /\ log \in LogShape

\* The main process: a pass that writes for the registered writer knows its
\* columns, and no pass outlives the process.
WriterShape == {None, Unresolved} \cup Writer
PassTyped ==
    /\ spawn \in SpawnShape
    /\ writer \in WriterShape
    /\ pass \in PassShape
    /\ pass.own => writer \in Writer
    /\ ~up => pass.at = "idle"
    /\ pass.at = "idle" => ~pass.own /\ ~pass.quit
SetsTyped ==
    /\ active \in BOOLEAN /\ dirty \in BOOLEAN /\ needFull \in BOOLEAN /\ cached \in BOOLEAN
    /\ disabled \in BOOLEAN
MainTyped == PassTyped /\ SetsTyped

Typed == DaemonTyped /\ EventsTyped /\ DiskTyped /\ MainTyped

InFlight == pass.at \notin {"idle", "asked"}
Writing == pass.at \in {"header", "append", "rename", "reset"}
Batches == {log.batches[i] : i \in 1..Len(log.batches)}

\* What a pass writes depends on what it took.
PassPath ==
    /\ pass.at \in {"header", "append"} => ~pass.full /\ ~pass.over /\ pass.lo <= pass.hi
    /\ pass.at \in {"rename", "reset"} => pass.full

\* All that was taken comes before all that is pending.
TakenFirst ==
    /\ InFlight => pass.hi <= made - pending
    /\ ckpt # None => ckpt.hi <= made - pending
    /\ \A b \in Batches : b.hi <= made - pending

\* Increments are appended in the order in which they were taken.
InOrder ==
    /\ InFlight /\ ~pass.full =>
          /\ \A b \in Batches : b.hi < pass.lo
          /\ ckpt # None => ckpt.hi < pass.lo
    /\ \A i, j \in 1..Len(log.batches) : i < j => log.batches[i].hi < log.batches[j].lo

\* A log of a checkpoint's generation is younger than the checkpoint.
Younger ==
    ckpt # None /\ log.state = "ok" /\ log.gen = ckpt.gen => \A b \in Batches : ckpt.hi < b.lo

\* The generations that the writer, the pass and the log have in mind.
Generations ==
    /\ pass.at = "rename" /\ log.state = "ok" => log.gen < pass.gen
    /\ writer \in Writer /\ log.state = "ok" => log.gen <= writer.gen
    /\ pass.own /\ pass.at \in {"header", "append"} => writer.gen = pass.gen
    /\ pass.own /\ pass.at \in {"rename", "reset"} => pass.gen = writer.gen + 1
    /\ Writing /\ ~pass.own => writer \notin Writer

TwiceInv == Typed /\ PassPath /\ TakenFirst /\ InOrder /\ Younger /\ Generations

\* Whose takes are on disk and on their way.
TakesCounted ==
    /\ \A b \in Batches : b.life <= life /\ b.seq >= 1 /\ (alive /\ b.life = life => b.seq <= seq)
    /\ InFlight => pass.life <= life /\ pass.seq >= 1 /\ (alive /\ pass.life = life => pass.seq <= seq)

\* The last take of the session ends where the pending output begins; a torn log
\* may have a part of it only.
LastTake ==
    alive /\ ~overflow =>
        /\ InFlight /\ pass.life = life /\ pass.seq = seq => pass.hi = made - pending
        /\ ~log.torn => \A b \in Batches : b.life = life /\ b.seq = seq => b.hi = made - pending

\* A take begins where the take before it ended; nothing is decoded behind a torn
\* batch.
Adjacent ==
    /\ InFlight /\ ~pass.full /\ ~pass.over /\ ~log.torn =>
          \A b \in Batches : b.life = pass.life /\ pass.seq = b.seq + 1 => pass.lo = b.hi + 1
    /\ \A i, j \in 1..Len(log.batches) :
          /\ i < j
          /\ log.batches[j].life = log.batches[i].life
          /\ log.batches[j].seq = log.batches[i].seq + 1
          => log.batches[j].lo = log.batches[i].hi + 1

GapInv == Typed /\ PassPath /\ TakesCounted /\ LastTake /\ Adjacent

\* The pass of a quit takes everything, and nothing is spawned meanwhile.
QuitPass ==
    pass.quit =>
        /\ pass.full /\ spawn.at = "idle"
        /\ InFlight /\ alive => pass.life = life /\ pass.seq = seq /\ pass.lo = first + 1
        /\ pass.at = "reset" => ckpt # None /\ ckpt.life = pass.life /\ ckpt.lo = pass.lo
                                /\ ckpt.hi = pass.hi

QuitInv == GapInv /\ QuitPass
-----------------------------------------------------------------------------
(* Typing *)

LEMMA Shapes ==
    /\ NoPass \in PassShape /\ NoSpawn \in SpawnShape /\ NoLog \in LogShape
    /\ None \notin Writer /\ Unresolved \notin Writer /\ None # Unresolved /\ None \notin CkptShape
    /\ NoPass.at = "idle" /\ ~NoPass.own /\ ~NoPass.quit
<1>1. NoPass \in PassShape /\ NoPass.at = "idle" /\ ~NoPass.own /\ ~NoPass.quit
  BY DEF NoPass, PassShape
<1>2. NoSpawn \in SpawnShape
  BY DEF NoSpawn, SpawnShape
<1>3. NoLog \in LogShape
  BY DEF NoLog, LogShape
<1>4. None \notin Writer /\ Unresolved \notin Writer /\ None # Unresolved
  BY DEF None, Unresolved, Writer
<1>5. None \notin CkptShape
  BY DEF None, CkptShape
<1> QED
  BY <1>1, <1>2, <1>3, <1>4, <1>5

LEMMA HistoryInitTyped == Init => Typed
<1> SUFFICES ASSUME Init PROVE Typed
  OBVIOUS
<1>1. CountsTyped /\ exits \in Nat /\ faults \in 0..MaxFaults
  BY HistoryAssumption DEF Init, CountsTyped
<1>2. FlagsTyped /\ SetsTyped /\ up \in BOOLEAN /\ killed \in BOOLEAN
  BY Zenon DEF Init, FlagsTyped, SetsTyped
<1>3. PassTyped
  BY Shapes DEF Init, PassTyped, WriterShape
<1>4. DiskTyped
  BY Shapes DEF Init, DiskTyped
<1> QED
  BY <1>1, <1>2, <1>3, <1>4 DEF Typed, DaemonTyped, EventsTyped, MainTyped

LEMMA CountsStep ==
    ASSUME CountsTyped,
           UNCHANGED daemonVars \/ Output \/ Gone \/ CreateOrAttach \/ TakePending
             \/ UNCHANGED <<life, first, made, pending, seq>>
    PROVE  CountsTyped'
<1> USE HistoryAssumption DEF CountsTyped
<1>1. CASE UNCHANGED <<life, first, made, pending, seq>> \/ UNCHANGED daemonVars
  BY <1>1 DEF daemonVars
<1>2. CASE Output
  <2>1. /\ made' = made + 1 /\ made < MaxOutput /\ UNCHANGED <<life, first, seq>>
        /\ pending' = pending \/ pending' = 0
             \/ (pending' = pending + 1 /\ ~(pending + 1 > PendingCap))
    BY <1>2, Zenon DEF Output
  <2> QED
    BY <2>1
<1>3. CASE Gone
  <2>1. first' = made /\ pending' = 0 /\ seq' = 0 /\ life' = life /\ made' = made
    BY <1>3 DEF Gone
  <2> QED
    BY <2>1
<1>4. CASE CreateOrAttach
  <2>1. \/ UNCHANGED daemonVars
        \/ /\ life < MaxLives /\ life' = life + 1
           /\ first' = made /\ pending' = 0 /\ seq' = 0 /\ made' = made
    BY <1>4, Zenon DEF CreateOrAttach
  <2> QED
    BY <1>1, <2>1
<1>5. CASE TakePending
  <2>1. \/ UNCHANGED daemonVars
        \/ /\ seq < MaxTakes /\ seq' = seq + 1 /\ pending' = 0
           /\ UNCHANGED <<life, first, made>>
    BY <1>5 DEF TakePending
  <2> QED
    BY <1>1, <2>1
<1> QED
  BY <1>1, <1>2, <1>3, <1>4, <1>5

LEMMA FlagsStep ==
    ASSUME FlagsTyped,
           UNCHANGED daemonVars \/ Output \/ Gone \/ CreateOrAttach \/ TakePending
             \/ (UNCHANGED <<alive, overflow>> /\ ending' = TRUE)
    PROVE  FlagsTyped'
  BY Zenon DEF FlagsTyped, daemonVars, Output, Gone, CreateOrAttach, TakePending

LEMMA DaemonStep == DaemonTyped /\ [Next]_vars => DaemonTyped'
<1> SUFFICES ASSUME DaemonTyped, [Next]_vars PROVE DaemonTyped'
  OBVIOUS
<1>1. CASE UNCHANGED daemonVars \/ Output \/ Gone \/ CreateOrAttach \/ TakePending
  BY <1>1, CountsStep, FlagsStep, Zenon DEF DaemonTyped
<1>2. CASE \E keepHistory \in BOOLEAN : Shutdown(keepHistory)
  <2>1. UNCHANGED <<life, first, made, pending, seq>>
    BY <1>2 DEF Shutdown
  <2>2. UNCHANGED <<alive, overflow>> /\ ending' = TRUE
    BY <1>2 DEF Shutdown
  <2> QED
    BY <2>1, <2>2, CountsStep, FlagsStep, Zenon DEF DaemonTyped
<1>3. CASE SessionExit \/ DaemonCrash \/ PowerLoss
  BY <1>1, <1>3, Zenon DEF SessionExit, DaemonCrash, PowerLoss
<1>4. CASE \/ SpawnStart \/ SpawnDone \/ AckColdRestore \/ MarkSessionDirty \/ ExitEvent
           \/ Tick \/ Quit \/ Persist \/ WriteFails \/ WriteHeader \/ AppendBatch \/ RenameTmp
           \/ ResetLog \/ LoseTake \/ MainCrash \/ Launch \/ UNCHANGED vars
  <2>1. UNCHANGED daemonVars
    BY <1>4, Zenon DEF SpawnStart, SpawnDone, AckColdRestore, MarkSessionDirty, ExitEvent,
       Tick, Quit, Persist, WriteFails, WriteHeader, AppendBatch, RenameTmp, ResetLog, LoseTake,
       MainCrash, Launch, vars, daemonVars
  <2> QED
    BY <1>1, <2>1
<1> QED
  BY <1>1, <1>2, <1>3, <1>4, Zenon DEF Next, SessionNext, AdapterNext, PassNext, FaultNext

\* A pass is under way only while the process runs.
LEMMA PassIsUp ==
    ASSUME PassTyped, pass.at # "idle"
    PROVE  up
  BY Shapes DEF PassTyped

\* The end of a pass, and another step of it.
LEMMA PassEnds ==
    ASSUME NEW w, NEW d, EndPass(w, d)
    PROVE  /\ pass' = NoPass
           /\ (spawn' = NoSpawn /\ writer' = None) \/ (spawn' = spawn /\ writer' = w)
           /\ exits' = 0 \/ exits' = exits
           /\ SetsTyped /\ d \in BOOLEAN => SetsTyped'
           /\ up \in BOOLEAN /\ killed \in BOOLEAN => up' \in BOOLEAN /\ killed' \in BOOLEAN
<1>1. CASE Forget
  <2>1. /\ pass' = NoPass /\ spawn' = NoSpawn /\ writer' = None /\ exits' = 0
        /\ up' = FALSE /\ killed' = FALSE
    BY <1>1 DEF Forget
  <2>2. /\ active' = FALSE /\ dirty' = FALSE /\ needFull' = FALSE /\ cached' = FALSE
        /\ disabled' = FALSE
    BY <1>1 DEF Forget
  <2>3. SetsTyped'
    BY <2>2 DEF SetsTyped
  <2>4. up' \in BOOLEAN /\ killed' \in BOOLEAN
    BY <2>1
  <2> QED
    BY <2>1, <2>3, <2>4
<1>2. CASE ~pass.quit
  <2>1. /\ pass' = NoPass /\ writer' = w /\ disabled' = d
        /\ needFull' = (needFull /\ ~pass.anchor)
        /\ UNCHANGED <<up, killed, spawn, active, dirty, cached, exits>>
    BY <1>2, Zenon DEF EndPass
  <2> QED
    BY <2>1, Zenon DEF SetsTyped
<1> QED
  BY <1>1, <1>2, Zenon DEF EndPass

LEMMA PassEndsTyped ==
    ASSUME PassTyped, NEW w \in WriterShape, pass' = NoPass,
           (spawn' = NoSpawn /\ writer' = None) \/ (spawn' = spawn /\ writer' = w)
    PROVE  PassTyped'
  BY Shapes DEF PassTyped, WriterShape

LEMMA PassContinues ==
    ASSUME PassTyped, pass.at # "idle", NEW w \in WriterShape, NEW p \in PassShape,
           p.own => w \in Writer, p.at # "idle", Continue(p, w)
    PROVE  PassTyped'
<1>1. up /\ pass' = p /\ writer' = w /\ up' = up /\ spawn' = spawn
  BY PassIsUp DEF Continue
<1> QED
  BY <1>1 DEF PassTyped

\* What resolveLogState finds.
LEMMA ResolvedIsWriter ==
    ASSUME DiskTyped, writer \in WriterShape, writer # None
    PROVE  Resolved \in Writer
<1>1. log.gen \in Nat /\ Len(log.batches) \in Nat
  BY DEF DiskTyped, LogShape
<1>2. ckpt # None => ckpt.gen \in Nat
  BY DEF DiskTyped, CkptShape
<1>3. CASE writer # Unresolved
  BY <1>3 DEF Resolved, WriterShape
<1>4. CASE writer = Unresolved
  <2>1. PICK g \in Nat, n \in Nat : Resolved = [Unresolved EXCEPT !.gen = g, !.bytes = n]
    <3>1. CASE log.state \in {"ok", "spoiled"}
      <4>1. Resolved = [Unresolved EXCEPT !.gen = log.gen, !.bytes = Len(log.batches) + 1]
        BY <1>4, <3>1 DEF Resolved
      <4>2. Len(log.batches) + 1 \in Nat
        BY <1>1
      <4> QED
        BY <1>1, <4>1, <4>2
    <3>2. CASE log.state \notin {"ok", "spoiled"}
      <4>1. (IF ckpt = None THEN 0 ELSE ckpt.gen) \in Nat
        BY <1>2
      <4> QED
        BY <1>4, <3>2, <4>1 DEF Resolved
    <3> QED
      BY <3>1, <3>2
  <2> QED
    BY <2>1 DEF Unresolved, Writer
<1> QED
  BY <1>3, <1>4

LEMMA AppendedShape ==
    ASSUME log \in LogShape, NEW b \in BatchShape, NEW l \in Appended(b)
    PROVE  /\ l \in LogShape
           /\ l.gen \in {log.gen, 0}
           /\ \/ l.batches = log.batches
              \/ l.batches = <<>>
              \/ log.state = "ok" /\ l = [log EXCEPT !.batches = Append(log.batches, b)]
           /\ l.state = "ok" => log.state = "ok" /\ l.gen = log.gen
           /\ log.torn => /\ l.torn \/ l.batches = <<>>
                          /\ l.batches \in {log.batches, <<>>}
<1>1. log.batches \in Seq(BatchShape) /\ Append(log.batches, b) \in Seq(BatchShape)
  BY DEF LogShape
<1>2. /\ log.state \in {"none", "ok", "spoiled", "garbage"} /\ log.gen \in Nat /\ log.torn \in BOOLEAN
      /\ log = [state |-> log.state, gen |-> log.gen, batches |-> log.batches, torn |-> log.torn]
  BY DEF LogShape
<1>3. CASE log.state = "ok" /\ ~log.torn
  <2>1. l = [log EXCEPT !.batches = Append(log.batches, b)]
    BY <1>3 DEF Appended
  <2> QED
    BY <1>1, <1>2, <1>3, <2>1 DEF LogShape
<1>4. CASE log.state = "ok" /\ log.torn
  <2>1. l = log \/ l = [log EXCEPT !.state = "spoiled"]
    BY <1>4 DEF Appended
  <2> QED
    BY <1>1, <1>2, <1>4, <2>1 DEF LogShape
<1>5. CASE log.state = "none"
  <2>1. l = [NoLog EXCEPT !.state = "garbage"]
    BY <1>5 DEF Appended
  <2>2. l = [state |-> "garbage", gen |-> 0, batches |-> <<>>, torn |-> FALSE]
    BY <2>1 DEF NoLog
  <2>3. l \in LogShape
    BY <2>2 DEF LogShape
  <2> QED
    BY <1>5, <2>2, <2>3
<1>6. CASE log.state \in {"spoiled", "garbage"}
  <2>1. l = log
    BY <1>6 DEF Appended
  <2> QED
    BY <1>6, <2>1
<1> QED
  BY <1>2, <1>3, <1>4, <1>5, <1>6

\* Snapshots and batches that a step writes are what its pass took.
LEMMA BatchIsShaped ==
    ASSUME pass \in PassShape
    PROVE  /\ Batch \in BatchShape
           /\ \A hi \in pass.lo-1 .. pass.hi :
                 /\ [Batch EXCEPT !.hi = hi] \in BatchShape
                 /\ [Batch EXCEPT !.hi = hi] = [seq |-> pass.seq, life |-> pass.life, lo |-> pass.lo,
                                                hi |-> hi]
<1>1. pass.seq \in Nat /\ pass.life \in Nat /\ pass.lo \in Nat \ {0} /\ pass.hi \in Nat
  BY DEF PassShape
<1>2. \A hi : [Batch EXCEPT !.hi = hi] = [seq |-> pass.seq, life |-> pass.life, lo |-> pass.lo,
                                         hi |-> hi]
  BY DEF Batch
<1>3. \A hi \in pass.lo-1 .. pass.hi : hi \in Nat
  BY <1>1
<1> QED
  BY <1>1, <1>2, <1>3 DEF Batch, BatchShape

\* A log that was just begun.
LEMMA HeaderShape ==
    ASSUME NEW gen \in Nat
    PROVE  /\ Header(gen) \in LogShape
           /\ Header(gen).state = "ok" /\ Header(gen).gen = gen
           /\ Header(gen).batches = <<>> /\ ~Header(gen).torn
<1>1. Header(gen) \in LogShape
  BY Shapes DEF Header, LogShape
<1> QED
  BY <1>1 DEF Header, NoLog

\* What any step can do to the log and to the checkpoint.
LEMMA DiskStep == DiskTyped /\ pass \in PassShape /\ [Next]_vars => DiskTyped'
<1> SUFFICES ASSUME DiskTyped, pass \in PassShape, [Next]_vars PROVE DiskTyped'
  OBVIOUS
<1>1. CASE UNCHANGED diskVars
  BY <1>1 DEF diskVars, DiskTyped
<1>2. CASE meta' = "open" /\ ckpt' = None /\ log' = NoLog
  BY <1>2, Shapes DEF DiskTyped
<1>3. CASE SpawnDone
  BY <1>1, <1>2, <1>3, Zenon DEF SpawnDone, OpenSession
<1>4. CASE ExitEvent
  <2>1. (meta' = "ended" \/ meta' = meta) /\ UNCHANGED <<ckpt, log>>
    BY <1>4 DEF ExitEvent
  <2>2. CASE meta' = meta
    BY <2>1, <2>2 DEF DiskTyped
  <2>3. CASE meta' = "ended"
    BY <2>1, <2>3 DEF DiskTyped
  <2> QED
    BY <2>1, <2>2, <2>3
<1>5. ASSUME NEW keepHistory \in BOOLEAN, Shutdown(keepHistory) PROVE DiskTyped'
  <2>1. UNCHANGED diskVars \/ (meta' = "none" /\ ckpt' = None /\ log' = NoLog)
    BY <1>5, Zenon DEF Shutdown
  <2> QED
    BY <1>1, <2>1, Shapes DEF DiskTyped
<1>6. ASSUME NEW gen \in Nat, log' = Header(gen), UNCHANGED <<meta, ckpt>> PROVE DiskTyped'
  BY <1>6, HeaderShape DEF DiskTyped
<1>7. CASE WriteHeader \/ ResetLog
  BY <1>6, <1>7 DEF WriteHeader, ResetLog, PassShape
<1>8. CASE AppendBatch
  BY <1>8, BatchIsShaped, AppendedShape DEF AppendBatch, DiskTyped
<1>9. CASE RenameTmp
  <2>1. [kind |-> "checkpoint", gen |-> pass.gen, life |-> pass.life,
         lo |-> pass.lo, hi |-> pass.hi] \in CkptShape
    BY DEF CkptShape, PassShape
  <2> QED
    BY <1>9, <2>1 DEF RenameTmp, DiskTyped
<1>10. CASE MainCrash \/ PowerLoss
  <2>1. UNCHANGED <<meta, ckpt>> /\ MayTear
    BY <1>10 DEF MainCrash, PowerLoss
  <2>2. CASE log' = log
    BY <2>1, <2>2 DEF DiskTyped
  <2>3. ASSUME NEW hi \in pass.lo-1 .. pass.hi, NEW new \in Appended([Batch EXCEPT !.hi = hi]),
               log' = [new EXCEPT !.torn = TRUE]
        PROVE  DiskTyped'
    <3>1. new \in LogShape
      BY <2>3, BatchIsShaped, AppendedShape DEF DiskTyped
    <3>2. log' \in LogShape
      BY <2>3, <3>1 DEF LogShape
    <3> QED
      BY <2>1, <3>2 DEF DiskTyped
  <2> QED
    BY <2>1, <2>2, <2>3 DEF MayTear
<1>11. CASE \/ Output \/ SessionExit \/ CreateOrAttach \/ SpawnStart \/ AckColdRestore
            \/ MarkSessionDirty \/ Tick \/ Quit \/ TakePending \/ Persist \/ WriteFails
            \/ LoseTake \/ DaemonCrash \/ Launch \/ UNCHANGED vars
  <2>1. UNCHANGED diskVars
    BY <1>11, Zenon DEF Output, SessionExit, CreateOrAttach, SpawnStart, AckColdRestore,
       MarkSessionDirty, Tick, Quit, TakePending, Persist, WriteFails, LoseTake, DaemonCrash,
       Launch, vars, diskVars
  <2> QED
    BY <1>1, <2>1
<1> QED
  BY <1>3, <1>4, <1>5, <1>7, <1>8, <1>9, <1>10, <1>11, Zenon DEF Next, SessionNext, AdapterNext,
     PassNext, FaultNext

\* The flags of the main process.
LEMMA ForgetClears ==
    ASSUME Forget
    PROVE  SetsTyped' /\ up' \in BOOLEAN /\ killed' \in BOOLEAN
  BY DEF Forget, SetsTyped

LEMMA SetsStep ==
    ASSUME SetsTyped, up \in BOOLEAN, killed \in BOOLEAN, [Next]_vars
    PROVE  SetsTyped' /\ up' \in BOOLEAN /\ killed' \in BOOLEAN
<1> DEFINE Goal == SetsTyped' /\ up' \in BOOLEAN /\ killed' \in BOOLEAN
<1> SUFFICES Goal
  OBVIOUS
<1>1. CASE UNCHANGED <<up, killed, active, dirty, needFull, cached, disabled>>
  BY <1>1 DEF SetsTyped
<1>2. CASE Forget
  BY <1>2, ForgetClears
<1>3. ASSUME NEW w, NEW d \in BOOLEAN, EndPass(w, d) PROVE Goal
  BY <1>3, PassEnds
<1>4. ASSUME NEW w, NEW p, Continue(p, w) PROVE Goal
  BY <1>1, <1>4 DEF Continue
<1> HIDE DEF Goal
<1>5. disabled \in BOOLEAN /\ TRUE \in BOOLEAN
  BY DEF SetsTyped
<1>6. CASE \/ TakePending \/ Persist \/ WriteFails \/ WriteHeader \/ AppendBatch \/ RenameTmp
           \/ ResetLog
  BY <1>3, <1>4, <1>5, <1>6, Zenon DEF TakePending, Persist, WriteFails, WriteHeader, AppendBatch,
     RenameTmp, ResetLog
<1>7. CASE Quit \/ MainCrash \/ PowerLoss
  BY <1>1, <1>2, <1>7, Zenon DEF Quit, MainCrash, PowerLoss
<1>8. CASE SpawnDone
  <2>1. /\ active' \in {active, TRUE} /\ needFull' \in {needFull, TRUE}
        /\ cached' = cached \/ cached' \in BOOLEAN
        /\ disabled' \in {disabled, FALSE} /\ UNCHANGED <<up, killed, dirty>>
    BY <1>8 DEF SpawnDone, OpenSession
  <2> QED
    BY <2>1 DEF SetsTyped, Goal
<1>9. CASE ExitEvent \/ AckColdRestore \/ MarkSessionDirty \/ Tick
  <2>1. /\ active' \in {active, FALSE} /\ dirty' \in {FALSE, TRUE} \cup {dirty}
        /\ cached' \in {cached, FALSE} /\ UNCHANGED <<up, killed, needFull, disabled>>
    BY <1>9 DEF ExitEvent, AckColdRestore, MarkSessionDirty, Tick
  <2> QED
    BY <2>1 DEF SetsTyped, Goal
<1>10. ASSUME NEW keepHistory \in BOOLEAN, Shutdown(keepHistory) PROVE Goal
  <2>1. /\ active' = FALSE /\ dirty' = FALSE /\ cached' = FALSE
        /\ killed' \in {killed, TRUE} /\ disabled' \in {disabled, FALSE}
        /\ UNCHANGED <<up, needFull>>
    BY <1>10 DEF Shutdown
  <2> QED
    BY <2>1 DEF SetsTyped, Goal
<1>11. CASE LoseTake \/ DaemonCrash
  <2>1. dirty' \in {active, dirty} /\ UNCHANGED <<up, killed, active, needFull, cached, disabled>>
    BY <1>11 DEF LoseTake, DaemonCrash
  <2> QED
    BY <2>1 DEF SetsTyped, Goal
<1>12. CASE Launch
  <2>1. up' = TRUE /\ active' \in {active, TRUE}
        /\ UNCHANGED <<killed, dirty, needFull, cached, disabled>>
    BY <1>12 DEF Launch
  <2> QED
    BY <2>1 DEF SetsTyped, Goal
<1>13. CASE Output \/ SessionExit \/ CreateOrAttach \/ SpawnStart \/ UNCHANGED vars
  <2>1. UNCHANGED <<up, killed, active, dirty, needFull, cached, disabled>>
    BY <1>13, Zenon DEF Output, SessionExit, CreateOrAttach, SpawnStart, vars, mainVars
  <2> QED
    BY <1>1, <2>1
<1> QED
  BY <1>6, <1>7, <1>8, <1>9, <1>10, <1>11, <1>12, <1>13, Zenon DEF Next, SessionNext, AdapterNext,
     PassNext, FaultNext

\* The counters of the main process.
LEMMA EventsStep == EventsTyped /\ SetsTyped /\ [Next]_vars => EventsTyped'
<1> SUFFICES ASSUME EventsTyped, SetsTyped, [Next]_vars PROVE EventsTyped'
  OBVIOUS
<1>1. faults' \in 0..MaxFaults
  <2>1. faults' = faults \/ Fault
    BY Zenon DEF Next, SessionNext, AdapterNext, PassNext, FaultNext, Output, SessionExit,
       CreateOrAttach, SpawnStart, SpawnDone, AckColdRestore, MarkSessionDirty, ExitEvent,
       Shutdown, Tick, Quit, TakePending, Persist, WriteFails, WriteHeader, AppendBatch,
       RenameTmp, ResetLog, LoseTake, MainCrash, DaemonCrash, PowerLoss, Launch, vars
  <2> QED
    BY <2>1, HistoryAssumption DEF Fault, EventsTyped
<1>2. exits' \in Nat
  <2>1. exits \in Nat /\ exits + 1 \in Nat /\ 0 \in Nat /\ (exits > 0 => exits - 1 \in Nat)
    BY DEF EventsTyped
  <2> QED
    BY <2>1, PassEnds, Zenon DEF Next, SessionNext, AdapterNext, PassNext, FaultNext, Output,
       SessionExit, CreateOrAttach, SpawnStart, SpawnDone, AckColdRestore, MarkSessionDirty,
       ExitEvent, Shutdown, Tick, Quit, Forget, Continue, TakePending, Persist, WriteFails,
       WriteHeader, AppendBatch, RenameTmp, ResetLog, LoseTake, MainCrash, DaemonCrash, PowerLoss,
       Launch, vars
<1> QED
  BY <1>1, <1>2, SetsStep DEF EventsTyped
-----------------------------------------------------------------------------
(* What the steps of a pass do *)

\* What the pass took is what it took.
KeepsTake ==
    /\ pass'.full = pass.full /\ pass'.over = pass.over /\ pass'.quit = pass.quit
    /\ pass'.seq = pass.seq /\ pass'.life = pass.life
    /\ pass'.lo = pass.lo /\ pass'.hi = pass.hi

\* The pass is asked for everything, or over.
AsksOrEnds ==
    /\ pass'.at \in {"idle", "asked"} /\ ~pass'.own
    /\ pass'.quit => pass'.full

LEMMA Asks ==
    ASSUME NEW p \in PassShape, pass' = p, p.at \in {"idle", "asked"}, ~p.own, p.quit => p.full
    PROVE  AsksOrEnds
  BY DEF AsksOrEnds

LEMMA TakeAllShape ==
    ASSUME PassTyped
    PROVE  /\ TakeAll \in PassShape /\ TakeAll.at = "asked" /\ ~TakeAll.own /\ TakeAll.full
           /\ TakeAll.quit = pass.quit
<1>1. /\ pass.quit \in BOOLEAN /\ pass.anchor \in BOOLEAN
  BY DEF PassTyped, PassShape
<1>2. TakeAll \in PassShape
  BY <1>1, Shapes DEF TakeAll, PassShape
<1> QED
  BY <1>2 DEF TakeAll, NoPass

LEMMA PersistEffect ==
    ASSUME DiskTyped, PassTyped, Persist
    PROVE  /\ PassTyped'
           /\ UNCHANGED <<daemonVars, diskVars>>
           /\ spawn' = spawn \/ spawn' = NoSpawn
           /\ \/ /\ pass' = NoPass
                 /\ writer' = writer \/ writer' = None
              \/ /\ pass' = TakeAll
                 /\ writer' = writer \/ (writer' = Resolved /\ writer # None)
              \/ /\ writer' = Resolved /\ writer # None /\ writer' \in Writer /\ pass'.own /\ KeepsTake
                 /\ \/ pass'.at = "rename" /\ pass'.gen = Resolved.gen + 1 /\ pass.full
                    \/ /\ pass'.at \in {"header", "append"} /\ pass'.gen = Resolved.gen
                       /\ ~pass.full /\ ~pass.over /\ pass.lo <= pass.hi
<1>1. /\ pass.at = "taken" /\ pass \in PassShape /\ writer \in WriterShape
      /\ writer # None => Resolved \in Writer /\ Resolved \in WriterShape
  BY ResolvedIsWriter DEF Persist, PassTyped, WriterShape
<1>2. UNCHANGED <<daemonVars, diskVars>>
  BY DEF Persist
<1>3. ASSUME NEW w \in {writer, None}, NEW d, EndPass(w, d)
      PROVE  /\ PassTyped' /\ pass' = NoPass /\ (writer' = writer \/ writer' = None)
             /\ spawn' = spawn \/ spawn' = NoSpawn
  <2>1. w \in WriterShape
    BY <1>1 DEF WriterShape
  <2> QED
    BY <1>3, <2>1, PassEnds, PassEndsTyped
<1>4. ASSUME NEW w \in WriterShape, Continue(TakeAll, w)
      PROVE  PassTyped' /\ pass' = TakeAll /\ writer' = w /\ spawn' = spawn
  <2>1. TakeAll \in PassShape /\ ~TakeAll.own /\ TakeAll.at # "idle"
    BY TakeAllShape
  <2> QED
    BY <1>1, <1>4, <2>1, PassContinues DEF Continue
<1>5. ASSUME writer # None,
             NEW at \in {"rename", "header", "append"}, NEW gen \in Nat,
             Continue([pass EXCEPT !.at = at, !.own = TRUE, !.gen = gen], Resolved)
      PROVE  /\ PassTyped' /\ writer' = Resolved /\ writer' \in Writer /\ spawn' = spawn
             /\ pass'.own /\ KeepsTake /\ pass'.at = at /\ pass'.gen = gen
  <2> DEFINE p == [pass EXCEPT !.at = at, !.own = TRUE, !.gen = gen]
  <2>1. /\ p \in PassShape /\ p.own /\ p.at = at /\ p.gen = gen
        /\ p.full = pass.full /\ p.over = pass.over /\ p.quit = pass.quit
        /\ p.seq = pass.seq /\ p.life = pass.life /\ p.lo = pass.lo /\ p.hi = pass.hi
    BY <1>1 DEF PassShape
  <2>2. Continue(p, Resolved)
    BY <1>5
  <2> HIDE DEF p
  <2>3. pass' = p /\ writer' = Resolved /\ spawn' = spawn
    BY <2>2 DEF Continue
  <2>4. PassTyped'
    BY <1>1, <1>5, <2>1, <2>2, PassContinues
  <2> QED
    BY <1>1, <1>5, <2>1, <2>3, <2>4 DEF KeepsTake
<1>6. writer # None => Resolved.gen \in Nat /\ Resolved.gen + 1 \in Nat
  BY <1>1 DEF Writer
<1>7. CASE /\ pass.full /\ writer # None
           /\ Continue([pass EXCEPT !.at = "rename", !.own = TRUE, !.gen = Resolved.gen + 1], Resolved)
  <2>1. PICK gen \in Nat : gen = Resolved.gen + 1
    BY <1>6, <1>7
  <2>2. Continue([pass EXCEPT !.at = "rename", !.own = TRUE, !.gen = gen], Resolved)
    BY <1>7, <2>1
  <2> QED
    BY <1>2, <1>5, <1>7, <2>1, <2>2
<1>8. CASE Continue(TakeAll, writer)
  BY <1>1, <1>2, <1>4, <1>8
<1>9. CASE /\ ~pass.full /\ ~pass.over /\ pass.lo <= pass.hi /\ writer # None
           /\ Continue(IF Resolved.bytes > LogCap
                       THEN TakeAll
                       ELSE [pass EXCEPT !.at = IF Resolved.bytes = 0 THEN "header" ELSE "append",
                                         !.own = TRUE, !.gen = Resolved.gen], Resolved)
  <2>1. CASE Resolved.bytes > LogCap
    <3>1. Continue(TakeAll, Resolved)
      BY <1>9, <2>1
    <3> QED
      BY <1>1, <1>2, <1>4, <1>9, <3>1
  <2>2. CASE ~(Resolved.bytes > LogCap)
    <3>1. PICK at \in {"header", "append"} :
            Continue([pass EXCEPT !.at = at, !.own = TRUE, !.gen = Resolved.gen], Resolved)
      BY <1>9, <2>2
    <3> QED
      BY <1>2, <1>5, <1>6, <1>9, <3>1
  <2> QED
    BY <2>1, <2>2
<1>10. CASE EndPass(writer, disabled)
  BY <1>2, <1>3, <1>10
<1> QED
  BY <1>7, <1>8, <1>9, <1>10, Zenon DEF Persist

LEMMA SizedShape ==
    ASSUME PassTyped, NEW gen \in Nat, NEW bytes \in Nat
    PROVE  /\ Sized(gen, bytes) \in WriterShape
           /\ pass.own => Sized(gen, bytes) \in Writer /\ Sized(gen, bytes).gen = gen
           /\ ~pass.own => Sized(gen, bytes) = writer
  BY DEF Sized, PassTyped, WriterShape, Writer

LEMMA TakeEffect ==
    ASSUME CountsTyped, PassTyped, overflow \in BOOLEAN, TakePending
    PROVE  /\ PassTyped' /\ UNCHANGED diskVars
           /\ \/ /\ pass' = NoPass /\ UNCHANGED daemonVars /\ ~alive
                 /\ writer' = writer \/ writer' = None
                 /\ spawn' = spawn \/ spawn' = NoSpawn
              \/ /\ alive /\ writer' = writer /\ spawn' = spawn
                 /\ UNCHANGED <<life, alive, first, made>>
                 /\ seq' = seq + 1 /\ pending' = 0 /\ ~overflow'
                 /\ pass'.at = "taken" /\ pass'.full = pass.full /\ pass'.quit = pass.quit
                 /\ pass'.own = pass.own /\ pass'.over = overflow
                 /\ pass'.seq = seq + 1 /\ pass'.life = life /\ pass'.hi = made
                 /\ pass'.lo = IF pass.full THEN first + 1 ELSE made - pending + 1
<1>1. CASE alive
  <2> DEFINE lo == IF pass.full THEN first + 1 ELSE made - pending + 1
             p == [pass EXCEPT !.at = "taken", !.seq = seq + 1, !.life = life, !.lo = lo,
                               !.hi = made, !.over = overflow]
  <2>1. /\ life \in Nat /\ seq + 1 \in Nat /\ made \in Nat
        /\ first + 1 \in Nat \ {0} /\ made - pending + 1 \in Nat \ {0}
    BY HistoryAssumption DEF CountsTyped
  <2>2. lo \in Nat \ {0}
    BY <2>1
  <2>3. /\ seq' = seq + 1 /\ pending' = 0 /\ overflow' = FALSE
        /\ Continue(p, writer) /\ UNCHANGED <<life, alive, first, made>> /\ UNCHANGED diskVars
    BY <1>1 DEF TakePending
  <2> HIDE DEF lo
  <2>4. pass.at = "asked" /\ pass \in PassShape /\ writer \in WriterShape
    BY DEF TakePending, PassTyped
  <2>5. /\ p \in PassShape /\ p.at = "taken" /\ p.full = pass.full /\ p.quit = pass.quit
        /\ p.own = pass.own /\ p.over = overflow
        /\ p.seq = seq + 1 /\ p.life = life /\ p.hi = made /\ p.lo = lo
    BY <2>1, <2>2, <2>4 DEF PassShape
  <2> HIDE DEF p
  <2>6. p.own => writer \in Writer
    BY <2>5 DEF PassTyped
  <2>7. PassTyped'
    BY <2>3, <2>4, <2>5, <2>6, PassContinues
  <2>8. pass' = p /\ writer' = writer /\ spawn' = spawn
    BY <2>3 DEF Continue
  <2> QED
    BY <1>1, <2>3, <2>5, <2>7, <2>8 DEF lo
<1>2. CASE ~alive
  <2>1. EndPass(writer, disabled) /\ UNCHANGED daemonVars /\ UNCHANGED diskVars
    BY <1>2 DEF TakePending
  <2>2. writer \in WriterShape
    BY DEF PassTyped
  <2> QED
    BY <1>2, <2>1, <2>2, PassEnds, PassEndsTyped
<1> QED
  BY <1>1, <1>2

\* A write that is followed by another one of its pass.
LEMMA WriteGoesOn ==
    ASSUME PassTyped, Writing, NEW at \in {"append", "reset"}, NEW w \in WriterShape,
           pass.own => w \in Writer, Continue([pass EXCEPT !.at = at], w)
    PROVE  /\ PassTyped' /\ KeepsTake /\ pass'.at = at /\ pass'.own = pass.own
           /\ pass'.gen = pass.gen /\ writer' = w /\ spawn' = spawn
<1> DEFINE p == [pass EXCEPT !.at = at]
<1>1. pass \in PassShape /\ pass.at # "idle"
  BY DEF PassTyped, Writing
<1>2. /\ p \in PassShape /\ p.at = at /\ p.own = pass.own /\ p.gen = pass.gen
      /\ p.full = pass.full /\ p.over = pass.over /\ p.quit = pass.quit
      /\ p.seq = pass.seq /\ p.life = pass.life /\ p.lo = pass.lo /\ p.hi = pass.hi
  BY <1>1 DEF PassShape
<1>3. Continue(p, w)
  OBVIOUS
<1> HIDE DEF p
<1>4. pass' = p /\ writer' = w /\ spawn' = spawn
  BY <1>3 DEF Continue
<1>5. PassTyped'
  BY <1>1, <1>2, <1>3, PassContinues
<1> QED
  BY <1>2, <1>4, <1>5 DEF KeepsTake

\* A write that ends its pass.
LEMMA WriteEnds ==
    ASSUME PassTyped, NEW w \in WriterShape, NEW d, EndPass(w, d)
    PROVE  /\ PassTyped' /\ pass' = NoPass
           /\ writer' = w \/ writer' = None
           /\ spawn' = spawn \/ spawn' = NoSpawn
  BY PassEnds, PassEndsTyped

LEMMA HeaderEffect ==
    ASSUME PassTyped, WriteHeader
    PROVE  /\ PassTyped' /\ UNCHANGED <<daemonVars, meta, ckpt>> /\ log' = Header(pass.gen)
           /\ pass.at = "header" /\ pass.gen \in Nat
           /\ KeepsTake /\ pass'.at = "append" /\ pass'.own = pass.own /\ pass'.gen = pass.gen
           /\ spawn' = spawn
           /\ pass.own => writer' \in Writer /\ writer'.gen = pass.gen
           /\ ~pass.own => writer' = writer
<1>1. pass.gen \in Nat /\ Writing
  BY DEF PassTyped, PassShape, Writing, WriteHeader
<1>2. /\ Continue([pass EXCEPT !.at = "append"], Sized(pass.gen, 1))
      /\ UNCHANGED <<daemonVars, meta, ckpt>> /\ log' = Header(pass.gen) /\ pass.at = "header"
  BY DEF WriteHeader
<1> QED
  BY <1>1, <1>2, SizedShape, WriteGoesOn

LEMMA RenameEffect ==
    ASSUME PassTyped, RenameTmp
    PROVE  /\ PassTyped' /\ UNCHANGED <<daemonVars, meta, log>>
           /\ ckpt' = [kind |-> "checkpoint", gen |-> pass.gen, life |-> pass.life,
                       lo |-> pass.lo, hi |-> pass.hi]
           /\ pass.at = "rename"
           /\ KeepsTake /\ pass'.at = "reset" /\ pass'.own = pass.own /\ pass'.gen = pass.gen
           /\ writer' = writer /\ spawn' = spawn
<1>1. Writing /\ writer \in WriterShape /\ (pass.own => writer \in Writer)
  BY DEF PassTyped, Writing, RenameTmp
<1>2. Continue([pass EXCEPT !.at = "reset"], writer)
  BY DEF RenameTmp
<1>3. /\ PassTyped' /\ KeepsTake /\ pass'.at = "reset" /\ pass'.own = pass.own
      /\ pass'.gen = pass.gen /\ writer' = writer /\ spawn' = spawn
  BY <1>1, <1>2, WriteGoesOn
<1> QED
  BY <1>3 DEF RenameTmp

LEMMA AppendEffect ==
    ASSUME PassTyped, AppendBatch
    PROVE  /\ PassTyped' /\ UNCHANGED <<daemonVars, meta, ckpt>> /\ log' \in Appended(Batch)
           /\ pass.at = "append" /\ pass' = NoPass
           /\ spawn' = spawn \/ spawn' = NoSpawn
           /\ pass.own => writer' = None \/ (writer' \in Writer /\ writer'.gen = pass.gen)
           /\ ~pass.own => writer' = None \/ writer' = writer
<1>1. pass.gen \in Nat /\ writer \in WriterShape /\ (pass.own => writer \in Writer)
  BY DEF PassTyped, PassShape
<1>2. /\ UNCHANGED <<daemonVars, meta, ckpt>> /\ log' \in Appended(Batch) /\ pass.at = "append"
      /\ EndPass(IF pass.own THEN Sized(pass.gen, writer.bytes + 1) ELSE writer, disabled)
  BY DEF AppendBatch
<1>3. CASE pass.own
  <2>1. writer.bytes + 1 \in Nat
    BY <1>1, <1>3 DEF Writer
  <2>2. PICK w \in Writer : w.gen = pass.gen /\ w = Sized(pass.gen, writer.bytes + 1)
    BY <1>1, <1>3, <2>1, SizedShape
  <2>3. w \in WriterShape /\ EndPass(w, disabled)
    BY <1>2, <1>3, <2>2 DEF WriterShape
  <2> QED
    BY <1>2, <1>3, <2>2, <2>3, WriteEnds
<1>4. CASE ~pass.own
  <2>1. EndPass(writer, disabled)
    BY <1>2, <1>4
  <2> QED
    BY <1>1, <1>2, <1>4, <2>1, WriteEnds
<1> QED
  BY <1>3, <1>4

LEMMA ResetEffect ==
    ASSUME PassTyped, ResetLog
    PROVE  /\ PassTyped' /\ UNCHANGED <<daemonVars, meta, ckpt>> /\ log' = Header(pass.gen)
           /\ pass.at = "reset" /\ pass' = NoPass /\ pass.gen \in Nat
           /\ spawn' = spawn \/ spawn' = NoSpawn
           /\ pass.own => writer' = None \/ (writer' \in Writer /\ writer'.gen = pass.gen)
           /\ ~pass.own => writer' = None \/ writer' = writer
<1>1. pass.gen \in Nat
  BY DEF PassTyped, PassShape
<1>2. /\ UNCHANGED <<daemonVars, meta, ckpt>> /\ log' = Header(pass.gen) /\ pass.at = "reset"
      /\ EndPass(Sized(pass.gen, 1), disabled)
  BY DEF ResetLog
<1>3. PICK w \in WriterShape : w = Sized(pass.gen, 1)
  BY <1>1, SizedShape
<1>4. /\ PassTyped' /\ pass' = NoPass /\ (writer' = w \/ writer' = None)
      /\ spawn' = spawn \/ spawn' = NoSpawn
  BY <1>2, <1>3, WriteEnds
<1> QED
  BY <1>1, <1>2, <1>3, <1>4, SizedShape
-----------------------------------------------------------------------------
(* What everything else does to a pass *)

\* The pass goes on as it was; its writer may be gone.
PassStays ==
    /\ KeepsTake /\ pass'.at = pass.at /\ pass'.gen = pass.gen
    /\ \/ writer' = writer /\ pass'.own = pass.own
       \/ writer' \in {None, Unresolved} /\ ~pass'.own

\* A history is opened over whatever was there.
PassOpened ==
    /\ KeepsTake /\ pass'.at = pass.at /\ pass'.gen = pass.gen /\ ~pass'.own
    /\ pass.at = "idle" \/ "overlap" \in May
    /\ log' = NoLog /\ ckpt' = None

\* A pass begins, is given up or dies.
PassLeft ==
    /\ AsksOrEnds
    /\ writer' \in {writer, None, Unresolved}

Around ==
    \/ Output \/ SessionExit \/ CreateOrAttach
    \/ SpawnStart \/ SpawnDone \/ AckColdRestore \/ MarkSessionDirty \/ ExitEvent
    \/ \E keepHistory \in BOOLEAN : Shutdown(keepHistory)
    \/ Tick \/ Quit \/ WriteFails
    \/ LoseTake \/ MainCrash \/ DaemonCrash \/ PowerLoss \/ Launch
    \/ UNCHANGED vars

LEMMA NextIsAround ==
    ASSUME [Next]_vars
    PROVE  Around \/ TakePending \/ Persist \/ WriteHeader \/ AppendBatch \/ RenameTmp \/ ResetLog
  BY Zenon DEF Next, SessionNext, AdapterNext, PassNext, FaultNext, Around

\* The writer is lost to the pass.
LEMMA Disowned ==
    ASSUME PassTyped, pass' = [pass EXCEPT !.own = FALSE]
    PROVE  /\ pass' \in PassShape /\ KeepsTake /\ pass'.at = pass.at /\ pass'.gen = pass.gen
           /\ ~pass'.own
<1>1. pass \in PassShape
  BY DEF PassTyped
<1>2. pass' \in PassShape
  BY <1>1 DEF PassShape
<1> QED
  BY <1>1, <1>2 DEF PassShape, KeepsTake

LEMMA SpawnDoneEffect ==
    ASSUME PassTyped, SpawnDone
    PROVE  PassTyped' /\ (PassStays \/ PassOpened)
<1>1. spawn' = NoSpawn /\ up' = up /\ up /\ writer \in WriterShape
  BY DEF SpawnDone, PassTyped
<1>2. CASE writer' \in {writer, Registered} /\ pass' = pass
  <2>1. writer' = writer \/ (writer = None /\ writer' = Unresolved)
    BY <1>2 DEF Registered
  <2>2. pass.own => writer # None
    BY Shapes DEF PassTyped
  <2>3. PassTyped'
    BY <1>1, <1>2, <2>1, <2>2, Shapes DEF PassTyped, WriterShape
  <2> QED
    BY <1>2, <2>1, <2>2, <2>3 DEF PassStays, KeepsTake
<1>3. CASE OpenSession /\ (pass.at = "idle" \/ "overlap" \in May)
  <2>1. /\ pass' = [pass EXCEPT !.own = FALSE] /\ log' = NoLog /\ ckpt' = None
        /\ writer' = [kind |-> "writer", gen |-> 0, bytes |-> 0]
    BY <1>3 DEF OpenSession
  <2>2. writer' \in Writer
    BY <2>1 DEF Writer
  <2>3. PassTyped'
    BY <1>1, <2>1, <2>2, Disowned, Shapes DEF PassTyped, WriterShape
  <2> QED
    BY <1>3, <2>1, <2>3, Disowned DEF PassOpened
<1> QED
  BY <1>2, <1>3, Zenon DEF SpawnDone

LEMMA WriterGone ==
    ASSUME PassTyped, writer' = None, pass' = [pass EXCEPT !.own = FALSE], spawn' = spawn, up' = up
    PROVE  PassTyped' /\ PassStays
<1>1. pass' \in PassShape /\ ~pass'.own /\ PassStays /\ pass'.at = pass.at /\ pass'.quit = pass.quit
  BY Disowned DEF PassStays, KeepsTake
<1> QED
  BY <1>1 DEF PassTyped, WriterShape

LEMMA Unmoved ==
    ASSUME PassTyped, UNCHANGED <<spawn, writer, pass, up>>
    PROVE  PassTyped' /\ PassStays
  BY DEF PassTyped, PassStays, KeepsTake

LEMMA ForgetLeaves ==
    ASSUME Forget
    PROVE  PassTyped' /\ PassLeft
<1>1. spawn' = NoSpawn /\ writer' = None /\ pass' = NoPass
  BY DEF Forget
<1>2. PassTyped'
  BY <1>1, Shapes DEF PassTyped, WriterShape
<1>3. AsksOrEnds
  BY <1>1, Shapes DEF AsksOrEnds
<1> QED
  BY <1>1, <1>2, <1>3 DEF PassLeft

LEMMA AroundEffect ==
    ASSUME PassTyped, needFull \in BOOLEAN, Around
    PROVE  PassTyped' /\ (PassStays \/ PassOpened \/ PassLeft)
<1> DEFINE Goal == PassTyped' /\ (PassStays \/ PassOpened \/ PassLeft)
<1>0. NoPass \in PassShape /\ spawn \in SpawnShape /\ writer \in WriterShape
  BY Shapes DEF PassTyped
<1>1. CASE Output \/ SessionExit \/ AckColdRestore \/ MarkSessionDirty \/ UNCHANGED vars
  <2>1. UNCHANGED <<spawn, writer, pass, up>>
    BY <1>1, Zenon DEF Output, SessionExit, AckColdRestore, MarkSessionDirty, vars, mainVars
  <2> QED
    BY <2>1, Unmoved
<1>2. CASE CreateOrAttach \/ SpawnStart
  <2>1. UNCHANGED <<writer, pass, up>>
    BY <1>2 DEF CreateOrAttach, SpawnStart
  <2>2. spawn' \in SpawnShape
    <3>1. CASE SpawnStart
      <4>1. spawn' = [at |-> "asked", restore |-> Restored # <<>>, new |-> FALSE]
        BY <3>1 DEF SpawnStart
      <4>2. (Restored # <<>>) \in BOOLEAN
        OBVIOUS
      <4> QED
        BY <4>1, <4>2 DEF SpawnShape
    <3>2. CASE CreateOrAttach
      <4>1. \/ spawn' = [spawn EXCEPT !.at = "answered", !.new = FALSE]
            \/ spawn' = [spawn EXCEPT !.at = "answered", !.new = TRUE]
        BY <3>2 DEF CreateOrAttach
      <4> QED
        BY <1>0, <4>1 DEF SpawnShape
    <3> QED
      BY <1>2, <3>1, <3>2
  <2> QED
    BY <2>1, <2>2 DEF PassTyped, PassStays, KeepsTake
<1>3. CASE SpawnDone
  BY <1>3, SpawnDoneEffect
<1>4. CASE ExitEvent
  <2>1. \/ UNCHANGED <<spawn, writer, pass, up>>
        \/ writer' = None /\ pass' = [pass EXCEPT !.own = FALSE] /\ spawn' = spawn /\ up' = up
    BY <1>4 DEF ExitEvent
  <2> QED
    BY <2>1, Unmoved, WriterGone
<1>5. ASSUME NEW keepHistory \in BOOLEAN, Shutdown(keepHistory) PROVE Goal
  <2>1. \/ UNCHANGED <<spawn, writer, pass, up>>
        \/ writer' = None /\ pass' = [pass EXCEPT !.own = FALSE] /\ spawn' = spawn /\ up' = up
    BY <1>5 DEF Shutdown
  <2> QED
    BY <2>1, Unmoved, WriterGone
<1>6. ASSUME up, pass' \in PassShape, pass'.at = "asked", AsksOrEnds, UNCHANGED <<spawn, writer, up>>
      PROVE  Goal
  BY <1>6 DEF PassTyped, PassLeft, AsksOrEnds
<1>7. CASE Tick
  <2>1. /\ pass' = [NoPass EXCEPT !.at = "asked", !.full = needFull, !.anchor = needFull]
        /\ up /\ UNCHANGED <<spawn, writer, up>>
    BY <1>7 DEF Tick
  <2>2. pass' \in PassShape /\ pass'.at = "asked" /\ ~pass'.own /\ ~pass'.quit
    BY <1>0, <2>1, Shapes DEF PassShape
  <2> QED
    BY <1>6, <2>1, <2>2 DEF AsksOrEnds
<1>8. CASE Quit
  <2>1. CASE active
    <3>1. /\ pass' = [NoPass EXCEPT !.at = "asked", !.full = TRUE, !.anchor = TRUE, !.quit = TRUE]
          /\ up /\ UNCHANGED <<spawn, writer, up>>
      BY <1>8, <2>1 DEF Quit
    <3>2. pass' \in PassShape /\ pass'.at = "asked" /\ ~pass'.own /\ pass'.full
      BY <1>0, <3>1, Shapes DEF PassShape
    <3> QED
      BY <1>6, <3>1, <3>2 DEF AsksOrEnds
  <2>2. CASE ~active
    BY <1>8, <2>2, ForgetLeaves DEF Quit
  <2> QED
    BY <2>1, <2>2
<1>9. CASE WriteFails
  <2>1. EndPass(writer, TRUE)
    BY <1>9 DEF WriteFails
  <2>2. PassTyped' /\ pass' = NoPass /\ (writer' = writer \/ writer' = None)
    BY <1>0, <2>1, WriteEnds
  <2> QED
    BY <2>2, Shapes DEF PassLeft, AsksOrEnds
<1>10. CASE LoseTake \/ DaemonCrash
  <2>1. /\ pass' = NoPass \/ pass' = pass
        /\ spawn' = spawn \/ spawn' = NoSpawn
        /\ UNCHANGED <<writer, up>>
    BY <1>10 DEF LoseTake, DaemonCrash
  <2>2. PassTyped'
    BY <1>0, <2>1, Shapes DEF PassTyped
  <2>3. CASE pass' = NoPass
    BY <2>1, <2>2, <2>3, Shapes DEF PassLeft, AsksOrEnds
  <2>4. CASE pass' = pass
    BY <2>1, <2>2, <2>4 DEF PassStays, KeepsTake
  <2> QED
    BY <2>1, <2>3, <2>4
<1>11. CASE MainCrash \/ PowerLoss
  BY <1>11, ForgetLeaves, Zenon DEF MainCrash, PowerLoss
<1>12. CASE Launch
  <2>1. /\ pass.at = "idle" /\ pass' = pass /\ spawn' = spawn /\ writer' \in {writer, Unresolved}
        /\ ~pass.own /\ ~pass.quit
    BY <1>12 DEF Launch, PassTyped
  <2>2. PassTyped'
    BY <1>0, <2>1, Shapes DEF PassTyped, WriterShape
  <2>3. PassLeft
    BY <2>1 DEF PassLeft, AsksOrEnds
  <2> QED
    BY <2>2, <2>3
<1> QED
  BY <1>1, <1>2, <1>3, <1>4, <1>5, <1>7, <1>8, <1>9, <1>10, <1>11, <1>12, Zenon DEF Around
-----------------------------------------------------------------------------
(* Typing, concluded *)

LEMMA PassStep == Typed /\ [Next]_vars => PassTyped'
<1> SUFFICES ASSUME Typed, [Next]_vars PROVE PassTyped'
  OBVIOUS
<1>1. /\ CountsTyped /\ overflow \in BOOLEAN /\ PassTyped /\ DiskTyped /\ needFull \in BOOLEAN
  BY DEF Typed, DaemonTyped, FlagsTyped, MainTyped, SetsTyped
<1> QED
  BY <1>1, NextIsAround, AroundEffect, TakeEffect, PersistEffect, HeaderEffect, AppendEffect,
     RenameEffect, ResetEffect

LEMMA TypedStep == Typed /\ [Next]_vars => Typed'
<1> SUFFICES ASSUME Typed, [Next]_vars PROVE Typed'
  OBVIOUS
<1>1. DaemonTyped /\ EventsTyped /\ DiskTyped /\ PassTyped /\ SetsTyped /\ pass \in PassShape
      /\ up \in BOOLEAN /\ killed \in BOOLEAN
  BY DEF Typed, MainTyped, PassTyped, EventsTyped
<1>2. DaemonTyped' /\ DiskTyped' /\ EventsTyped' /\ SetsTyped' /\ PassTyped'
  BY <1>1, DaemonStep, DiskStep, EventsStep, SetsStep, PassStep
<1> QED
  BY <1>2 DEF Typed, MainTyped

\* Counters, flags, files and writers have the shapes the code gives them; a
\* writer knows both columns of its log or neither, and a pass never writes for a
\* writer whose columns it does not know.
THEOREM HistoryTyped == Spec => []TypeOK
<1>1. Typed => TypeOK
  <2> SUFFICES ASSUME Typed PROVE TypeOK
    OBVIOUS
  <2>1. /\ life \in 0..MaxLives /\ made \in 0..MaxOutput /\ first \in 0..made
        /\ pending \in 0..made /\ pending <= PendingCap /\ seq \in 0..MaxTakes
    BY DEF Typed, DaemonTyped, CountsTyped
  <2>2. /\ alive \in BOOLEAN /\ ending \in BOOLEAN /\ overflow \in BOOLEAN
        /\ exits \in Nat /\ faults \in 0..MaxFaults /\ up \in BOOLEAN /\ killed \in BOOLEAN
        /\ active \in BOOLEAN /\ dirty \in BOOLEAN /\ needFull \in BOOLEAN /\ cached \in BOOLEAN
        /\ disabled \in BOOLEAN
    BY DEF Typed, DaemonTyped, FlagsTyped, EventsTyped, MainTyped, SetsTyped
  <2>3. /\ spawn \in SpawnShape /\ writer \in {None, Unresolved} \cup Writer /\ pass \in PassShape
        /\ meta \in {"none", "open", "ended"} /\ ckpt \in {None} \cup CkptShape /\ log \in LogShape
    BY DEF Typed, MainTyped, PassTyped, WriterShape, DiskTyped
  <2>4. pass.at \in {"idle", "asked", "taken", "header", "append", "rename", "reset"}
    BY <2>3 DEF PassShape
  <2>5. log.state \in {"none", "ok", "spoiled", "garbage"} /\ log.gen \in Nat
    BY <2>3 DEF LogShape
  <2>6. ckpt = None \/ ckpt.gen \in Nat
    BY <2>3 DEF CkptShape
  <2> QED
    BY <2>1, <2>2, <2>3, <2>4, <2>5, <2>6, Zenon DEF TypeOK, SpawnShape
<1>2. QED
  BY HistoryInitTyped, TypedStep, <1>1, PTL DEF Spec
-----------------------------------------------------------------------------
(* What a step does to the disk and to the output that was taken *)

\* A batch reaches the log, whole or torn, or is lost in it.
AppendsTo(b) ==
    /\ pass.at = "append" /\ ckpt' = ckpt /\ pass' = NoPass
    /\ b.seq = pass.seq /\ b.life = pass.life /\ b.lo = pass.lo /\ b.hi <= pass.hi
    /\ b.hi = pass.hi \/ log'.torn
    /\ log'.batches \in {log.batches, <<>>, Append(log.batches, b)}
    /\ log.torn => /\ log'.torn \/ log'.batches = <<>>
                   /\ log'.batches \in {log.batches, <<>>}
    /\ log'.state = "ok" => log.state = "ok" /\ log'.gen = log.gen

\* Nothing happens to the files, or they are removed.
DiskLeft == UNCHANGED <<ckpt, log>> \/ (ckpt' = None /\ log' = NoLog)

LEMMA AppendBatchAppends ==
    ASSUME DiskTyped, PassTyped, AppendBatch
    PROVE  Batch \in BatchShape /\ AppendsTo(Batch)
<1>1. log \in LogShape /\ Batch \in BatchShape /\ log' \in Appended(Batch)
  BY BatchIsShaped DEF DiskTyped, PassTyped, AppendBatch
<1>2. /\ log'.batches \in {log.batches, <<>>, Append(log.batches, Batch)}
      /\ log'.state = "ok" => log.state = "ok" /\ log'.gen = log.gen
      /\ log.torn => /\ log'.torn \/ log'.batches = <<>>
                     /\ log'.batches \in {log.batches, <<>>}
  BY <1>1, AppendedShape DEF LogShape
<1>3. pass.at = "append" /\ pass' = NoPass /\ ckpt' = ckpt
  BY AppendEffect
<1>4. pass.hi \in Nat
  BY DEF PassTyped, PassShape
<1> QED
  BY <1>1, <1>2, <1>3, <1>4 DEF AppendsTo, Batch

LEMMA TornAppends ==
    ASSUME DiskTyped, PassTyped, MainCrash \/ PowerLoss
    PROVE  ckpt' = ckpt /\ pass' = NoPass /\ (log' = log \/ \E b \in BatchShape : AppendsTo(b))
<1>1. ckpt' = ckpt /\ pass' = NoPass /\ MayTear
  BY DEF MainCrash, PowerLoss, Forget
<1>2. ASSUME pass.at = "append", NEW hi \in pass.lo-1 .. pass.hi,
             NEW new \in Appended([Batch EXCEPT !.hi = hi]), log' = [new EXCEPT !.torn = TRUE]
      PROVE  \E b \in BatchShape : AppendsTo(b)
  <2>1. PICK b \in BatchShape :
           /\ b = [Batch EXCEPT !.hi = hi]
           /\ b = [seq |-> pass.seq, life |-> pass.life, lo |-> pass.lo, hi |-> hi]
    BY BatchIsShaped DEF PassTyped
  <2>2. new \in LogShape /\ log \in LogShape /\ new \in Appended(b)
    BY <1>2, <2>1, AppendedShape DEF DiskTyped
  <2>3. /\ new.batches \in {log.batches, <<>>, Append(log.batches, b)}
        /\ new.state = "ok" => log.state = "ok" /\ new.gen = log.gen
        /\ log.torn => new.batches \in {log.batches, <<>>}
    BY <2>2, AppendedShape DEF LogShape
  <2>4. log'.batches = new.batches /\ log'.state = new.state /\ log'.gen = new.gen /\ log'.torn
    BY <1>2, <2>2 DEF LogShape
  <2>5. hi <= pass.hi
    BY DEF PassTyped, PassShape
  <2>6. b.seq = pass.seq /\ b.life = pass.life /\ b.lo = pass.lo /\ b.hi <= pass.hi
    BY <2>1, <2>5
  <2>7. AppendsTo(b)
    BY <1>1, <1>2, <2>3, <2>4, <2>6, Zenon DEF AppendsTo
  <2> QED
    BY <2>7
<1> QED
  BY <1>1, <1>2 DEF MayTear

LEMMA AroundDisk ==
    ASSUME DiskTyped, PassTyped, Around
    PROVE  DiskLeft \/ \E b \in BatchShape : AppendsTo(b)
<1>1. CASE MainCrash \/ PowerLoss
  BY <1>1, TornAppends DEF DiskLeft
<1>2. CASE SpawnDone
  BY <1>2, Zenon DEF SpawnDone, OpenSession, diskVars, DiskLeft
<1>3. CASE ExitEvent
  BY <1>3, Zenon DEF ExitEvent, DiskLeft
<1>4. CASE \E keepHistory \in BOOLEAN : Shutdown(keepHistory)
  BY <1>4, Zenon DEF Shutdown, diskVars, DiskLeft
<1>5. CASE \/ Output \/ SessionExit \/ CreateOrAttach \/ SpawnStart \/ AckColdRestore
           \/ MarkSessionDirty \/ Tick \/ Quit \/ WriteFails \/ LoseTake \/ DaemonCrash
           \/ Launch \/ UNCHANGED vars
  BY <1>5, Zenon DEF Output, SessionExit, CreateOrAttach, SpawnStart, AckColdRestore,
     MarkSessionDirty, Tick, Quit, WriteFails, LoseTake, DaemonCrash, Launch, vars, diskVars,
     DiskLeft
<1> QED
  BY <1>1, <1>2, <1>3, <1>4, <1>5, Zenon DEF Around

\* What a step does to the files.
LEMMA DiskChange ==
    ASSUME Typed, [Next]_vars
    PROVE  \/ DiskLeft
           \/ RenameTmp
           \/ ckpt' = ckpt /\ log' = Header(pass.gen) /\ pass.gen \in Nat
           \/ \E b \in BatchShape : AppendsTo(b)
<1>1. /\ CountsTyped /\ overflow \in BOOLEAN /\ PassTyped /\ DiskTyped
  BY DEF Typed, DaemonTyped, FlagsTyped, MainTyped
<1>2. CASE TakePending \/ Persist
  BY <1>2 DEF TakePending, Persist, diskVars, DiskLeft
<1> QED
  BY <1>1, <1>2, NextIsAround, AroundDisk, AppendBatchAppends, HeaderEffect, ResetEffect

\* What a step does to the take in flight.
Takes ==
    /\ alive /\ pass'.at = "taken" /\ UNCHANGED <<ckpt, log>>
    /\ UNCHANGED <<life, alive, first, made>>
    /\ seq' = seq + 1 /\ pending' = 0 /\ ~overflow'
    /\ pass'.full = pass.full /\ pass'.over = overflow
    /\ pass'.seq = seq + 1 /\ pass'.life = life /\ pass'.hi = made
    /\ pass'.lo = IF pass.full THEN first + 1 ELSE made - pending + 1

LEMMA PassChange ==
    ASSUME Typed, [Next]_vars
    PROVE  \/ KeepsTake /\ (InFlight' => InFlight)
           \/ ~InFlight'
           \/ Takes
<1>1. /\ CountsTyped /\ overflow \in BOOLEAN /\ PassTyped /\ DiskTyped /\ needFull \in BOOLEAN
  BY DEF Typed, DaemonTyped, FlagsTyped, MainTyped, SetsTyped
<1>2. NoPass.at = "idle" /\ TakeAll.at = "asked"
  BY <1>1, Shapes, TakeAllShape
<1>3. CASE Around
  BY <1>1, <1>3, AroundEffect DEF PassStays, PassOpened, PassLeft, AsksOrEnds, InFlight
<1>4. CASE TakePending
  BY <1>1, <1>2, <1>4, TakeEffect DEF InFlight, Takes, diskVars
<1>5. CASE Persist
  <2>1. pass.at = "taken"
    BY <1>5 DEF Persist
  <2> QED
    BY <1>1, <1>2, <1>5, <2>1, PersistEffect DEF InFlight
<1>6. CASE WriteHeader \/ AppendBatch \/ RenameTmp \/ ResetLog
  BY <1>1, <1>2, <1>6, HeaderEffect, AppendEffect, RenameEffect, ResetEffect DEF InFlight
<1> QED
  BY <1>3, <1>4, <1>5, <1>6, NextIsAround

LEMMA Differences ==
    ASSUME NEW m \in Int, NEW p \in Int, 0 <= p, NEW n \in Int, NEW q \in Int,
           (n = m /\ q = p) \/ (n >= m /\ q = 0) \/ (n = m + 1 /\ (q = p \/ q = p + 1))
    PROVE  m - p \in Int /\ n - q \in Int /\ n - q >= m - p
  OBVIOUS

\* What was taken never becomes pending again.
LEMMA TakenGrows ==
    ASSUME Typed, [Next]_vars
    PROVE  /\ made - pending \in Int /\ made' - pending' \in Int
           /\ made' - pending' >= made - pending
<1>1. /\ made \in Int /\ pending \in Int /\ made' \in Int /\ pending' \in Int
      /\ 0 <= pending /\ pending <= made /\ pending' <= made'
  BY TypedStep, HistoryAssumption DEF Typed, DaemonTyped, CountsTyped
<1>2. ASSUME \/ made' = made /\ pending' = pending
             \/ made' >= made /\ pending' = 0
             \/ made' = made + 1 /\ (pending' = pending \/ pending' = pending + 1)
      PROVE  /\ made - pending \in Int /\ made' - pending' \in Int
             /\ made' - pending' >= made - pending
  BY <1>1, <1>2, Differences
<1>3. made >= made
  BY <1>1
<1>4. CASE Output
  <2>1. /\ made' = made + 1
        /\ pending' = pending \/ pending' = 0 \/ pending' = pending + 1
    BY <1>4, Zenon DEF Output
  <2>2. made' >= made
    BY <1>1, <2>1
  <2> QED
    BY <1>2, <2>1, <2>2, Zenon
<1>5. CASE Gone
  <2>1. made' = made /\ pending' = 0
    BY <1>5 DEF Gone
  <2> QED
    BY <1>2, <1>3, <2>1
<1>6. CASE CreateOrAttach \/ TakePending
  <2>1. made' = made /\ (pending' = pending \/ pending' = 0)
    BY <1>6 DEF CreateOrAttach, TakePending, daemonVars
  <2> QED
    BY <1>2, <1>3, <2>1
<1>7. CASE \E keepHistory \in BOOLEAN : Shutdown(keepHistory)
  BY <1>2, <1>7 DEF Shutdown
<1>8. CASE SessionExit \/ DaemonCrash \/ PowerLoss
  BY <1>5, <1>8 DEF SessionExit, DaemonCrash, PowerLoss
<1>9. CASE \/ SpawnStart \/ SpawnDone \/ AckColdRestore \/ MarkSessionDirty \/ ExitEvent
           \/ Tick \/ Quit \/ Persist \/ WriteFails \/ WriteHeader \/ AppendBatch \/ RenameTmp
           \/ ResetLog \/ LoseTake \/ MainCrash \/ Launch \/ UNCHANGED vars
  <2>1. UNCHANGED <<made, pending>>
    BY <1>9, Zenon DEF SpawnStart, SpawnDone, AckColdRestore, MarkSessionDirty, ExitEvent,
       Tick, Quit, Persist, WriteFails, WriteHeader, AppendBatch, RenameTmp, ResetLog, LoseTake,
       MainCrash, Launch, vars, daemonVars
  <2> QED
    BY <1>2, <2>1
<1> QED
  BY <1>4, <1>6, <1>7, <1>8, <1>9, Zenon DEF Next, SessionNext, AdapterNext, PassNext, FaultNext
-----------------------------------------------------------------------------
(* Nothing twice *)

\* The batches of a log that grows by one, or by none.
LEMMA BatchesShape ==
    ASSUME log \in LogShape
    PROVE  /\ Len(log.batches) \in Nat
           /\ \A i \in 1..Len(log.batches) : log.batches[i] \in BatchShape
           /\ Batches \subseteq BatchShape
  BY DEF LogShape, Batches

LEMMA BatchesGrow ==
    ASSUME log \in LogShape, NEW b \in BatchShape,
           log'.batches \in {log.batches, <<>>, Append(log.batches, b)}
    PROVE  /\ \A c \in Batches' : c = b \/ c \in Batches
           /\ \A i \in 1..Len(log'.batches) :
                 \/ i \in 1..Len(log.batches) /\ log'.batches[i] = log.batches[i]
                 \/ log'.batches[i] = b /\ i = Len(log.batches) + 1
           /\ Len(log.batches) \in Nat
<1>1. log.batches \in Seq(BatchShape)
  BY DEF LogShape
<1>2. CASE log'.batches = log.batches
  BY <1>1, <1>2 DEF Batches
<1>3. CASE log'.batches = <<>>
  BY <1>1, <1>3 DEF Batches
<1>4. CASE log'.batches = Append(log.batches, b)
  BY <1>1, <1>4 DEF Batches
<1> QED
  BY <1>2, <1>3, <1>4

\* A log that was begun or is gone has no batches.
LEMMA NoBatches ==
    ASSUME \/ log' = NoLog
           \/ log' = Header(pass.gen) /\ pass.gen \in Nat
    PROVE  Batches' = {} /\ log'.batches = <<>>
<1>1. log'.batches = <<>>
  BY HeaderShape DEF NoLog
<1> QED
  BY <1>1 DEF Batches

LEMMA PassPathStep == Typed /\ PassPath /\ [Next]_vars => PassPath'
<1> SUFFICES ASSUME Typed, PassPath, [Next]_vars PROVE PassPath'
  OBVIOUS
<1>1. /\ CountsTyped /\ overflow \in BOOLEAN /\ PassTyped /\ DiskTyped /\ needFull \in BOOLEAN
  BY DEF Typed, DaemonTyped, FlagsTyped, MainTyped, SetsTyped
<1>2. NoPass.at = "idle" /\ TakeAll.at = "asked"
  BY <1>1, Shapes, TakeAllShape
<1>3. CASE Around
  BY <1>1, <1>3, AroundEffect DEF PassStays, PassOpened, PassLeft, AsksOrEnds, KeepsTake, PassPath
<1>4. CASE TakePending
  BY <1>1, <1>2, <1>4, TakeEffect DEF PassPath
<1>5. CASE Persist
  BY <1>1, <1>2, <1>5, PersistEffect DEF KeepsTake, PassPath
<1>6. CASE WriteHeader \/ AppendBatch \/ RenameTmp \/ ResetLog
  BY <1>1, <1>2, <1>6, HeaderEffect, AppendEffect, RenameEffect, ResetEffect DEF KeepsTake, PassPath
<1> QED
  BY <1>3, <1>4, <1>5, <1>6, NextIsAround

\* What is taken, on its way or on disk stays before what is pending.
LEMMA TakenFirstStep == Typed /\ TakenFirst /\ [Next]_vars => TakenFirst'
<1> SUFFICES ASSUME Typed, TakenFirst, [Next]_vars PROVE TakenFirst'
  OBVIOUS
<1>1. PICK n \in Int, m \in Int : n = made - pending /\ m = made' - pending' /\ m >= n
  BY TakenGrows
<1>2. PassTyped /\ DiskTyped /\ log \in LogShape /\ pass.hi \in Nat /\ made \in Int
  BY HistoryAssumption DEF Typed, MainTyped, DiskTyped, PassTyped, PassShape, DaemonTyped, CountsTyped
<1>3. /\ InFlight => pass.hi <= n
      /\ ckpt # None => ckpt.hi \in Nat /\ ckpt.hi <= n
      /\ \A b \in Batches : b.hi \in Nat /\ b.hi <= n
  BY <1>1, <1>2, BatchesShape DEF TakenFirst, DiskTyped, CkptShape, BatchShape
<1>4. InFlight' => pass'.hi <= m
  <2>1. CASE KeepsTake /\ (InFlight' => InFlight)
    BY <1>1, <1>2, <1>3, <2>1 DEF KeepsTake
  <2>2. CASE Takes
    <3>1. pass'.hi = made /\ made' = made /\ pending' = 0
      BY <2>2 DEF Takes
    <3> QED
      BY <1>1, <1>2, <3>1
  <2> QED
    BY <2>1, <2>2, PassChange
<1>5. ckpt' # None => ckpt'.hi <= m
  <2>1. CASE ckpt' = ckpt \/ ckpt' = None
    BY <1>1, <1>3, <2>1
  <2>2. CASE RenameTmp
    <3>1. ckpt'.hi = pass.hi /\ InFlight
      BY <1>2, <2>2, RenameEffect DEF InFlight
    <3> QED
      BY <1>1, <1>2, <1>3, <3>1
  <2> QED
    BY <2>1, <2>2, DiskChange DEF DiskLeft, AppendsTo
<1>6. \A b \in Batches' : b.hi <= m
  <2>1. CASE log' = log
    BY <1>1, <1>3, <2>1 DEF Batches
  <2>2. CASE log' = NoLog \/ (log' = Header(pass.gen) /\ pass.gen \in Nat)
    BY <2>2, NoBatches
  <2>3. ASSUME NEW b \in BatchShape, AppendsTo(b) PROVE \A c \in Batches' : c.hi <= m
    <3>1. b.hi <= pass.hi /\ InFlight /\ b.hi \in Nat
      BY <2>3 DEF AppendsTo, InFlight, BatchShape
    <3>2. b.hi <= m
      BY <1>1, <1>2, <1>3, <3>1
    <3>3. \A c \in Batches' : c = b \/ c \in Batches
      BY <1>2, <2>3, BatchesGrow DEF AppendsTo
    <3> QED
      BY <1>1, <1>3, <3>2, <3>3
  <2> QED
    BY <1>2, <2>1, <2>2, <2>3, DiskChange, RenameEffect DEF DiskLeft
<1> QED
  BY <1>1, <1>4, <1>5, <1>6 DEF TakenFirst

\* Increments are taken after everything on disk and appended in turn.
LEMMA InOrderStep == Typed /\ PassPath /\ TakenFirst /\ InOrder /\ [Next]_vars => InOrder'
<1> SUFFICES ASSUME Typed, PassPath, TakenFirst, InOrder, [Next]_vars PROVE InOrder'
  OBVIOUS
<1>1. PassTyped /\ DiskTyped /\ log \in LogShape /\ pass \in PassShape /\ made - pending \in Int
  BY TakenGrows DEF Typed, MainTyped, DiskTyped, PassTyped
<1>2. /\ pass.lo \in Nat /\ pass.hi \in Nat /\ (ckpt # None => ckpt.hi \in Nat)
      /\ \A b \in Batches : b.hi \in Nat /\ b.lo \in Nat
  BY <1>1, BatchesShape DEF PassShape, DiskTyped, CkptShape, BatchShape
<1>3. ASSUME InFlight', ~pass'.full
      PROVE  (\A b \in Batches' : b.hi < pass'.lo) /\ (ckpt' # None => ckpt'.hi < pass'.lo)
  <2>1. CASE KeepsTake /\ InFlight
    <3>1. /\ \A b \in Batches : b.hi < pass'.lo
          /\ ckpt # None => ckpt.hi < pass'.lo
      BY <1>3, <2>1 DEF InOrder, KeepsTake
    <3>2. CASE DiskLeft
      <4>1. CASE UNCHANGED <<ckpt, log>>
        BY <3>1, <4>1 DEF Batches
      <4>2. CASE ckpt' = None /\ log' = NoLog
        BY <4>2, NoBatches
      <4> QED
        BY <3>2, <4>1, <4>2 DEF DiskLeft
    <3>3. CASE RenameTmp
      BY <1>1, <1>3, <2>1, <3>3, RenameEffect DEF PassPath, KeepsTake
    <3>4. CASE ckpt' = ckpt /\ log' = Header(pass.gen) /\ pass.gen \in Nat
      BY <3>1, <3>4, NoBatches
    <3>5. CASE \E b \in BatchShape : AppendsTo(b)
      BY <1>3, <3>5, Shapes DEF AppendsTo, InFlight
    <3> QED
      BY <3>2, <3>3, <3>4, <3>5, DiskChange
  <2>2. CASE Takes
    <3>1. pass'.lo = made - pending + 1 /\ UNCHANGED <<ckpt, log>>
      BY <1>3, <2>2 DEF Takes
    <3>2. \A b \in Batches : b.hi <= made - pending
      BY DEF TakenFirst
    <3>3. ckpt # None => ckpt.hi <= made - pending
      BY DEF TakenFirst
    <3>4. \A b \in Batches : b.hi < pass'.lo
      BY <1>1, <1>2, <3>1, <3>2
    <3>5. ckpt # None => ckpt.hi < pass'.lo
      BY <1>1, <1>2, <3>1, <3>3
    <3> QED
      BY <3>1, <3>4, <3>5 DEF Batches
  <2> QED
    BY <1>3, <2>1, <2>2, PassChange
<1>4. ASSUME NEW i \in 1..Len(log'.batches), NEW j \in 1..Len(log'.batches), i < j
      PROVE  log'.batches[i].hi < log'.batches[j].lo
  <2>1. CASE log' = log
    BY <1>4, <2>1 DEF InOrder
  <2>2. CASE log' = NoLog \/ (log' = Header(pass.gen) /\ pass.gen \in Nat)
    BY <1>4, <2>2, NoBatches
  <2>3. ASSUME NEW b \in BatchShape, AppendsTo(b)
        PROVE  log'.batches[i].hi < log'.batches[j].lo
    <3>1. /\ \A k \in 1..Len(log'.batches) :
                \/ k \in 1..Len(log.batches) /\ log'.batches[k] = log.batches[k]
                \/ log'.batches[k] = b /\ k = Len(log.batches) + 1
          /\ Len(log.batches) \in Nat
      BY <1>1, <2>3, BatchesGrow DEF AppendsTo
    <3>2. pass.at = "append" /\ b.lo = pass.lo
      BY <2>3 DEF AppendsTo
    <3>3. \A k \in 1..Len(log.batches) : log.batches[k].hi < b.lo
      BY <3>2 DEF InOrder, PassPath, InFlight, Batches
    <3>4. i \in 1..Len(log.batches) /\ log'.batches[i] = log.batches[i]
      BY <1>4, <3>1
    <3>5. CASE j \in 1..Len(log.batches) /\ log'.batches[j] = log.batches[j]
      BY <1>4, <3>4, <3>5 DEF InOrder
    <3>6. CASE log'.batches[j] = b
      BY <3>3, <3>4, <3>6
    <3> QED
      BY <3>1, <3>5, <3>6
  <2> QED
    BY <1>1, <2>1, <2>2, <2>3, DiskChange, RenameEffect DEF DiskLeft
<1> QED
  BY <1>3, <1>4 DEF InOrder

\* A rename is of a generation that the log does not have yet.
LEMMA YoungerStep ==
    Typed /\ PassPath /\ InOrder /\ Generations /\ Younger /\ [Next]_vars => Younger'
<1> SUFFICES ASSUME Typed, PassPath, InOrder, Generations, Younger, [Next]_vars,
                    ckpt' # None, log'.state = "ok", log'.gen = ckpt'.gen,
                    NEW c \in Batches'
             PROVE  ckpt'.hi < c.lo
  BY DEF Younger
<1>1. PassTyped /\ DiskTyped /\ log \in LogShape /\ pass \in PassShape
  BY DEF Typed, MainTyped, DiskTyped, PassTyped
<1>2. CASE DiskLeft
  <2>1. UNCHANGED <<ckpt, log>>
    BY <1>2 DEF DiskLeft
  <2> QED
    BY <2>1 DEF Younger, Batches
<1>3. CASE RenameTmp
  <2>1. pass.at = "rename" /\ log' = log /\ ckpt'.gen = pass.gen
    BY <1>1, <1>3, RenameEffect
  <2>2. log.gen \in Nat /\ log.gen < pass.gen /\ pass.gen \in Nat
    BY <1>1, <2>1 DEF Generations, LogShape, PassShape
  <2> QED
    BY <2>1, <2>2
<1>4. CASE ckpt' = ckpt /\ log' = Header(pass.gen) /\ pass.gen \in Nat
  BY <1>4, NoBatches
<1>5. ASSUME NEW b \in BatchShape, AppendsTo(b) PROVE ckpt'.hi < c.lo
  <2>1. c = b \/ c \in Batches
    BY <1>1, <1>5, BatchesGrow DEF AppendsTo
  <2>2. ckpt' = ckpt /\ log.state = "ok" /\ log'.gen = log.gen
    BY <1>5 DEF AppendsTo
  <2>3. CASE c = b
    BY <1>5, <2>2, <2>3 DEF AppendsTo, InOrder, PassPath, InFlight
  <2>4. CASE c \in Batches
    BY <2>2, <2>4 DEF Younger
  <2> QED
    BY <2>1, <2>3, <2>4
<1> QED
  BY <1>2, <1>3, <1>4, <1>5, DiskChange

\* The generation a writer counts on is never behind the log's.
LEMMA GenerationsStep ==
    ASSUME "overlap" \notin May
    PROVE  Typed /\ Generations /\ [Next]_vars => Generations'
<1> SUFFICES ASSUME Typed, Generations, [Next]_vars PROVE Generations'
  OBVIOUS
<1>1. /\ CountsTyped /\ overflow \in BOOLEAN /\ PassTyped /\ DiskTyped /\ needFull \in BOOLEAN
      /\ log \in LogShape /\ pass \in PassShape /\ log.gen \in Nat /\ pass.gen \in Nat
  BY DEF Typed, DaemonTyped, FlagsTyped, MainTyped, SetsTyped, DiskTyped, PassTyped, LogShape,
     PassShape
<1>2. /\ NoPass.at = "idle" /\ TakeAll.at = "asked" /\ ~NoPass.own /\ ~TakeAll.own
      /\ NoLog.state = "none" /\ None \notin Writer /\ Unresolved \notin Writer
  BY <1>1, Shapes, TakeAllShape DEF NoLog
<1>3. \A gen \in Nat : Header(gen).state = "ok" /\ Header(gen).gen = gen
  BY HeaderShape
<1>4. CASE Around
  <2>1. log' = log \/ log'.state = "none" \/ (log'.state = "ok" => log.state = "ok" /\ log'.gen = log.gen)
    BY <1>1, <1>2, <1>4, AroundDisk DEF DiskLeft, AppendsTo
  <2>2. log'.state = "ok" => log.state = "ok" /\ log'.gen = log.gen
    BY <2>1
  <2>3. CASE PassStays
    BY <1>2, <2>2, <2>3 DEF PassStays, Generations, Writing
  <2>4. CASE PassOpened
    BY <1>2, <2>4 DEF PassOpened, Generations, Writing
  <2>5. CASE PassLeft
    BY <1>2, <2>2, <2>5 DEF PassLeft, AsksOrEnds, Generations, Writing
  <2> QED
    BY <1>1, <1>4, <2>3, <2>4, <2>5, AroundEffect
<1>5. CASE TakePending
  BY <1>1, <1>2, <1>5, TakeEffect DEF Generations, Writing, diskVars
<1>6. CASE Persist
  <2>1. log' = log /\ (writer # None /\ log.state = "ok" => log.gen <= Resolved.gen)
    <3>1. log' = log
      BY <1>6 DEF Persist, diskVars
    <3>2. ASSUME writer = Unresolved, log.state = "ok" PROVE log.gen <= Resolved.gen
      <4>1. Resolved = [writer EXCEPT !.gen = log.gen, !.bytes = Len(log.batches) + 1]
        BY <3>2 DEF Resolved
      <4>2. Resolved.gen = log.gen
        BY <3>2, <4>1 DEF Unresolved
      <4> QED
        BY <1>1, <4>2
    <3>3. ASSUME writer \in Writer, log.state = "ok" PROVE log.gen <= Resolved.gen
      <4>1. Resolved = writer
        BY <1>2, <3>3 DEF Resolved
      <4> QED
        BY <3>3, <4>1 DEF Generations
    <3> QED
      BY <1>1, <3>1, <3>2, <3>3 DEF PassTyped, WriterShape
  <2>2. writer # None => Resolved \in Writer /\ Resolved.gen \in Nat
    BY <1>1, ResolvedIsWriter DEF PassTyped, Writer
  <2>3. CASE pass' = NoPass \/ pass' = TakeAll
    <3>1. CASE writer' = writer
      BY <1>2, <2>1, <2>3, <3>1 DEF Generations, Writing
    <3>2. CASE writer' = Resolved /\ writer # None
      BY <1>2, <2>1, <2>3, <3>2 DEF Generations, Writing
    <3>3. CASE writer' = None
      BY <1>2, <2>1, <2>3, <3>3 DEF Generations, Writing
    <3>4. writer' = writer \/ writer' = None \/ (writer' = Resolved /\ writer # None)
      BY <1>1, <1>6, PersistEffect, Zenon
    <3> QED
      BY <3>1, <3>2, <3>3, <3>4
  <2>4. CASE /\ writer' = Resolved /\ writer # None /\ writer' \in Writer /\ pass'.own
             /\ \/ pass'.at = "rename" /\ pass'.gen = Resolved.gen + 1
                \/ pass'.at \in {"header", "append"} /\ pass'.gen = Resolved.gen
    BY <1>1, <2>1, <2>2, <2>4 DEF Generations, Writing
  <2> QED
    BY <1>1, <1>6, <2>3, <2>4, PersistEffect
<1>7. CASE WriteHeader
  BY <1>1, <1>2, <1>3, <1>7, HeaderEffect DEF Generations, Writing
<1>8. CASE AppendBatch
  <2>1. /\ pass.at = "append" /\ pass' = NoPass
        /\ log'.state = "ok" => log.state = "ok" /\ log'.gen = log.gen
    BY <1>1, <1>8, AppendBatchAppends DEF AppendsTo
  <2>2. CASE pass.own
    <3>1. writer.gen = pass.gen /\ writer \in Writer
      BY <1>1, <2>1, <2>2 DEF Generations, PassTyped
    <3>2. writer' = None \/ (writer' \in Writer /\ writer'.gen = pass.gen)
      BY <1>1, <1>8, <2>2, AppendEffect, Zenon
    <3> QED
      BY <1>2, <2>1, <3>1, <3>2 DEF Generations, Writing
  <2>3. CASE ~pass.own
    <3>1. writer' = None \/ writer' = writer
      BY <1>1, <1>8, <2>3, AppendEffect, Zenon
    <3> QED
      BY <1>2, <2>1, <3>1 DEF Generations, Writing
  <2> QED
    BY <2>2, <2>3
<1>9. CASE RenameTmp
  BY <1>1, <1>2, <1>9, RenameEffect DEF Generations, Writing
<1>10. CASE ResetLog
  BY <1>1, <1>2, <1>3, <1>10, ResetEffect DEF Generations, Writing
<1> QED
  BY <1>4, <1>5, <1>6, <1>7, <1>8, <1>9, <1>10, NextIsAround

LEMMA TwiceInvStep == ASSUME "overlap" \notin May PROVE TwiceInv /\ [Next]_vars => TwiceInv'
  BY TypedStep, PassPathStep, TakenFirstStep, InOrderStep, YoungerStep, GenerationsStep
  DEF TwiceInv

LEMMA TwiceInvInit == Init => TwiceInv
<1> SUFFICES ASSUME Init PROVE TwiceInv
  OBVIOUS
<1>1. Typed
  BY HistoryInitTyped
<1>2. /\ pass.at = "idle" /\ ~pass.own /\ ckpt = None /\ writer = None /\ None \notin Writer
      /\ log.batches = <<>> /\ log.state = "none"
  BY Shapes DEF Init, NoLog
<1>3. Batches = {}
  BY <1>2 DEF Batches
<1>4. PassPath /\ TakenFirst /\ Younger /\ Generations
  BY <1>2, <1>3 DEF PassPath, TakenFirst, Younger, Generations, InFlight, Writing
<1>5. InOrder
  BY <1>2, <1>3 DEF InOrder, InFlight
<1> QED
  BY <1>1, <1>4, <1>5 DEF TwiceInv

\* What a log adds to a cold restore.
Piece == [life : Nat, lo : Nat, hi : Nat]
Pieces == [i \in 1..Len(log.batches) |->
             [life |-> log.batches[i].life, lo |-> log.batches[i].lo, hi |-> log.batches[i].hi]]

LEMMA PiecesShape ==
    ASSUME log \in LogShape
    PROVE  /\ Pieces \in Seq(Piece) /\ Len(Pieces) = Len(log.batches) /\ Len(log.batches) \in Nat
           /\ \A i \in 1..Len(log.batches) :
                 Pieces[i].life = log.batches[i].life
                 /\ Pieces[i].lo = log.batches[i].lo /\ Pieces[i].hi = log.batches[i].hi
<1>1. Len(log.batches) \in Nat /\ \A i \in 1..Len(log.batches) : log.batches[i] \in BatchShape
  BY BatchesShape
<1>2. \A i \in 1..Len(log.batches) :
         [life |-> log.batches[i].life, lo |-> log.batches[i].lo, hi |-> log.batches[i].hi] \in Piece
  BY <1>1 DEF BatchShape, Piece
<1>3. Pieces \in [1..Len(log.batches) -> Piece]
  BY <1>2 DEF Pieces
<1> QED
  BY <1>1, <1>3 DEF Pieces

LEMMA BaseShape ==
    ASSUME ckpt \in {None} \cup CkptShape
    PROVE  /\ Base \in Seq(Piece)
           /\ ckpt = None => Base = <<>> /\ Len(Base) = 0
           /\ ckpt # None => /\ Len(Base) = 1
                             /\ Base[1].life = ckpt.life /\ Base[1].lo = ckpt.lo
                             /\ Base[1].hi = ckpt.hi
<1>1. CASE ckpt = None
  BY <1>1 DEF Base
<1>2. CASE ckpt # None
  <2>1. [life |-> ckpt.life, lo |-> ckpt.lo, hi |-> ckpt.hi] \in Piece
    BY <1>2 DEF CkptShape, Piece
  <2> QED
    BY <1>2, <2>1 DEF Base
<1> QED
  BY <1>1, <1>2

\* A cold restore shows the checkpoint and then, if the log continues it, the log.
LEMMA RestoredShape ==
    ASSUME Typed, NEW i \in DOMAIN Restored
    PROVE  \/ /\ ckpt # None /\ i = 1
              /\ Restored[i].life = ckpt.life /\ Restored[i].lo = ckpt.lo /\ Restored[i].hi = ckpt.hi
           \/ /\ LogContinues
              /\ \E k \in 1..Len(log.batches) :
                    /\ i = k + Len(Base) /\ Len(Base) \in Nat
                    /\ Restored[i].lo = log.batches[k].lo /\ Restored[i].hi = log.batches[k].hi
<1>1. log \in LogShape /\ ckpt \in {None} \cup CkptShape
  BY DEF Typed, DiskTyped
<1>2. CASE Restored = <<>>
  BY <1>2
<1>3. CASE Restored = Base
  BY <1>1, <1>3, BaseShape
<1>4. CASE LogContinues /\ Restored = Base \o Pieces
  <2>1. Base \in Seq(Piece) /\ Pieces \in Seq(Piece) /\ Len(Base) \in Nat /\ Len(Pieces) \in Nat
    BY <1>1, BaseShape, PiecesShape
  <2>2. /\ Len(Restored) = Len(Base) + Len(Pieces) /\ Restored \in Seq(Piece)
        /\ \A j \in 1..Len(Base) + Len(Pieces) :
              Restored[j] = IF j <= Len(Base) THEN Base[j] ELSE Pieces[j - Len(Base)]
    BY <1>4, <2>1, ConcatProperties
  <2>3. i \in 1..Len(Base) + Len(Pieces)
    BY <2>2
  <2>4. CASE i <= Len(Base)
    <3>1. Restored[i] = Base[i]
      BY <2>2, <2>3, <2>4
    <3> QED
      BY <1>1, <2>1, <2>3, <2>4, <3>1, BaseShape
  <2>5. CASE ~(i <= Len(Base))
    <3>1. PICK k \in 1..Len(Pieces) : k = i - Len(Base) /\ i = k + Len(Base)
      BY <2>1, <2>3, <2>5
    <3>2. Restored[i] = Pieces[k]
      BY <2>2, <2>3, <2>5, <3>1
    <3> QED
      BY <1>1, <1>4, <2>1, <3>1, <3>2, PiecesShape
  <2> QED
    BY <2>4, <2>5
<1> QED
  BY <1>2, <1>3, <1>4 DEF Restored, Pieces

\* No output is shown twice or out of order by a cold restore, unless a history is
\* opened while a checkpoint pass writes: the records that two pieces of Restored
\* stand for never overlap, whenever the crash came.
THEOREM HistoryNoOutputTwice ==
    ASSUME "overlap" \notin May
    PROVE  Spec => []NoOutputTwice
<1>1. TwiceInv => NoOutputTwice
  <2> SUFFICES ASSUME TwiceInv, NEW i \in DOMAIN Restored, NEW j \in DOMAIN Restored, i < j
               PROVE  Restored[i].hi < Restored[j].lo
    BY DEF NoOutputTwice
  <2>1. /\ Typed /\ InOrder /\ Younger /\ ckpt \in {None} \cup CkptShape
    BY DEF TwiceInv, Typed, DiskTyped
  <2>2. CASE ckpt # None /\ i = 1 /\ Restored[i].hi = ckpt.hi
    <3>1. PICK k \in 1..Len(log.batches) : LogContinues /\ Restored[j].lo = log.batches[k].lo
      BY <2>1, <2>2, RestoredShape
    <3>2. log.state = "ok" /\ log.gen = ckpt.gen
      BY <2>2, <3>1 DEF LogContinues, Decodes
    <3> QED
      BY <2>1, <2>2, <3>1, <3>2 DEF Younger, Batches
  <2>3. ASSUME NEW k \in 1..Len(log.batches), i = k + Len(Base), Len(Base) \in Nat,
               Restored[i].hi = log.batches[k].hi
        PROVE  Restored[i].hi < Restored[j].lo
    <3>1. Len(log.batches) \in Nat
      BY <2>1, BatchesShape DEF Typed, DiskTyped
    <3>2. PICK l \in 1..Len(log.batches) :
             j = l + Len(Base) /\ Restored[j].lo = log.batches[l].lo
      BY <2>1, <2>3, <3>1, RestoredShape
    <3>3. k < l
      BY <2>3, <3>1, <3>2
    <3> QED
      BY <2>1, <2>3, <3>2, <3>3 DEF InOrder
  <2> QED
    BY <2>1, <2>2, <2>3, RestoredShape
<1>2. QED
  BY TwiceInvInit, TwiceInvStep, <1>1, PTL DEF Spec
-----------------------------------------------------------------------------
(* No hole *)

\* The session goes on: it is the same life, nothing is taken, and what is pending
\* still begins where it did.
GoesOn ==
    /\ life' = life /\ alive /\ seq' = seq /\ first' = first
    /\ ~overflow' => ~overflow /\ made' - pending' = made - pending

LEMMA Sums == ASSUME NEW m \in Int, NEW p \in Int PROVE (m + 1) - (p + 1) = m - p
  OBVIOUS

LEMMA LivesStep ==
    ASSUME Typed, [Next]_vars
    PROVE  \/ life' = life /\ ~alive'
           \/ life' = life + 1 /\ CreateOrAttach
           \/ Takes
           \/ GoesOn
<1>1. made \in Int /\ pending \in Int
  BY HistoryAssumption DEF Typed, DaemonTyped, CountsTyped
<1>2. CASE UNCHANGED daemonVars
  BY <1>2 DEF daemonVars, GoesOn
<1>3. CASE Output
  <2>1. alive /\ made' = made + 1 /\ UNCHANGED <<life, seq, first>>
    BY <1>3 DEF Output
  <2>2. ~overflow' => ~overflow /\ pending' = pending + 1
    BY <1>3, Zenon DEF Output
  <2>3. (made + 1) - (pending + 1) = made - pending
    BY <1>1, Sums
  <2> QED
    BY <2>1, <2>2, <2>3 DEF GoesOn
<1>4. CASE Gone
  BY <1>4 DEF Gone
<1>5. CASE CreateOrAttach
  BY <1>2, <1>5 DEF CreateOrAttach
<1>6. CASE TakePending
  <2>1. /\ CountsTyped /\ PassTyped /\ overflow \in BOOLEAN
    BY DEF Typed, DaemonTyped, FlagsTyped, MainTyped
  <2> QED
    BY <1>2, <1>6, <2>1, TakeEffect DEF Takes, diskVars
<1>7. CASE \E keepHistory \in BOOLEAN : Shutdown(keepHistory)
  BY <1>7 DEF Shutdown, GoesOn
<1>8. CASE SessionExit \/ DaemonCrash \/ PowerLoss
  BY <1>4, <1>8 DEF SessionExit, DaemonCrash, PowerLoss
<1>9. CASE \/ SpawnStart \/ SpawnDone \/ AckColdRestore \/ MarkSessionDirty \/ ExitEvent
           \/ Tick \/ Quit \/ Persist \/ WriteFails \/ WriteHeader \/ AppendBatch \/ RenameTmp
           \/ ResetLog \/ LoseTake \/ MainCrash \/ Launch \/ UNCHANGED vars
  <2>1. UNCHANGED daemonVars \/ (UNCHANGED daemonVars /\ ~alive)
    BY <1>9, Zenon DEF SpawnStart, SpawnDone, AckColdRestore, MarkSessionDirty, ExitEvent,
       Tick, Quit, Persist, WriteFails, WriteHeader, AppendBatch, RenameTmp, ResetLog, LoseTake,
       MainCrash, Launch, vars
  <2> QED
    BY <1>2, <2>1
<1> QED
  BY <1>3, <1>5, <1>6, <1>7, <1>8, <1>9, Zenon DEF Next, SessionNext, AdapterNext, PassNext,
     FaultNext

\* A take of life l with number s, which ended behind record h.
Counted(l, s) == l <= life /\ s >= 1 /\ (alive /\ l = life => s <= seq)
EndsLast(l, s, h) == alive /\ ~overflow /\ l = life /\ s = seq => h = made - pending

LEMMA CountedStays ==
    ASSUME Typed, [Next]_vars, NEW l \in Nat, NEW s \in Nat, Counted(l, s)
    PROVE  Counted(l, s)'
<1>1. life \in Nat /\ seq \in Nat
  BY HistoryAssumption DEF Typed, DaemonTyped, CountsTyped
<1>2. CASE life' = life /\ ~alive'
  BY <1>2 DEF Counted
<1>3. CASE life' = life + 1
  BY <1>1, <1>3 DEF Counted
<1>4. CASE Takes
  <2>1. life' = life /\ alive /\ seq' = seq + 1
    BY <1>4 DEF Takes
  <2> QED
    BY <1>1, <2>1 DEF Counted
<1>5. CASE GoesOn
  BY <1>5 DEF Counted, GoesOn
<1> QED
  BY <1>2, <1>3, <1>4, <1>5, LivesStep

LEMMA EndsLastStays ==
    ASSUME Typed, [Next]_vars, NEW l \in Nat, NEW s \in Nat, NEW h, Counted(l, s), EndsLast(l, s, h)
    PROVE  EndsLast(l, s, h)'
<1>1. life \in Nat /\ seq \in Nat
  BY HistoryAssumption DEF Typed, DaemonTyped, CountsTyped
<1>2. CASE life' = life /\ ~alive'
  BY <1>2 DEF EndsLast
<1>3. CASE life' = life + 1
  BY <1>1, <1>3 DEF Counted, EndsLast
<1>4. CASE Takes
  <2>1. life' = life /\ alive /\ seq' = seq + 1
    BY <1>4 DEF Takes
  <2> QED
    BY <1>1, <2>1 DEF Counted, EndsLast
<1>5. CASE GoesOn
  BY <1>5 DEF EndsLast, GoesOn
<1> QED
  BY <1>2, <1>3, <1>4, <1>5, LivesStep

\* The batches after a step were there or are what the pass took; a torn log keeps
\* what it has or loses all.
LEMMA BatchesChange ==
    ASSUME Typed, [Next]_vars, NEW c \in Batches'
    PROVE  /\ c \in BatchShape
           /\ c \in Batches \/ (AppendsTo(c) /\ ~log.torn)
           /\ log.torn => log'.torn
<1>1. log \in LogShape /\ PassTyped /\ Batches \subseteq BatchShape
  BY BatchesShape DEF Typed, DiskTyped, MainTyped
<1>2. CASE log' = log
  BY <1>1, <1>2 DEF Batches
<1>3. CASE log' = NoLog \/ (log' = Header(pass.gen) /\ pass.gen \in Nat)
  BY <1>3, NoBatches
<1>4. ASSUME NEW b \in BatchShape, AppendsTo(b)
      PROVE  (c \in Batches \/ (c = b /\ ~log.torn)) /\ (log.torn => log'.torn)
  <2>1. c = b \/ c \in Batches
    BY <1>1, <1>4, BatchesGrow DEF AppendsTo
  <2>2. ASSUME log.torn PROVE log'.torn /\ c \in Batches
    <3>1. log'.batches # <<>>
      BY DEF Batches
    <3>2. log'.torn /\ log'.batches = log.batches
      BY <1>4, <2>2, <3>1 DEF AppendsTo
    <3> QED
      BY <3>2 DEF Batches
  <2> QED
    BY <2>1, <2>2
<1> QED
  BY <1>1, <1>2, <1>3, <1>4, DiskChange, RenameEffect DEF DiskLeft

LEMMA TakesCountedAlt ==
    TakesCounted <=> /\ \A b \in Batches : Counted(b.life, b.seq)
                     /\ InFlight => Counted(pass.life, pass.seq)
  BY DEF TakesCounted, Counted

LEMMA TakesCountedStep == Typed /\ TakesCounted /\ [Next]_vars => TakesCounted'
<1> SUFFICES ASSUME Typed, TakesCounted, [Next]_vars PROVE TakesCounted'
  OBVIOUS
<1>1. /\ life \in Nat /\ seq \in Nat /\ pass.life \in Nat /\ pass.seq \in Nat
      /\ \A b \in BatchShape : b.life \in Nat /\ b.seq \in Nat
  BY HistoryAssumption DEF Typed, DaemonTyped, CountsTyped, MainTyped, PassTyped, PassShape, BatchShape
<1>2. PICK l \in Nat, s \in Nat : l = pass.life /\ s = pass.seq
  BY <1>1
<1>3. InFlight => Counted(l, s)'
  BY <1>1, <1>2, CountedStays, TakesCountedAlt
<1>4. ASSUME NEW c \in Batches'
      PROVE  c.life <= life' /\ c.seq >= 1 /\ (alive' /\ c.life = life' => c.seq <= seq')
  <2>1. CASE c \in Batches /\ c \in BatchShape
    <3>1. Counted(c.life, c.seq)'
      BY <1>1, <2>1, CountedStays, TakesCountedAlt
    <3> QED
      BY <3>1 DEF Counted
  <2>2. CASE AppendsTo(c)
    <3>1. InFlight /\ c.life = l /\ c.seq = s
      BY <1>2, <2>2 DEF AppendsTo, InFlight
    <3> QED
      BY <1>3, <3>1 DEF Counted
  <2> QED
    BY <2>1, <2>2, BatchesChange
<1>5. InFlight' => /\ pass'.life <= life' /\ pass'.seq >= 1
                   /\ alive' /\ pass'.life = life' => pass'.seq <= seq'
  <2>1. CASE KeepsTake /\ (InFlight' => InFlight)
    BY <1>2, <1>3, <2>1 DEF Counted, KeepsTake
  <2>2. CASE Takes
    BY <1>1, <2>2 DEF Takes
  <2> QED
    BY <2>1, <2>2, PassChange
<1> QED
  BY <1>4, <1>5 DEF TakesCounted

LEMMA LastTakeAlt ==
    LastTake <=> /\ ~log.torn => \A b \in Batches : EndsLast(b.life, b.seq, b.hi)
                 /\ InFlight => EndsLast(pass.life, pass.seq, pass.hi)
  BY Zenon DEF LastTake, EndsLast

\* What is pending of a life begins behind its last take, wherever that take is.
LEMMA LastTakeStep == Typed /\ TakesCounted /\ LastTake /\ [Next]_vars => LastTake'
<1> SUFFICES ASSUME Typed, TakesCounted, LastTake, [Next]_vars, alive', ~overflow' PROVE
      /\ InFlight' /\ pass'.life = life' /\ pass'.seq = seq' => pass'.hi = made' - pending'
      /\ ~log'.torn =>
           \A c \in Batches' : c.life = life' /\ c.seq = seq' => c.hi = made' - pending'
  BY DEF LastTake
<1>1. /\ life \in Nat /\ seq \in Nat /\ pass.life \in Nat /\ pass.seq \in Nat /\ pass.hi \in Nat
      /\ \A b \in BatchShape : b.life \in Nat /\ b.seq \in Nat
      /\ made \in Int
  BY HistoryAssumption DEF Typed, DaemonTyped, CountsTyped, MainTyped, PassTyped, PassShape, BatchShape
<1>2. PICK l \in Nat, s \in Nat, h \in Nat : l = pass.life /\ s = pass.seq /\ h = pass.hi
  BY <1>1
<1>3. InFlight => EndsLast(l, s, h)'
  BY <1>1, <1>2, EndsLastStays, TakesCountedAlt, LastTakeAlt
<1>4. ASSUME ~log'.torn, NEW c \in Batches', c.life = life', c.seq = seq'
      PROVE  c.hi = made' - pending'
  <2>1. CASE c \in Batches /\ c \in BatchShape /\ ~log.torn
    <3>1. EndsLast(c.life, c.seq, c.hi)'
      BY <1>1, <2>1, EndsLastStays, TakesCountedAlt, LastTakeAlt
    <3> QED
      BY <1>4, <3>1 DEF EndsLast
  <2>2. CASE AppendsTo(c)
    <3>1. InFlight /\ c.life = l /\ c.seq = s /\ c.hi = h
      BY <1>2, <1>4, <2>2 DEF AppendsTo, InFlight
    <3> QED
      BY <1>3, <1>4, <3>1 DEF EndsLast
  <2> QED
    BY <1>4, <2>1, <2>2, BatchesChange
<1>5. ASSUME InFlight', pass'.life = life', pass'.seq = seq' PROVE pass'.hi = made' - pending'
  <2>1. CASE KeepsTake /\ (InFlight' => InFlight)
    BY <1>2, <1>3, <1>5, <2>1 DEF EndsLast, KeepsTake
  <2>2. CASE Takes
    <3>1. pass'.hi = made /\ made' = made /\ pending' = 0
      BY <2>2 DEF Takes
    <3> QED
      BY <1>1, <3>1
  <2> QED
    BY <1>5, <2>1, <2>2, PassChange
<1> QED
  BY <1>4, <1>5

\* An increment begins where the take before it ended.
LEMMA AdjacentStep ==
    Typed /\ PassPath /\ LastTake /\ Adjacent /\ [Next]_vars => Adjacent'
<1> SUFFICES ASSUME Typed, PassPath, LastTake, Adjacent, [Next]_vars PROVE Adjacent'
  OBVIOUS
<1>1. /\ PassTyped /\ log \in LogShape /\ made - pending \in Int /\ seq \in Nat
      /\ NoPass.at = "idle"
      /\ \A b \in BatchShape : b.life \in Nat /\ b.seq \in Nat /\ b.hi \in Nat
  BY HistoryAssumption, TakenGrows, Shapes DEF Typed, DaemonTyped, CountsTyped, DiskTyped, MainTyped,
     BatchShape
<1>2. ASSUME InFlight', ~pass'.full, ~pass'.over, ~log'.torn, NEW c \in Batches',
             c.life = pass'.life, pass'.seq = c.seq + 1
      PROVE  pass'.lo = c.hi + 1
  <2>1. c \in Batches /\ c \in BatchShape /\ ~log.torn
    BY <1>1, <1>2, BatchesChange DEF AppendsTo, InFlight
  <2>2. CASE KeepsTake /\ (InFlight' => InFlight)
    BY <1>2, <2>1, <2>2 DEF KeepsTake, Adjacent
  <2>3. CASE Takes
    <3>1. /\ alive /\ ~overflow /\ pass'.life = life /\ pass'.seq = seq + 1
          /\ pass'.lo = made - pending + 1
      BY <1>2, <2>3 DEF Takes
    <3>2. c.life = life /\ c.seq = seq
      BY <1>1, <1>2, <2>1, <3>1
    <3>3. c.hi = made - pending
      BY <2>1, <3>1, <3>2 DEF LastTake
    <3> QED
      BY <3>1, <3>3
  <2> QED
    BY <1>2, <2>2, <2>3, PassChange
<1>3. ASSUME NEW i \in 1..Len(log'.batches), NEW j \in 1..Len(log'.batches), i < j,
             log'.batches[j].life = log'.batches[i].life,
             log'.batches[j].seq = log'.batches[i].seq + 1
      PROVE  log'.batches[j].lo = log'.batches[i].hi + 1
  <2>1. CASE log' = log
    BY <1>3, <2>1 DEF Adjacent
  <2>2. CASE log' = NoLog \/ (log' = Header(pass.gen) /\ pass.gen \in Nat)
    BY <1>3, <2>2, NoBatches
  <2>3. ASSUME NEW b \in BatchShape, AppendsTo(b)
        PROVE  log'.batches[j].lo = log'.batches[i].hi + 1
    <3>1. /\ \A k \in 1..Len(log'.batches) :
                \/ k \in 1..Len(log.batches) /\ log'.batches[k] = log.batches[k]
                \/ log'.batches[k] = b /\ k = Len(log.batches) + 1
          /\ Len(log.batches) \in Nat
      BY <1>1, <2>3, BatchesGrow DEF AppendsTo
    <3>2. pass.at = "append" /\ b.lo = pass.lo /\ b.life = pass.life /\ b.seq = pass.seq
      BY <2>3 DEF AppendsTo
    <3>3. ~log.torn =>
            \A d \in Batches : d.life = b.life /\ b.seq = d.seq + 1 => b.lo = d.hi + 1
      BY <3>2 DEF Adjacent, PassPath, InFlight
    <3>4. i \in 1..Len(log.batches) /\ log'.batches[i] = log.batches[i]
      BY <1>3, <3>1
    <3>5. CASE j \in 1..Len(log.batches) /\ log'.batches[j] = log.batches[j]
      BY <1>3, <3>4, <3>5 DEF Adjacent
    <3>6. CASE log'.batches[j] = b /\ ~log.torn
      <4>1. log.batches[i] \in Batches
        BY <3>4 DEF Batches
      <4> QED
        BY <1>3, <3>3, <3>4, <3>6, <4>1
    <3>7. CASE log.torn
      <4>1. log'.batches = log.batches
        BY <1>3, <2>3, <3>7 DEF AppendsTo
      <4> QED
        BY <1>3, <4>1 DEF Adjacent
    <3> QED
      BY <3>1, <3>5, <3>6, <3>7
  <2> QED
    BY <1>1, <2>1, <2>2, <2>3, DiskChange, RenameEffect DEF DiskLeft
<1> QED
  BY <1>2, <1>3 DEF Adjacent

LEMMA GapInvStep == GapInv /\ [Next]_vars => GapInv'
  BY TypedStep, PassPathStep, TakesCountedStep, LastTakeStep, AdjacentStep DEF GapInv

LEMMA GapInvInit == Init => GapInv
<1> SUFFICES ASSUME Init PROVE GapInv
  OBVIOUS
<1>1. pass.at = "idle" /\ log.batches = <<>> /\ ~alive
  BY Shapes DEF Init, NoLog
<1>2. Batches = {}
  BY <1>1 DEF Batches
<1>3. PassPath /\ TakesCounted /\ LastTake /\ Adjacent
  BY <1>1, <1>2 DEF PassPath, TakesCounted, LastTake, Adjacent, InFlight
<1> QED
  BY <1>3, HistoryInitTyped DEF GapInv

\* A log that is replayed has no hole between two batches of one life: whatever
\* was lost, a batch with the next number begins where the batch before it ended.
\* It holds for overlapping spawns too.
THEOREM HistoryGapsAreSeen == Spec => []GapsAreSeen
<1>1. GapInv => GapsAreSeen
  <2> SUFFICES ASSUME GapInv, LogContinues, NEW i \in 1..Len(log.batches)-1,
                      log.batches[i+1].life = log.batches[i].life
               PROVE  log.batches[i+1].lo = log.batches[i].hi + 1
    BY DEF GapsAreSeen
  <2>1. Len(log.batches) \in Nat
    BY BatchesShape DEF GapInv, Typed, DiskTyped
  <2>2. log.batches[i+1].seq = log.batches[i].seq + 1
    BY DEF LogContinues, Decodes
  <2>3. i \in 1..Len(log.batches) /\ i + 1 \in 1..Len(log.batches) /\ i < i + 1
    BY <2>1
  <2> QED
    BY <2>2, <2>3 DEF GapInv, Adjacent
<1>2. QED
  BY GapInvInit, GapInvStep, <1>1, PTL DEF Spec
-----------------------------------------------------------------------------
(* A quit *)

\* Nothing is spawned during the pass of a quit, and only its own rename touches
\* the checkpoint.
LEMMA QuitGoesOn ==
    ASSUME Typed, pass.quit => pass.full /\ spawn.at = "idle", [Next]_vars, pass'.quit
    PROVE  /\ pass'.full /\ spawn'.at = "idle"
           /\ InFlight' => pass.quit /\ ~CreateOrAttach /\ (ckpt' = ckpt \/ RenameTmp)
<1>1. /\ CountsTyped /\ overflow \in BOOLEAN /\ PassTyped /\ DiskTyped /\ needFull \in BOOLEAN
  BY DEF Typed, DaemonTyped, FlagsTyped, MainTyped, SetsTyped
<1>2. /\ NoPass.at = "idle" /\ ~NoPass.quit /\ NoSpawn.at = "idle"
      /\ TakeAll.at = "asked" /\ TakeAll.full /\ TakeAll.quit = pass.quit
  BY <1>1, Shapes, TakeAllShape DEF NoSpawn
<1>3. pass.quit => ~CreateOrAttach
  BY DEF CreateOrAttach
<1>4. ASSUME pass'.full /\ pass'.quit = pass.quit, spawn' = spawn \/ spawn' = NoSpawn,
             ckpt' = ckpt \/ RenameTmp
      PROVE  /\ pass'.full /\ spawn'.at = "idle"
             /\ InFlight' => pass.quit /\ ~CreateOrAttach /\ (ckpt' = ckpt \/ RenameTmp)
  BY <1>2, <1>3, <1>4
<1>5. CASE \/ TakePending \/ Persist \/ WriteHeader \/ AppendBatch \/ RenameTmp \/ ResetLog
  <2>1. CASE TakePending
    <3>1. pass'.full = pass.full /\ pass'.quit = pass.quit /\ spawn' = spawn /\ ckpt' = ckpt
      BY <1>1, <1>2, <2>1, TakeEffect DEF diskVars
    <3> QED
      BY <1>4, <3>1
  <2>2. CASE Persist
    <3>1. ckpt' = ckpt /\ (spawn' = spawn \/ spawn' = NoSpawn)
      BY <1>1, <2>2, PersistEffect DEF diskVars
    <3>2. pass'.quit = pass.quit /\ (pass'.full = pass.full \/ pass'.full)
      BY <1>1, <1>2, <2>2, PersistEffect DEF KeepsTake
    <3> QED
      BY <1>4, <3>1, <3>2
  <2>3. CASE AppendBatch \/ ResetLog
    BY <1>1, <1>2, <2>3, AppendEffect, ResetEffect
  <2>4. CASE WriteHeader \/ RenameTmp
    <3>1. KeepsTake /\ spawn' = spawn /\ (ckpt' = ckpt \/ RenameTmp)
      BY <1>1, <2>4, HeaderEffect, RenameEffect
    <3> QED
      BY <1>4, <3>1 DEF KeepsTake
  <2> QED
    BY <1>5, <2>1, <2>2, <2>3, <2>4
<1>6. CASE Around
  <2>1. CASE pass.quit
    <3>1. spawn.at = "idle" /\ pass.full /\ ~CreateOrAttach /\ ~SpawnStart /\ ~SpawnDone
          /\ \A keepHistory \in BOOLEAN : ~Shutdown(keepHistory)
      BY <2>1 DEF CreateOrAttach, SpawnStart, SpawnDone, Shutdown
    <3>2. /\ spawn' = spawn \/ spawn' = NoSpawn
          /\ ckpt' = ckpt
      BY <1>1, <1>6, <3>1, ForgetLeaves, PassEnds, Zenon DEF Around, Output, SessionExit,
         AckColdRestore, MarkSessionDirty, ExitEvent, Tick, Quit, WriteFails, LoseTake, MainCrash,
         DaemonCrash, PowerLoss, Launch, vars, mainVars, diskVars, Forget
    <3>3. pass'.full
      BY <1>1, <1>6, <3>1, AroundEffect DEF PassStays, PassOpened, PassLeft, AsksOrEnds, KeepsTake
    <3> QED
      BY <1>2, <2>1, <3>1, <3>2, <3>3
  <2>2. CASE ~pass.quit
    <3>1. pass'.at \in {"idle", "asked"} /\ pass'.full
      BY <1>1, <1>6, <2>2, AroundEffect DEF PassStays, PassOpened, PassLeft, AsksOrEnds, KeepsTake
    <3>2. ~InFlight'
      BY <3>1 DEF InFlight
    <3>3. spawn'.at = "idle"
      <4>1. CASE Quit
        <5>1. spawn.at = "idle" /\ (spawn' = spawn \/ Forget)
          BY <4>1 DEF Quit
        <5>2. Forget => spawn' = NoSpawn
          BY DEF Forget
        <5> QED
          BY <1>2, <5>1, <5>2
      <4>2. CASE Tick
        <5>1. pass' = [NoPass EXCEPT !.at = "asked", !.full = needFull, !.anchor = needFull]
          BY <4>2 DEF Tick
        <5>2. ~pass'.quit
          BY <1>2, <5>1, Shapes DEF PassShape
        <5> QED
          BY <5>2
      <4>3. CASE ~Quit /\ ~Tick
        <5>1. pass' = pass \/ pass' = NoPass \/ pass' = [pass EXCEPT !.own = FALSE]
          BY <1>6, <4>3, ForgetLeaves, PassEnds, Zenon DEF Around, Output, SessionExit,
             CreateOrAttach, SpawnStart, SpawnDone, OpenSession, AckColdRestore, MarkSessionDirty,
             ExitEvent, Shutdown, WriteFails, LoseTake, MainCrash, DaemonCrash, PowerLoss, Launch,
             vars, mainVars, Forget
        <5>2. pass' = [pass EXCEPT !.own = FALSE] => pass'.quit = pass.quit
          BY <1>1, Disowned DEF KeepsTake
        <5> QED
          BY <1>2, <2>2, <5>1, <5>2
      <4> QED
        BY <4>1, <4>2, <4>3
    <3> QED
      BY <3>1, <3>2, <3>3
  <2> QED
    BY <2>1, <2>2
<1> QED
  BY <1>5, <1>6, NextIsAround

\* A pass is about to reset its log only behind its rename.
LEMMA OnlyRenames ==
    ASSUME Typed, [Next]_vars, ~RenameTmp, pass'.at = "reset"
    PROVE  pass.at = "reset"
<1>1. /\ CountsTyped /\ overflow \in BOOLEAN /\ PassTyped /\ DiskTyped /\ needFull \in BOOLEAN
  BY DEF Typed, DaemonTyped, FlagsTyped, MainTyped, SetsTyped
<1>2. NoPass.at = "idle" /\ TakeAll.at = "asked"
  BY <1>1, Shapes, TakeAllShape
<1>3. CASE Around
  BY <1>1, <1>3, AroundEffect DEF PassStays, PassOpened, PassLeft, AsksOrEnds
<1>4. CASE TakePending \/ Persist \/ WriteHeader \/ AppendBatch \/ ResetLog
  BY <1>1, <1>2, <1>4, TakeEffect, PersistEffect, HeaderEffect, AppendEffect, ResetEffect
<1> QED
  BY <1>3, <1>4, NextIsAround

\* The take of a quit begins with the life of the session, and its checkpoint is
\* that take.
LEMMA QuitPassStep == Typed /\ QuitPass /\ [Next]_vars => QuitPass'
<1> SUFFICES ASSUME Typed, QuitPass, [Next]_vars, pass'.quit
             PROVE  /\ pass'.full /\ spawn'.at = "idle"
                    /\ InFlight' /\ alive' =>
                         pass'.life = life' /\ pass'.seq = seq' /\ pass'.lo = first' + 1
                    /\ pass'.at = "reset" =>
                         ckpt' # None /\ ckpt'.life = pass'.life /\ ckpt'.lo = pass'.lo
                         /\ ckpt'.hi = pass'.hi
  BY DEF QuitPass
<1>1. PassTyped /\ (pass.quit => pass.full /\ spawn.at = "idle")
  BY DEF Typed, MainTyped, QuitPass
<1>2. /\ pass'.full /\ spawn'.at = "idle"
      /\ InFlight' => pass.quit /\ ~CreateOrAttach /\ (ckpt' = ckpt \/ RenameTmp)
  BY <1>1, QuitGoesOn
<1>3. ASSUME InFlight', alive'
      PROVE  pass'.life = life' /\ pass'.seq = seq' /\ pass'.lo = first' + 1
  <2>1. CASE Takes
    BY <1>1, <1>2, <1>3, <2>1 DEF Takes
  <2>2. CASE GoesOn /\ KeepsTake /\ InFlight
    BY <1>2, <1>3, <2>2 DEF GoesOn, KeepsTake, QuitPass
  <2> QED
    BY <1>2, <1>3, <2>1, <2>2, LivesStep, PassChange
<1>4. ASSUME pass'.at = "reset"
      PROVE  ckpt' # None /\ ckpt'.life = pass'.life /\ ckpt'.lo = pass'.lo /\ ckpt'.hi = pass'.hi
  <2>1. InFlight' /\ ~Takes
    BY <1>4 DEF InFlight, Takes
  <2>2. KeepsTake
    BY <2>1, PassChange
  <2>3. CASE RenameTmp
    <3>1. ckpt' = [kind |-> "checkpoint", gen |-> pass.gen, life |-> pass.life,
                   lo |-> pass.lo, hi |-> pass.hi]
      BY <2>3 DEF RenameTmp
    <3>2. ckpt' # None
      BY <3>1 DEF None
    <3> QED
      BY <2>2, <3>1, <3>2 DEF KeepsTake
  <2>4. CASE ckpt' = ckpt /\ ~RenameTmp
    <3>1. pass.at = "reset"
      BY <1>1, <1>4, <2>4, OnlyRenames
    <3> QED
      BY <1>2, <2>1, <2>2, <2>4, <3>1 DEF QuitPass, KeepsTake
  <2> QED
    BY <1>2, <2>1, <2>3, <2>4
<1> QED
  BY <1>2, <1>3, <1>4

LEMMA QuitInvStep == QuitInv /\ [Next]_vars => QuitInv'
  BY GapInvStep, QuitPassStep DEF QuitInv, GapInv

LEMMA QuitInvInit == Init => QuitInv
<1> SUFFICES ASSUME Init PROVE QuitInv
  OBVIOUS
<1>1. ~pass.quit
  BY Shapes DEF Init
<1> QED
  BY <1>1, GapInvInit DEF QuitInv, QuitPass

\* Only the reset of its log ends a quit's pass of a session that records.
LEMMA QuitEndsByReset ==
    ASSUME QuitInv, [Next]_vars, pass.quit, ~up', faults' = faults,
           alive, meta = "open", writer # None, ~disabled
    PROVE  ResetLog
<1>1. /\ PassTyped /\ PassPath /\ pass.full /\ pass.at # "idle" /\ faults \in Nat
  BY HistoryAssumption DEF QuitInv, GapInv, QuitPass, Typed, MainTyped, PassTyped, EventsTyped
<1>2. up
  BY <1>1, PassIsUp
<1>3. ~Fault
  BY <1>1 DEF Fault
<1>4. ~(TakePending \/ WriteHeader \/ RenameTmp)
  BY <1>2 DEF TakePending, WriteHeader, RenameTmp, Continue
<1>5. ~Persist
  BY <1>1, <1>2, Zenon DEF Persist, Continue
<1>6. ~AppendBatch
  BY <1>1 DEF AppendBatch, PassPath
<1>7. ~(Quit \/ Tick \/ WriteFails \/ MainCrash \/ PowerLoss \/ LoseTake \/ DaemonCrash)
  BY <1>1, <1>3 DEF Quit, Tick, WriteFails, MainCrash, PowerLoss, LoseTake, DaemonCrash
<1>8. ~Around
  BY <1>2, <1>7, Zenon DEF Around, Output, SessionExit, CreateOrAttach, SpawnStart, SpawnDone,
     AckColdRestore, MarkSessionDirty, ExitEvent, Shutdown, Launch, vars
<1> QED
  BY <1>4, <1>5, <1>6, <1>8, NextIsAround

\* After the final pass of a quit the whole output of the living session that was
\* taken can be restored, whatever was lost before: the pass takes everything, and
\* its checkpoint replaces what was on disk.
THEOREM HistoryQuitSavesAll == Spec => QuitSavesAll
<1>1. QuitInv /\ [Next]_vars =>
        [pass.quit /\ ~up' /\ faults' = faults
           /\ alive /\ ~overflow /\ meta = "open" /\ writer # None /\ ~disabled
         => TakenIsOnDisk']_vars
  <2> SUFFICES ASSUME QuitInv, [Next]_vars, pass.quit, ~up', faults' = faults,
                      alive, ~overflow, meta = "open", writer # None, ~disabled
               PROVE  TakenIsOnDisk'
    OBVIOUS
  <2>1. ResetLog
    BY QuitEndsByReset
  <2>2. /\ PassTyped /\ Typed' /\ LastTake /\ QuitPass
    BY TypedStep DEF QuitInv, GapInv, Typed, MainTyped
  <2>3. /\ UNCHANGED daemonVars /\ meta' = "open" /\ ckpt' = ckpt
        /\ log' = Header(pass.gen) /\ pass.gen \in Nat /\ pass.at = "reset"
    BY <2>1, <2>2, ResetEffect
  <2>4. ckpt # None /\ ckpt.life = life /\ ckpt.lo = first + 1 /\ ckpt.hi = made - pending
    <3>1. InFlight
      BY <2>3 DEF InFlight
    <3>2. pass.life = life /\ pass.seq = seq /\ pass.lo = first + 1
      BY <2>2, <3>1 DEF QuitPass
    <3>3. pass.hi = made - pending
      BY <2>2, <3>1, <3>2 DEF LastTake
    <3> QED
      BY <2>2, <2>3, <3>2, <3>3 DEF QuitPass
  <2>5. Restored' = Base'
    <3>1. log'.batches = <<>>
      BY <2>3, NoBatches
    <3> QED
      BY <2>3, <3>1 DEF Restored, LogContinues
  <2>6. /\ life' = life /\ first' = first /\ made' = made /\ pending' = pending
    BY <2>3 DEF daemonVars
  <2>7. Restored' = <<[life |-> ckpt.life, lo |-> ckpt.lo, hi |-> ckpt.hi]>>
    BY <2>3, <2>4, <2>5 DEF Base
  <2>8. 1 \in DOMAIN Restored' /\ Restored'[1].life = life'
        /\ Restored'[1].lo = first' + 1 /\ Restored'[1].hi = made' - pending'
    BY <2>4, <2>6, <2>7
  <2> QED
    BY <2>8 DEF TakenIsOnDisk, RestoredOf
<1>2. QED
  BY QuitInvInit, QuitInvStep, <1>1, PTL DEF Spec, QuitSavesAll
=============================================================================
