--------------------------- MODULE TerminalHistory ---------------------------
(***************************************************************************)
(* The history of one terminal session on disk (src/main/daemon/): the     *)
(* daemon keeps the output since the last take (session.ts), the adapter   *)
(* in the main process takes it every few seconds and appends it to a log  *)
(* or writes a full checkpoint (daemon-pty-adapter.ts, history-manager.ts),*)
(* and a reader rebuilds the screen after a crash (history-reader.ts).     *)
(*                                                                         *)
(* Output, resizes and clears are numbered records; a snapshot stands for  *)
(* the records 1..n of the life of the session it was taken from.  One     *)
(* session id lives several times: each createOrAttach that finds no       *)
(* living session starts the next life.                                    *)
(***************************************************************************)
EXTENDS Integers, Sequences

CONSTANTS
    MaxLives,     \* bound: lives of the session id
    MaxOutput,    \* bound: records of all lives
    MaxTakes,     \* bound: takes of one life
    PendingCap,   \* PENDING_OUTPUT_MAX_BYTES, in records
    LogCap,       \* LOG_MAX_BYTES, in batches
    MaxFaults,    \* bound: crashes and lost connections
    May           \* the optional behaviours of this instance

ASSUME HistoryAssumption ==
    /\ MaxLives \in Nat /\ MaxOutput \in Nat /\ MaxTakes \in Nat
    /\ PendingCap \in Nat /\ LogCap \in Nat /\ MaxFaults \in Nat
    /\ May \subseteq {"mainCrash", "daemonCrash", "loseTake", "sleep", "close", "quit", "overlap"}

VARIABLES
    life,      \* the life the daemon knows; 0 before the first
    alive,     \* that life has not exited
    ending,    \* kill() was called on it
    first,     \* records that earlier lives have produced
    made,      \* records produced so far
    pending,   \* how many of them were not taken yet
    overflow,  \* pendingOutputOverflowed
    seq,       \* pendingOutputSeq
    exits,     \* exit events on their way
    up,        \* the main process runs
    spawn,     \* doSpawn in progress
    active,    \* in activeSessionIds
    dirty,     \* in dirtySessionVersions
    needFull,  \* in sessionsNeedingFullCheckpoint
    cached,    \* in coldRestoreCache
    killed,    \* in killedSessionTombstones
    writer,    \* the SessionWriter, or None
    disabled,  \* in disabledSessions
    pass,      \* the checkpoint pass in flight
    meta,      \* meta.json: "none" (no directory), "open", "ended"
    ckpt,      \* checkpoint.json, or None
    log,       \* output.log
    faults

daemonVars == <<life, alive, ending, first, made, pending, overflow, seq>>
mainVars == <<spawn, active, dirty, needFull, cached, writer, disabled, pass>>
diskVars == <<meta, ckpt, log>>
vars == <<daemonVars, exits, up, killed, mainVars, diskVars, faults>>

None == [kind |-> "none"]
Unresolved == [kind |-> "writer", gen |-> -1, bytes |-> -1]
NoLog == [state |-> "none", gen |-> 0, batches |-> <<>>, torn |-> FALSE]
Header(gen) == [NoLog EXCEPT !.state = "ok", !.gen = gen]
NoPass == [at |-> "idle", full |-> FALSE, anchor |-> FALSE, quit |-> FALSE, own |-> FALSE,
           gen |-> 0, seq |-> 0, life |-> 0, lo |-> 1, hi |-> 0, over |-> FALSE]
NoSpawn == [at |-> "idle", restore |-> FALSE, new |-> FALSE]

Writer == [kind : {"writer"}, gen : Nat, bytes : Nat]
-----------------------------------------------------------------------------
(* HistoryReader.detectColdRestore *)

\* Mutant of Decodes: any sequence of whole frames is accepted.
DecodesFrames(l) == l.state = "ok"

\* decodeTerminalHistoryLog accepts the log: a header, whole frames up to the
\* torn tail, and batches whose numbers follow each other.
Decodes(l) ==
    /\ l.state = "ok"
    /\ \A i \in 1..Len(l.batches)-1 : l.batches[i+1].seq = l.batches[i].seq + 1

\* Mutant of LogContinues: a log that an earlier checkpoint left is replayed too.
LogIsThere == Decodes(log) /\ log.batches # <<>>

\* restoreFromIncrementalLog: the log continues the checkpoint, or there is none.
LogContinues ==
    /\ Decodes(log) /\ log.batches # <<>>
    /\ log.gen = IF ckpt = None THEN 0 ELSE ckpt.gen

Base == IF ckpt = None THEN <<>> ELSE <<[life |-> ckpt.life, lo |-> ckpt.lo, hi |-> ckpt.hi]>>

\* What the next cold restore shows: pieces [life, lo, hi] of the output.
Restored ==
    CASE meta # "open" -> <<>>
      [] meta = "open" /\ LogContinues ->
           Base \o [i \in 1..Len(log.batches) |->
                      [life |-> log.batches[i].life, lo |-> log.batches[i].lo,
                       hi |-> log.batches[i].hi]]
      [] OTHER -> Base

-----------------------------------------------------------------------------
(* The session in the daemon *)

\* handleSubprocessData, resize or clearScrollback: recordPendingOutput.
Output ==
    /\ alive /\ made < MaxOutput
    /\ made' = made + 1
    /\ IF overflow THEN UNCHANGED <<pending, overflow>>
       ELSE IF pending + 1 > PendingCap
            THEN pending' = 0 /\ overflow' = TRUE
            ELSE pending' = pending + 1 /\ UNCHANGED overflow
    /\ UNCHANGED <<life, alive, ending, first, seq, exits, up, killed, mainVars, diskVars, faults>>

\* A session that has exited is not asked for anything any more.
Gone ==
    /\ alive' = FALSE /\ ending' = FALSE
    /\ first' = made /\ pending' = 0 /\ overflow' = FALSE /\ seq' = 0
    /\ UNCHANGED <<life, made>>

\* handleSubprocessExit, or forceDispose when the kill timer fires.
SessionExit ==
    /\ alive /\ Gone
    /\ exits' = IF up THEN exits + 1 ELSE exits
    /\ UNCHANGED <<up, killed, mainVars, diskVars, faults>>

\* TerminalHost.createOrAttach on behalf of doSpawn: a living session is
\* attached; one that is being killed is disposed, which sends its exit now;
\* else the next life starts.
CreateOrAttach ==
    /\ up /\ spawn.at = "asked"
    /\ IF alive /\ ~ending
       THEN /\ spawn' = [spawn EXCEPT !.at = "answered", !.new = FALSE]
            /\ UNCHANGED <<daemonVars, exits>>
       ELSE /\ life < MaxLives
            /\ life' = life + 1 /\ alive' = TRUE /\ ending' = FALSE
            /\ first' = made /\ pending' = 0 /\ overflow' = FALSE /\ seq' = 0
            /\ UNCHANGED made
            /\ exits' = IF alive THEN exits + 1 ELSE exits
            /\ spawn' = [spawn EXCEPT !.at = "answered", !.new = TRUE]
    /\ UNCHANGED <<up, killed, active, dirty, needFull, cached, writer, disabled, pass,
                   diskVars, faults>>
-----------------------------------------------------------------------------
(* The adapter: spawning and events *)

\* doSpawn up to its first await: the history is read before the daemon is asked.
SpawnStart ==
    /\ up /\ ~pass.quit /\ spawn.at = "idle" /\ ~killed
    /\ spawn' = [at |-> "asked", restore |-> Restored # <<>>, new |-> FALSE]
    /\ UNCHANGED <<daemonVars, exits, up, killed, active, dirty, needFull, cached, writer,
                   disabled, pass, diskVars, faults>>

\* registerWriter leaves a writer that is there alone.
Registered == IF writer = None THEN Unresolved ELSE writer

\* openSession: a fresh meta.json, and the recovery files of an earlier life go.
OpenSession ==
    /\ meta' = "open" /\ ckpt' = None /\ log' = NoLog
    /\ writer' = [kind |-> "writer", gen |-> 0, bytes |-> 0]
    /\ disabled' = FALSE
    /\ pass' = [pass EXCEPT !.own = FALSE]

\* doSpawn after the daemon's answer.
SpawnDone ==
    /\ up /\ spawn.at = "answered"
    /\ spawn' = NoSpawn
    /\ \/ /\ cached
          /\ UNCHANGED <<active, needFull, cached, writer, disabled, pass, diskVars>>
       \/ /\ ~cached
          /\ active' = TRUE
          /\ \/ /\ spawn.new /\ spawn.restore
                /\ writer' = Registered /\ needFull' = TRUE
                /\ cached' \in BOOLEAN   \* an alternate screen without scrollback is not shown
                /\ UNCHANGED <<disabled, pass, diskVars>>
             \/ /\ spawn.new /\ ~spawn.restore
                /\ pass.at = "idle" \/ "overlap" \in May
                /\ OpenSession
                /\ UNCHANGED <<needFull, cached>>
             \/ /\ ~spawn.new
                /\ writer' = Registered
                /\ UNCHANGED <<needFull, cached, disabled, pass, diskVars>>
    /\ UNCHANGED <<daemonVars, exits, up, killed, dirty, faults>>

AckColdRestore ==
    /\ up /\ cached /\ cached' = FALSE
    /\ UNCHANGED <<daemonVars, exits, up, killed, spawn, active, dirty, needFull, writer,
                   disabled, pass, diskVars, faults>>

\* markSessionDirty: a data event arrives, or input is written (write, resize).
MarkSessionDirty ==
    /\ up /\ active /\ ~dirty
    /\ dirty' = TRUE
    /\ UNCHANGED <<daemonVars, exits, up, killed, spawn, active, needFull, cached, writer,
                   disabled, pass, diskVars, faults>>

\* The exit event carries the session id only.
ExitEvent ==
    /\ up /\ exits > 0
    /\ exits' = exits - 1
    /\ active' = FALSE /\ dirty' = FALSE /\ cached' = FALSE
    /\ IF writer = None
       THEN UNCHANGED <<writer, pass, meta>>
       ELSE /\ writer' = None                       \* closeSession
            /\ pass' = [pass EXCEPT !.own = FALSE]
            /\ meta' = IF meta = "none" THEN "none" ELSE "ended"
    /\ UNCHANGED <<daemonVars, up, killed, spawn, needFull, disabled, ckpt, log, faults>>

\* shutdown: kill, and unless the terminal is put to sleep (keepHistory) the
\* history is removed and the id refused from now on.
Shutdown(keepHistory) ==
    /\ up /\ ~pass.quit /\ spawn.at = "idle" /\ alive
    /\ (IF keepHistory THEN "sleep" ELSE "close") \in May
    /\ ending' = TRUE
    /\ active' = FALSE /\ dirty' = FALSE /\ cached' = FALSE
    /\ IF keepHistory
       THEN UNCHANGED <<killed, writer, disabled, pass, diskVars>>
       ELSE /\ killed' = TRUE
            /\ writer' = None /\ disabled' = FALSE   \* removeSession
            /\ pass' = [pass EXCEPT !.own = FALSE]
            /\ meta' = "none" /\ ckpt' = None /\ log' = NoLog
    /\ UNCHANGED <<life, alive, first, made, pending, overflow, seq, exits, up, spawn, needFull, faults>>
-----------------------------------------------------------------------------
(* The adapter: a checkpoint pass *)

\* checkpointDirtySessions
Tick ==
    /\ up /\ pass.at = "idle" /\ dirty /\ active
    /\ dirty' = FALSE
    /\ pass' = [NoPass EXCEPT !.at = "asked", !.full = needFull, !.anchor = needFull]
    /\ UNCHANGED <<daemonVars, exits, up, killed, spawn, active, needFull, cached, writer,
                   disabled, diskVars, faults>>

\* What the main process forgets when it ends.
Forget ==
    /\ up' = FALSE /\ killed' = FALSE
    /\ spawn' = NoSpawn /\ active' = FALSE /\ dirty' = FALSE /\ needFull' = FALSE
    /\ cached' = FALSE /\ writer' = None /\ disabled' = FALSE /\ pass' = NoPass
    /\ exits' = 0

\* Mutant of Quit: the last pass appends what is pending, as the timer's does.
QuitIncremental ==
    /\ "quit" \in May /\ up /\ pass.at = "idle" /\ spawn.at = "idle"
    /\ IF active
       THEN /\ pass' = [NoPass EXCEPT !.at = "asked", !.quit = TRUE]
            /\ UNCHANGED <<exits, up, killed, spawn, active, dirty, needFull, cached, writer,
                           disabled>>
       ELSE Forget
    /\ UNCHANGED <<daemonVars, diskVars, faults>>

\* disconnectOnly: wait for the pass in flight, take everything, leave.
Quit ==
    /\ "quit" \in May /\ up /\ pass.at = "idle" /\ spawn.at = "idle"
    /\ IF active
       THEN /\ pass' = [NoPass EXCEPT !.at = "asked", !.full = TRUE, !.anchor = TRUE, !.quit = TRUE]
            /\ UNCHANGED <<exits, up, killed, spawn, active, dirty, needFull, cached, writer,
                           disabled>>
       ELSE Forget
    /\ UNCHANGED <<daemonVars, diskVars, faults>>

\* The pass is over; the last one of a quit ends the process.
EndPass(newWriter, newDisabled) ==
    IF pass.quit
    THEN Forget
    ELSE /\ pass' = NoPass
         /\ needFull' = (needFull /\ ~pass.anchor)
         /\ writer' = newWriter /\ disabled' = newDisabled
         /\ UNCHANGED <<up, killed, spawn, active, dirty, cached, exits>>

Continue(newPass, newWriter) ==
    /\ pass' = newPass /\ writer' = newWriter
    /\ UNCHANGED <<up, killed, spawn, active, dirty, needFull, cached, disabled, exits>>

\* Session.takePendingOutput: drains, numbers and, with includeSnapshot,
\* serializes in one turn.  A session that is gone gives null.
TakePending ==
    /\ pass.at = "asked"
    /\ IF alive
       THEN /\ seq < MaxTakes
            /\ seq' = seq + 1 /\ pending' = 0 /\ overflow' = FALSE
            /\ Continue([pass EXCEPT !.at = "taken", !.seq = seq + 1, !.life = life,
                                     !.lo = IF pass.full THEN first + 1 ELSE made - pending + 1,
                                     !.hi = made, !.over = overflow], writer)
            /\ UNCHANGED <<life, alive, ending, first, made>>
       ELSE /\ EndPass(writer, disabled)
            /\ UNCHANGED daemonVars
    /\ UNCHANGED <<diskVars, faults>>

\* Mutant of Resolved: a writer that was registered is used as it is.
NotResolved == writer

\* resolveLogState, for a writer that was registered on an existing directory.
Resolved ==
    IF writer # Unresolved THEN writer
    ELSE IF log.state \in {"ok", "spoiled"}
    THEN [writer EXCEPT !.gen = log.gen, !.bytes = Len(log.batches) + 1]
    ELSE [writer EXCEPT !.gen = IF ckpt = None THEN 0 ELSE ckpt.gen, !.bytes = 0]

\* takeSnapshotAndCheckpoint: a second take, of everything.
TakeAll == [NoPass EXCEPT !.at = "asked", !.full = TRUE, !.quit = pass.quit, !.anchor = pass.anchor]

\* checkpointSession after the take; the synchronous part of appendIncrements
\* and checkpoint.
Persist ==
    /\ pass.at = "taken"
    /\ \/ /\ pass.full /\ writer # None /\ ~disabled
          /\ Continue([pass EXCEPT !.at = "rename", !.own = TRUE, !.gen = Resolved.gen + 1], Resolved)
       \/ /\ ~pass.full /\ pass.over
          /\ Continue(TakeAll, writer)
       \/ /\ ~pass.full /\ ~pass.over /\ pass.lo <= pass.hi /\ writer # None /\ ~disabled
          /\ Continue(IF Resolved.bytes > LogCap
                      THEN TakeAll
                      ELSE [pass EXCEPT !.at = IF Resolved.bytes = 0 THEN "header" ELSE "append",
                                        !.own = TRUE, !.gen = Resolved.gen], Resolved)
       \/ /\ \/ (writer = None \/ disabled) /\ (pass.full \/ ~pass.over)
             \/ ~pass.full /\ ~pass.over /\ pass.lo > pass.hi
          /\ EndPass(writer, disabled)
    /\ UNCHANGED <<daemonVars, diskVars, faults>>

\* The writer object of the pass is updated; it is the registered one unless it
\* was replaced meanwhile.
Sized(gen, bytes) ==
    IF pass.own THEN [kind |-> "writer", gen |-> gen, bytes |-> bytes] ELSE writer

\* The directory was removed: handleWriteError disables the session.
WriteFails ==
    /\ pass.at \in {"header", "append", "rename", "reset"}
    /\ meta = "none"
    /\ EndPass(writer, TRUE)
    /\ UNCHANGED <<daemonVars, diskVars, faults>>

WriteHeader ==
    /\ pass.at = "header" /\ meta # "none"
    /\ log' = Header(pass.gen)
    /\ Continue([pass EXCEPT !.at = "append"], Sized(pass.gen, 1))
    /\ UNCHANGED <<daemonVars, meta, ckpt, faults>>

Batch == [seq |-> pass.seq, life |-> pass.life, lo |-> pass.lo, hi |-> pass.hi]

\* appendFile creates a missing file without a header; what is appended behind
\* a torn frame is swallowed by it or makes the rest unreadable.  That the torn
\* frame ends just where another one begins is left out.
Appended(batch) ==
    CASE log.state = "ok" /\ ~log.torn -> {[log EXCEPT !.batches = Append(@, batch)]}
      [] log.state = "ok" /\ log.torn -> {log, [log EXCEPT !.state = "spoiled"]}
      [] log.state = "none" -> {[NoLog EXCEPT !.state = "garbage"]}
      [] OTHER -> {log}

AppendBatch ==
    /\ pass.at = "append" /\ meta # "none"
    /\ log' \in Appended(Batch)
    /\ EndPass(IF pass.own THEN Sized(pass.gen, writer.bytes + 1) ELSE writer, disabled)
    /\ UNCHANGED <<daemonVars, meta, ckpt, faults>>

\* The temporary file is written and renamed over checkpoint.json; nothing ever
\* reads the temporary file.
RenameTmp ==
    /\ pass.at = "rename" /\ meta # "none"
    /\ ckpt' = [kind |-> "checkpoint", gen |-> pass.gen, life |-> pass.life,
                lo |-> pass.lo, hi |-> pass.hi]
    /\ Continue([pass EXCEPT !.at = "reset"], writer)
    /\ UNCHANGED <<daemonVars, meta, log, faults>>

ResetLog ==
    /\ pass.at = "reset" /\ meta # "none"
    /\ log' = Header(pass.gen)
    /\ EndPass(Sized(pass.gen, 1), disabled)
    /\ UNCHANGED <<daemonVars, meta, ckpt, faults>>
-----------------------------------------------------------------------------
(* Faults *)

Fault == faults < MaxFaults /\ faults' = faults + 1

\* The answer of a take is lost with the connection, or comes too late.
LoseTake ==
    /\ "loseTake" \in May /\ Fault
    /\ pass.at = "taken" /\ ~pass.quit
    /\ pass' = NoPass /\ dirty' = active
    /\ UNCHANGED <<daemonVars, exits, up, killed, spawn, active, needFull, cached, writer,
                   disabled, diskVars>>

\* An append in flight may be torn behind any of its frames.
MayTear ==
    \/ UNCHANGED log
    \/ /\ pass.at = "append" /\ meta # "none" /\ log.state = "ok"
       /\ \E hi \in pass.lo-1 .. pass.hi : \E new \in Appended([Batch EXCEPT !.hi = hi]) :
             log' = [new EXCEPT !.torn = TRUE]

\* The main process dies; the daemon and its session live on.
MainCrash ==
    /\ "mainCrash" \in May /\ Fault /\ up
    /\ pass.at = "taken" => "loseTake" \in May
    /\ Forget /\ MayTear
    /\ UNCHANGED <<daemonVars, meta, ckpt>>

\* The daemon dies: requests in flight are rejected, its sessions are gone
\* without an exit event.
DaemonCrash ==
    /\ "daemonCrash" \in May /\ Fault /\ alive
    /\ Gone
    /\ exits' = 0
    /\ spawn' = NoSpawn
    /\ IF pass.at = "asked" /\ ~pass.quit
       THEN pass' = NoPass /\ dirty' = active
       ELSE UNCHANGED <<pass, dirty>>
    /\ UNCHANGED <<up, killed, active, needFull, cached, writer, disabled, diskVars>>

\* Everything stops.
PowerLoss ==
    /\ {"mainCrash", "daemonCrash"} \subseteq May /\ Fault /\ up
    /\ Forget /\ Gone /\ MayTear
    /\ UNCHANGED <<meta, ckpt>>

\* The app starts again: reconcileOnStartup adopts a living session.
Launch ==
    /\ ~up
    /\ up' = TRUE
    /\ IF alive THEN active' = TRUE /\ writer' = Unresolved ELSE UNCHANGED <<active, writer>>
    /\ UNCHANGED <<daemonVars, exits, killed, spawn, dirty, needFull, cached, disabled, pass,
                   diskVars, faults>>
-----------------------------------------------------------------------------
Init ==
    /\ life = 0 /\ alive = FALSE /\ ending = FALSE
    /\ first = 0 /\ made = 0 /\ pending = 0 /\ overflow = FALSE /\ seq = 0
    /\ exits = 0
    /\ up = TRUE /\ killed = FALSE
    /\ spawn = NoSpawn /\ active = FALSE /\ dirty = FALSE /\ needFull = FALSE /\ cached = FALSE
    /\ writer = None /\ disabled = FALSE /\ pass = NoPass
    /\ meta = "none" /\ ckpt = None /\ log = NoLog
    /\ faults = 0

SessionNext == Output \/ SessionExit \/ CreateOrAttach
AdapterNext ==
    \/ SpawnStart \/ SpawnDone \/ AckColdRestore \/ MarkSessionDirty \/ ExitEvent
    \/ \E keepHistory \in BOOLEAN : Shutdown(keepHistory)
PassNext ==
    \/ Tick \/ Quit \/ TakePending \/ Persist
    \/ WriteFails \/ WriteHeader \/ AppendBatch \/ RenameTmp \/ ResetLog
FaultNext == LoseTake \/ MainCrash \/ DaemonCrash \/ PowerLoss \/ Launch

Next == SessionNext \/ AdapterNext \/ PassNext \/ FaultNext

Spec == Init /\ [][Next]_vars
-----------------------------------------------------------------------------

\* Type invariant; a registered writer knows both columns of its log or neither.
TypeOK ==
    /\ life \in 0..MaxLives /\ alive \in BOOLEAN /\ ending \in BOOLEAN
    /\ made \in 0..MaxOutput /\ first \in 0..made
    /\ pending \in 0..made /\ pending <= PendingCap
    /\ overflow \in BOOLEAN /\ seq \in 0..MaxTakes
    /\ exits \in Nat /\ up \in BOOLEAN /\ killed \in BOOLEAN
    /\ spawn \in [at : {"idle", "asked", "answered"}, restore : BOOLEAN, new : BOOLEAN]
    /\ active \in BOOLEAN /\ dirty \in BOOLEAN /\ needFull \in BOOLEAN /\ cached \in BOOLEAN
    /\ writer \in {None, Unresolved} \cup Writer /\ disabled \in BOOLEAN
    /\ pass.at \in {"idle", "asked", "taken", "header", "append", "rename", "reset"}
    /\ meta \in {"none", "open", "ended"}
    /\ ckpt = None \/ ckpt.gen \in Nat
    /\ log.state \in {"none", "ok", "spoiled", "garbage"} /\ log.gen \in Nat
    /\ faults \in 0..MaxFaults

\* No output is shown twice or out of order by a cold restore, whenever the crash
\* comes: between the rename of a checkpoint and the reset of its log
\* (HistoryManager.checkpoint), after a take whose answer was lost, or in front of
\* another life's first batch.
NoOutputTwice ==
    \A i, j \in DOMAIN Restored : i < j => Restored[i].hi < Restored[j].lo

\* A log that is replayed has no hole between two batches of one life: a take that
\* was lost before its append, or the end of a batch that was torn, is noticed
\* (decodeTerminalHistoryLog), or re-anchored by a checkpoint.  The first batch
\* behind a header has none before it: what is missing there is not noticed.
GapsAreSeen ==
    LogContinues =>
        \A i \in 1..Len(log.batches)-1 :
            log.batches[i+1].life = log.batches[i].life =>
                log.batches[i+1].lo = log.batches[i].hi + 1

RestoredOf(n) ==
    UNION {Restored[i].lo .. Restored[i].hi : i \in {j \in DOMAIN Restored : Restored[j].life = n}}

\* All output of the living session that was taken from the daemon.
TakenIsOnDisk == first+1 .. made-pending \subseteq RestoredOf(life)

\* After the final pass of a quit the daemon may die: what the session wrote
\* until the take can be restored, whatever was lost before (disconnectOnly).
QuitSavesAll ==
    [][pass.quit /\ ~up' /\ faults' = faults
         /\ alive /\ ~overflow /\ meta = "open" /\ writer # None /\ ~disabled
       => TakenIsOnDisk']_vars

\* Between two passes of a session that records its history without an error,
\* the disk has everything taken so far: "the log carries byte-exact output up to
\* ~5s before the crash" (history-reader.ts:53).
LogIsByteExact ==
    up /\ alive /\ active /\ pass.at = "idle" /\ meta = "open"
      /\ writer # None /\ ~disabled /\ ~overflow /\ ~needFull => TakenIsOnDisk
=============================================================================
