-------------------------- MODULE MessageDelivery --------------------------
(***************************************************************************)
(* The mail of one terminal handle: the rows of the messages table that    *)
(* are addressed to it (db.ts), the push of mail into the terminal when    *)
(* its agent is idle (deliverPendingMessages in orca-runtime.ts), and the  *)
(* clients that block on it: `check --wait` and `ask`                      *)
(* (rpc/methods/orchestration.ts, waitForMessage).                         *)
(*                                                                         *)
(* The handle may be an agent's terminal and the coordinator's handle at   *)
(* once.  A message is known by its place in the mailbox, its sequence     *)
(* column.  A waiter that was resolved resumes as a microtask, before any  *)
(* other event is handled (Quiet).                                         *)
(***************************************************************************)
EXTENDS Naturals, Sequences, FiniteSets

CONSTANTS
    Client,         \* connections that may block on the handle
    CursorAgent,    \* the terminal's title is one of Cursor Agent
    MayEscalate,    \* workers' terminals may exit
    MaxMessages,    \* bound: messages ever sent to the handle
    MaxTimers,      \* bound: pushes waiting for their Enter
    MaxFaults       \* bound: refused writes and losses of the renderer

ASSUME MailAssumption ==
    /\ CursorAgent \in BOOLEAN /\ MayEscalate \in BOOLEAN
    /\ MaxMessages \in Nat /\ MaxTimers \in Nat /\ MaxFaults \in Nat

Type == {"worker_done", "escalation", "status"}
\* --types of `check`: every type when the option is not given, and no type at
\* all when it names none (`--types ,`).
Filter == {Type, {"worker_done", "escalation"}, {}}

VARIABLES
    mailbox,        \* the rows, in order of sequence: type, and the ask it replies to
    read,           \* messages.read = 1
    delivered,      \* messages.delivered_at is set
    pushes,         \* message |-> times its text was written into the terminal
    agent,          \* lastAgentStatus of the leaf: "idle" or anything else
    writable,       \* leaf.writable
    timers,         \* pushes whose Enter is due in half a second, oldest first
    client,         \* client |-> what its call is doing
    returned,       \* message |-> the calls that returned it to a client, in order
    faults

vars == <<mailbox, read, delivered, pushes, agent, writable, timers, client, returned, faults>>

MessageId == 1..MaxMessages
Inserted == DOMAIN mailbox
Free == [at |-> "free"]
WaitingCheck(f) == [at |-> "waiting", call |-> "check", types |-> f]
WaitingAskDeaf == [at |-> "waiting", call |-> "ask", types |-> {"status"}] \* mutant of the next
WaitingAsk == [at |-> "waiting", call |-> "ask", types |-> Type]

TypeOK ==
    /\ mailbox \in Seq([type : Type, thread : Client \cup {"-"}])
    /\ Len(mailbox) <= MaxMessages
    /\ read \subseteq Inserted /\ delivered \subseteq Inserted
    /\ pushes \in [MessageId -> Nat] /\ returned \in [MessageId -> Seq({"check", "ask"})]
    /\ agent \in {"idle", "working"} /\ writable \in BOOLEAN
    /\ timers \in Seq(SUBSET Inserted) /\ Len(timers) <= MaxTimers
    /\ client \in [Client -> {Free} \cup [at : {"waiting", "woken"}, call : {"check", "ask"},
                                          types : Filter]]
    /\ faults \in 0..MaxFaults

Waiting(c) == client[c].at = "waiting"
Quiet == \A c \in Client : client[c].at # "woken"
Fault == faults < MaxFaults /\ faults' = faults + 1

\* getUnreadMessages, which takes an empty list of types for no filter; its
\* mutant does not look at the read column.
Lists(types, m) == types = {} \/ mailbox[m].type \in types
AllOf(types) == {m \in Inserted : Lists(types, m)}
Unread(types) == {m \in Inserted \ read : Lists(types, m)}
\* getThreadMessagesFor: replies of the thread, whether read or not.
Replies(c) == {m \in Inserted : mailbox[m].thread = c}
-----------------------------------------------------------------------------
(* Sending *)

\* getUndeliveredUnreadMessages, in the state where the mailbox is box.  Its
\* mutant looks at the newest row only.
NewestPending(box) == {Len(box)} \ (read \cup delivered)
Pending(box) == DOMAIN box \ (read \cup delivered)

\* What is stamped before any Enter; its mutant stamps every push at once.
StampedAll(ids) == ids
StampedAtOnce(ids) == IF CursorAgent THEN ids ELSE {}

\* deliverPendingMessages, in the state where the mailbox is box: everything
\* that is neither read nor delivered goes into the terminal in one write, and
\* Enter follows half a second later.  Cursor Agent gets no Enter.
DeliverPending(box) ==
    LET ids == Pending(box) IN
    \/ /\ ids = {} \/ ~writable
       /\ UNCHANGED <<pushes, delivered, timers, faults>>
    \/ /\ ids # {} /\ writable
       /\ Fault
       /\ UNCHANGED <<pushes, delivered, timers>>
    \/ /\ ids # {} /\ writable
       /\ pushes' = [m \in MessageId |-> IF m \in ids THEN pushes[m] + 1 ELSE pushes[m]]
       /\ delivered' = delivered \cup StampedAtOnce(ids)
       /\ IF CursorAgent THEN UNCHANGED timers
          ELSE Len(timers) < MaxTimers /\ timers' = Append(timers, ids)
       /\ UNCHANGED faults

\* Mutant of Notify: it wakes one waiter, whoever comes first.
NotifyOne(type) ==
    LET waiters == {c \in Client : Waiting(c) /\ type \in client[c].types}
    IN  IF waiters = {} THEN UNCHANGED client
        ELSE \E c \in waiters : client' = [client EXCEPT ![c].at = "woken"]

\* notifyMessageArrived: resolves every waiter whose filter lets the type pass;
\* an empty list lets none.
Notify(type) ==
    client' = [c \in Client |-> IF Waiting(c) /\ type \in client[c].types
                                THEN [client[c] EXCEPT !.at = "woken"] ELSE client[c]]

Insert(type, thread) ==
    /\ Len(mailbox) < MaxMessages
    /\ mailbox' = Append(mailbox, [type |-> type, thread |-> thread])

\* orchestration.send to this handle: row, push if the agent is idle, wake-up.
Send(type) ==
    /\ Quiet
    /\ Insert(type, "-")
    /\ IF agent = "idle" THEN DeliverPending(mailbox')
                         ELSE UNCHANGED <<pushes, delivered, timers, faults>>
    /\ Notify(type)
    /\ UNCHANGED <<read, agent, writable, returned>>

\* orchestration.reply to something this handle sent: the question of a client
\* that still asks, or anything else.  A reply is not pushed.
Reply(thread) ==
    /\ Quiet
    /\ thread \in {"-"} \cup {c \in Client : client[c].at # "free" /\ client[c].call = "ask"}
    /\ Insert("status", thread)
    /\ Notify("status")
    /\ UNCHANGED <<read, delivered, pushes, agent, writable, timers, returned, faults>>

\* orchestration.reply to message m of this mailbox: m counts as read.
Answer(m) ==
    /\ Quiet /\ m \in Inserted
    /\ read' = read \cup {m}
    /\ UNCHANGED <<mailbox, delivered, pushes, agent, writable, timers, client, returned,
                   faults>>

\* failActiveDispatchOnExit: the row for the coordinator, no push, no wake-up.
ExitEscalation ==
    /\ Quiet /\ MayEscalate
    /\ Insert("escalation", "-")
    /\ UNCHANGED <<read, delivered, pushes, agent, writable, timers, client, returned, faults>>
-----------------------------------------------------------------------------
(* The terminal *)

\* Mutant of BecomeIdle: only what is sent to an idle agent is pushed.
BecomeIdleUnpushed ==
    /\ Quiet /\ agent = "working"
    /\ agent' = "idle"
    /\ UNCHANGED <<mailbox, read, delivered, pushes, writable, timers, client, returned, faults>>

\* A title says the agent became idle: the pending mail is pushed.
BecomeIdle ==
    /\ Quiet /\ agent = "working"
    /\ agent' = "idle"
    /\ DeliverPending(mailbox)
    /\ UNCHANGED <<mailbox, read, writable, client, returned>>

BecomeWorking ==
    /\ Quiet /\ agent = "idle"
    /\ agent' = "working"
    /\ UNCHANGED <<mailbox, read, delivered, pushes, writable, timers, client, returned, faults>>

\* The timer of the oldest push: Enter, and only then delivered_at.
Enter ==
    /\ Quiet /\ timers # <<>>
    /\ timers' = Tail(timers)
    /\ \/ writable /\ delivered' = delivered \cup Head(timers) /\ UNCHANGED faults
       \/ ~writable /\ UNCHANGED <<delivered, faults>>
       \/ writable /\ Fault /\ UNCHANGED delivered
    /\ UNCHANGED <<mailbox, read, pushes, agent, writable, client, returned>>

\* The renderer's graph is lost, the terminal exits, or it is back.
Writable ==
    /\ Quiet
    /\ IF writable THEN Fault ELSE UNCHANGED faults
    /\ writable' = ~writable
    /\ UNCHANGED <<mailbox, read, delivered, pushes, agent, timers, client, returned>>
-----------------------------------------------------------------------------
(* Blocking calls *)

\* readAndReturn, the end of a `check`: all unread messages that pass the
\* filter are returned and marked in the same stretch.
ReadAndReturn(c, types) ==
    /\ read' = read \cup Unread(types)
    /\ returned' = [m \in MessageId |-> IF m \in Unread(types) THEN Append(returned[m], "check")
                                                               ELSE returned[m]]
    /\ client' = [client EXCEPT ![c] = Free]

\* `ask` returns with the oldest reply of its thread, read or not, or with none.
\* Its mutant does not mark the reply.
Oldest(ids) == {m \in ids : \A n \in ids : m <= n}
AnswerAsk(c) ==
    /\ returned' = [m \in MessageId |-> IF m \in Oldest(Replies(c)) THEN Append(returned[m], "ask")
                                                                    ELSE returned[m]]
    /\ client' = [client EXCEPT ![c] = Free]
EndAskUnmarked(c) == AnswerAsk(c) /\ UNCHANGED read
EndAsk(c) == AnswerAsk(c) /\ read' = read \cup Oldest(Replies(c))

\* orchestration.check with --wait
CheckWait(c, types) ==
    /\ Quiet /\ client[c] = Free
    /\ IF Unread(types) # {}
       THEN ReadAndReturn(c, types)
       ELSE /\ client' = [client EXCEPT ![c] = WaitingCheck(types)]
            /\ UNCHANGED <<read, returned>>
    /\ UNCHANGED <<mailbox, delivered, pushes, agent, writable, timers, faults>>

\* orchestration.ask, whose question goes to somebody else's mailbox.  A thread
\* is the id of its question: here a client asks once.
Ask(c) ==
    /\ Quiet /\ client[c] = Free /\ Replies(c) = {}
    /\ client' = [client EXCEPT ![c] = WaitingAsk]
    /\ UNCHANGED <<mailbox, read, delivered, pushes, agent, writable, timers, returned, faults>>

\* A resolved waiter goes on: a check answers with what it finds, an ask that
\* finds no reply of its thread waits again.
Resume(c) ==
    /\ client[c].at = "woken"
    /\ \/ client[c].call = "check" /\ ReadAndReturn(c, client[c].types)
       \/ client[c].call = "ask" /\ Replies(c) # {} /\ EndAsk(c)
       \/ /\ client[c].call = "ask" /\ Replies(c) = {}
          /\ client' = [client EXCEPT ![c] = WaitingAsk]
          /\ UNCHANGED <<read, returned>>
    /\ UNCHANGED <<mailbox, delivered, pushes, agent, writable, timers, faults>>

\* The waiter's time is up: one last look.
Timeout(c) ==
    /\ Quiet /\ Waiting(c)
    /\ \/ client[c].call = "check" /\ ReadAndReturn(c, client[c].types)
       \/ client[c].call = "ask" /\ EndAsk(c)
    /\ UNCHANGED <<mailbox, delivered, pushes, agent, writable, timers, faults>>

\* The client's socket closes while it waits: a check takes nothing with it,
\* an ask looks for its reply first.
Abort(c) ==
    /\ Quiet /\ Waiting(c)
    /\ \/ /\ client[c].call = "check"
          /\ client' = [client EXCEPT ![c] = Free]
          /\ UNCHANGED <<read, returned>>
       \/ client[c].call = "ask" /\ EndAsk(c)
    /\ UNCHANGED <<mailbox, delivered, pushes, agent, writable, timers, faults>>
-----------------------------------------------------------------------------
Init ==
    /\ mailbox = <<>> /\ read = {} /\ delivered = {} /\ timers = <<>>
    /\ pushes = [m \in MessageId |-> 0] /\ returned = [m \in MessageId |-> <<>>]
    /\ agent = "working" /\ writable = TRUE /\ faults = 0
    /\ client = [c \in Client |-> Free]

Next ==
    \/ \E type \in Type : Send(type)
    \/ ExitEscalation
    \/ BecomeIdle \/ BecomeWorking \/ Enter \/ Writable
    \/ \E thread \in Client \cup {"-"} : Reply(thread)
    \/ \E m \in MessageId : Answer(m)
    \/ \E c \in Client : \/ Ask(c) \/ Resume(c) \/ Timeout(c) \/ Abort(c)
                         \/ \E types \in Filter : CheckWait(c, types)

Spec == Init /\ [][Next]_vars

\* Timers fire, woken calls resume, and a working agent becomes idle again.
Fairness == WF_vars(Enter) /\ WF_vars(BecomeIdle) /\ \A c \in Client : WF_vars(Resume(c))

FairSpec == Spec /\ Fairness
-----------------------------------------------------------------------------
\* No lost wake-up: a client never sleeps over mail that would end its call,
\* whatever else reads, sends or times out around it.  A check whose list of
\* types is empty is left out: no message wakes it, though it would return any.
NoSleepOverMail ==
    \A c \in Client : Waiting(c) /\ client[c].types # {} =>
        IF client[c].call = "ask" THEN Replies(c) = {} ELSE Unread(client[c].types) = {}

\* However many clients block on a handle, no message is handed to two checks
\* (of unread mail: --all is left out) or to two asks.  A reply may be handed to a check and, after it, to the ask of
\* its own thread, which looks at read rows too; what an ask took, no check gets.
ReadOnce == \A m \in MessageId :
    returned[m] \in {<<>>, <<"check">>} \cup
        (IF m \in Inserted /\ mailbox[m].thread \in Client THEN {<<"ask">>, <<"check", "ask">>}
                                                            ELSE {})

\* Mail enters the terminal oldest first: a message is pushed over an older
\* one only if the older one was pushed too or has been read by a client.
PushedInOrder ==
    \A m, n \in Inserted : m < n /\ pushes[n] > 0 => pushes[m] > 0 \/ m \in read

\* delivered_at is stamped only for what the terminal was given and, unless
\* it is Cursor Agent's, only after the Enter: a push that is not submitted yet
\* and was not repeated stays undelivered.
DeliveredWasSubmitted ==
    \A m \in delivered : pushes[m] > Cardinality({i \in 1..Len(timers) : m \in timers[i]})

\* "each row is auto-pushed at most once": true of a Cursor Agent's terminal,
\* where the row is stamped in the same stretch as the write.
PushedAtMostOnce == CursorAgent => \A m \in MessageId : pushes[m] <= 1

\* What could not be pushed stays queued and is pushed at a later idle
\* transition: if the agent goes on working and its terminal stays writable,
\* every message is delivered or read in the end.
NextIdleDelivers ==
    []<>(agent = "working") /\ <>[]writable =>
        \A m \in MessageId : (m \in Inserted) ~> (m \in read \cup delivered)
=============================================================================
