----------------------- MODULE MessageDeliveryProofs -----------------------
(* Safety of MessageDelivery, for any clients and any number of messages. *)
EXTENDS MessageDelivery, SequenceTheorems, FiniteSetTheorems, TLAPS

\* The part of the typing the proofs need.
Typed ==
    /\ mailbox \in Seq([type : Type, thread : Client \cup {"-"}])
    /\ Len(mailbox) <= MaxMessages
    /\ read \subseteq Inserted /\ delivered \subseteq MessageId
    /\ pushes \in [MessageId -> Nat] /\ returned \in [MessageId -> Seq({"check", "ask"})]
    /\ writable \in BOOLEAN /\ agent \in {"idle", "working"} /\ faults \in 0..MaxFaults
    /\ timers \in Seq(SUBSET MessageId)
    /\ client \in [Client -> {Free} \cup [at : {"waiting", "woken"}, call : {"check", "ask"},
                                          types : Filter]]

\* An ask listens to every type: no reply can fail to wake it.
AsksHearAll == \A c \in Client : client[c].at # "free" /\ client[c].call = "ask" =>
                  client[c].types = Type

\* What was returned to a client is marked read.
ReturnedIsRead == \A m \in MessageId : returned[m] # <<>> => m \in read

\* While a client asks, it has not been given a reply of its thread.
AskIsOpen == \A c \in Client : client[c].at # "free" /\ client[c].call = "ask" =>
                \A m \in Replies(c) : returned[m] \in {<<>>, <<"check">>}

\* Only messages that are there were pushed, and only those are delivered.
PushedAndDelivered ==
    /\ \A m \in MessageId : pushes[m] > 0 => m \in Inserted
    /\ \A m \in delivered : pushes[m] > 0
    /\ \A i \in 1..Len(timers) : \A m \in timers[i] : pushes[m] > 0

\* Appending a row adds one id and changes no other row.
LEMMA InsertAppends ==
    ASSUME Typed, NEW type \in Type, NEW thread \in Client \cup {"-"}, Insert(type, thread)
    PROVE  /\ mailbox' \in Seq([type : Type, thread : Client \cup {"-"}])
           /\ Len(mailbox') <= MaxMessages
           /\ Inserted' = Inserted \cup {Len(mailbox) + 1}
           /\ Len(mailbox) + 1 \in MessageId /\ Len(mailbox) + 1 \notin Inserted
           /\ mailbox'[Len(mailbox) + 1] = [type |-> type, thread |-> thread]
           /\ \A m \in Inserted : mailbox'[m] = mailbox[m] /\ m <= Len(mailbox)
<1> DEFINE Row == [type : Type, thread : Client \cup {"-"}]
           row == [type |-> type, thread |-> thread]
<1>1. mailbox \in Seq(Row) /\ row \in Row /\ Len(mailbox) \in Nat
  BY DEF Typed
<1>2. mailbox' = Append(mailbox, row) /\ Len(mailbox) < MaxMessages
  BY DEF Insert
<1> HIDE DEF Row, row
<1>3. /\ mailbox' \in Seq(Row)
      /\ Len(mailbox') = Len(mailbox) + 1
      /\ mailbox'[Len(mailbox) + 1] = row
      /\ \A m \in 1..Len(mailbox) : mailbox'[m] = mailbox[m]
  BY <1>1, <1>2
<1>4. DOMAIN mailbox = 1..Len(mailbox) /\ DOMAIN mailbox' = 1..(Len(mailbox) + 1)
  BY <1>1, <1>3
<1>5. /\ Inserted' = Inserted \cup {Len(mailbox) + 1}
      /\ Len(mailbox) + 1 \notin Inserted
      /\ \A m \in Inserted : mailbox'[m] = mailbox[m] /\ m <= Len(mailbox)
  BY <1>1, <1>3, <1>4 DEF Inserted
<1>6. Len(mailbox') <= MaxMessages /\ Len(mailbox) + 1 \in MessageId
  BY <1>1, <1>2, <1>3, MailAssumption DEF MessageId
<1> QED
  BY <1>3, <1>5, <1>6 DEF Row, row

\* The ids of the messages.
LEMMA IdsAreNats ==
    ASSUME Typed
    PROVE  Inserted \subseteq MessageId /\ \A m \in MessageId : m \in Nat
  BY MailAssumption DEF Typed, Inserted, MessageId
-----------------------------------------------------------------------------
(* Waiting clients *)

WaitInv == Typed /\ AsksHearAll /\ NoSleepOverMail

LEMMA TypedInit == Init => WaitInv /\ ReturnedIsRead /\ PushedAndDelivered
  BY MailAssumption DEF Init, WaitInv, Typed, AsksHearAll, NoSleepOverMail, Free, Waiting,
     ReturnedIsRead, PushedAndDelivered, Inserted, MessageId

\* What a push does, of whatever it finds pending in the mailbox.
LEMMA PushEffect ==
    ASSUME Typed, NEW box, DOMAIN box \subseteq MessageId, Inserted \subseteq DOMAIN box,
           DeliverPending(box)
    PROVE  /\ pushes' \in [MessageId -> Nat]
           /\ delivered' \subseteq MessageId
           /\ timers' \in Seq(SUBSET MessageId)
           /\ faults' \in 0..MaxFaults
           /\ \A m \in MessageId : pushes'[m] >= pushes[m]
           /\ \A m \in MessageId : pushes'[m] > pushes[m] =>
                 /\ m \in DOMAIN box
                 /\ \A n \in DOMAIN box : n \in read \cup delivered \/ pushes'[n] > 0
           /\ \A m \in delivered' \ delivered : pushes'[m] > 0
           /\ \/ timers' = timers
              \/ \E ids \in SUBSET MessageId :
                    timers' = Append(timers, ids) /\ \A m \in ids : pushes'[m] > 0
<1> DEFINE ids == Pending(box)
<1>1. ids \subseteq MessageId /\ ids \subseteq DOMAIN box /\ delivered \subseteq MessageId
  BY DEF Typed, Pending
<1>2. /\ pushes \in [MessageId -> Nat] /\ timers \in Seq(SUBSET MessageId)
      /\ faults \in 0..MaxFaults /\ MaxFaults \in Nat
  BY MailAssumption DEF Typed
<1>3. \A n \in DOMAIN box : n \in read \cup delivered \/ n \in ids
  BY DEF Pending
<1>4. \/ UNCHANGED <<pushes, delivered, timers>> /\ (Fault \/ faults' = faults)
      \/ /\ pushes' = [m \in MessageId |-> IF m \in ids THEN pushes[m] + 1 ELSE pushes[m]]
         /\ \/ delivered' = delivered \cup ids /\ timers' = timers
            \/ timers' = Append(timers, ids) /\ delivered' = delivered
         /\ faults' = faults
  BY DEF DeliverPending, StampedAtOnce
<1> HIDE DEF ids
<1>5. CASE UNCHANGED <<pushes, delivered, timers>> /\ (Fault \/ faults' = faults)
  BY <1>1, <1>2, <1>5 DEF Fault
<1>6. CASE /\ pushes' = [m \in MessageId |-> IF m \in ids THEN pushes[m] + 1 ELSE pushes[m]]
           /\ \/ delivered' = delivered \cup ids /\ timers' = timers
              \/ timers' = Append(timers, ids) /\ delivered' = delivered
           /\ faults' = faults
  <2>1. pushes' \in [MessageId -> Nat] /\ \A m \in MessageId : pushes'[m] >= pushes[m]
    BY <1>2, <1>6
  <2>2. \A m \in ids : pushes'[m] > 0
    BY <1>1, <1>2, <1>6
  <2>3. \A m \in MessageId : pushes'[m] > pushes[m] => m \in ids
    BY <1>2, <1>6
  <2>4. delivered' \subseteq MessageId /\ faults' \in 0..MaxFaults
    BY <1>1, <1>2, <1>6
  <2>6. ids \in SUBSET MessageId
    BY <1>1
  <2>7. Append(timers, ids) \in Seq(SUBSET MessageId)
    BY <1>2, <2>6, AppendProperties
  <2>8. timers' \in Seq(SUBSET MessageId)
    BY <1>2, <1>6, <2>7
  <2>5. QED
    BY <1>1, <1>2, <1>3, <1>6, <2>1, <2>2, <2>3, <2>4, <2>6, <2>8
<1>7. QED
  BY <1>4, <1>5, <1>6
-----------------------------------------------------------------------------
(* Typing *)

\* Names for the filters and the records of clients.
Blocked == [at : {"waiting", "woken"}, call : {"check", "ask"}, types : Filter]

LEMMA ClientRecords ==
    /\ Type \in Filter /\ \A types \in Filter : types \subseteq Type
    /\ Free.at = "free" /\ Free \notin Blocked
    /\ \A types \in Filter :
          /\ WaitingCheck(types) \in Blocked
          /\ WaitingCheck(types).call = "check" /\ WaitingCheck(types).types = types
    /\ WaitingAsk \in Blocked
    /\ WaitingAsk.call = "ask" /\ WaitingAsk.types = Type
  BY DEF Filter, Type, Free, Blocked, WaitingCheck, WaitingAsk

\* A resolved waiter keeps its call and its filter.
LEMMA NotifyEffect ==
    ASSUME Typed, NEW type, Notify(type)
    PROVE  /\ client' \in [Client -> {Free} \cup [at : {"waiting", "woken"},
                              call : {"check", "ask"}, types : Filter]]
           /\ \A c \in Client :
                \/ client'[c] = client[c] /\ (Waiting(c) => type \notin client[c].types)
                \/ /\ Waiting(c) /\ client'[c].at = "woken"
                   /\ client'[c].call = client[c].call
                   /\ client'[c].types = client[c].types
<1> SUFFICES ASSUME NEW c \in Client
             PROVE  /\ client'[c] \in {Free} \cup [at : {"waiting", "woken"},
                                         call : {"check", "ask"}, types : Filter]
                    /\ \/ client'[c] = client[c] /\ (Waiting(c) => type \notin client[c].types)
                       \/ /\ Waiting(c) /\ client'[c].at = "woken"
                          /\ client'[c].call = client[c].call
                          /\ client'[c].types = client[c].types
  BY DEF Notify
<1>1. client[c] \in {Free} \cup [at : {"waiting", "woken"}, call : {"check", "ask"},
                                 types : Filter]
  BY DEF Typed
<1>2. client'[c] = IF Waiting(c) /\ type \in client[c].types
                   THEN [client[c] EXCEPT !.at = "woken"] ELSE client[c]
  BY DEF Notify
<1>3. CASE Waiting(c) /\ type \in client[c].types
  <2>1. client[c] \in [at : {"waiting", "woken"}, call : {"check", "ask"}, types : Filter]
    BY <1>1, <1>3 DEF Waiting, Free
  <2>2. QED
    BY <1>2, <1>3, <2>1
<1>4. CASE ~(Waiting(c) /\ type \in client[c].types)
  BY <1>1, <1>2, <1>4
<1>5. QED
  BY <1>3, <1>4

\* Every step keeps the typing.
LEMMA TypedStep == Typed /\ [Next]_vars => Typed'
<1> SUFFICES ASSUME Typed, [Next]_vars PROVE Typed'
  OBVIOUS
<1> USE IdsAreNats, ClientRecords
<1>1. ASSUME NEW type \in Type, Send(type) PROVE Typed'
  <2>1. Insert(type, "-") /\ Notify(type) /\ UNCHANGED <<read, agent, writable, returned>>
    BY <1>1 DEF Send
  <2>2. /\ mailbox' \in Seq([type : Type, thread : Client \cup {"-"}])
        /\ Len(mailbox') <= MaxMessages
        /\ Inserted' = Inserted \cup {Len(mailbox) + 1} /\ Len(mailbox) + 1 \in MessageId
    BY <2>1, InsertAppends
  <2>3. /\ pushes' \in [MessageId -> Nat] /\ delivered' \subseteq MessageId
        /\ timers' \in Seq(SUBSET MessageId) /\ faults' \in 0..MaxFaults
    <3>1. CASE DeliverPending(mailbox')
      BY <2>2, <3>1, PushEffect DEF Inserted
    <3>2. CASE UNCHANGED <<pushes, delivered, timers, faults>>
      BY <2>2, <3>2 DEF Typed
    <3>3. QED
      BY <1>1, <3>1, <3>2 DEF Send
  <2>4. QED
    BY <2>1, <2>2, <2>3, NotifyEffect DEF Typed
<1>2. ASSUME NEW thread \in Client \cup {"-"}, Reply(thread) PROVE Typed'
  <2>1. "status" \in Type /\ Insert("status", thread) /\ Notify("status")
        /\ UNCHANGED <<read, delivered, pushes, agent, writable, timers, returned, faults>>
    BY <1>2 DEF Reply, Type
  <2>2. QED
    BY <2>1, InsertAppends, NotifyEffect DEF Typed
<1>3. CASE ExitEscalation
  <2>1. "escalation" \in Type /\ Insert("escalation", "-")
        /\ UNCHANGED <<read, delivered, pushes, agent, writable, timers, client, returned, faults>>
    BY <1>3 DEF ExitEscalation, Type
  <2>2. QED
    BY <2>1, InsertAppends DEF Typed
<1>4. ASSUME NEW m \in MessageId, Answer(m) PROVE Typed'
  BY <1>4 DEF Answer, Typed, Inserted
<1>5. CASE BecomeIdle
  <2>1. DeliverPending(mailbox) /\ agent' = "idle"
        /\ UNCHANGED <<mailbox, read, writable, client, returned>>
    BY <1>5 DEF BecomeIdle
  <2>2. /\ pushes' \in [MessageId -> Nat] /\ delivered' \subseteq MessageId
        /\ timers' \in Seq(SUBSET MessageId) /\ faults' \in 0..MaxFaults
    BY <2>1, PushEffect DEF Inserted
  <2>3. QED
    BY <2>1, <2>2 DEF Typed, Inserted
<1>6. CASE BecomeWorking
  BY <1>6 DEF BecomeWorking, Typed, Inserted
<1>7. CASE Enter
  <2>1. timers \in Seq(SUBSET MessageId) /\ timers # <<>>
    BY <1>7 DEF Enter, Typed
  <2>2. timers' \in Seq(SUBSET MessageId) /\ Head(timers) \subseteq MessageId
    BY <1>7, <2>1, HeadTailProperties DEF Enter
  <2>3. delivered' \subseteq MessageId /\ faults' \in 0..MaxFaults
    BY <1>7, <2>2, MailAssumption DEF Enter, Fault, Typed
  <2>4. QED
    BY <1>7, <2>2, <2>3 DEF Enter, Typed, Inserted
<1>8. CASE Writable
  <2>1. faults' \in 0..MaxFaults
    BY <1>8, MailAssumption DEF Writable, Fault, Typed
  <2>2. QED
    BY <1>8, <2>1 DEF Writable, Typed, Inserted
<1>9. ASSUME NEW c \in Client,
             \/ \E types \in Filter : CheckWait(c, types)
             \/ Ask(c) \/ Resume(c) \/ Timeout(c) \/ Abort(c)
      PROVE  Typed'
  <2>1. UNCHANGED <<mailbox, delivered, pushes, agent, writable, timers, faults>>
    BY <1>9 DEF CheckWait, Ask, Resume, Timeout, Abort
  <2>2. read' \subseteq Inserted
    BY <1>9 DEF CheckWait, Ask, Resume, Timeout, Abort, ReadAndReturn, EndAsk, Unread,
       Oldest, Replies, Typed
  <2>3. returned' \in [MessageId -> Seq({"check", "ask"})]
    <3>1. \/ returned' = returned
          \/ \E ids, call : /\ call \in {"check", "ask"}
                            /\ returned' = [m \in MessageId |-> IF m \in ids
                                               THEN Append(returned[m], call) ELSE returned[m]]
      BY <1>9 DEF CheckWait, Ask, Resume, Timeout, Abort, ReadAndReturn, EndAsk, AnswerAsk
    <3>2. \A m \in MessageId, call \in {"check", "ask"} :
             Append(returned[m], call) \in Seq({"check", "ask"})
      BY DEF Typed
    <3>3. CASE returned' = returned
      BY <3>3 DEF Typed
    <3>4. ASSUME NEW ids, NEW call \in {"check", "ask"},
                 returned' = [m \in MessageId |-> IF m \in ids THEN Append(returned[m], call)
                                                               ELSE returned[m]]
          PROVE  returned' \in [MessageId -> Seq({"check", "ask"})]
      <4>1. \A m \in MessageId : (IF m \in ids THEN Append(returned[m], call) ELSE returned[m])
                                   \in Seq({"check", "ask"})
        BY <3>2 DEF Typed
      <4>2. QED
        BY <3>4, <4>1, Zenon
    <3>5. QED
      BY <3>1, <3>3, <3>4
  <2>6. \E record \in {Free} \cup Blocked : client' = [client EXCEPT ![c] = record]
    BY <1>9 DEF CheckWait, Ask, Resume, Timeout, Abort, ReadAndReturn, EndAsk, AnswerAsk
  <2>4. client' \in [Client -> {Free} \cup Blocked]
    BY <2>6 DEF Typed, Blocked
  <2>5. QED
    BY <2>1, <2>2, <2>3, <2>4 DEF Typed, Inserted, Blocked
<1>11. CASE UNCHANGED vars
  BY <1>11 DEF vars, Typed, Inserted
<1>12. QED
  BY <1>1, <1>2, <1>3, <1>4, <1>5, <1>6, <1>7, <1>8, <1>9, <1>11 DEF Next
-----------------------------------------------------------------------------
(* Blocked clients *)

\* A row that comes with a wake-up leaves nobody asleep over it.
LEMMA InsertWakes ==
    ASSUME WaitInv, NEW type \in Type, NEW thread \in Client \cup {"-"},
           Insert(type, thread), Notify(type), read' = read
    PROVE  AsksHearAll' /\ NoSleepOverMail'
<1> USE DEF WaitInv
<1>1. AsksHearAll'
  BY NotifyEffect DEF AsksHearAll, Waiting
<1>2. ASSUME NEW c \in Client, Waiting(c)'
      PROVE  /\ client'[c] = client[c] /\ Waiting(c) /\ client[c].call # "ask"
             /\ type \notin client[c].types
  BY <1>2, NotifyEffect DEF Waiting, AsksHearAll
<1>3. ASSUME NEW c \in Client, Waiting(c)', client'[c].types # {}
      PROVE  Unread(client[c].types)' = {}
  <2>1. Unread(client[c].types) = {} /\ client'[c] = client[c] /\ type \notin client[c].types
    BY <1>2, <1>3 DEF NoSleepOverMail
  <2>2. ASSUME NEW m \in Inserted' \ read' PROVE mailbox'[m].type \notin client'[c].types
    <3>1. CASE m \in Inserted
      <4>1. mailbox'[m] = mailbox[m] /\ m \notin read
        BY <2>2, <3>1, InsertAppends
      <4>2. QED
        BY <2>1, <3>1, <4>1, <1>3 DEF Unread, Lists
    <3>2. CASE m \notin Inserted
      <4>1. mailbox'[m] = [type |-> type, thread |-> thread]
        BY <2>2, <3>2, InsertAppends
      <4>2. QED
        BY <2>1, <4>1
    <3>3. QED
      BY <3>1, <3>2
  <2>3. QED
    BY <1>3, <2>1, <2>2 DEF Unread, Lists
<1>4. QED
  BY <1>1, <1>2, <1>3 DEF NoSleepOverMail

\* Every step but a silent escalation keeps the clients' invariant.
LEMMA WaitStep ==
    ASSUME ~MayEscalate
    PROVE  WaitInv /\ [Next]_vars => WaitInv'
<1> SUFFICES ASSUME WaitInv, [Next]_vars PROVE AsksHearAll' /\ NoSleepOverMail'
  BY TypedStep DEF WaitInv
<1> USE ClientRecords
<1>1. ASSUME NEW type \in Type, Send(type) PROVE AsksHearAll' /\ NoSleepOverMail'
  <2>1. Insert(type, "-") /\ Notify(type) /\ read' = read
    BY <1>1 DEF Send
  <2>2. QED
    BY <2>1, InsertWakes
<1>2. ASSUME NEW thread \in Client \cup {"-"}, Reply(thread)
      PROVE  AsksHearAll' /\ NoSleepOverMail'
  <2>1. "status" \in Type /\ Insert("status", thread) /\ Notify("status") /\ read' = read
    BY <1>2 DEF Reply, Type
  <2>2. QED
    BY <2>1, InsertWakes
<1>3. CASE ExitEscalation
  BY <1>3 DEF ExitEscalation
<1>4. ASSUME NEW m \in MessageId, Answer(m) PROVE AsksHearAll' /\ NoSleepOverMail'
  BY <1>4 DEF Answer, WaitInv, AsksHearAll, NoSleepOverMail, Waiting, Replies, Unread,
     Lists, Inserted
<1>5. CASE BecomeIdle \/ BecomeWorking \/ Enter \/ Writable \/ UNCHANGED vars
  <2>1. UNCHANGED <<mailbox, read, client>>
    BY <1>5 DEF BecomeIdle, BecomeWorking, Enter, Writable, vars
  <2>2. QED
    BY <2>1 DEF WaitInv, AsksHearAll, NoSleepOverMail, Waiting, Replies, Unread,
       Lists, Inserted
<1>6. ASSUME NEW c \in Client,
             \/ \E types \in Filter : CheckWait(c, types)
             \/ Ask(c) \/ Resume(c) \/ Timeout(c) \/ Abort(c)
      PROVE  AsksHearAll' /\ NoSleepOverMail'
  <2>1. mailbox' = mailbox /\ read \subseteq read'
    BY <1>6 DEF CheckWait, Ask, Resume, Timeout, Abort, ReadAndReturn, EndAsk
  <2>2. \/ client' = [client EXCEPT ![c] = Free]
        \/ client' = [client EXCEPT ![c] = WaitingAsk] /\ Replies(c) = {}
        \/ \E types \in Filter : client' = [client EXCEPT ![c] = WaitingCheck(types)]
                                /\ Unread(types) = {}
    BY <1>6 DEF CheckWait, Ask, Resume, Timeout, Abort, ReadAndReturn, EndAsk, AnswerAsk
  <2>3. \A d \in Client \ {c} : client'[d] = client[d]
    BY <2>2 DEF WaitInv, Typed
  <2>4. \/ client'[c] = Free
        \/ client'[c] = WaitingAsk /\ Replies(c) = {}
        \/ \E types \in Filter : client'[c] = WaitingCheck(types) /\ Unread(types) = {}
    BY <2>2 DEF WaitInv, Typed
  <2>5. AsksHearAll'
    <3>1. ASSUME client'[c].at # "free", client'[c].call = "ask" PROVE client'[c].types = Type
      BY <2>4, <3>1
    <3>2. QED
      BY <2>3, <3>1 DEF WaitInv, AsksHearAll
  <2>6. ASSUME NEW d \in Client, Waiting(d)', client'[d].types # {}
        PROVE  IF client'[d].call = "ask" THEN Replies(d)' = {}
               ELSE Unread(client[d].types)' = {}
    <3>1. CASE d = c
      <4>1. \/ client'[c] = WaitingAsk /\ Replies(c) = {}
            \/ \E types \in Filter : client'[c] = WaitingCheck(types) /\ Unread(types) = {}
        BY <2>4, <2>6, <3>1 DEF Waiting
      <4>2. Replies(c)' = Replies(c)
        BY <2>1 DEF Replies, Inserted
      <4>3. \A types : Unread(types) = {} =>
               {m \in Inserted' \ read' : types = {} \/ mailbox'[m].type \in types} = {}
        BY <2>1 DEF Unread, Lists, Inserted
      <4>4. CASE client'[c] = WaitingAsk /\ Replies(c) = {}
        BY <3>1, <4>2, <4>4
      <4>5. ASSUME NEW types \in Filter, client'[c] = WaitingCheck(types), Unread(types) = {}
            PROVE  client'[c].call = "check" /\ Unread(client[c].types)' = {}
        BY <4>3, <4>5 DEF Unread, Lists
      <4>6. QED
        BY <3>1, <4>1, <4>4, <4>5
    <3>2. CASE d # c
      BY <2>1, <2>3, <2>6, <3>2 DEF WaitInv, NoSleepOverMail, Waiting, Replies, Unread,
         Lists, Inserted
    <3>3. QED
      BY <3>1, <3>2
  <2>7. QED
    BY <2>5, <2>6 DEF NoSleepOverMail
<1>7. QED
  BY <1>1, <1>2, <1>3, <1>4, <1>5, <1>6 DEF Next

\* notifyMessageArrived: apart from the escalation of an exiting terminal, which
\* is inserted without it, no row leaves a client asleep that it should end.
THEOREM MailNoLostWakeUp ==
    ASSUME ~MayEscalate
    PROVE  Spec => []NoSleepOverMail
<1>1. Init => WaitInv
  BY TypedInit
<1>2. WaitInv => NoSleepOverMail
  BY DEF WaitInv
<1>3. QED
  BY <1>1, <1>2, WaitStep, PTL DEF Spec
-----------------------------------------------------------------------------
(* Reading *)

ReadInv == Typed /\ ReturnedIsRead /\ AskIsOpen /\ ReadOnce

\* The first and the second hand-out of a message.
LEMMA HandOuts ==
    /\ Append(<<>>, "check") = <<"check">> /\ Append(<<>>, "ask") = <<"ask">>
    /\ Append(<<"check">>, "ask") = <<"check", "ask">>
<1> DEFINE Calls == {"check", "ask"}
<1>1. Append(<<>>, "check") = <<"check">> /\ Append(<<>>, "ask") = <<"ask">>
  OBVIOUS
<1>2. <<"check">> \in Seq(Calls) /\ <<"check", "ask">> \in Seq(Calls)
  OBVIOUS
<1>3. /\ Append(<<"check">>, "ask") \in Seq(Calls) /\ Len(Append(<<"check">>, "ask")) = 2
      /\ \A i \in 1..2 : Append(<<"check">>, "ask")[i] = <<"check", "ask">>[i]
  BY <1>2, AppendProperties
<1>4. QED
  BY <1>1, <1>2, <1>3, SeqEqual

\* A row that comes with a wake-up, or without one, is new to every client.
LEMMA InsertUnreturned ==
    ASSUME ReadInv, NEW type \in Type, NEW thread \in Client \cup {"-"}, Insert(type, thread),
           read' = read, returned' = returned, client' = client \/ Notify(type)
    PROVE  ReturnedIsRead' /\ AskIsOpen' /\ ReadOnce'
<1> USE DEF ReadInv
<1>1. /\ Inserted' = Inserted \cup {Len(mailbox) + 1}
      /\ Len(mailbox) + 1 \in MessageId /\ Len(mailbox) + 1 \notin Inserted
      /\ \A m \in Inserted : mailbox'[m] = mailbox[m]
  BY InsertAppends
<1>2. returned[Len(mailbox) + 1] = <<>>
  BY <1>1 DEF Typed, ReturnedIsRead
<1>3. \A c \in Client : client'[c].at # "free" /\ client'[c].call = "ask" =>
                           client[c].at # "free" /\ client[c].call = "ask"
  BY NotifyEffect DEF Waiting
<1>4. \A c \in Client : Replies(c)' \subseteq Replies(c) \cup {Len(mailbox) + 1}
  BY <1>1 DEF Replies
<1>5. AskIsOpen'
  BY <1>2, <1>3, <1>4 DEF AskIsOpen
<1>6. ReadOnce'
  BY <1>1 DEF ReadOnce
<1>7. QED
  BY <1>5, <1>6 DEF ReturnedIsRead

\* A check returns what was unread and marks it, in one stretch; an ask returns
\* a reply of its own thread, and its thread is closed with that.
LEMMA ReadStep == ReadInv /\ [Next]_vars => ReadInv'
<1> SUFFICES ASSUME ReadInv, [Next]_vars PROVE ReturnedIsRead' /\ AskIsOpen' /\ ReadOnce'
  BY TypedStep DEF ReadInv
<1> USE DEF ReadInv
<1>1. ASSUME UNCHANGED <<mailbox, returned>>, read \subseteq read',
             \A c \in Client : \/ client'[c] = client[c] \/ client'[c] = Free
                               \/ client'[c].call = "check"
                               \/ Replies(c) = {}
      PROVE  ReturnedIsRead' /\ AskIsOpen' /\ ReadOnce'
  <2>1. \A c \in Client : Replies(c)' = Replies(c)
    BY <1>1 DEF Replies, Inserted
  <2>2. AskIsOpen'
    BY <1>1, <2>1, ClientRecords DEF AskIsOpen
  <2>3. QED
    BY <1>1, <2>2 DEF ReturnedIsRead, ReadOnce, Inserted
<1>2. ASSUME NEW c \in Client, NEW types, ReadAndReturn(c, types), mailbox' = mailbox
      PROVE  ReturnedIsRead' /\ AskIsOpen' /\ ReadOnce'
  <2>1. \A m \in MessageId : /\ m \in Unread(types) => m \notin read /\ m \in read'
                             /\ m \in read => m \in read'
    BY <1>2 DEF ReadAndReturn, Unread
  <2>2. \A m \in MessageId :
           returned'[m] = IF m \in Unread(types) THEN <<"check">> ELSE returned[m]
    <3>1. \A m \in MessageId : m \in Unread(types) => returned[m] = <<>>
      BY <2>1 DEF ReturnedIsRead
    <3>2. \A m \in MessageId : returned'[m] =
             IF m \in Unread(types) THEN Append(returned[m], "check") ELSE returned[m]
      BY <1>2 DEF ReadAndReturn
    <3>3. QED
      BY <3>1, <3>2, HandOuts
  <2>3. \A d \in Client : Replies(d)' = Replies(d) /\ Replies(d) \subseteq MessageId
    BY <1>2, IdsAreNats DEF Replies, Inserted
  <2>4. \A d \in Client : client'[d] = Free \/ client'[d] = client[d]
    BY <1>2 DEF ReadAndReturn, Typed
  <2>5. AskIsOpen'
    BY <2>2, <2>3, <2>4, ClientRecords DEF AskIsOpen
  <2>6. QED
    BY <1>2, <2>1, <2>2, <2>5 DEF ReturnedIsRead, ReadOnce, Inserted
<1>3. ASSUME NEW c \in Client, EndAsk(c), mailbox' = mailbox,
             client[c].at # "free", client[c].call = "ask"
      PROVE  ReturnedIsRead' /\ AskIsOpen' /\ ReadOnce'
  <2> DEFINE ids == Oldest(Replies(c))
  <2>1. /\ ids \subseteq Replies(c) /\ read' = read \cup ids
        /\ \A m \in MessageId : returned'[m] = IF m \in ids THEN Append(returned[m], "ask")
                                                           ELSE returned[m]
    BY <1>3 DEF EndAsk, AnswerAsk, Oldest
  <2> HIDE DEF ids
  <2>2. \A m \in ids : returned[m] \in {<<>>, <<"check">>}
    BY <1>3, <2>1 DEF AskIsOpen
  <2>3. \A m \in MessageId : m \in ids => returned'[m] \in {<<"ask">>, <<"check", "ask">>}
    <3>1. \A m \in MessageId : m \in ids => returned'[m] = Append(returned[m], "ask")
      BY <2>1
    <3>2. QED
      BY <2>2, <3>1, HandOuts
  <2>4. /\ Replies(c) \subseteq MessageId
        /\ \A m \in Replies(c) : m \in Inserted /\ mailbox[m].thread = c
    BY IdsAreNats DEF Replies
  <2>5. \A d \in Client \ {c} : /\ client'[d] = client[d] /\ Replies(d)' = Replies(d)
                                /\ Replies(d) \cap Replies(c) = {}
                                /\ Replies(d) \subseteq MessageId
    BY <1>3, IdsAreNats DEF EndAsk, AnswerAsk, Replies, Inserted, Typed
  <2>6. client'[c].at = "free"
    BY <1>3, ClientRecords DEF EndAsk, AnswerAsk, Typed
  <2>7. AskIsOpen'
    BY <2>1, <2>5, <2>6 DEF AskIsOpen
  <2>8. ReadOnce'
    BY <1>3, <2>1, <2>3, <2>4 DEF ReadOnce, Inserted
  <2>9. QED
    BY <2>1, <2>3, <2>7, <2>8 DEF ReturnedIsRead
<1>4. ASSUME NEW type \in Type, Send(type) PROVE ReturnedIsRead' /\ AskIsOpen' /\ ReadOnce'
  BY <1>4, InsertUnreturned DEF Send
<1>5. ASSUME NEW thread \in Client \cup {"-"}, Reply(thread)
      PROVE  ReturnedIsRead' /\ AskIsOpen' /\ ReadOnce'
  BY <1>5, InsertUnreturned DEF Reply, Type
<1>6. CASE ExitEscalation
  BY <1>6, InsertUnreturned DEF ExitEscalation, Type
<1>7. CASE \/ BecomeIdle \/ BecomeWorking \/ Enter \/ Writable \/ UNCHANGED vars
           \/ \E m \in MessageId : Answer(m)
  BY <1>1, <1>7 DEF BecomeIdle, BecomeWorking, Enter, Writable, vars, Answer
<1>8. ASSUME NEW c \in Client,
             \/ \E types \in Filter : CheckWait(c, types)
             \/ Ask(c) \/ Resume(c) \/ Timeout(c) \/ Abort(c)
      PROVE  ReturnedIsRead' /\ AskIsOpen' /\ ReadOnce'
  <2>1. /\ mailbox' = mailbox
        /\ \/ \E types : ReadAndReturn(c, types)
           \/ EndAsk(c) /\ client[c].at # "free" /\ client[c].call = "ask"
           \/ /\ UNCHANGED <<returned, read>>
              /\ \/ client' = [client EXCEPT ![c] = Free]
                 \/ client' = [client EXCEPT ![c] = WaitingAsk] /\ Replies(c) = {}
                 \/ \E types \in Filter : client' = [client EXCEPT ![c] = WaitingCheck(types)]
    BY <1>8 DEF CheckWait, Ask, Resume, Timeout, Abort, Waiting
  <2>2. ASSUME UNCHANGED <<returned, read>>,
               \/ client' = [client EXCEPT ![c] = Free]
               \/ client' = [client EXCEPT ![c] = WaitingAsk] /\ Replies(c) = {}
               \/ \E types \in Filter : client' = [client EXCEPT ![c] = WaitingCheck(types)]
        PROVE  \A d \in Client : \/ client'[d] = client[d] \/ client'[d] = Free
                                 \/ client'[d].call = "check" \/ Replies(d) = {}
    BY <2>2, ClientRecords DEF Typed
  <2>3. QED
    BY <1>1, <1>2, <1>3, <2>1, <2>2
<1>9. QED
  BY <1>4, <1>5, <1>6, <1>7, <1>8 DEF Next

\* readAndReturn and ask: however many clients block on a handle, and whatever
\* happens between their calls, no message is handed to two checks or two asks,
\* and none to a check after an ask; a reply that a check was given still goes
\* to the ask of its thread.
THEOREM MailReadOnce == Spec => []ReadOnce
<1>1. Init => ReadInv
  <2> SUFFICES ASSUME Init PROVE ReadInv
    OBVIOUS
  <2>1. Typed /\ ReturnedIsRead /\ \A m \in MessageId : returned[m] = <<>>
    BY TypedInit DEF WaitInv, Init
  <2>2. \A c \in Client : client[c].at = "free"
    BY ClientRecords DEF Init
  <2>3. QED
    BY <2>1, <2>2 DEF ReadInv, AskIsOpen, ReadOnce
<1>2. ReadInv => ReadOnce
  BY DEF ReadInv
<1>3. QED
  BY <1>1, <1>2, ReadStep, PTL DEF Spec
-----------------------------------------------------------------------------
(* Pushing *)

\* The ids after a step run from one on without a gap, as before it.
LEMMA NewIds ==
    ASSUME Typed, Typed'
    PROVE  /\ Inserted' \subseteq MessageId /\ DOMAIN mailbox' = Inserted'
           /\ \A m \in MessageId, n \in Inserted : m < n => m \in Inserted
<1>1. Len(mailbox) \in Nat /\ Inserted = 1..Len(mailbox)
  BY DEF Typed, Inserted
<1>2. Len(mailbox') \in Nat /\ Len(mailbox') <= MaxMessages /\ Inserted' = 1..Len(mailbox')
  BY DEF Typed, Inserted
<1>3. QED
  BY <1>1, <1>2, MailAssumption DEF MessageId, Inserted

PushInv == Typed /\ PushedAndDelivered /\ PushedInOrder

\* A push goes on with everything that an older message may still wait for.
LEMMA PushKeepsOrder ==
    ASSUME PushInv, Typed', Inserted \subseteq Inserted', read' = read,
           DeliverPending(mailbox')
    PROVE  PushedAndDelivered' /\ PushedInOrder'
<1> USE IdsAreNats DEF PushInv
<1>1. DOMAIN mailbox' = Inserted' /\ Inserted' \subseteq MessageId
  BY NewIds
<1>2. /\ \A m \in MessageId : pushes'[m] >= pushes[m]
      /\ \A m \in MessageId : pushes'[m] > pushes[m] =>
            /\ m \in Inserted'
            /\ \A n \in Inserted' : n \in read \cup delivered \/ pushes'[n] > 0
      /\ \A m \in delivered' \ delivered : pushes'[m] > 0
      /\ \/ timers' = timers
         \/ \E ids \in SUBSET MessageId :
               timers' = Append(timers, ids) /\ \A m \in ids : pushes'[m] > 0
  BY <1>1, PushEffect
<1>3. /\ pushes \in [MessageId -> Nat] /\ pushes' \in [MessageId -> Nat]
      /\ delivered \subseteq MessageId /\ delivered' \subseteq MessageId
      /\ timers \in Seq(SUBSET MessageId)
  BY DEF Typed
<1>4. \A m \in MessageId : pushes[m] > 0 => pushes'[m] > 0
  BY <1>2, <1>3
<1>5. \A m \in MessageId : pushes'[m] > 0 => m \in Inserted'
  <2>1. SUFFICES ASSUME NEW m \in MessageId, pushes'[m] > 0 PROVE m \in Inserted'
    OBVIOUS
  <2>2. CASE pushes'[m] > pushes[m]
    BY <1>2, <2>2
  <2>3. CASE ~(pushes'[m] > pushes[m])
    <3>1. pushes[m] > 0
      BY <1>3, <2>1, <2>3
    <3>2. QED
      BY <3>1 DEF PushedAndDelivered
  <2>4. QED
    BY <2>2, <2>3
<1>6. \A m \in delivered' : pushes'[m] > 0
  BY <1>2, <1>3, <1>4 DEF PushedAndDelivered
<1>7. \A i \in 1..Len(timers') : \A m \in timers'[i] : pushes'[m] > 0
  <2>1. \A i \in 1..Len(timers) : \A m \in timers[i] : m \in MessageId /\ pushes'[m] > 0
    BY <1>3, <1>4 DEF PushedAndDelivered
  <2>2. CASE timers' = timers
    BY <2>1, <2>2
  <2>3. ASSUME NEW ids \in SUBSET MessageId, timers' = Append(timers, ids),
               \A m \in ids : pushes'[m] > 0
        PROVE  \A i \in 1..Len(timers') : \A m \in timers'[i] : pushes'[m] > 0
    BY <1>3, <2>1, <2>3
  <2>4. QED
    BY <1>2, <2>2, <2>3
<1>8. ASSUME NEW m \in Inserted', NEW n \in Inserted', m < n, pushes'[n] > 0
      PROVE  pushes'[m] > 0 \/ m \in read'
  <2>1. m \in MessageId /\ n \in MessageId
    BY <1>1, <1>8
  <2>2. CASE pushes'[n] > pushes[n]
    <3>1. m \in read \cup delivered \/ pushes'[m] > 0
      BY <1>2, <1>8, <2>1, <2>2
    <3>2. m \in delivered => pushes'[m] > 0
      BY <1>4, <2>1 DEF PushedAndDelivered
    <3>3. QED
      BY <3>1, <3>2
  <2>3. CASE ~(pushes'[n] > pushes[n])
    <3>1. pushes[n] > 0
      BY <1>3, <1>8, <2>1, <2>3
    <3>2. n \in Inserted
      BY <2>1, <3>1 DEF PushedAndDelivered
    <3>3. m \in Inserted
      BY <1>8, <2>1, <3>2, NewIds
    <3>4. QED
      BY <1>4, <1>8, <2>1, <3>1, <3>2, <3>3 DEF PushedInOrder
  <2>4. QED
    BY <2>2, <2>3
<1>9. QED
  BY <1>5, <1>6, <1>7, <1>8 DEF PushedAndDelivered, PushedInOrder

\* A step that pushes nothing, and stamps at most what the oldest push held.
LEMMA NoPushKeepsOrder ==
    ASSUME PushInv, Typed', Inserted \subseteq Inserted', read \subseteq read', pushes' = pushes,
           delivered' \subseteq delivered \cup {m \in MessageId : pushes[m] > 0},
           timers' = timers \/ (timers # <<>> /\ timers' = Tail(timers))
    PROVE  PushedAndDelivered' /\ PushedInOrder'
<1> USE IdsAreNats DEF PushInv
<1>1. \A i \in 1..Len(timers') : \A m \in timers'[i] : pushes'[m] > 0
  <2>1. timers \in Seq(SUBSET MessageId) /\ \A i \in 1..Len(timers) : \A m \in timers[i] : pushes[m] > 0
    BY DEF Typed, PushedAndDelivered
  <2>2. ASSUME timers # <<>>, timers' = Tail(timers)
        PROVE  \A i \in 1..Len(timers') : i + 1 \in 1..Len(timers) /\ timers'[i] = timers[i + 1]
    BY <2>1, <2>2
  <2>3. QED
    BY <2>1, <2>2
<1>2. ASSUME NEW m \in Inserted', NEW n \in Inserted', m < n, pushes[n] > 0
      PROVE  pushes[m] > 0 \/ m \in read'
  <2>1. m \in MessageId /\ n \in MessageId
    BY <1>2, NewIds
  <2>2. n \in Inserted
    BY <1>2, <2>1 DEF PushedAndDelivered
  <2>3. m \in Inserted
    BY <1>2, <2>1, <2>2, NewIds
  <2>4. QED
    BY <1>2, <2>2, <2>3 DEF PushedInOrder
<1>3. QED
  BY <1>1, <1>2 DEF PushedAndDelivered, PushedInOrder

\* Every step keeps the order of pushes.
LEMMA PushStep == PushInv /\ [Next]_vars => PushInv'
<1> SUFFICES ASSUME PushInv, [Next]_vars PROVE PushedAndDelivered' /\ PushedInOrder'
  BY TypedStep DEF PushInv
<1>1. Typed /\ Typed'
  BY TypedStep DEF PushInv
<1>2. ASSUME NEW type \in Type, Send(type) PROVE PushedAndDelivered' /\ PushedInOrder'
  <2>1. Insert(type, "-") /\ read' = read
    BY <1>2 DEF Send
  <2>2. Inserted \subseteq Inserted'
    BY <1>1, <2>1, InsertAppends
  <2>3. QED
    BY <1>1, <1>2, <2>1, <2>2, PushKeepsOrder, NoPushKeepsOrder DEF Send
<1>3. ASSUME NEW thread \in Client \cup {"-"}, NEW type \in Type, Insert(type, thread),
             UNCHANGED <<read, pushes, delivered, timers>>
      PROVE  PushedAndDelivered' /\ PushedInOrder'
  <2>1. Inserted \subseteq Inserted'
    BY <1>1, <1>3, InsertAppends
  <2>2. QED
    BY <1>1, <1>3, <2>1, NoPushKeepsOrder
<1>4. CASE ExitEscalation \/ \E thread \in Client \cup {"-"} : Reply(thread)
  BY <1>3, <1>4 DEF ExitEscalation, Reply, Type
<1>5. CASE BecomeIdle
  BY <1>1, <1>5, PushKeepsOrder DEF BecomeIdle, Inserted
<1>6. CASE Enter
  <2>1. timers # <<>> /\ timers \in Seq(SUBSET MessageId)
    BY <1>1, <1>6 DEF Enter, Typed
  <2>2. Head(timers) \subseteq {m \in MessageId : pushes[m] > 0}
    BY <2>1 DEF PushInv, PushedAndDelivered
  <2>3. QED
    BY <1>1, <1>6, <2>1, <2>2, NoPushKeepsOrder DEF Enter, Inserted
<1>7. CASE BecomeWorking \/ Writable \/ UNCHANGED vars \/ \E m \in MessageId : Answer(m)
  BY <1>1, <1>7, NoPushKeepsOrder DEF BecomeWorking, Writable, Answer, vars, Inserted
<1>8. ASSUME NEW c \in Client,
             \/ \E types \in Filter : CheckWait(c, types)
             \/ Ask(c) \/ Resume(c) \/ Timeout(c) \/ Abort(c)
      PROVE  PushedAndDelivered' /\ PushedInOrder'
  <2>1. read \subseteq read' /\ UNCHANGED <<mailbox, pushes, delivered, timers>>
    BY <1>8 DEF CheckWait, Ask, Resume, Timeout, Abort, ReadAndReturn, EndAsk
  <2>2. QED
    BY <1>1, <2>1, NoPushKeepsOrder DEF Inserted
<1>9. QED
  BY <1>2, <1>4, <1>5, <1>6, <1>7, <1>8 DEF Next

\* deliverPendingMessages: refused writes, lost Enters and checks in between
\* never let a message be pushed over an older one that nobody has seen.
THEOREM MailPushedInOrder == Spec => []PushedInOrder
<1>1. Init => PushInv
  BY TypedInit DEF Init, PushInv, PushedInOrder, WaitInv, Inserted
<1>2. PushInv => PushedInOrder
  BY DEF PushInv
<1>3. QED
  BY <1>1, <1>2, PushStep, PTL DEF Spec
-----------------------------------------------------------------------------
(* Cursor Agent *)

\* What was pushed into a Cursor Agent's terminal is stamped.
Once == CursorAgent => \A m \in MessageId :
    pushes[m] <= 1 /\ (pushes[m] > 0 => m \in delivered)

LEMMA PushIsStamped ==
    ASSUME Typed, Once, NEW box, DOMAIN box \subseteq MessageId, DeliverPending(box)
    PROVE  Once'
<1> DEFINE ids == Pending(box)
<1> SUFFICES ASSUME CursorAgent, NEW m \in MessageId
             PROVE  pushes'[m] <= 1 /\ (pushes'[m] > 0 => m \in delivered')
  BY DEF Once
<1>1. /\ pushes \in [MessageId -> Nat] /\ pushes[m] <= 1
      /\ pushes[m] > 0 => m \in delivered
      /\ m \in ids => m \notin delivered
  BY DEF Typed, Once, Pending
<1>2. \/ UNCHANGED <<pushes, delivered>>
      \/ /\ pushes' = [n \in MessageId |-> IF n \in ids THEN pushes[n] + 1 ELSE pushes[n]]
         /\ delivered' = delivered \cup ids
  BY DEF DeliverPending, StampedAtOnce
<1> HIDE DEF ids
<1>3. QED
  BY <1>1, <1>2

LEMMA OnceStep == Typed /\ Once /\ [Next]_vars => Once'
<1> SUFFICES ASSUME Typed, Once, [Next]_vars PROVE Once'
  OBVIOUS
<1>1. ASSUME pushes' = pushes, delivered \subseteq delivered' PROVE Once'
  BY <1>1 DEF Once
<1>2. ASSUME NEW type \in Type, Send(type) PROVE Once'
  <2>1. Insert(type, "-")
    BY <1>2 DEF Send
  <2>2. DOMAIN mailbox' \subseteq MessageId
    BY <2>1, InsertAppends, IdsAreNats DEF Inserted
  <2>3. DeliverPending(mailbox') \/ UNCHANGED <<pushes, delivered>>
    BY <1>2 DEF Send
  <2>4. QED
    BY <1>1, <2>2, <2>3, PushIsStamped
<1>3. CASE BecomeIdle
  BY <1>3, PushIsStamped, IdsAreNats DEF BecomeIdle, Inserted
<1>4. CASE Enter
  BY <1>1, <1>4 DEF Enter
<1>5. CASE ExitEscalation \/ BecomeWorking \/ Writable \/ UNCHANGED vars
  BY <1>1, <1>5 DEF ExitEscalation, BecomeWorking, Writable, vars
<1>6. CASE \/ \E thread \in Client \cup {"-"} : Reply(thread)
           \/ \E m \in MessageId : Answer(m)
  BY <1>1, <1>6 DEF Reply, Answer
<1>7. CASE \E c \in Client : \/ Ask(c) \/ Resume(c) \/ Timeout(c) \/ Abort(c)
                             \/ \E types \in Filter : CheckWait(c, types)
  BY <1>1, <1>7 DEF Ask, Resume, Timeout, Abort, CheckWait
<1>8. QED
  BY <1>2, <1>3, <1>4, <1>5, <1>6, <1>7 DEF Next

\* deliverPendingMessages stamps what it wrote into a Cursor Agent's
\* terminal in the same stretch: its rows are pushed at most once.  With any
\* other agent the stamp waits for the Enter, and the rows may be pushed again.
THEOREM MailPushedAtMostOnce == Spec => []PushedAtMostOnce
<1>1. Init => Typed /\ Once
  BY TypedInit DEF WaitInv, Init, Once
<1>2. Typed /\ Once /\ [Next]_vars => (Typed /\ Once)'
  BY TypedStep, OnceStep
<1>3. Typed /\ Once => PushedAtMostOnce
  BY DEF Once, PushedAtMostOnce
<1>4. QED
  BY <1>1, <1>2, <1>3, PTL DEF Spec
-----------------------------------------------------------------------------
(* Submission *)

\* The pushes of row m whose Enter is still due.
Due(m, line) == {i \in 1..Len(line) : m \in line[i]}

LEMMA DueFinite ==
    ASSUME NEW T, NEW line \in Seq(T), NEW m
    PROVE  IsFiniteSet(Due(m, line)) /\ Cardinality(Due(m, line)) \in Nat
<1>1. IsFiniteSet(1..Len(line))
  BY FS_Interval
<1>2. IsFiniteSet(Due(m, line))
  BY <1>1, FS_Subset DEF Due
<1>3. QED
  BY <1>2, FS_CardinalityType

LEMMA DueAppended ==
    ASSUME NEW T, NEW line \in Seq(T), NEW ids \in T, NEW m
    PROVE  Cardinality(Due(m, Append(line, ids))) =
               Cardinality(Due(m, line)) + (IF m \in ids THEN 1 ELSE 0)
<1>1. Due(m, Append(line, ids)) = Due(m, line) \cup (IF m \in ids THEN {Len(line) + 1} ELSE {})
  BY DEF Due
<1>2. Len(line) + 1 \notin Due(m, line)
  BY DEF Due
<1>3. IsFiniteSet(Due(m, line)) /\ Cardinality(Due(m, line)) \in Nat
  BY DueFinite
<1>4. Cardinality(Due(m, line) \cup {Len(line) + 1}) = Cardinality(Due(m, line)) + 1
  BY <1>2, <1>3, FS_AddElement
<1>5. CASE m \in ids
  BY <1>1, <1>4, <1>5
<1>6. CASE m \notin ids
  <2>1. Due(m, Append(line, ids)) = Due(m, line)
    BY <1>1, <1>6
  <2>2. QED
    BY <1>3, <1>6, <2>1
<1>7. QED
  BY <1>5, <1>6

LEMMA DueTail ==
    ASSUME NEW T, NEW line \in Seq(T), line # <<>>, NEW m
    PROVE  Cardinality(Due(m, Tail(line))) =
               Cardinality(Due(m, line)) - (IF m \in Head(line) THEN 1 ELSE 0)
<1> DEFINE f == [i \in Due(m, Tail(line)) |-> i + 1]
           later == Due(m, line) \ {1}
<1>1. /\ Len(line) \in Nat \ {0} /\ Len(Tail(line)) = Len(line) - 1
      /\ \A i \in 1..Len(line)-1 : Tail(line)[i] = line[i + 1]
      /\ Head(line) = line[1]
  OBVIOUS
<1>2. \A i : i \in Due(m, Tail(line)) <=> i \in Int /\ i + 1 \in later
  <2>1. \A i : i \in 1..Len(line)-1 <=> i \in Int /\ i + 1 \in 1..Len(line) /\ i + 1 # 1
    BY <1>1
  <2>2. QED
    BY <1>1, <2>1 DEF Due
<1>3. f \in Bijection(Due(m, Tail(line)), later)
  <2>1. \A i, j \in Due(m, Tail(line)) : f[i] = f[j] => i = j
    BY <1>2
  <2>2. f \in [Due(m, Tail(line)) -> later]
    BY <1>2
  <2>3. \A k \in later : \E i \in Due(m, Tail(line)) : f[i] = k
    <3> SUFFICES ASSUME NEW k \in later PROVE k - 1 \in Due(m, Tail(line)) /\ f[k - 1] = k
      OBVIOUS
    <3>1. k \in Int /\ k - 1 \in Int /\ (k - 1) + 1 = k
      BY DEF Due
    <3>2. QED
      BY <1>2, <3>1
  <2>4. QED
    BY <2>1, <2>2, <2>3, Zenon DEF Bijection, Injection, Surjection, IsInjective
<1>4. Cardinality(later) = Cardinality(Due(m, Tail(line)))
  <2>1. IsFiniteSet(Due(m, Tail(line)))
    BY <1>2, <1>1, DueFinite, HeadTailProperties
  <2>2. QED
    BY <1>3, <2>1, FS_Bijection DEF ExistsBijection
<1>5. 1 \in Due(m, line) <=> m \in Head(line)
  BY <1>1 DEF Due
<1>6. Cardinality(later) = Cardinality(Due(m, line)) - (IF m \in Head(line) THEN 1 ELSE 0)
  <2>1. IsFiniteSet(Due(m, line)) /\ Cardinality(Due(m, line)) \in Nat
    BY DueFinite
  <2>2. Cardinality(later) = IF 1 \in Due(m, line) THEN Cardinality(Due(m, line)) - 1
                                                  ELSE Cardinality(Due(m, line))
    BY <2>1, FS_RemoveElement, Zenon
  <2> HIDE DEF later
  <2>3. QED
    BY <1>5, <2>1, <2>2
<1>7. QED
  BY <1>4, <1>6

\* Each push of a row is due, was stamped, or lost its Enter.
Covered == \A m \in MessageId :
    pushes[m] >= Cardinality(Due(m, timers)) + (IF m \in delivered THEN 1 ELSE 0)

\* A push counts once more, and is due once more or stamped for the first time.
LEMMA PushIsCovered ==
    ASSUME Typed, Covered, NEW box, DOMAIN box \subseteq MessageId, DeliverPending(box)
    PROVE  Covered'
<1> DEFINE ids == Pending(box)
<1> SUFFICES ASSUME NEW m \in MessageId
             PROVE  pushes'[m] >= Cardinality(Due(m, timers')) + (IF m \in delivered' THEN 1 ELSE 0)
  BY DEF Covered, Due
<1>1. /\ pushes \in [MessageId -> Nat] /\ timers \in Seq(SUBSET MessageId)
      /\ ids \in SUBSET MessageId /\ (m \in ids => m \notin delivered)
  BY DEF Typed, Pending
<1>2. /\ pushes[m] \in Nat /\ Cardinality(Due(m, timers)) \in Nat
      /\ pushes[m] >= Cardinality(Due(m, timers)) + (IF m \in delivered THEN 1 ELSE 0)
  BY <1>1, DueFinite DEF Covered
<1>3. Cardinality(Due(m, Append(timers, ids))) =
          Cardinality(Due(m, timers)) + (IF m \in ids THEN 1 ELSE 0)
  BY <1>1, DueAppended
<1>4. \/ UNCHANGED <<pushes, delivered, timers>>
      \/ /\ pushes' = [n \in MessageId |-> IF n \in ids THEN pushes[n] + 1 ELSE pushes[n]]
         /\ \/ delivered' = delivered \cup ids /\ timers' = timers
            \/ timers' = Append(timers, ids) /\ delivered' = delivered
  BY DEF DeliverPending, StampedAtOnce
<1> HIDE DEF ids
<1>5. CASE UNCHANGED <<pushes, delivered, timers>>
  BY <1>2, <1>5
<1>6. CASE pushes' = [n \in MessageId |-> IF n \in ids THEN pushes[n] + 1 ELSE pushes[n]]
  <2>1. pushes'[m] = IF m \in ids THEN pushes[m] + 1 ELSE pushes[m]
    BY <1>6
  <2>2. CASE delivered' = delivered \cup ids /\ timers' = timers
    BY <1>1, <1>2, <2>1, <2>2
  <2>3. CASE timers' = Append(timers, ids) /\ delivered' = delivered
    BY <1>1, <1>2, <1>3, <2>1, <2>3
  <2>4. CASE UNCHANGED <<pushes, delivered, timers>>
    BY <1>5, <2>4
  <2>5. QED
    BY <1>4, <2>2, <2>3, <2>4
<1>7. QED
  BY <1>4, <1>5, <1>6

LEMMA CoveredStep == Typed /\ Covered /\ [Next]_vars => Covered'
<1> SUFFICES ASSUME Typed, Covered, [Next]_vars PROVE Covered'
  OBVIOUS
<1>1. ASSUME UNCHANGED <<pushes, delivered, timers>> PROVE Covered'
  BY <1>1 DEF Covered, Due
<1>2. ASSUME NEW type \in Type, Send(type) PROVE Covered'
  <2>1. Insert(type, "-")
    BY <1>2 DEF Send
  <2>2. DOMAIN mailbox' \subseteq MessageId
    BY <2>1, InsertAppends, IdsAreNats DEF Inserted
  <2>3. DeliverPending(mailbox') \/ UNCHANGED <<pushes, delivered, timers>>
    BY <1>2 DEF Send
  <2>4. QED
    BY <1>1, <2>2, <2>3, PushIsCovered
<1>3. CASE BecomeIdle
  BY <1>3, PushIsCovered, IdsAreNats DEF BecomeIdle, Inserted
<1>4. CASE Enter
  <2> SUFFICES ASSUME NEW m \in MessageId
               PROVE  pushes'[m] >= Cardinality(Due(m, timers')) + (IF m \in delivered' THEN 1 ELSE 0)
    BY DEF Covered, Due
  <2>1. /\ pushes' = pushes /\ timers # <<>> /\ timers' = Tail(timers)
        /\ delivered' = delivered \cup Head(timers) \/ delivered' = delivered
    BY <1>4 DEF Enter
  <2>2. pushes[m] \in Nat /\ timers \in Seq(SUBSET MessageId)
    BY DEF Typed
  <2>3. /\ Cardinality(Due(m, timers)) \in Nat
        /\ pushes[m] >= Cardinality(Due(m, timers)) + (IF m \in delivered THEN 1 ELSE 0)
    BY <2>2, DueFinite DEF Covered
  <2>4. Cardinality(Due(m, timers')) =
            Cardinality(Due(m, timers)) - (IF m \in Head(timers) THEN 1 ELSE 0)
    BY <2>1, <2>2, DueTail
  <2>5. QED
    BY <2>1, <2>2, <2>3, <2>4
<1>5. CASE ExitEscalation \/ BecomeWorking \/ Writable \/ UNCHANGED vars
  BY <1>1, <1>5 DEF ExitEscalation, BecomeWorking, Writable, vars
<1>6. CASE \/ \E thread \in Client \cup {"-"} : Reply(thread)
           \/ \E m \in MessageId : Answer(m)
  BY <1>1, <1>6 DEF Reply, Answer
<1>7. CASE \E c \in Client : \/ Ask(c) \/ Resume(c) \/ Timeout(c) \/ Abort(c)
                             \/ \E types \in Filter : CheckWait(c, types)
  BY <1>1, <1>7 DEF Ask, Resume, Timeout, Abort, CheckWait
<1>8. QED
  BY <1>2, <1>3, <1>4, <1>5, <1>6, <1>7 DEF Next

\* deliverPendingMessages: delivered_at always stands for a push that was
\* submitted, however often the row is pushed again before the Enter of the first.
THEOREM MailDeliveredWasSubmitted == Spec => []DeliveredWasSubmitted
<1>1. Init => Typed /\ Covered
  <2> SUFFICES ASSUME Init PROVE Typed /\ Covered
    OBVIOUS
  <2>1. \A m : Due(m, timers) = {}
    BY DEF Init, Due
  <2>2. Typed /\ delivered = {} /\ \A m \in MessageId : pushes[m] = 0
    BY TypedInit DEF WaitInv, Init
  <2>3. \A m : Cardinality(Due(m, timers)) = 0
    BY <2>1, FS_EmptySet
  <2>4. QED
    BY <2>2, <2>3 DEF Covered
<1>2. Typed /\ Covered /\ [Next]_vars => (Typed /\ Covered)'
  BY TypedStep, CoveredStep
<1>3. Typed /\ Covered => DeliveredWasSubmitted
  <2> SUFFICES ASSUME Typed, Covered, NEW m \in delivered
               PROVE  pushes[m] > Cardinality(Due(m, timers))
    BY DEF DeliveredWasSubmitted, Due
  <2>1. m \in MessageId /\ pushes[m] \in Nat /\ Cardinality(Due(m, timers)) \in Nat
    BY DueFinite DEF Typed
  <2>2. QED
    BY <2>1 DEF Covered
<1>4. QED
  BY <1>1, <1>2, <1>3, PTL DEF Spec
-----------------------------------------------------------------------------
(* Typing *)

\* No more pushes than MaxTimers wait for their Enter.
FewTimers == Len(timers) <= MaxTimers

LEMMA FewTimersStep == Typed /\ FewTimers /\ [Next]_vars => FewTimers'
<1> SUFFICES ASSUME Typed, FewTimers, [Next]_vars PROVE FewTimers'
  OBVIOUS
<1>1. timers \in Seq(SUBSET MessageId) /\ MaxTimers \in Nat
  BY MailAssumption DEF Typed
<1>2. CASE timers' = timers
  BY <1>2 DEF FewTimers
<1>3. ASSUME NEW box, DeliverPending(box) PROVE FewTimers'
  <2>1. \/ timers' = timers
        \/ Len(timers) < MaxTimers /\ timers' = Append(timers, Pending(box))
    BY <1>3 DEF DeliverPending
  <2>2. ASSUME NEW ids, Len(timers) < MaxTimers, timers' = Append(timers, ids)
        PROVE  FewTimers'
    BY <1>1, <2>2 DEF FewTimers
  <2>3. QED
    BY <1>2, <2>1, <2>2
<1>4. CASE \/ \E type \in Type : Send(type)
           \/ BecomeIdle
  BY <1>2, <1>3, <1>4 DEF Send, BecomeIdle
<1>5. CASE Enter
  BY <1>1, <1>5 DEF Enter, FewTimers
<1>6. CASE \/ ExitEscalation \/ BecomeWorking \/ Writable \/ UNCHANGED vars
           \/ \E thread \in Client \cup {"-"} : Reply(thread)
           \/ \E m \in MessageId : Answer(m)
  BY <1>2, <1>6 DEF ExitEscalation, BecomeWorking, Writable, Reply, Answer, vars
<1>7. CASE \E c \in Client : \/ Ask(c) \/ Resume(c) \/ Timeout(c) \/ Abort(c)
                             \/ \E types \in Filter : CheckWait(c, types)
  BY <1>2, <1>7 DEF Ask, Resume, Timeout, Abort, CheckWait
<1>8. QED
  BY <1>4, <1>5, <1>6, <1>7 DEF Next

\* Rows, stamps, timers and waiters keep the shape the code gives them: only
\* rows that are there are read, stamped or wait for their Enter.
THEOREM MailTyped == Spec => []TypeOK
<1>1. Init => PushInv /\ FewTimers
  BY TypedInit, MailAssumption DEF Init, PushInv, PushedInOrder, WaitInv, Inserted, FewTimers
<1>2. PushInv /\ FewTimers /\ [Next]_vars => (PushInv /\ FewTimers)'
  BY PushStep, FewTimersStep DEF PushInv
<1>3. PushInv /\ FewTimers => TypeOK
  <2> SUFFICES ASSUME PushInv, FewTimers PROVE TypeOK
    OBVIOUS
  <2>1. Typed /\ PushedAndDelivered
    BY DEF PushInv
  <2>2. delivered \subseteq Inserted
    BY <2>1 DEF Typed, PushedAndDelivered
  <2>3. timers \in Seq(SUBSET Inserted)
    <3>1. timers \in Seq(SUBSET MessageId)
      BY <2>1 DEF Typed
    <3>2. \A i \in 1..Len(timers) : timers[i] \in SUBSET Inserted
      BY <2>1, <3>1 DEF PushedAndDelivered
    <3>3. QED
      BY <3>1, <3>2
  <2>4. QED
    BY <2>1, <2>2, <2>3 DEF Typed, TypeOK, FewTimers
<1>4. QED
  BY <1>1, <1>2, <1>3, PTL DEF Spec
=============================================================================
