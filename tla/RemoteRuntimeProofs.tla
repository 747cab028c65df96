------------------------ MODULE RemoteRuntimeProofs ------------------------
(***************************************************************************)
(* Proofs about RemoteRuntime and its parts, for any number of calls,      *)
(* subscriptions, slots and reconnect attempts.                            *)
(***************************************************************************)
EXTENDS RemoteRuntime, RpcCallQueueProofs

SubRecord == [at : {"none", "waiting", "live"} \cup Outcome,
              sent : BOOLEAN, id : BOOLEAN, closing : BOOLEAN]

\* What the parts of the connection say about one subscription between two
\* events: only a ready socket has a server that was asked, nobody waits for a
\* ready one, and whoever the server was asked for counts as sent.
Fine(s) ==
    /\ state # "ready" => remote[s] = "none"
    /\ sub[s].at = "waiting" => state # "ready"
    /\ sub[s].at \in {"none", "waiting"} => ~sub[s].closing
    /\ Listed(s) /\ remote[s] # "none" => sub[s].sent
    /\ state = "ready" /\ Listed(s) => remote[s] \in {"asked", "refused"} \/ sub[s].closing
    /\ ~dying /\ remote[s] = "asked" => Listed(s)

Sockets == (reconnecting => state = "closed") /\ (dying => state # "closed")

ControlInv == ControlTypeOK /\ Sockets /\ \A s \in Sub : Fine(s)
-----------------------------------------------------------------------------
(* Shared control *)

\* A subscription that has left the map.
LEMMA FinishedRecord ==
    /\ \A how \in Outcome : /\ Finished(how) \in SubRecord /\ Finished(how).at = how
                            /\ ~Finished(how).closing /\ ~Finished(how).sent
    /\ {"failed", "told", "ended", "closed", "dropped"} \subseteq Outcome
    /\ Outcome \cap {"none", "waiting", "live"} = {}
  BY DEF Finished, NoSub, Outcome, SubRecord

LEMMA ControlStarts == ControlInit => ControlInv
<1> SUFFICES ASSUME ControlInit PROVE ControlInv
  OBVIOUS
<1>1. NoSub \in SubRecord
  BY DEF NoSub, SubRecord
<1>2. ControlTypeOK
  <2>1. attempt \in 0..MaxAttempts
    BY ControlAssumption DEF ControlInit
  <2>2. sub \in [Sub -> SubRecord]
    BY <1>1 DEF ControlInit
  <2>3. request \in [Call -> RequestStatus] /\ remote \in [Sub -> {"none", "asked", "refused"}]
    BY DEF ControlInit, RequestStatus
  <2>4. QED
    BY <2>1, <2>2, <2>3 DEF ControlInit, ControlTypeOK, SubRecord
<1>3. \A s \in Sub : Fine(s)
  BY DEF ControlInit, Fine, Listed, NoSub
<1>4. QED
  BY <1>2, <1>3 DEF ControlInit, ControlInv, Sockets

\* A step that leaves the subscriptions and the server as they are, and neither
\* makes the socket ready nor ends its readiness.
LEMMA SubsUntouched ==
    ASSUME \A s \in Sub : Fine(s), UNCHANGED <<sub, remote>>, dying => dying',
           state = "ready" <=> state' = "ready"
    PROVE  \A s \in Sub : Fine(s)'
BY DEF Fine, Listed

\* open: whoever it is done for, nothing was asked of the new server yet.
LEMMA OpenIsFine ==
    ASSUME ControlInv, Open, ~HasSocket \/ dying \/ reconnecting, NEW s \in Sub,
           sub'[s] = sub[s] \/ (sub'[s] = [sub[s] EXCEPT !.at = "waiting"] /\ ~sub[s].closing)
    PROVE  Fine(s)'
BY DEF Open, Fine, Listed, ControlInv, ControlTypeOK

\* The steps of one subscription leave the others alone.
LEMMA OneTouched ==
    ASSUME NEW s \in Sub, \A t \in Sub : Fine(t), UNCHANGED socketVars, Fine(s)',
           \A t \in Sub : t # s => sub'[t] = sub[t] /\ remote'[t] = remote[t]
    PROVE  \A t \in Sub : Fine(t)'
<1> SUFFICES ASSUME NEW t \in Sub, t # s PROVE Fine(t)'
  BY Zenon
<1>1. sub'[t] = sub[t] /\ remote'[t] = remote[t] /\ state' = state /\ dying' = dying
  BY DEF socketVars
<1>2. QED
  BY <1>1 DEF Fine, Listed

\* open: its state is typed, and so are the requests it loses.
LEMMA OpenTyped ==
    ASSUME ControlInv, Open
    PROVE  /\ state' \in {"closed", "awaiting_ready", "awaiting_authenticated", "ready"}
           /\ dying' \in BOOLEAN /\ reconnecting' \in BOOLEAN
           /\ stable' \in BOOLEAN /\ shut' \in BOOLEAN
           /\ attempt' \in 0..MaxAttempts
           /\ remote' \in [Sub -> {"none", "asked", "refused"}]
           /\ [d \in Call |-> Lost(d)] \in [Call -> RequestStatus]
           /\ Sockets'
BY DEF Open, Lost, RequestStatus, ControlInv, ControlTypeOK, Sockets

\* What a subscription may become.
LEMMA RecordsTyped ==
    ASSUME ControlTypeOK, NEW s \in Sub
    PROVE  /\ sub[s] \in SubRecord /\ Served(s) \in SubRecord /\ Unsent(s) \in SubRecord
           /\ Told \in SubRecord /\ Finished("dropped") \in SubRecord
<1>1. sub[s] \in SubRecord
  BY DEF ControlTypeOK, SubRecord
<1>2. /\ Told \in SubRecord /\ Finished("dropped") \in SubRecord
      /\ Finished("failed") \in SubRecord /\ Finished("closed") \in SubRecord
  BY FinishedRecord DEF Told
<1>3. Served(s) \in SubRecord /\ [sub[s] EXCEPT !.sent = FALSE] \in SubRecord
  BY <1>1 DEF Served, SubRecord
<1>4. Unsent(s) \in SubRecord
  BY <1>1, <1>2, <1>3 DEF Unsent
<1>5. QED
  BY <1>1, <1>2, <1>3, <1>4

LEMMA SocketTyped ==
    ASSUME ControlInv, SocketNext
    PROVE  ControlTypeOK' /\ Sockets'
<1> USE ControlAssumption DEF ControlInv, ControlTypeOK, Sockets, RequestStatus, HasSocket, Usable
<1>1. CASE Reconnect
  <2>1. request' \in [Call -> RequestStatus] /\ remote' \in [Sub -> {"none", "asked", "refused"}]
    BY <1>1 DEF Reconnect, Open, Lost
  <2>2. QED
    BY <1>1, <2>1 DEF Reconnect, Open
<1>2. CASE ReadyFrame \/ SocketDies \/ StableReset \/ NewConnection
  <2>1. attempt' \in 0..MaxAttempts
    BY <1>2 DEF ReadyFrame, SocketDies, StableReset, NewConnection
  <2>2. UNCHANGED <<request, sub, remote>>
    BY <1>2 DEF ReadyFrame, SocketDies, StableReset, NewConnection
  <2>3. /\ state' \in {"closed", "awaiting_ready", "awaiting_authenticated", "ready"}
        /\ dying' \in BOOLEAN /\ reconnecting' \in BOOLEAN
        /\ stable' \in BOOLEAN /\ shut' \in BOOLEAN /\ Sockets'
    <3>1. CASE ReadyFrame
      BY <3>1, Zenon DEF ReadyFrame
    <3>2. CASE SocketDies
      BY <3>2, Zenon DEF SocketDies
    <3>3. CASE StableReset
      BY <3>3, Zenon DEF StableReset
    <3>4. CASE NewConnection
      BY <3>4, Zenon DEF NewConnection
    <3>5. QED
      BY <1>2, <3>1, <3>2, <3>3, <3>4
  <2>4. QED
    BY <2>1, <2>2, <2>3, Zenon
<1>3. CASE AuthenticatedFrame
  <2>1. \A s \in Sub : Told \in SubRecord /\ Served(s) \in SubRecord
    BY RecordsTyped, Zenon
  <2>2. sub' \in [Sub -> SubRecord]
    BY <1>3, <2>1 DEF AuthenticatedFrame, SubRecord
  <2>3. request' \in [Call -> RequestStatus] /\ remote' \in [Sub -> {"none", "asked", "refused"}]
    BY <1>3 DEF AuthenticatedFrame
  <2>4. QED
    BY <1>3, <2>2, <2>3 DEF AuthenticatedFrame, SubRecord
<1>4. CASE SocketClosed
  <2>1. \A s \in Sub : Told \in SubRecord /\ Unsent(s) \in SubRecord
    BY RecordsTyped, Zenon
  <2>2. sub' \in [Sub -> SubRecord]
    BY <1>4, <2>1 DEF SocketClosed, HandleSocketClosed
  <2>3. attempt' = attempt \/ (~Spent /\ attempt' = attempt + 1)
    BY <1>4, Zenon DEF SocketClosed, HandleSocketClosed
  <2>4. attempt' \in 0..MaxAttempts
    BY <2>3 DEF Spent
  <2>5. reconnecting' \in BOOLEAN
    BY <1>4, Zenon DEF SocketClosed, HandleSocketClosed
  <2>6. request' \in [Call -> RequestStatus] /\ remote' \in [Sub -> {"none", "asked", "refused"}]
    BY <1>4 DEF SocketClosed, HandleSocketClosed, DropSocket
  <2>7. state' = "closed" /\ dying' = FALSE /\ stable' = FALSE /\ shut' = shut
    BY <1>4, Zenon DEF SocketClosed, HandleSocketClosed, DropSocket
  <2>8. QED
    BY <2>2, <2>6, <2>7, <2>4, <2>5, Zenon DEF SubRecord
<1>5. CASE Shut
  <2>1. \A s \in Sub : Finished("dropped") \in SubRecord /\ Unsent(s) \in SubRecord
    BY RecordsTyped, Zenon
  <2>2. QED
    BY <1>5, <2>1 DEF Shut, DropSocket, SubRecord
<1>6. QED
  BY <1>1, <1>2, <1>3, <1>4, <1>5 DEF SocketNext

\* The steps of the socket.
LEMMA SocketKeeps ==
    ASSUME ControlInv, SocketNext
    PROVE  ControlInv'
<1> SUFFICES \A s \in Sub : Fine(s)'
  BY SocketTyped DEF ControlInv
<1> USE DEF ControlInv, Sockets
<1>1. CASE Reconnect
  BY <1>1, OpenIsFine DEF Reconnect
<1>2. CASE ReadyFrame \/ SocketDies \/ StableReset \/ NewConnection
  <2>1. UNCHANGED <<sub, remote>>
    BY <1>2, Zenon DEF ReadyFrame, SocketDies, StableReset, NewConnection
  <2>2. dying => dying'
    BY <1>2, Zenon DEF ReadyFrame, SocketDies, StableReset, NewConnection
  <2>3. state' = state \/ (state = "awaiting_ready" /\ state' = "awaiting_authenticated")
    BY <1>2, Zenon DEF ReadyFrame, SocketDies, StableReset, NewConnection
  <2>4. QED
    BY <2>1, <2>2, <2>3, SubsUntouched
<1>3. CASE AuthenticatedFrame
  <2> SUFFICES ASSUME NEW s \in Sub PROVE Fine(s)'
    OBVIOUS
  <2>1. state' = "ready" /\ dying' = dying /\ remote[s] = "none" /\ sub[s] \in SubRecord
    BY <1>3 DEF AuthenticatedFrame, Fine, ControlTypeOK, SubRecord
  <2>2. CASE dying
    <3>1. sub'[s] = (IF s \in Kept THEN Told ELSE sub[s]) /\ remote'[s] = "none"
      BY <1>3, <2>1, <2>2 DEF AuthenticatedFrame
    <3>2. QED
      BY <2>1, <2>2, <3>1, FinishedRecord DEF Fine, Listed, Kept, Told, SubRecord
  <2>3. CASE ~dying
    <3>1. /\ sub'[s] = (IF s \in Kept THEN Served(s) ELSE sub[s])
          /\ remote'[s] = (IF s \in Kept THEN "asked" ELSE "none")
      BY <1>3, <2>1, <2>3 DEF AuthenticatedFrame, Replayed
    <3>2. QED
      BY <2>1, <2>3, <3>1 DEF Fine, Listed, Kept, Served, SubRecord
  <2>4. QED
    BY <2>2, <2>3
<1>4. CASE SocketClosed
  <2> SUFFICES ASSUME NEW s \in Sub PROVE Fine(s)'
    OBVIOUS
  <2>1. state' = "closed" /\ remote'[s] = "none" /\ sub[s] \in SubRecord
    BY <1>4 DEF SocketClosed, HandleSocketClosed, DropSocket, ControlTypeOK, SubRecord
  <2>2. sub'[s] = Unsent(s) \/ sub'[s] = Told
    BY <1>4 DEF SocketClosed, HandleSocketClosed
  <2>3. sub'[s].at # "waiting"
    BY <2>1, <2>2, FinishedRecord DEF Unsent, Told, SubRecord, Listed
  <2>4. sub'[s].at = "none" => ~sub'[s].closing
    BY <2>1, <2>2, FinishedRecord DEF Unsent, Told, SubRecord, Listed, Fine
  <2>5. QED
    BY <2>1, <2>3, <2>4 DEF Fine
<1>5. CASE Shut
  <2> SUFFICES ASSUME NEW s \in Sub PROVE Fine(s)'
    OBVIOUS
  <2>1. /\ state' = "closed" /\ remote'[s] = "none" /\ sub[s] \in SubRecord
        /\ sub'[s] = IF sub[s].at = "live" /\ ~sub[s].closing THEN Finished("dropped")
                                                             ELSE Unsent(s)
    BY <1>5 DEF Shut, DropSocket, ControlTypeOK, SubRecord
  <2>2. QED
    BY <2>1, FinishedRecord DEF Fine, Unsent, SubRecord, Listed
<1>6. QED
  BY <1>1, <1>2, <1>3, <1>4, <1>5 DEF SocketNext

\* The steps of one subscription.
LEMMA SubKeeps ==
    ASSUME ControlInv, SubNext
    PROVE  ControlInv'
<1> USE DEF ControlInv, Sockets, HasSocket, Usable, socketVars
<1>1. PICK s \in Sub : \/ Subscribe(s) \/ SubscribeTimeout(s) \/ Unsubscribe(s)
                       \/ SubscriptionReady(s) \/ SubscriptionEnd(s) \/ SubscriptionRefused(s)
  BY DEF SubNext
<1>2. sub[s] \in SubRecord /\ sub \in [Sub -> SubRecord] /\ remote \in [Sub -> {"none", "asked", "refused"}]
  BY DEF ControlTypeOK, SubRecord
<1>3. CASE Subscribe(s)
  <2>1. CASE Usable
    <3>1. /\ Served(s) \in SubRecord /\ sub' = [sub EXCEPT ![s] = Served(s)]
          /\ remote' = [remote EXCEPT ![s] = "asked"] /\ UNCHANGED <<socketVars, request>>
      BY <1>2, <1>3, <2>1 DEF Subscribe, Served, SubRecord
    <3>2. QED
      BY <1>2, <2>1, <3>1 DEF ControlTypeOK, SubRecord, Fine, Listed, Served
  <2>2. CASE ~Usable
    <3>1. /\ sub' = [sub EXCEPT ![s].at = "waiting"] /\ sub[s].at = "none"
          /\ ~sub[s].closing
      BY <1>2, <1>3, <2>2 DEF Subscribe, Fine
    <3>2. sub' \in [Sub -> SubRecord]
      BY <1>2, <3>1 DEF SubRecord
    <3>3. CASE HasSocket /\ ~dying
      <4>1. UNCHANGED <<socketVars, request, remote>> /\ state # "ready"
        BY <1>3, <2>2, <3>3 DEF Subscribe
      <4>2. \A t \in Sub : Fine(t)'
        BY <1>2, <3>1, <4>1 DEF Fine, Listed, SubRecord
      <4>3. QED
        BY <3>2, <4>1, <4>2 DEF ControlTypeOK, SubRecord
    <3>4. CASE ~HasSocket \/ dying
      <4>1. Open /\ request' = [c \in Call |-> Lost(c)]
        BY <1>3, <2>2, <3>4 DEF Subscribe
      <4>2. \A t \in Sub : Fine(t)'
        BY <1>2, <3>1, <3>4, <4>1, OpenIsFine
      <4>3. QED
        BY <3>2, <4>1, <4>2, OpenTyped, Zenon DEF SubRecord, ControlTypeOK
    <3>5. QED
      BY <3>3, <3>4
  <2>3. QED
    BY <2>1, <2>2
<1>4. CASE SubscribeTimeout(s)
  BY <1>2, <1>4, FinishedRecord DEF SubscribeTimeout, SubRecord, ControlTypeOK, Fine, Listed
<1>5. CASE Unsubscribe(s)
  <2>1. /\ Finished("closed") \in SubRecord /\ [sub[s] EXCEPT !.closing = TRUE] \in SubRecord
        /\ Cancelled(s) \in [Sub -> {"none", "asked", "refused"}]
    BY <1>2, FinishedRecord DEF Cancelled, SubRecord
  <2>2. /\ sub[s].at = "live" /\ UNCHANGED <<socketVars, request>>
        /\ sub' \in [Sub -> SubRecord] /\ remote' \in [Sub -> {"none", "asked", "refused"}]
        /\ \A t \in Sub : t # s => sub'[t] = sub[t] /\ remote'[t] = remote[t]
    BY <1>2, <1>5, <2>1 DEF Unsubscribe, Cancelled
  <2>3. Fine(s)'
    <3>1. CASE sub' = [sub EXCEPT ![s] = Finished("closed")] /\ remote' = Cancelled(s)
      BY <1>2, <2>2, <3>1, FinishedRecord DEF Cancelled, SubRecord, Fine, Listed
    <3>2. CASE sub' = [sub EXCEPT ![s].closing = TRUE] /\ remote' = remote /\ sub[s].sent
      BY <1>2, <2>2, <3>2 DEF SubRecord, Fine, Listed
    <3>3. CASE sub' = [sub EXCEPT ![s] = Finished("closed")] /\ remote' = remote /\ ~sub[s].sent
      BY <1>2, <2>2, <3>3, FinishedRecord DEF SubRecord, Fine, Listed
    <3>4. QED
      BY <1>5, <3>1, <3>2, <3>3 DEF Unsubscribe
  <2>4. QED
    BY <2>2, <2>3, OneTouched DEF ControlTypeOK, SubRecord
<1>6. CASE SubscriptionReady(s)
  <2>1. /\ Finished("closed") \in SubRecord /\ [sub[s] EXCEPT !.id = TRUE] \in SubRecord
        /\ Cancelled(s) \in [Sub -> {"none", "asked", "refused"}]
    BY <1>2, FinishedRecord DEF Cancelled, SubRecord
  <2>2. /\ UNCHANGED <<socketVars, request>>
        /\ sub' \in [Sub -> SubRecord] /\ remote' \in [Sub -> {"none", "asked", "refused"}]
        /\ \A t \in Sub : t # s => sub'[t] = sub[t] /\ remote'[t] = remote[t]
    BY <1>2, <1>6, <2>1 DEF SubscriptionReady, Cancelled
  <2>3. Fine(s)'
    <3>1. CASE sub[s].closing
      BY <1>2, <1>6, <2>2, <3>1, FinishedRecord DEF SubscriptionReady, Cancelled, SubRecord, Fine, Listed
    <3>2. CASE ~sub[s].closing
      BY <1>2, <1>6, <2>2, <3>2 DEF SubscriptionReady, SubRecord, Fine, Listed
    <3>3. QED
      BY <3>1, <3>2
  <2>4. QED
    BY <2>2, <2>3, OneTouched DEF ControlTypeOK, SubRecord
<1>7. CASE SubscriptionEnd(s)
  BY <1>2, <1>7, FinishedRecord DEF SubscriptionEnd, SubRecord, ControlTypeOK, Fine, Listed
<1>8. CASE SubscriptionRefused(s)
  BY <1>2, <1>8, FinishedRecord DEF SubscriptionRefused, SubRecord, ControlTypeOK, Fine, Listed
<1>9. QED
  BY <1>1, <1>3, <1>4, <1>5, <1>6, <1>7, <1>8

\* The steps of one request.
LEMMA RequestKeeps ==
    ASSUME ControlInv, NEW c \in Call, Request(c) \/ Respond(c) \/ RequestTimeout(c)
    PROVE  ControlInv'
<1> USE DEF ControlInv, Sockets, HasSocket, Usable, socketVars
<1>1. CASE Request(c) /\ (~HasSocket \/ dying)
  <2>1. Open /\ sub' = sub /\ request' = [[d \in Call |-> Lost(d)] EXCEPT ![c] = "waiting"]
    BY <1>1 DEF Request
  <2>2. \A s \in Sub : Fine(s)'
    BY <1>1, <2>1, OpenIsFine
  <2>3. request' \in [Call -> RequestStatus]
    BY <2>1, OpenTyped DEF RequestStatus
  <2>4. QED
    BY <2>1, <2>2, <2>3, OpenTyped, Zenon DEF ControlTypeOK
<1>2. CASE (Request(c) /\ HasSocket /\ ~dying) \/ Respond(c) \/ RequestTimeout(c)
  <2>1. UNCHANGED <<socketVars, sub, remote>> /\ request' \in [Call -> RequestStatus]
    BY <1>2 DEF Request, Respond, RequestTimeout, ControlTypeOK, RequestStatus
  <2>2. QED
    BY <2>1, SubsUntouched DEF ControlTypeOK
<1>3. QED
  BY <1>1, <1>2
-----------------------------------------------------------------------------
(* The composition *)

RuntimeInv == QueueInv /\ ControlInv /\ \A c \in Call : Pending(c) => c \in running

\* Each step of the composition is a step of both parts or leaves one alone.
LEMMA StepOfParts ==
    ASSUME Next
    PROVE  /\ [QueueNext]_queueVars
           /\ \/ SocketNext \/ SubNext \/ UNCHANGED controlVars
              \/ \E c \in Call : Request(c) \/ Respond(c) \/ RequestTimeout(c)
<1>1. ASSUME NEW S, Settle(S) PROVE QueueNext
  BY <1>1 DEF Settle, QueueNext
<1>2. CASE SocketEvent
  BY <1>1, <1>2 DEF SocketEvent, Settling
<1>3. CASE SubscriptionEvent
  BY <1>3 DEF SubscriptionEvent
<1>4. ASSUME NEW c \in Call,
             EnqueueCall(c) \/ IssueCall(c) \/ Bypass(c) \/ Answer(c) \/ CallTimeout(c)
      PROVE  /\ [QueueNext]_queueVars
             /\ Request(c) \/ Respond(c) \/ RequestTimeout(c) \/ UNCHANGED controlVars
  BY <1>1, <1>4 DEF EnqueueCall, IssueCall, Bypass, Answer, CallTimeout, Settling, QueueNext
<1>5. QED
  BY <1>2, <1>3, <1>4 DEF Next

\* The calls that stop running in a step of the queue are those it settles.
LEMMA SettleEnds ==
    ASSUME NEW S, Settle(S)
    PROVE  running \ S \subseteq running'
BY DEF Settle, Pump

LEMMA EnqueueRuns ==
    ASSUME NEW c, Enqueue(c)
    PROVE  running \subseteq running'
BY DEF Enqueue, Pump

LEMMA PendingRuns ==
    ASSUME RuntimeInv, Next
    PROVE  \A c \in Call : Pending(c)' => c \in running'
<1> USE DEF RuntimeInv, Pending
<1>1. ASSUME Settling, \A c \in Call : request'[c] # "none" => request[c] # "none"
      PROVE  \A c \in Call : Pending(c)' => c \in running'
  <2>1. CASE Ended = {}
    BY <1>1, <2>1 DEF Settling, queueVars
  <2>2. CASE Ended # {}
    BY <1>1, <2>2, SettleEnds DEF Settling, Ended
  <2>3. QED
    BY <2>1, <2>2
<1>2. CASE SocketEvent
  <2>1. \A c \in Call : request'[c] # "none" => request[c] # "none"
    BY <1>2 DEF SocketEvent, SocketNext, Reconnect, ReadyFrame, AuthenticatedFrame, SocketDies,
                SocketClosed, HandleSocketClosed, DropSocket, StableReset, Shut, NewConnection, Lost
  <2>2. QED
    BY <1>1, <1>2, <2>1 DEF SocketEvent
<1>3. CASE SubscriptionEvent
  <2>1. \A c \in Call : request'[c] # "none" => request[c] # "none"
    BY <1>3 DEF SubscriptionEvent, SubNext, Subscribe, SubscribeTimeout, Unsubscribe,
                SubscriptionReady, SubscriptionEnd, SubscriptionRefused, Lost
  <2>2. QED
    BY <1>3, <2>1 DEF SubscriptionEvent, queueVars
<1>4. ASSUME NEW c \in Call, EnqueueCall(c)
      PROVE  \A d \in Call : Pending(d)' => d \in running'
  BY <1>4, EnqueueRuns DEF EnqueueCall, controlVars
<1>5. ASSUME NEW c \in Call, IssueCall(c)
      PROVE  \A d \in Call : Pending(d)' => d \in running'
  BY <1>5 DEF IssueCall, Request, Lost, queueVars, ControlInv, ControlTypeOK
<1>6. ASSUME NEW c \in Call, Bypass(c)
      PROVE  \A d \in Call : Pending(d)' => d \in running'
  BY <1>6, SettleEnds DEF Bypass, controlVars
<1>7. ASSUME NEW c \in Call, Answer(c) \/ CallTimeout(c)
      PROVE  \A d \in Call : Pending(d)' => d \in running'
  <2>1. \A d \in Call : request'[d] # "none" => request[d] # "none"
    BY <1>7 DEF Answer, CallTimeout, Respond, RequestTimeout, ControlInv, ControlTypeOK
  <2>2. QED
    BY <1>1, <1>7, <2>1 DEF Answer, CallTimeout
<1>8. QED
  BY <1>2, <1>3, <1>4, <1>5, <1>6, <1>7 DEF Next

LEMMA RuntimeStep == RuntimeInv /\ [Next]_runtimeVars => RuntimeInv'
<1> SUFFICES ASSUME RuntimeInv, [Next]_runtimeVars PROVE RuntimeInv'
  OBVIOUS
<1>1. CASE Next
  <2>1. QueueInv'
    BY <1>1, StepOfParts, QueueStep DEF RuntimeInv
  <2>2. ControlInv'
    <3>1. UNCHANGED controlVars => ControlInv'
      BY DEF RuntimeInv, controlVars, socketVars, ControlInv, ControlTypeOK, Sockets, Fine, Listed
    <3>2. QED
      BY <1>1, <3>1, StepOfParts, SocketKeeps, SubKeeps, RequestKeeps DEF RuntimeInv
  <2>3. QED
    BY <1>1, <2>1, <2>2, PendingRuns DEF RuntimeInv
<1>2. CASE UNCHANGED runtimeVars
  BY <1>2 DEF runtimeVars, queueVars, controlVars, socketVars, RuntimeInv, QueueInv, ControlInv,
              ControlTypeOK, Sockets, Fine, Listed, Pending
<1>3. QED
  BY <1>1, <1>2

LEMMA RuntimeStarts == Init => RuntimeInv
BY QueueStarts, ControlStarts DEF Init, RuntimeInv, ControlInit, Pending

LEMMA RuntimeInvHolds == Spec => []RuntimeInv
BY RuntimeStarts, RuntimeStep, PTL DEF Spec

\* The state of the queue and of the connection stays typed, and a request always
\* belongs to a call that holds a slot (callRuntimeEnvironment).
THEOREM RuntimeTyped == Spec => []TypeOK
<1>1. RuntimeInv => TypeOK
  BY QueueImplies DEF RuntimeInv, ControlInv, Sockets, TypeOK, HasSocket
<1>2. QED
  BY <1>1, RuntimeInvHolds, PTL

\* The slots of the queue are the calls that run, whatever ends them: answers,
\* timeouts, the close of the socket or a disconnect that ends all at once.
THEOREM RuntimeSlotsMatch == Spec => []SlotsMatch
<1>1. RuntimeInv => SlotsMatch
  BY QueueImplies DEF RuntimeInv
<1>2. QED
  BY <1>1, RuntimeInvHolds, PTL

\* No reconnect, however many there are, leaves out a subscription
\* (replaySharedControlSubscriptions).
THEOREM RuntimeReplaysAll == Spec => []AllReplayed
<1>1. RuntimeInv => AllReplayed
  BY DEF RuntimeInv, ControlInv, Fine, AllReplayed
<1>2. QED
  BY <1>1, RuntimeInvHolds, PTL

\* The server of the current socket never works for a subscription that is gone
\* (closeSharedControlLogicalSubscription).
THEOREM RuntimeNoOrphans == Spec => []NoOrphans
<1>1. RuntimeInv => NoOrphans
  BY DEF RuntimeInv, ControlInv, Fine, NoOrphans
<1>2. QED
  BY <1>1, RuntimeInvHolds, PTL
=============================================================================
