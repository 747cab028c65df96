---------------------------- MODULE SharedControl ----------------------------
(***************************************************************************)
(* The one authenticated WebSocket that all requests and subscriptions to  *)
(* a remote runtime share (src/shared/remote-runtime-shared-control-*.ts). *)
(*                                                                         *)
(* A promise that is resolved resumes as a microtask, before any other     *)
(* event: what the code does after such an await is part of the action     *)
(* that resolves it.                                                       *)
(***************************************************************************)
EXTENDS RemoteCalls, Naturals

CONSTANTS
    Sub,          \* logical subscriptions
    ById,         \* those that are cancelled by the id the server gave them
    MaxAttempts,  \* the number of reconnect delays: 7 in the code
    MayShut       \* the environment may be disconnected (close)

ASSUME ControlAssumption ==
    ById \subseteq Sub /\ MaxAttempts \in Nat /\ MayShut \in BOOLEAN

VARIABLES
    state,         \* SharedControlConnectionState
    dying,         \* the socket is CLOSING or CLOSED, its close event is to come
    reconnecting,  \* reconnectTimer is set
    attempt,       \* reconnectAttempt
    stable,        \* readyStableTimer is set
    shut,          \* intentionallyClosed
    request,       \* what became of each request
    sub,           \* the logical subscriptions
    remote         \* what the server of this socket was asked for, and refused

socketVars == <<state, dying, reconnecting, attempt, stable, shut>>
controlVars == <<socketVars, request, sub, remote>>

\* "waiting": for the socket to be ready; "sent": over the current socket;
\* "lost": over a socket that was replaced; the first three are in pendingRequests.
\* "none": not made, or answered or rejected.
RequestStatus == {"waiting", "sent", "lost", "none"}
Pending(c) == request[c] # "none"

\* at: "waiting" in subscribe, "live" when it has returned; both are in the map.
NoSub == [at |-> "none", sent |-> FALSE, id |-> FALSE, closing |-> FALSE]
Listed(s) == sub[s].at \in {"waiting", "live"}

\* How a subscription leaves the map (finishSharedControlSubscription).  "failed":
\* subscribe threw.  "told": onError and onClose were called.  "ended": the last
\* answer of the server went to onResponse.  "closed": by its owner.  "dropped":
\* no call of its owner waited for it and no callback was made.
Outcome == {"failed", "told", "ended", "closed", "dropped"}
Finished(how) == [NoSub EXCEPT !.at = how]

\* finishSharedControlSubscription with notifyClose and an error; its mutant
\* passes neither.
ToldNobody == Finished("dropped")
Told == Finished("told")

Usable == state = "ready" /\ ~dying
HasSocket == state # "closed"
-----------------------------------------------------------------------------
(* The socket *)

\* markSharedControlSubscriptionsUnsent; who waits for the socket is rejected,
\* and its subscription ends in the catch of startSharedControlSubscription.
Unsent(s) ==
    CASE sub[s].at = "waiting" -> Finished("failed")
      [] sub[s].at = "live" /\ sub[s].closing -> Finished("closed")
      [] sub[s].at = "live" /\ ~sub[s].closing -> [sub[s] EXCEPT !.sent = FALSE]
      [] OTHER -> sub[s]

\* closeSocket, without what it does to the subscriptions.
DropSocket ==
    /\ state' = "closed" /\ dying' = FALSE /\ stable' = FALSE
    /\ remote' = [s \in Sub |-> "none"]
    /\ request' = [c \in Call |-> "none"]

\* Mutant of Kept: only subscriptions that are served are worth a reconnect.
KeptSent == {s \in Sub : Listed(s) /\ ~sub[s].closing /\ sub[s].sent}

\* Subscriptions that are in the map when the reconnect is decided.
Kept == {s \in Sub : Listed(s) /\ ~sub[s].closing}

\* Mutant of Spent: one reconnect more than there are delays.
SpentLate == attempt > MaxAttempts

\* scheduleSharedControlReconnectOrFinish: no delay is left.
Spent == attempt >= MaxAttempts

\* handleSocketClosed: closeSocket, then reconnect or give up.
HandleSocketClosed ==
    /\ DropSocket
    /\ \/ /\ Kept = {} \/ shut
          /\ sub' = [s \in Sub |-> Unsent(s)]
          /\ UNCHANGED <<reconnecting, attempt>>
       \/ /\ Kept # {} /\ ~shut /\ ~Spent
          /\ sub' = [s \in Sub |-> Unsent(s)]
          /\ reconnecting' = TRUE /\ attempt' = attempt + 1
       \/ /\ Kept # {} /\ ~shut /\ Spent
          /\ sub' = [s \in Sub |-> IF s \in Kept THEN Told ELSE Unsent(s)]
          /\ reconnecting' = FALSE /\ UNCHANGED attempt
    /\ UNCHANGED shut

\* Mutant of Open: a new socket starts with all attempts.
OpenAnew ==
    /\ state' = "awaiting_ready" /\ dying' = FALSE /\ reconnecting' = FALSE
    /\ remote' = [s \in Sub |-> "none"]
    /\ attempt' = 0 /\ UNCHANGED <<stable, shut>>

\* open, for a pairing whose key and endpoint are well formed.  A socket that
\* was dying is replaced without closeSocket: what was sent over it is lost.
Open ==
    /\ state' = "awaiting_ready" /\ dying' = FALSE /\ reconnecting' = FALSE
    /\ remote' = [s \in Sub |-> "none"]
    /\ UNCHANGED <<attempt, stable, shut>>
Lost(c) == IF request[c] = "sent" THEN "lost" ELSE request[c]

\* The timer of scheduleSharedControlReconnect.
Reconnect ==
    /\ reconnecting /\ Open
    /\ request' = [c \in Call |-> Lost(c)]
    /\ UNCHANGED sub

\* A socket that is CLOSING cannot send the token: its frame leads nowhere.
ReadyFrame ==
    /\ state = "awaiting_ready" /\ ~dying
    /\ state' = "awaiting_authenticated"
    /\ UNCHANGED <<dying, reconnecting, attempt, stable, shut, request, sub, remote>>

\* Mutant of Replayed: a subscription that was sent before counts as sent.
ReplayedOnce == {s \in Kept : ~sub[s].sent}

\* replaySubscriptions: what is sent over the socket that became ready.
Replayed == Kept

\* A subscription that was sent anew.
Served(s) == [sub[s] EXCEPT !.at = "live", !.sent = TRUE, !.id = FALSE]

\* The authenticated frame: waiters go on, subscriptions are replayed.  A frame
\* that was buffered is handled even when the socket is CLOSING; then every
\* send fails.
AuthenticatedFrame ==
    /\ state = "awaiting_authenticated"
    /\ state' = "ready" /\ stable' = TRUE
    /\ IF dying
       THEN /\ request' = [c \in Call |-> IF request[c] = "waiting" THEN "none" ELSE request[c]]
            /\ sub' = [s \in Sub |-> IF s \in Kept THEN Told ELSE sub[s]]
            /\ UNCHANGED remote
       ELSE /\ request' = [c \in Call |-> IF request[c] = "waiting" THEN "sent" ELSE request[c]]
            /\ sub' = [s \in Sub |-> IF s \in Replayed THEN Served(s) ELSE sub[s]]
            /\ remote' = [s \in Sub |-> IF s \in Replayed THEN "asked" ELSE remote[s]]
    /\ UNCHANGED <<dying, reconnecting, attempt, shut>>

\* The peer closes or the transport fails: from now on nothing can be sent.
SocketDies ==
    /\ HasSocket /\ ~dying
    /\ dying' = TRUE
    /\ UNCHANGED <<state, reconnecting, attempt, stable, shut, request, sub, remote>>

\* The close event; a transport error or a frame that cannot be read.
SocketClosed == HasSocket /\ HandleSocketClosed

\* The timer of scheduleSharedControlStableReset.
StableReset ==
    /\ stable
    /\ stable' = FALSE /\ attempt' = IF Usable THEN 0 ELSE attempt
    /\ UNCHANGED <<state, dying, reconnecting, shut, request, sub, remote>>
-----------------------------------------------------------------------------
(* Requests *)

\* requestSharedControl and ensureReadyWithTimeout.
Request(c) ==
    /\ request[c] = "none" /\ ~shut
    /\ \/ /\ Usable
          /\ request' = [request EXCEPT ![c] = "sent"]
          /\ UNCHANGED <<socketVars, sub, remote>>
       \/ /\ ~Usable /\ HasSocket /\ ~dying
          /\ request' = [request EXCEPT ![c] = "waiting"]
          /\ UNCHANGED <<socketVars, sub, remote>>
       \/ /\ ~HasSocket \/ dying
          /\ Open
          /\ request' = [[d \in Call |-> Lost(d)] EXCEPT ![c] = "waiting"]
          /\ UNCHANGED sub

Respond(c) ==
    /\ state = "ready" /\ request[c] = "sent"
    /\ request' = [request EXCEPT ![c] = "none"]
    /\ UNCHANGED <<socketVars, sub, remote>>

\* Keepalive frames only put this off.
RequestTimeout(c) ==
    /\ Pending(c)
    /\ request' = [request EXCEPT ![c] = "none"]
    /\ UNCHANGED <<socketVars, sub, remote>>
-----------------------------------------------------------------------------
(* Subscriptions *)

\* startSharedControlSubscription
Subscribe(s) ==
    /\ sub[s].at = "none" /\ ~shut
    /\ \/ /\ Usable
          /\ sub' = [sub EXCEPT ![s] = Served(s)]
          /\ remote' = [remote EXCEPT ![s] = "asked"]
          /\ UNCHANGED <<socketVars, request>>
       \/ /\ ~Usable /\ HasSocket /\ ~dying
          /\ sub' = [sub EXCEPT ![s].at = "waiting"]
          /\ UNCHANGED <<socketVars, request, remote>>
       \/ /\ ~HasSocket \/ dying
          /\ Open
          /\ request' = [c \in Call |-> Lost(c)]
          /\ sub' = [sub EXCEPT ![s].at = "waiting"]

SubscribeTimeout(s) ==
    /\ sub[s].at = "waiting"
    /\ sub' = [sub EXCEPT ![s] = Finished("failed")]
    /\ UNCHANGED <<socketVars, request, remote>>

\* getCleanupRequest gives a request.
CanCancel(s) == s \notin ById \/ sub[s].id

\* The server forgets s: a cleanup request that can be sent, else nothing.
Cancelled(s) == IF ~dying THEN [remote EXCEPT ![s] = "none"] ELSE remote

\* Mutant of Unsubscribe: a subscription without an id is just dropped.
UnsubscribeNow(s) ==
    /\ sub[s].at = "live" /\ ~sub[s].closing
    /\ sub' = [sub EXCEPT ![s] = Finished("closed")]
    /\ remote' = IF CanCancel(s) THEN Cancelled(s) ELSE remote
    /\ UNCHANGED <<socketVars, request>>

\* closeSubscription
Unsubscribe(s) ==
    /\ sub[s].at = "live" /\ ~sub[s].closing
    /\ \/ /\ CanCancel(s)
          /\ sub' = [sub EXCEPT ![s] = Finished("closed")]
          /\ remote' = Cancelled(s)
       \/ /\ ~CanCancel(s) /\ sub[s].sent
          /\ sub' = [sub EXCEPT ![s].closing = TRUE]
          /\ UNCHANGED remote
       \/ /\ ~CanCancel(s) /\ ~sub[s].sent
          /\ sub' = [sub EXCEPT ![s] = Finished("closed")]
          /\ UNCHANGED remote
    /\ UNCHANGED <<socketVars, request>>

\* The first answer, with an id where the method has one.
SubscriptionReady(s) ==
    /\ state = "ready" /\ remote[s] = "asked" /\ Listed(s) /\ ~sub[s].id /\ s \in ById
    /\ IF sub[s].closing
       THEN sub' = [sub EXCEPT ![s] = Finished("closed")] /\ remote' = Cancelled(s)
       ELSE sub' = [sub EXCEPT ![s].id = TRUE] /\ UNCHANGED remote
    /\ UNCHANGED <<socketVars, request>>

\* The server ends it, or says no: an error does not end a subscription.
SubscriptionEnd(s) ==
    /\ state = "ready" /\ remote[s] = "asked" /\ Listed(s)
    /\ remote' = [remote EXCEPT ![s] = "none"]
    /\ sub' = [sub EXCEPT ![s] = Finished(IF sub[s].closing THEN "closed" ELSE "ended")]
    /\ UNCHANGED <<socketVars, request>>

SubscriptionRefused(s) ==
    /\ state = "ready" /\ remote[s] = "asked" /\ Listed(s) /\ ~sub[s].id
    /\ remote' = [remote EXCEPT ![s] = "refused"]
    /\ sub' = IF sub[s].closing THEN [sub EXCEPT ![s] = Finished("closed")] ELSE sub
    /\ UNCHANGED <<socketVars, request>>

\* close, when the environment is disconnected, removed or paired anew: it
\* finishes the subscriptions without notifyClose.
Shut ==
    /\ MayShut /\ ~shut
    /\ shut' = TRUE /\ reconnecting' = FALSE
    /\ DropSocket
    /\ sub' = [s \in Sub |-> IF sub[s].at = "live" /\ ~sub[s].closing
                         THEN Finished("dropped") ELSE Unsent(s)]
    /\ UNCHANGED attempt

\* getSharedControlConnection: a connection that was closed is forgotten, and
\* the next call or subscription makes another.
NewConnection ==
    /\ shut
    /\ shut' = FALSE /\ attempt' = 0
    /\ UNCHANGED <<state, dying, reconnecting, stable, request, sub, remote>>
-----------------------------------------------------------------------------
ControlInit ==
    /\ state = "closed" /\ dying = FALSE /\ reconnecting = FALSE
    /\ attempt = 0 /\ stable = FALSE /\ shut = FALSE
    /\ request = [c \in Call |-> "none"] /\ sub = [s \in Sub |-> NoSub]
    /\ remote = [s \in Sub |-> "none"]

SocketNext ==
    \/ Reconnect \/ ReadyFrame \/ AuthenticatedFrame \/ SocketDies \/ SocketClosed
    \/ StableReset \/ Shut \/ NewConnection
SubNext == \E s \in Sub :
    \/ Subscribe(s) \/ SubscribeTimeout(s) \/ Unsubscribe(s)
    \/ SubscriptionReady(s) \/ SubscriptionEnd(s) \/ SubscriptionRefused(s)
-----------------------------------------------------------------------------
ControlTypeOK ==
    /\ state \in {"closed", "awaiting_ready", "awaiting_authenticated", "ready"}
    /\ dying \in BOOLEAN /\ reconnecting \in BOOLEAN /\ stable \in BOOLEAN /\ shut \in BOOLEAN
    /\ attempt \in 0..MaxAttempts
    /\ request \in [Call -> RequestStatus]
    /\ sub \in [Sub -> [at : {"none", "waiting", "live"} \cup Outcome,
                        sent : BOOLEAN, id : BOOLEAN, closing : BOOLEAN]]
    /\ remote \in [Sub -> {"none", "asked", "refused"}]

\* Whoever is subscribed is served by the socket that is ready, was refused by
\* it, or is only waiting to be cancelled: no reconnect forgets a subscription
\* (replaySharedControlSubscriptions).
AllReplayed ==
    state = "ready" => \A s \in Sub :
        Listed(s) => remote[s] \in {"asked", "refused"} \/ sub[s].closing

\* The server of the current socket works for nobody who is gone, whenever a
\* subscription was closed: before its id arrived, after a reconnect, twice.
NoOrphans ==
    ~dying => \A s \in Sub : remote[s] = "asked" => Listed(s)
=============================================================================
