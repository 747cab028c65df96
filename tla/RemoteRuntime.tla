--------------------------- MODULE RemoteRuntime ---------------------------
(***************************************************************************)
(* The client's side of a remote runtime: the calls that the queue starts  *)
(* (src/main/ipc/runtime-environment-transport-routing.ts) are requests    *)
(* over the shared socket, beside the subscriptions.                       *)
(*                                                                         *)
(* A request that is answered or fails settles its call, and the queue     *)
(* starts the next, in microtasks: before any other event, so they are     *)
(* part of the action (Settling).                                          *)
(***************************************************************************)
EXTENDS RpcCallQueue, SharedControl

runtimeVars == <<queueVars, controlVars>>

Ended == {c \in Call : request[c] # "none" /\ request'[c] = "none"}
Settling == IF Ended = {} THEN UNCHANGED queueVars ELSE Settle(Ended)
-----------------------------------------------------------------------------
EnqueueCall(c) == Enqueue(c) /\ UNCHANGED controlVars

\* callRuntimeEnvironment, once supportsSharedControl has said yes; unless its
\* answer is cached it asked the runtime first.
IssueCall(c) ==
    /\ c \in running /\ Request(c)
    /\ UNCHANGED queueVars

\* The capability check failed, or the call went over a socket of its own.
Bypass(c) ==
    /\ c \in running /\ request[c] = "none"
    /\ Settle({c}) /\ UNCHANGED controlVars

Answer(c) == Respond(c) /\ Settling
CallTimeout(c) == RequestTimeout(c) /\ Settling

SocketEvent == SocketNext /\ Settling
SubscriptionEvent == SubNext /\ UNCHANGED queueVars
-----------------------------------------------------------------------------
Init == QueueInit /\ ControlInit

Next ==
    \/ SocketEvent \/ SubscriptionEvent
    \/ \E c \in Call : EnqueueCall(c) \/ IssueCall(c) \/ Bypass(c) \/ Answer(c) \/ CallTimeout(c)

Spec == Init /\ [][Next]_runtimeVars

\* Timers fire; the capability check of a call ends, by its own timeout if it
\* must; a socket that is not ready gets through or closes; a dying one closes.
Fairness ==
    /\ \A c \in Call :
        /\ WF_runtimeVars(IssueCall(c) \/ Bypass(c))
        /\ WF_runtimeVars(CallTimeout(c))
    /\ \A s \in Sub : WF_runtimeVars(SubscribeTimeout(s) /\ UNCHANGED queueVars)
    /\ WF_runtimeVars(Reconnect /\ Settling)
    /\ WF_runtimeVars(ReadyFrame /\ Settling)
    /\ WF_runtimeVars((AuthenticatedFrame \/ (state # "ready" /\ SocketClosed)) /\ Settling)
    /\ WF_runtimeVars(dying /\ SocketClosed /\ Settling)

FairSpec == Spec /\ Fairness
-----------------------------------------------------------------------------
\* Type invariant; a request belongs to a call that holds a slot, so that its end
\* is the end of that call, and no reconnect is due while there is a socket.
TypeOK ==
    /\ QueueTypeOK /\ ControlTypeOK
    /\ \A c \in Call : Pending(c) => c \in running
    /\ reconnecting => ~HasSocket

\* A foreground call gives its slot back and its caller an answer, whatever
\* becomes of the socket and of the background calls before it.
CallSettles ==
    \A c \in Call \ Background : c \in Queued \cup running ~> c \notin Queued \cup running

\* A subscription that lost its socket is served again (or refused, which its
\* owner hears too), or its owner hears that it is over: subscribe throws, onError and onClose are called, or the server's
\* last answer was passed on.  It never waits for a reconnect that nobody
\* scheduled, and it is not forgotten when the attempts are spent.  Its owner may
\* close it first; only a disconnect or a new pairing drops it without a word.
SubscriptionSettles ==
    \A s \in Sub : Listed(s) /\ ~sub[s].closing
        ~> \/ Usable /\ remote[s] # "none"
           \/ sub[s].at \in {"failed", "told", "ended"}
           \/ sub[s].closing \/ sub[s].at = "closed"
           \/ sub[s].at = "dropped" /\ shut

\* Authenticate-then-close loops exhaust: only a socket that stayed ready gives
\* new attempts, unless the user disconnects (scheduleSharedControlStableReset).
FlappingExhausts ==
    []<>reconnecting /\ []<>~reconnecting
        => []<>shut \/ []<><<Usable /\ stable /\ ~stable' /\ attempt' = 0>>_runtimeVars
=============================================================================
