---------------------------- MODULE RemoteCalls ----------------------------
(* The calls a client makes of one remote runtime. *)
CONSTANTS
    Call,        \* calls; one that is over may be made again
    Background   \* those whose method isBackgroundRuntimeMethod

ASSUME CallAssumption == Background \subseteq Call
=============================================================================
