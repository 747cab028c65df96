-------------------------- MODULE MCRemoteRuntime --------------------------
(* Instance of RemoteRuntime for TLC. *)
EXTENDS RemoteRuntime
=============================================================================
