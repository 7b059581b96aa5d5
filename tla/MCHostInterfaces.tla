-------------------------- MODULE MCHostInterfaces --------------------------
(***************************************************************************)
(* Instance of HostInterfaces for TLC.  Devices meet only at the bridge,   *)
(* so that one of them beside a bridge in any state is enough; whoever     *)
(* else holds its interfaces is among the other processes.                 *)
(***************************************************************************)
EXTENDS HostInterfaces

CONSTANTS d1

OneDevice == {d1}
=============================================================================
