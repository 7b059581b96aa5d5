--------------------------- MODULE MCCoreLifecycle ---------------------------
(***************************************************************************)
(* CoreLifecycle for TLC: beside StartVm and the DHCP server one machine   *)
(* of OtherVms that is always on, after one that is not or alone.  The     *)
(* large run configures it with 0.0.0.1, which it is registered with, so   *)
(* that the address guests ask for is that of StartVm.                     *)
(***************************************************************************)
EXTENDS CoreLifecycle

CONSTANTS one, dns, start, web

MCIPs == {one, dns, start, web}
MCOneVM == <<[on |-> TRUE, ip |-> web]>>
MCFewIPs == {one, dns, start}
MCFewVMs == <<[on |-> FALSE, ip |-> one], [on |-> TRUE, ip |-> one]>>
MCTwoVMs == <<[on |-> FALSE, ip |-> web], [on |-> TRUE, ip |-> web]>>
=============================================================================
