---------------------------- MODULE AddressGate ----------------------------
(***************************************************************************)
(* What EMPCA promises about addresses, with no threads, queues or         *)
(* devices: a guest's ARP question about an address reaches the bridge     *)
(* only when a set-up of a machine for that address has run to its end     *)
(* (also one whose machine could not be defined or started: addIP does not *)
(* look); a question about any other address waits, a machine is set up    *)
(* for it, and the question is then answered (or, if the process lost the  *)
(* frame, dropped).                                                        *)
(***************************************************************************)
CONSTANTS
    IPs,       \* the addresses guests ask for
    ZeroIP,    \* 0.0.0.0, for which no machine is ever set up
    KnownIPs   \* the addresses served when start-up has finished

VARIABLES
    served,    \* addresses a set-up has been done for, successful or not
    waiting,   \* addresses with an unanswered question
    asked      \* addresses that were asked for on the bridge

gateVars == <<served, waiting, asked>>

GateTypeOK == served \subseteq IPs /\ waiting \subseteq IPs /\ asked \subseteq IPs

GateInit == served = KnownIPs /\ waiting = {} /\ asked = {}

\* A question about ip is held back.  It may be one about a served address:
\* the look-up races with the insertion of addresses.
Hold(ip) ==
    /\ waiting' = waiting \cup {ip}
    /\ UNCHANGED <<served, asked>>

\* A question about a served address goes straight through.
Pass(ip) ==
    /\ ip \in served
    /\ asked' = asked \cup {ip}
    /\ UNCHANGED <<served, waiting>>

\* A set-up for an address somebody waits for has run to its end.
Serve(ip) ==
    /\ ip \in waiting \ {ZeroIP}
    /\ served' = served \cup {ip}
    /\ UNCHANGED <<waiting, asked>>

\* One of the questions about ip is dealt with, others may still wait.
Answer(ip) ==
    /\ ip \in waiting
    /\ ip \in served \cup {ZeroIP}
    /\ waiting' \in {waiting, waiting \ {ip}}
    /\ asked' \in {asked, asked \cup {ip}}
    /\ UNCHANGED served

GateNext == \E ip \in IPs : Hold(ip) \/ Pass(ip) \/ Serve(ip) \/ Answer(ip)

GateSpec == GateInit /\ [][GateNext]_gateVars

\* Only served addresses are ever asked for on the bridge (0.0.0.0 apart, whose
\* held question handleRequest releases without starting anything).
OnlyServedAsked == asked \subseteq served \cup {ZeroIP}
=============================================================================
