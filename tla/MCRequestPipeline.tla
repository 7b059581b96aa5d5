-------------------------- MODULE MCRequestPipeline --------------------------
(***************************************************************************)
(* RequestPipeline for TLC.  dns is served from the beginning, web and     *)
(* mail are not and can be exchanged; 0.0.0.0 is asked for too.            *)
(***************************************************************************)
EXTENDS RequestPipeline, TLC

CONSTANTS zero, dns, web, mail

MCIPs == {zero, dns, web, mail}
MCKnownIPs == {dns}
MCSymmetry == Permutations({web, mail})
=============================================================================
