--------------------------- MODULE MCMachineFiles ---------------------------
(***************************************************************************)
(* MachineFiles for TLC.  Two machines can share an image, a third one     *)
(* shows that it cannot.                                                   *)
(***************************************************************************)
EXTENDS MachineFiles

CONSTANTS nas
=============================================================================
