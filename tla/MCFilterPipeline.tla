-------------------------- MODULE MCFilterPipeline --------------------------
(***************************************************************************)
(* FilterPipeline for TLC: a web server, then the first machine of the     *)
(* user, and rules as in example/simple_example.json with some that        *)
(* addFilter must refuse.                                                  *)
(***************************************************************************)
EXTENDS FilterPipeline

MCNames == <<"web", "nas">>
MCName == <<"web">>

Rule(r, a, p) == [rule |-> r, action |-> a, param |-> p]

\* Two that need the core and two that addFilter refuses.
MCActing == <<Rule(1, "FREEZESRC", ""), Rule(2, "STARTVM", "web"), Rule(3, "STARTVM", ""),
              Rule(4, "REJECT", "")>>
MCFreezing == <<Rule(1, "FREEZEALL", ""), Rule(2, "DROP", ""), Rule(3, "RUNSCRIPT", "backup")>>
\* What the filter decides itself.
MCDeciding == <<Rule(1, "DROP", ""), Rule(2, "RUNSCRIPT", "backup")>>
=============================================================================
