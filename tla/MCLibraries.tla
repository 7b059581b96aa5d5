----------------------------- MODULE MCLibraries -----------------------------
(***************************************************************************)
(* The sequential parts for TLC, side by side: ConfigManager and the       *)
(* libraries BridgeLibrary, RouteCommand and RouteTables.  They do not     *)
(* interact; a behaviour is one of one part, and the others stand still.   *)
(***************************************************************************)
EXTENDS MCConfigManager, BridgeLibrary, RouteCommand, RouteTables

VARIABLE part

\* RouteCommand: four kinds of masks; "both" is a host and a network.
MCQuads == {{}, {1}, {0, 1}}
MCHostOf == [home |-> {0}, both |-> {0, 1}]
MCNetOf == [both |-> {1}]
MCTimes == {[sec |-> 0, usec |-> 234567]}

\* RouteTables: the layouts, and what another kernel could make of them.
Without(s, i) == SubSeq(s, 1, i - 1) \o SubSeq(s, i + 1, Len(s))
WithColumn(s, i) == SubSeq(s, 1, i - 1) \o <<"Other">> \o SubSeq(s, i, Len(s))
Swapped(s, i) == [s EXCEPT ![i] = s[i + 1], ![i + 1] = s[i]]
Variants(s) == {s, Without(s, 8), WithColumn(s, 1), WithColumn(s, 6), WithColumn(s, Len(s) + 1), Swapped(s, 4)}
MCFibHeaders == Variants(FibTitles)
MCCacheHeaders == Variants(OldTitles) \cup Variants(NewTitles)
                  \cup {Without(NewTitles, 15), <<"Iface", "IRTT">>, <<"Iface", "TOS">>}
MCOptions == {o \in [ext : 0 .. 3, numeric : BOOLEAN, fib : BOOLEAN, cache : BOOLEAN] :
                /\ o.numeric => o.ext = 3
                /\ ~o.fib /\ ~o.cache => o.ext = 0
                /\ ~o.fib \/ ~o.cache => o.ext \in {0, 2}}

\* A part that stands still is in one of its initial states.
MCInit ==
    /\ part \in {"config", "bridge", "route", "tables"}
    /\ Init /\ (part # "config" => doc = Good)
    /\ BridgeInit /\ (part # "bridge" => sysfs /\ number["p1"] = 1 /\ master["p1"] = "br0")
    /\ RouteInit /\ (part # "route" => family = "inet" /\ command = "add")
    /\ TablesInit
MCNext ==
    /\ UNCHANGED part
    /\ \/ part = "config" /\ Next /\ UNCHANGED <<bridgeVars, routeVars, tableVars>>
       \/ part = "bridge" /\ BridgeNext /\ UNCHANGED <<vars, routeVars, tableVars>>
       \/ part = "route" /\ RouteNext /\ UNCHANGED <<vars, bridgeVars, tableVars>>
       \/ part = "tables" /\ TablesNext /\ UNCHANGED <<vars, bridgeVars, routeVars>>
MCSpec == MCInit /\ [][MCNext]_<<part, vars, bridgeVars, routeVars, tableVars>>
=============================================================================
