-------------------------- MODULE MCConfigManager --------------------------
(***************************************************************************)
(* ConfigManager for TLC: the documents that differ from a valid one in    *)
(* MaxRuntime and one more value, each of any type.                        *)
(***************************************************************************)
EXTENDS ConfigManager, FiniteSets

Good ==
    [root |-> "object",
     section |-> [s \in Section |-> CASE s \in {"Filter", "OtherVms"} -> "array"
                                      [] s = "MaxRuntime" -> "uint"
                                      [] OTHER -> "object"],
     field |-> [Bridge |-> [Destroy |-> "bool", Name |-> "string"],
                Standardtemplate |-> [Format |-> "string", Path |-> "string"],
                StartVm |-> [Path |-> "string", PreScript |-> "string", PostScript |-> "null",
                             IPAddress |-> "uint"],
                DHCP |-> [HostsDir |-> "string", PidFile |-> "string", IPAddress |-> "uint"]],
     elements |-> [Filter |-> [i \in 1 .. 2 |->
                      [self |-> "object", field |-> [Action |-> "string", ActionParam |-> "null",
                                                     Rule |-> "uint"]]],
                   OtherVms |-> [i \in 1 .. 2 |->
                      [self |-> "object", field |-> [AlwaysOn |-> "bool", Path |-> "string",
                                                     IPAddress |-> "uint"]]]]]

ObjectSections == {"Bridge", "Standardtemplate", "StartVm", "DHCP"}
ArraySections == {"Filter", "OtherVms"}

\* The documents that differ from d in one value.
Changed(d) ==
    {[d EXCEPT !.root = k] : k \in Kind}
    \cup {[d EXCEPT !.section[x[1]] = x[2]] : x \in Section \X Kind}
    \cup UNION {{[d EXCEPT !.field[s][x[1]] = x[2]] : x \in Fields[s] \X Kind} : s \in ObjectSections}
    \cup UNION {{[d EXCEPT !.elements[s][i].self = k] : k \in Kind, i \in 1 .. 2} : s \in ArraySections}
    \cup UNION {{[d EXCEPT !.elements[s][x[1]].field[x[2]] = x[3]] :
                   x \in (1 .. 2) \X Fields[s] \X Kind} : s \in ArraySections}

MCDocuments ==
    LET runtime == {[Good EXCEPT !.section.MaxRuntime = k] : k \in Kind}
    IN UNION {Changed(d) : d \in runtime}
=============================================================================
