--------------------------- MODULE ConfigManager ---------------------------
(***************************************************************************)
(* What a configuration file is checked for and what is read from it.      *)
(* validateJSON looks at the types of the values once; afterwards the      *)
(* getters convert them, in the order in which start() and the destructor  *)
(* of EMPCACore call them, and a conversion that jsoncpp cannot make       *)
(* throws, which nobody catches.  A document is reduced to the types of    *)
(* its values: what the checks and the conversions tell apart.             *)
(***************************************************************************)
EXTENDS Naturals, Sequences

CONSTANT Documents      \* the documents considered

\* uint: a whole number that fits 32 bits; big: one that fits 64; huge: beyond that.
Kind == {"null", "bool", "uint", "big", "fraction", "negative", "huge",
         "string", "array", "object"}

Section == {"Bridge", "Filter", "MaxRuntime", "OtherVms", "Standardtemplate", "StartVm", "DHCP"}
Fields == [Bridge |-> {"Destroy", "Name"},
           Standardtemplate |-> {"Format", "Path"},
           StartVm |-> {"Path", "PreScript", "PostScript", "IPAddress"},
           DHCP |-> {"HostsDir", "PidFile", "IPAddress"},
           Filter |-> {"Action", "ActionParam", "Rule"},
           OtherVms |-> {"AlwaysOn", "Path", "IPAddress"}]

\* elements: those of Filter and OtherVms, if they are arrays
Document == [root : Kind,
             section : [Section -> Kind],
             field : [Bridge : [Fields.Bridge -> Kind],
                      Standardtemplate : [Fields.Standardtemplate -> Kind],
                      StartVm : [Fields.StartVm -> Kind],
                      DHCP : [Fields.DHCP -> Kind]],
             elements : [Filter : Seq([self : Kind, field : [Fields.Filter -> Kind]]),
                         OtherVms : Seq([self : Kind, field : [Fields.OtherVms -> Kind]])]]

ASSUME DocumentsAssumption == Documents \subseteq Document

VARIABLES
    doc,    \* values_ as parse left it
    step,   \* the next call of start() or the destructor that uses the configuration
    thrown  \* the call a jsoncpp exception came from, or "none"

vars == <<doc, step, thrown>>

-----------------------------------------------------------------------------
(* jsoncpp, as the code uses it.                                           *)

Numeric == {"uint", "big", "fraction", "negative", "huge"}

\* operator[] with a name works on objects and, making them objects, on nulls.
Indexable == {"object", "null"}

\* The kinds a conversion throws for.
NotString == {"array", "object"}
NotBool == {"string", "array", "object"}
NotUInt == {"big", "negative", "huge", "string", "array", "object"}
NotUInt64 == {"negative", "huge", "string", "array", "object"}

\* For each field the kinds its conversion throws for.  getOtherVMs only tests the
\* address with isUInt, which never throws.
Unreadable == [Bridge |-> [Destroy |-> NotBool, Name |-> NotString],
               Standardtemplate |-> [Format |-> NotString, Path |-> NotString],
               StartVm |-> [Path |-> NotString, PreScript |-> NotString,
                            PostScript |-> NotString, IPAddress |-> NotUInt],
               DHCP |-> [HostsDir |-> NotString, PidFile |-> NotString, IPAddress |-> NotUInt],
               Filter |-> [Action |-> NotString, ActionParam |-> NotString, Rule |-> NotUInt],
               OtherVms |-> [AlwaysOn |-> NotBool, Path |-> NotString, IPAddress |-> {}]]

-----------------------------------------------------------------------------
(* validateJSON.  An F_ definition is a fault a programmer could have made *)
(* in the definition after it.                                             *)

Needs == [Bridge |-> [Destroy |-> {"bool"}, Name |-> {"string"}],
          Standardtemplate |-> [Format |-> {"string"}, Path |-> {"string"}],
          StartVm |-> [Path |-> {"string"}, PreScript |-> {"string", "null"},
                       PostScript |-> {"string", "null"}, IPAddress |-> {"uint"}],
          DHCP |-> [HostsDir |-> {"string"}, PidFile |-> {"string"}, IPAddress |-> {"uint"}],
          Filter |-> [Action |-> {"string"}, ActionParam |-> {"string", "null"},
                      Rule |-> {"uint"}],
          OtherVms |-> [AlwaysOn |-> {"bool"}, Path |-> {"string"}, IPAddress |-> {"uint"}]]

Meets(values, needs) == \A f \in DOMAIN needs : values[f] \in needs[f]

F_CheckObject(d, s) == IF Meets(d.field[s], Needs[s]) THEN "ok" ELSE "invalid"
CheckObject(d, s) ==
    IF d.section[s] = "object" /\ Meets(d.field[s], Needs[s]) THEN "ok" ELSE "invalid"

\* An element that is neither object nor null cannot be indexed at all.
F_CheckElement(e, s) ==                           \* converts where it should test
    CASE e.self \notin Indexable \/ \E f \in Fields[s] : e.field[f] \in Unreadable[s][f] -> "throws"
      [] e.self = "object" /\ Meets(e.field, Needs[s]) -> "ok"
      [] OTHER -> "invalid"
CheckElement(e, s) ==
    IF e.self \notin Indexable THEN "throws"
    ELSE IF e.self = "object" /\ Meets(e.field, Needs[s]) THEN "ok" ELSE "invalid"

\* Checks are made in order until one fails.
FirstProblem(checks) ==
    CASE \A i \in DOMAIN checks : checks[i] = "ok" -> "ok"
      [] \E i \in DOMAIN checks :
            checks[i] = "throws" /\ \A j \in 1 .. (i - 1) : checks[j] = "ok" -> "throws"
      [] OTHER -> "invalid"

CheckArray(d, s) ==
    CASE d.section[s] = "null" -> "ok"
      [] d.section[s] = "array" ->
           FirstProblem([i \in DOMAIN d.elements[s] |-> CheckElement(d.elements[s][i], s)])
      [] OTHER -> "invalid"

F_CheckRuntime(d) == "ok"                         \* not checked
CheckRuntime(d) == IF d.section["MaxRuntime"] \in Numeric \cup {"null"} THEN "ok" ELSE "invalid"

ValidateJSON(d) ==
    IF d.root \notin Indexable THEN "throws"
    ELSE FirstProblem(<<CheckObject(d, "Bridge"), CheckArray(d, "Filter"), CheckRuntime(d),
                        CheckArray(d, "OtherVms"), CheckObject(d, "Standardtemplate"),
                        CheckObject(d, "StartVm"), CheckObject(d, "DHCP")>>)

-----------------------------------------------------------------------------
(* The getters: whether reading the values throws.                         *)

\* A value of an object.
Throws(d, s, f) ==
    \/ d.root \notin Indexable \/ d.section[s] \notin Indexable
    \/ d.section[s] = "object" /\ d.field[s][f] \in Unreadable[s][f]

BridgeDestroyThrows(d) == Throws(d, "Bridge", "Destroy")
BridgeNameThrows(d) == Throws(d, "Bridge", "Name")
TemplateThrows(d) == \E f \in Fields.Standardtemplate : Throws(d, "Standardtemplate", f)
DHCPThrows(d) == \E f \in Fields.DHCP : Throws(d, "DHCP", f)
StartVMThrows(d) == \E f \in Fields.StartVm : Throws(d, "StartVm", f)
MaxRuntimeThrows(d) == d.root \notin Indexable \/ d.section["MaxRuntime"] \in NotUInt64

\* getFilter and getOtherVMs go through an array; what is neither null nor an object nor
\* an array has the size 0.
ArrayThrows(d, s) ==
    \/ d.root \notin Indexable \/ d.section[s] = "object"
    \/ /\ d.section[s] = "array"
       /\ \E i \in DOMAIN d.elements[s] :
             \/ d.elements[s][i].self \notin Indexable
             \/ /\ d.elements[s][i].self = "object"
                /\ \E f \in Fields[s] : d.elements[s][i].field[f] \in Unreadable[s][f]

OtherVMsThrows(d) == ArrayThrows(d, "OtherVms")
FilterThrows(d) == ArrayThrows(d, "Filter")

-----------------------------------------------------------------------------
Init == doc \in Documents /\ step = "read" /\ thrown = "none"

\* readConfig.  A file that cannot be parsed to its end, or is not valid, ends start(),
\* and main deletes the core.
ReadConfig ==
    /\ step = "read"
    /\ \/ step' = "destroy" /\ UNCHANGED thrown
       \/ ValidateJSON(doc) = "ok" /\ step' = "dhcp" /\ UNCHANGED thrown
       \/ ValidateJSON(doc) = "throws" /\ step' = "done" /\ thrown' = "read"
    /\ UNCHANGED doc

\* A call that reads values: an exception ends the process; otherwise start() goes on,
\* or returns for a reason that has nothing to do with the configuration.
Call(name, throws, nextStep) ==
    /\ step = name
    /\ IF throws THEN step' = "done" /\ thrown' = name
       ELSE step' \in {nextStep, "destroy"} /\ UNCHANGED thrown
    /\ UNCHANGED doc

HandleDHCP == Call("dhcp", DHCPThrows(doc), "bridge")
InitBridge == Call("bridge", BridgeNameThrows(doc), "template")
HandleStandardTemplate == Call("template", TemplateThrows(doc), "other")
HandleOtherVMs == Call("other", OtherVMsThrows(doc), "startvm")
HandleStartVM == Call("startvm", StartVMThrows(doc), "runtime")
HandleRuntime == Call("runtime", MaxRuntimeThrows(doc), "destroy")

\* ~EMPCACore asks whether to destroy the bridge, whatever came before.
Destroy ==
    /\ step = "destroy" /\ step' = "done"
    /\ thrown' = IF BridgeDestroyThrows(doc) THEN "destroy" ELSE thrown
    /\ UNCHANGED doc

Next == \/ ReadConfig \/ HandleDHCP \/ InitBridge \/ HandleStandardTemplate
        \/ HandleOtherVMs \/ HandleStartVM \/ HandleRuntime \/ Destroy

Spec == Init /\ [][Next]_vars

-----------------------------------------------------------------------------
(* Properties.                                                             *)

TypeOK ==
    /\ doc \in Document
    /\ step \in {"read", "dhcp", "bridge", "template", "other", "startvm", "runtime",
                 "destroy", "done"}
    /\ thrown \in {"none", "read", "runtime", "destroy"}

\* What validateJSON has accepted can be read: after readConfig only MaxRuntime, of which
\* no more is checked than that it is a number, can end the process, namely when it is
\* negative or does not fit 64 bits.
OnlyRuntimeEscapes ==
    /\ thrown = "runtime" => doc.section["MaxRuntime"] \in {"negative", "huge"}
    /\ step \notin {"read", "destroy", "done"} =>
          /\ ~FilterThrows(doc) /\ ~OtherVMsThrows(doc) /\ ~StartVMThrows(doc)
          /\ ~DHCPThrows(doc) /\ ~TemplateThrows(doc)
          /\ ~BridgeNameThrows(doc) /\ ~BridgeDestroyThrows(doc)

\* The destructor reads the bridge section of documents that were refused, too.  It can
\* do so unless that very section, or the whole document, is what is wrong.
DestructorReads ==
    thrown = "destroy" => doc.root \notin Indexable \/ CheckObject(doc, "Bridge") # "ok"

\* validateJSON itself throws only when the document or a member of an array is neither
\* object nor null, and never for a value where one of another type is expected.
ChecksDoNotThrow ==
    thrown = "read" =>
        \/ doc.root \notin Indexable
        \/ \E s \in {"Filter", "OtherVms"} : \E i \in DOMAIN doc.elements[s] :
              doc.section[s] = "array" /\ doc.elements[s][i].self \notin Indexable
=============================================================================
