------------------------ MODULE ConfigManagerProofs ------------------------
(***************************************************************************)
(* The properties of ConfigManager hold for every document.  The argument  *)
(* is ValidIsReadable: what validateJSON asks of a value excludes every    *)
(* type its conversion would throw for, but for the range of MaxRuntime.   *)
(***************************************************************************)
EXTENDS ConfigManager, TLAPS

\* A list of checks is passed only if each of them is.
LEMMA AllChecksPassed ==
    ASSUME NEW checks, FirstProblem(checks) = "ok"
    PROVE  \A i \in DOMAIN checks : checks[i] = "ok"
  BY DEF FirstProblem

\* It throws only if one of them throws.
LEMMA SomeCheckThrew ==
    ASSUME NEW checks, FirstProblem(checks) = "throws"
    PROVE  \E i \in DOMAIN checks : checks[i] = "throws"
  BY DEF FirstProblem

\* What the seven parts of validateJSON have found when it returns true.
LEMMA ValidMeans ==
    ASSUME NEW d, ValidateJSON(d) = "ok"
    PROVE  /\ d.root \in Indexable
           /\ \A s \in {"Bridge", "Standardtemplate", "StartVm", "DHCP"} : CheckObject(d, s) = "ok"
           /\ \A s \in {"Filter", "OtherVms"} : CheckArray(d, s) = "ok"
           /\ CheckRuntime(d) = "ok"
  <1> DEFINE checks == <<CheckObject(d, "Bridge"), CheckArray(d, "Filter"), CheckRuntime(d),
                         CheckArray(d, "OtherVms"), CheckObject(d, "Standardtemplate"),
                         CheckObject(d, "StartVm"), CheckObject(d, "DHCP")>>
  <1>1. d.root \in Indexable /\ FirstProblem(checks) = "ok"
    BY DEF ValidateJSON
  <1>2. \A i \in 1 .. 7 : checks[i] = "ok"
    <2>1. DOMAIN checks = 1 .. 7
      OBVIOUS
    <2> HIDE DEF checks
    <2> QED
      BY <1>1, <2>1, AllChecksPassed
  <1>3. /\ checks[1] = "ok" /\ checks[2] = "ok" /\ checks[3] = "ok" /\ checks[4] = "ok"
        /\ checks[5] = "ok" /\ checks[6] = "ok" /\ checks[7] = "ok"
    <2> HIDE DEF checks
    <2> QED
      BY <1>2
  <1> QED
    BY <1>1, <1>3

\* The values of a checked object can be converted.
LEMMA ObjectReadable ==
    ASSUME NEW d, NEW s \in {"Bridge", "Standardtemplate", "StartVm", "DHCP"},
           d.root \in Indexable, CheckObject(d, s) = "ok"
    PROVE  \A f \in Fields[s] : ~Throws(d, s, f)
  <1>1. d.section[s] = "object" /\ \A f \in DOMAIN Needs[s] : d.field[s][f] \in Needs[s][f]
    BY DEF CheckObject, Meets
  <1>2. \A f \in Fields[s] : f \in DOMAIN Needs[s] /\ Needs[s][f] \cap Unreadable[s][f] = {}
    <2>1. CASE s = "Bridge"
      BY <2>1 DEF Fields, Needs, Unreadable, NotString, NotBool, NotUInt
    <2>2. CASE s = "Standardtemplate"
      BY <2>2 DEF Fields, Needs, Unreadable, NotString, NotBool, NotUInt
    <2>3. CASE s = "StartVm"
      BY <2>3 DEF Fields, Needs, Unreadable, NotString, NotBool, NotUInt
    <2>4. CASE s = "DHCP"
      BY <2>4 DEF Fields, Needs, Unreadable, NotString, NotBool, NotUInt
    <2> QED
      BY <2>1, <2>2, <2>3, <2>4
  <1>3. d.section[s] \in Indexable
    BY <1>1 DEF Indexable
  <1> QED
    BY <1>1, <1>2, <1>3 DEF Throws

\* An element that passes has values of the types asked for.
LEMMA ElementMeets ==
    ASSUME NEW e, NEW s, CheckElement(e, s) = "ok"
    PROVE  e.self \in Indexable /\ \A f \in DOMAIN Needs[s] : e.field[f] \in Needs[s][f]
  <1>1. e.self \in Indexable
    BY DEF CheckElement
  <1>2. Meets(e.field, Needs[s])
    BY <1>1 DEF CheckElement
  <1> QED
    BY <1>1, <1>2 DEF Meets

\* The values of every element of a checked array can be converted.
LEMMA ArrayReadable ==
    ASSUME NEW d, NEW s \in {"Filter", "OtherVms"},
           d.root \in Indexable, CheckArray(d, s) = "ok"
    PROVE  ~ArrayThrows(d, s)
  <1>1. d.section[s] # "object"
    BY DEF CheckArray
  <1>2. ASSUME d.section[s] = "array", NEW i \in DOMAIN d.elements[s]
        PROVE  /\ d.elements[s][i].self \in Indexable
               /\ \A f \in Fields[s] : d.elements[s][i].field[f] \notin Unreadable[s][f]
    <2> DEFINE checks == [k \in DOMAIN d.elements[s] |-> CheckElement(d.elements[s][k], s)]
    <2>1. FirstProblem(checks) = "ok"
      BY <1>2 DEF CheckArray
    <2>2. checks[i] = "ok"
      <3>1. i \in DOMAIN checks
        BY <1>2
      <3> HIDE DEF checks
      <3> QED
        BY <2>1, <3>1, AllChecksPassed
    <2>3. CheckElement(d.elements[s][i], s) = "ok"
      BY <2>2, <1>2
    <2>4. /\ d.elements[s][i].self \in Indexable
          /\ \A f \in DOMAIN Needs[s] : d.elements[s][i].field[f] \in Needs[s][f]
      BY <2>3, ElementMeets
    <2>5. \A f \in Fields[s] : f \in DOMAIN Needs[s] /\ Needs[s][f] \cap Unreadable[s][f] = {}
      <3>1. CASE s = "Filter"
        BY <3>1 DEF Fields, Needs, Unreadable, NotString, NotBool, NotUInt
      <3>2. CASE s = "OtherVms"
        BY <3>2 DEF Fields, Needs, Unreadable, NotString, NotBool, NotUInt
      <3> QED
        BY <3>1, <3>2
    <2> QED
      BY <2>4, <2>5
  <1> QED
    BY <1>1, <1>2 DEF ArrayThrows

\* The getters of a valid document throw for MaxRuntime only, and only if that is a
\* number outside of 64 bits.
LEMMA ValidIsReadable ==
    ASSUME NEW d, ValidateJSON(d) = "ok"
    PROVE  /\ ~FilterThrows(d) /\ ~OtherVMsThrows(d) /\ ~StartVMThrows(d)
           /\ ~DHCPThrows(d) /\ ~TemplateThrows(d)
           /\ ~BridgeNameThrows(d) /\ ~BridgeDestroyThrows(d)
           /\ MaxRuntimeThrows(d) => d.section["MaxRuntime"] \in {"negative", "huge"}
  <1>1. d.root \in Indexable
    BY ValidMeans
  <1>2. \A s \in {"Bridge", "Standardtemplate", "StartVm", "DHCP"} :
           \A f \in Fields[s] : ~Throws(d, s, f)
    BY <1>1, ValidMeans, ObjectReadable
  <1>3. ~ArrayThrows(d, "Filter") /\ ~ArrayThrows(d, "OtherVms")
    BY <1>1, ValidMeans, ArrayReadable
  <1>4. MaxRuntimeThrows(d) => d.section["MaxRuntime"] \in {"negative", "huge"}
    <2>1. d.section["MaxRuntime"] \in Numeric \cup {"null"}
      BY ValidMeans DEF CheckRuntime
    <2> QED
      BY <1>1, <2>1 DEF MaxRuntimeThrows, Numeric, NotUInt64
  <1>5. ~Throws(d, "Bridge", "Destroy") /\ ~Throws(d, "Bridge", "Name")
    BY <1>2 DEF Fields
  <1>6. ~StartVMThrows(d) /\ ~DHCPThrows(d) /\ ~TemplateThrows(d)
    <2>1. /\ Fields.StartVm = Fields["StartVm"] /\ Fields.DHCP = Fields["DHCP"]
          /\ Fields.Standardtemplate = Fields["Standardtemplate"]
      OBVIOUS
    <2> QED
      BY <1>2, <2>1 DEF StartVMThrows, DHCPThrows, TemplateThrows
  <1> QED
    BY <1>3, <1>4, <1>5, <1>6
       DEF FilterThrows, OtherVMsThrows, BridgeNameThrows, BridgeDestroyThrows

\* validateJSON throws only for a document or an element that cannot be indexed.
LEMMA ThrowsOnlyUnindexable ==
    ASSUME NEW d, ValidateJSON(d) = "throws"
    PROVE  \/ d.root \notin Indexable
           \/ \E s \in {"Filter", "OtherVms"} : \E i \in DOMAIN d.elements[s] :
                 d.section[s] = "array" /\ d.elements[s][i].self \notin Indexable
  <1> SUFFICES ASSUME d.root \in Indexable
               PROVE  \E s \in {"Filter", "OtherVms"} : \E i \in DOMAIN d.elements[s] :
                         d.section[s] = "array" /\ d.elements[s][i].self \notin Indexable
    OBVIOUS
  <1> DEFINE checks == <<CheckObject(d, "Bridge"), CheckArray(d, "Filter"), CheckRuntime(d),
                         CheckArray(d, "OtherVms"), CheckObject(d, "Standardtemplate"),
                         CheckObject(d, "StartVm"), CheckObject(d, "DHCP")>>
  <1>1. \E k \in DOMAIN checks : checks[k] = "throws"
    <2>1. FirstProblem(checks) = "throws"
      BY DEF ValidateJSON
    <2> HIDE DEF checks
    <2> QED
      BY <2>1, SomeCheckThrew
  <1>2. \A s : CheckObject(d, s) # "throws"
    BY DEF CheckObject
  <1>3. CheckRuntime(d) # "throws"
    BY DEF CheckRuntime
  <1>4. \E s \in {"Filter", "OtherVms"} : CheckArray(d, s) = "throws"
    BY <1>1, <1>2, <1>3
  <1>5. PICK s \in {"Filter", "OtherVms"} : CheckArray(d, s) = "throws"
    BY <1>4
  <1> DEFINE elems == [k \in DOMAIN d.elements[s] |-> CheckElement(d.elements[s][k], s)]
  <1>6. d.section[s] = "array" /\ FirstProblem(elems) = "throws"
    BY <1>5 DEF CheckArray
  <1>7. \E i \in DOMAIN elems : elems[i] = "throws"
    <2> HIDE DEF elems
    <2> QED
      BY <1>6, SomeCheckThrew
  <1>8. PICK i \in DOMAIN d.elements[s] : CheckElement(d.elements[s][i], s) = "throws"
    BY <1>7
  <1>9. d.elements[s][i].self \notin Indexable
    BY <1>8 DEF CheckElement
  <1> QED
    BY <1>5, <1>6, <1>8, <1>9
-----------------------------------------------------------------------------
\* The inductive invariant: the calls after readConfig are made with a valid document only,
\* and a call that threw has a reason.
ReadOnlyValid ==
    /\ doc \in Document
    /\ step \in {"read", "dhcp", "bridge", "template", "other", "startvm", "runtime",
                 "destroy", "done"}
    /\ thrown \in {"none", "read", "runtime", "destroy"}
    /\ step \notin {"read", "destroy", "done"} => ValidateJSON(doc) = "ok"
    /\ thrown = "read" => ValidateJSON(doc) = "throws"
    /\ thrown = "runtime" => doc.section["MaxRuntime"] \in {"negative", "huge"}
    /\ thrown = "destroy" => BridgeDestroyThrows(doc)

LEMMA InitReadOnlyValid == Init => ReadOnlyValid
  BY DocumentsAssumption DEF Init, ReadOnlyValid

LEMMA StepReadOnlyValid == ReadOnlyValid /\ [Next]_vars => ReadOnlyValid'
  <1> SUFFICES ASSUME ReadOnlyValid, [Next]_vars PROVE ReadOnlyValid'
    OBVIOUS
  <1>1. CASE ReadConfig
    BY <1>1 DEF ReadConfig, ReadOnlyValid
  <1>2. CASE HandleDHCP
    BY <1>2, ValidIsReadable DEF HandleDHCP, Call, ReadOnlyValid
  <1>3. CASE InitBridge
    BY <1>3, ValidIsReadable DEF InitBridge, Call, ReadOnlyValid
  <1>4. CASE HandleStandardTemplate
    BY <1>4, ValidIsReadable DEF HandleStandardTemplate, Call, ReadOnlyValid
  <1>5. CASE HandleOtherVMs
    BY <1>5, ValidIsReadable DEF HandleOtherVMs, Call, ReadOnlyValid
  <1>6. CASE HandleStartVM
    BY <1>6, ValidIsReadable DEF HandleStartVM, Call, ReadOnlyValid
  <1>7. CASE HandleRuntime
    BY <1>7, ValidIsReadable DEF HandleRuntime, Call, ReadOnlyValid
  <1>8. CASE Destroy
    BY <1>8 DEF Destroy, ReadOnlyValid
  <1>9. CASE UNCHANGED vars
    BY <1>9 DEF vars, ReadOnlyValid
  <1> QED
    BY <1>1, <1>2, <1>3, <1>4, <1>5, <1>6, <1>7, <1>8, <1>9 DEF Next

LEMMA AlwaysReadOnlyValid == Spec => []ReadOnlyValid
  BY InitReadOnlyValid, StepReadOnlyValid, PTL DEF Spec

-----------------------------------------------------------------------------
\* TypeOK of every reachable state; of the calls between readConfig and the destructor only
\* that of getMaxruntime is ever the one an exception comes from.
THEOREM ConfigTypeCorrect == Spec => []TypeOK
  <1>1. ReadOnlyValid => TypeOK
    BY DEF ReadOnlyValid, TypeOK
  <1> QED
    BY <1>1, AlwaysReadOnlyValid, PTL

\* What validateJSON accepts, whatever the document, the getters of ConfigManager can read:
\* only a MaxRuntime outside of 64 bits ends the process.
THEOREM AcceptedIsReadable == Spec => []OnlyRuntimeEscapes
  <1>1. ReadOnlyValid => OnlyRuntimeEscapes
    BY ValidIsReadable DEF ReadOnlyValid, OnlyRuntimeEscapes
  <1> QED
    BY <1>1, AlwaysReadOnlyValid, PTL

\* ~EMPCACore can read the bridge section of every document in which that section is right.
THEOREM DestructorReadsBridge == Spec => []DestructorReads
  <1>1. ReadOnlyValid => DestructorReads
    <2> SUFFICES ASSUME ReadOnlyValid, thrown = "destroy",
                        doc.root \in Indexable, CheckObject(doc, "Bridge") = "ok"
                 PROVE  FALSE
      BY DEF DestructorReads
    <2>1. BridgeDestroyThrows(doc)
      BY DEF ReadOnlyValid
    <2>2. \A f \in Fields["Bridge"] : ~Throws(doc, "Bridge", f)
      BY ObjectReadable
    <2> QED
      BY <2>1, <2>2 DEF BridgeDestroyThrows, Fields
  <1> QED
    BY <1>1, AlwaysReadOnlyValid, PTL

\* validateJSON throws for no document but those it cannot index.
THEOREM ChecksThrowSeldom == Spec => []ChecksDoNotThrow
  <1>1. ReadOnlyValid => ChecksDoNotThrow
    BY ThrowsOnlyUnindexable DEF ReadOnlyValid, ChecksDoNotThrow
  <1> QED
    BY <1>1, AlwaysReadOnlyValid, PTL
=============================================================================
