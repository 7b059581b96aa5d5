------------------------ MODULE BridgeLibraryProofs ------------------------
(***************************************************************************)
(* For any bridges and interfaces, and any number of changes by other      *)
(* processes: an iteration is complete, and a call that nobody disturbs is *)
(* exact.                                                                  *)
(***************************************************************************)
EXTENDS BridgeLibrary, FiniteSetTheorems, TLAPS

-----------------------------------------------------------------------------
(* The invariant.                                                          *)

Visited == {visited[i] : i \in DOMAIN visited}

\* The kernel: a port exists, is in a bridge that exists, and has a number of its own
\* there.
KernelOK ==
    /\ sysfs \in BOOLEAN /\ present \subseteq Interfaces
    /\ master \in [Interfaces -> Bridges \cup {NoBridge}]
    /\ number \in [Interfaces -> Nat]
    /\ There \subseteq Bridges /\ delay \in [There -> Nat] /\ cost \in [Interfaces -> Nat]
    /\ \A i \in Interfaces : master[i] # NoBridge => i \in present /\ master[i] \in There
    /\ \A b \in Bridges : \A i, j \in PortsOf(b) : number[i] = number[j] => i = j

\* What is to be visited is there until something changes it.
SteadyOK ==
    /\ rq.op = "bridges" => steady \subseteq There
    /\ rq.op = "ports" => steady \subseteq PortsOf(rq.br)
    /\ rq.op \notin {"bridges", "ports"} => steady = {}

\* An iteration in progress: what is steady has been visited or still will be.
IterationOK ==
    /\ pc \in {"open", "open old"} => visited = << >>
    /\ pc \in {"each", "each old"} => /\ steady \subseteq todo \cup Visited
                                     /\ todo \cap Visited = {}
                                     /\ ret >= 0

NoCall == [op |-> None]
Names == Bridges \cup Interfaces

\* Which call is where.
PlaceOK ==
    /\ pc \in {"returned", "open", "open old", "each", "each old", "write", "portno", "ioctl",
               "ids", "integers", "open again", "crashed"}
    /\ pc \in {"open old", "each", "each old"} => rq.op \in {"bridges", "ports"}
    /\ pc = "write" => rq.op = "setport"
    /\ pc = "portno" => rq.op \in {"setport", "getport"}
    /\ pc = "ioctl" => rq.op \in {"setport", "setbridge", "getport", "getbridge"}
    /\ pc \in {"ids", "integers"} => rq.op \in {"getport", "getbridge"}
    /\ pc = "open again" => rq.op = "remove"

CallOK ==
    /\ PlaceOK /\ ret \in Int /\ visited \in Seq(Names) /\ todo \subseteq Names
    /\ pc # "returned" => rq \in Request
    /\ rq \in Request \cup {NoCall}

IterationInv == KernelOK /\ CallOK /\ SteadyOK /\ IterationOK /\ EachOnce

\* What an undisturbed call knows of the kernel at each of its steps.
CallInv ==
    ~disturbed =>
        /\ pc # "returned" => before = [cost |-> cost, delay |-> delay] /\ ~refused
        /\ pc = "write" => master[rq.port] # NoBridge
        /\ pc = "ioctl" /\ rq.op \in {"setport", "getport"} => Addressed = {rq.port}
        /\ pc \in {"ids", "integers"} => HasFiles
        /\ UndisturbedIsExact

-----------------------------------------------------------------------------
(* Numbers of ports.                                                       *)

\* A set of natural numbers has a least one.
LEMMA LeastNumber ==
    ASSUME NEW A \in SUBSET Nat, A # {}
    PROVE  \E n \in A : \A k \in A : n <= k
  <1> DEFINE less == {p \in Nat \X Nat : p[1] < p[2]}
  <1>1. IsWellFoundedOn(less, Nat)
    BY NatLessThanWellFounded, Zenon DEF OpToRel
  <1>2. PICK n \in A : \A k \in A : <<k, n>> \notin less
    <2> HIDE DEF less
    <2> QED BY <1>1, WFMin
  <1>3. \A k \in A : k < n => <<k, n>> \in less
    OBVIOUS
  <1>4. \A k \in A : ~(k < n)
    <2> HIDE DEF less
    <2> QED BY <1>2, <1>3
  <1> QED BY <1>4

\* While one interface is not in a bridge, the bridge has a number left: it has fewer
\* ports than there are interfaces.
LEMMA NumberLeft ==
    ASSUME KernelOK, NEW b, NEW i \in Interfaces, i \notin PortsOf(b)
    PROVE  /\ Free(b) \in Nat
           /\ \A k \in PortsOf(b) : number[k] # Free(b)
  <1> DEFINE N == Cardinality(Interfaces)
             P == PortsOf(b)
             U == {number[k] : k \in P}
             left == (1 .. N) \ U
  <1>1. N \in Nat /\ P \in SUBSET (Interfaces \ {i})
    BY BridgeLibraryAssumption, FS_CardinalityType DEF PortsOf
  <1>2. IsFiniteSet(P) /\ Cardinality(P) <= N - 1
    <2>1. IsFiniteSet(Interfaces \ {i}) /\ Cardinality(Interfaces \ {i}) = N - 1
      BY BridgeLibraryAssumption, FS_RemoveElement
    <2> HIDE DEF P
    <2> QED BY <1>1, <2>1, FS_Subset
  <1>3. IsFiniteSet(U) /\ Cardinality(U) <= Cardinality(P)
    <2>1. [k \in P |-> number[k]] \in Surjection(P, U)
      BY DEF Surjection
    <2> HIDE DEF P, U
    <2> QED BY <1>2, <2>1, FS_Surjection
  <1>4. left # {}
    <2> SUFFICES ASSUME 1 .. N \subseteq U PROVE FALSE
      OBVIOUS
    <2>1. Cardinality(1 .. N) = N
      BY <1>1, FS_Interval
    <2>2. Cardinality(1 .. N) <= Cardinality(U)
      <3> HIDE DEF U, N
      <3> QED BY <1>3, FS_Subset
    <2>3. Cardinality(P) \in Nat /\ Cardinality(U) \in Nat
      BY <1>2, <1>3, FS_CardinalityType
    <2> HIDE DEF P, U, N
    <2> QED BY <1>1, <1>2, <1>3, <2>1, <2>2, <2>3
  <1>5. PICK n \in left : \A k \in left : n <= k
    <2>1. left \in SUBSET Nat
      BY <1>1
    <2> HIDE DEF left
    <2> QED BY <1>4, <2>1, LeastNumber
  <1>6. \E m \in 1 .. N : /\ \A k \in P : number[k] # m
                          /\ \A k \in 1 .. (m - 1) : \E j \in P : number[j] = k
    <2>1. ASSUME NEW k \in 1 .. (n - 1) PROVE k \in U
      BY <1>1, <1>5, <2>1
    <2> QED BY <1>1, <1>5, <2>1
  <1>7. /\ Free(b) \in 1 .. N
        /\ \A k \in P : number[k] # Free(b)
    BY <1>6 DEF Free
  <1> QED BY <1>1, <1>7

-----------------------------------------------------------------------------
(* The kernel's side.                                                      *)

\* The arguments of a call.
LEMMA RequestArguments ==
    ASSUME NEW r \in Request
    PROVE  /\ r.op \in {"bridges", "ports", "getbridge", "fdb", "setbridge", "getport", "remove", "setport"}
           /\ r.op # "bridges" => r.br \in Bridges
           /\ r.op \in {"getport", "remove", "setport"} => r.port \in Interfaces
           /\ r.op = "setport" => r.cost \in Costs
           /\ r.op = "setbridge" => r.time \in Times
  BY DEF Request

LEMMA DelayType ==
    ASSUME NEW t \in Times
    PROVE  JiffiesOf(t) \in Nat
  <1>1. t.sec \in Nat /\ t.usec \in Nat
    BY BridgeLibraryAssumption
  <1>2. Second \in Nat
    BY DEF Second
  <1>3. Second * t.sec + t.usec \in Nat
    BY <1>1, <1>2
  <1> QED BY <1>3 DEF JiffiesOf, Jiffy

\* An interface leaves its bridge.
LEMMA KernelLosesPort ==
    ASSUME KernelOK, NEW i \in Interfaces,
           master' = [master EXCEPT ![i] = NoBridge], number' = [number EXCEPT ![i] = 0],
           present' = present \/ present' = present \ {i},
           UNCHANGED <<sysfs, delay, cost>>
    PROVE  KernelOK'
  <1>1. \A b \in Bridges : PortsOf(b)' = PortsOf(b) \ {i} /\ PortsOf(b) \subseteq Interfaces
    BY BridgeLibraryAssumption DEF KernelOK, PortsOf
  <1>2. \A b \in Bridges : \A k \in PortsOf(b)' : number'[k] = number[k]
    BY <1>1 DEF KernelOK
  <1>3. \A b \in Bridges : \A k, j \in PortsOf(b)' : number'[k] = number'[j] => k = j
    BY <1>1, <1>2 DEF KernelOK
  <1>4. \A k \in Interfaces : master'[k] # NoBridge => k # i /\ master'[k] = master[k]
    BY DEF KernelOK
  <1>5. \A k \in Interfaces : master'[k] # NoBridge => k \in present' /\ master'[k] \in There'
    BY <1>4 DEF KernelOK, There
  <1>6. /\ present' \subseteq Interfaces /\ master' \in [Interfaces -> Bridges \cup {NoBridge}]
        /\ number' \in [Interfaces -> Nat]
    BY DEF KernelOK
  <1> QED BY <1>3, <1>5, <1>6 DEF KernelOK, There

LEMMA KernelGetsPort ==
    ASSUME KernelOK, NEW i \in Interfaces, NEW b \in There, i \in present, master[i] = NoBridge,
           master' = [master EXCEPT ![i] = b], number' = [number EXCEPT ![i] = Free(b)],
           UNCHANGED <<sysfs, present, delay, cost>>
    PROVE  KernelOK'
  <1>1. b \in Bridges /\ b # NoBridge /\ i \notin PortsOf(b)
    BY BridgeLibraryAssumption DEF KernelOK, PortsOf
  <1>2. Free(b) \in Nat /\ \A k \in PortsOf(b) : number[k] # Free(b)
    BY <1>1, NumberLeft
  <1>3. \A c \in Bridges : /\ PortsOf(c)' = IF c = b THEN PortsOf(c) \cup {i} ELSE PortsOf(c)
                           /\ PortsOf(c) \subseteq Interfaces \ {i}
    BY BridgeLibraryAssumption, <1>1 DEF KernelOK, PortsOf
  <1>4. /\ \A k \in Interfaces \ {i} : number'[k] = number[k]
        /\ number'[i] = Free(b) /\ number' \in [Interfaces -> Nat]
    BY <1>2 DEF KernelOK
  <1>5. \A c \in Bridges : \A k, j \in PortsOf(c)' : number'[k] = number'[j] => k = j
    BY <1>2, <1>3, <1>4 DEF KernelOK
  <1>6. /\ master' \in [Interfaces -> Bridges \cup {NoBridge}]
        /\ \A k \in Interfaces : master'[k] # NoBridge => k \in present /\ master'[k] \in There
    BY <1>1 DEF KernelOK
  <1> QED BY <1>4, <1>5, <1>6 DEF KernelOK, There

LEMMA KernelLosesBridge ==
    ASSUME KernelOK, NEW b \in There, DeleteBridge(b), UNCHANGED <<sysfs, cost>>
    PROVE  KernelOK'
  <1>1. There' = There \ {b} /\ \A c \in There' : delay'[c] = delay[c]
    BY DEF DeleteBridge, There
  <1>2. delay' \in [There' -> Nat]
    BY <1>1 DEF DeleteBridge, KernelOK, There
  <1>3. \A k \in Interfaces : /\ master'[k] = (IF master[k] = b THEN NoBridge ELSE master[k])
                              /\ number'[k] = (IF master[k] = b THEN 0 ELSE number[k])
    BY DEF DeleteBridge
  <1>4. \A c \in Bridges : \A k \in PortsOf(c)' : k \in PortsOf(c) /\ number'[k] = number[k]
    BY <1>3, BridgeLibraryAssumption DEF PortsOf
  <1>5. \A c \in Bridges : \A k, j \in PortsOf(c)' : number'[k] = number'[j] => k = j
    BY <1>4 DEF KernelOK
  <1>6. /\ master' \in [Interfaces -> Bridges \cup {NoBridge}] /\ number' \in [Interfaces -> Nat]
    BY <1>3 DEF DeleteBridge, KernelOK
  <1>7. \A k \in Interfaces : master'[k] # NoBridge => k \in present /\ master'[k] \in There'
    BY <1>1, <1>3 DEF KernelOK
  <1>8. UNCHANGED present /\ There' \subseteq Bridges
    BY <1>1 DEF DeleteBridge, KernelOK
  <1> QED BY <1>2, <1>5, <1>6, <1>7, <1>8 DEF KernelOK

LEMMA KernelSame == KernelOK /\ UNCHANGED kernelOf => KernelOK'
  BY DEF KernelOK, kernelOf, There, PortsOf

LEMMA KernelStep ==
    ASSUME KernelOK, CallOK, [BridgeNext]_bridgeVars
    PROVE  KernelOK'
  <1> USE DEF There, PortsOf
  <1>1. CASE \/ UNCHANGED bridgeVars \/ CallLibrary \/ ListSysfs \/ ListOld \/ VisitNew \/ VisitOld
             \/ OpenAttribute \/ GetPortNo \/ OpenDirectory \/ ReadIds \/ ReadIntegers \/ IoctlGet
             \/ ReadForwarding
    <2>1. UNCHANGED kernelOf
      BY <1>1 DEF bridgeVars, CallLibrary, ListSysfs, ListOld, VisitNew, VisitOld, OpenAttribute,
                  GetPortNo, OpenDirectory, ReadIds, ReadIntegers, IoctlGet, ReadForwarding, Keeps
    <2> QED BY <2>1, KernelSame
  <1>2. CASE WriteAttribute
    <2>1. rq.op = "setport" /\ rq \in Request
      BY <1>2 DEF WriteAttribute, CallOK, PlaceOK
    <2>2. rq.port \in Interfaces /\ rq.cost \in Nat
      BY <2>1, RequestArguments, BridgeLibraryAssumption
    <2>3. cost' \in [Interfaces -> Nat]
      BY <1>2, <2>2 DEF WriteAttribute, KernelOK
    <2>4. UNCHANGED <<sysfs, present, master, number, delay>>
      BY <1>2 DEF WriteAttribute
    <2> QED BY <2>3, <2>4 DEF KernelOK
  <1>3. CASE IoctlSet
    <2>1. rq \in Request /\ UNCHANGED <<sysfs, present, master, number>>
      BY <1>3 DEF IoctlSet, CallOK
    <2>2. cost' \in [Interfaces -> Nat]
      <3>1. rq.op = "setport" => rq.cost \in Nat
        BY <2>1, RequestArguments, BridgeLibraryAssumption
      <3> QED BY <1>3, <3>1 DEF IoctlSet, KernelOK, Addressed
    <2>3. delay' = delay \/ (rq.op = "setbridge" /\ delay' = [delay EXCEPT ![rq.br] = JiffiesOf(rq.time)])
      BY <1>3 DEF IoctlSet
    <2>4. rq.op = "setbridge" => JiffiesOf(rq.time) \in Nat
      BY <2>1, RequestArguments, DelayType
    <2>5. delay' \in [There' -> Nat] /\ There' = There
      BY <2>3, <2>4 DEF KernelOK
    <2> QED BY <2>1, <2>2, <2>5 DEF KernelOK
  <1>4. CASE RemovePort
    <2>1. UNCHANGED <<sysfs, present, delay, cost>> /\ rq \in Request /\ rq.port \in Interfaces
      BY <1>4, RequestArguments DEF RemovePort, CallOK
    <2>2. \/ UNCHANGED <<master, number>>
          \/ /\ master' = [master EXCEPT ![rq.port] = NoBridge]
             /\ number' = [number EXCEPT ![rq.port] = 0]
      BY <1>4 DEF RemovePort
    <2> QED BY <2>1, <2>2, KernelLosesPort, KernelSame DEF kernelOf
  <1>5. CASE Change
    <2>1. UNCHANGED <<sysfs, cost>>
      BY <1>5 DEF Change
    <2>2. ASSUME NEW i \in Interfaces, ChangePort(i) PROVE KernelOK'
      <3>1. i \in present /\ UNCHANGED delay
        BY <2>2 DEF ChangePort
      <3>2. CASE master' = [master EXCEPT ![i] = NoBridge] /\ number' = [number EXCEPT ![i] = 0]
                 /\ (present' = present \/ present' = present \ {i})
        BY <2>1, <3>1, <3>2, KernelLosesPort
      <3>3. CASE master[i] = NoBridge /\ UNCHANGED present
                 /\ \E b \in There : /\ master' = [master EXCEPT ![i] = b]
                                     /\ number' = [number EXCEPT ![i] = Free(b)]
        BY <2>1, <3>1, <3>3, KernelGetsPort
      <3> QED BY <2>2, <3>2, <3>3 DEF ChangePort
    <2> QED BY <1>5, <2>1, <2>2, KernelLosesBridge DEF Change
  <1> QED BY <1>1, <1>2, <1>3, <1>4, <1>5 DEF BridgeNext

-----------------------------------------------------------------------------
(* The calls.                                                              *)

LEMMA Counted ==
    ASSUME KernelOK, NEW b
    PROVE  /\ Cardinality(There) \in Nat /\ Cardinality(PortsOf(b)) \in Nat
  <1>1. There \in SUBSET Bridges /\ PortsOf(b) \in SUBSET Interfaces
    BY DEF KernelOK, PortsOf
  <1>2. IsFiniteSet(There) /\ IsFiniteSet(PortsOf(b))
    <2> HIDE DEF There, PortsOf
    <2> QED BY <1>1, FS_Subset, BridgeLibraryAssumption
  <1> QED BY <1>2, FS_CardinalityType

LEMMA CallMade ==
    ASSUME PlaceOK', ret' \in Int, visited' \in Seq(Names), todo' \subseteq Names,
           rq' \in Request
    PROVE  CallOK'
  BY DEF CallOK

\* A call keeps to its own steps.
LEMMA CallStep ==
    ASSUME KernelOK, CallOK, [BridgeNext]_bridgeVars
    PROVE  CallOK'
  <1>0. /\ ret \in Int /\ visited \in Seq(Names) /\ todo \subseteq Names
        /\ pc # "returned" => rq \in Request
    BY DEF CallOK
  <1>1. CASE UNCHANGED callVars
    BY <1>1 DEF CallOK, PlaceOK, callVars
  <1>2. CASE CallLibrary
    <2>1. rq' \in Request /\ pc' = "open" /\ ret' = 0 /\ todo' = {} /\ visited' = << >>
      BY <1>2 DEF CallLibrary
    <2>2. PlaceOK'
      BY <2>1 DEF PlaceOK
    <2>3. << >> \in Seq(Names)
      OBVIOUS
    <2> QED BY <2>1, <2>2, <2>3, CallMade
  <1>3. CASE ListSysfs \/ ListOld
    <2>1. rq' = rq /\ rq \in Request /\ visited' = visited
      BY <1>0, <1>3 DEF ListSysfs, ListOld, Keeps
    <2>2. rq.op \in {"bridges", "ports"}
      BY <1>3 DEF ListSysfs, ListOld, CallOK, PlaceOK
    <2>3. pc' \in {"each", "open old", "each old", "returned"}
      BY <1>3 DEF ListSysfs, ListOld, Goes, Returns
    <2>4. PlaceOK'
      BY <2>1, <2>2, <2>3 DEF PlaceOK
    <2>5. todo' = todo \/ todo' = There \/ todo' = PortsOf(rq.br)
      BY <1>3 DEF ListSysfs, ListOld
    <2>6. todo' \subseteq Names
      BY <1>0, <2>5 DEF KernelOK, PortsOf, Names
    <2>7. Cardinality(There) \in Nat /\ Cardinality(PortsOf(rq.br)) \in Nat
      BY Counted
    <2>8. ret' \in Int
      <3> DEFINE n == Cardinality(There)
                 m == Cardinality(PortsOf(rq.br))
      <3>1. CASE rq.op = "bridges"
        <4>1. \/ ret' = ret \/ ret' = n + 0 \/ ret' = 0 \/ ret' = -1
          BY <1>3, <3>1 DEF ListSysfs, ListOld, Goes, Returns
        <4> HIDE DEF n
        <4> QED BY <1>0, <4>1, <2>7 DEF n
      <3>2. CASE rq.op = "ports"
        <4>1. \/ ret' = ret \/ ret' = m + 2 \/ ret' = 0 \/ ret' = -1
          BY <1>3, <3>2 DEF ListSysfs, ListOld, Goes, Returns
        <4> HIDE DEF m
        <4> QED BY <1>0, <4>1, <2>7 DEF m
      <3> QED BY <2>2, <3>1, <3>2
    <2> QED BY <1>0, <2>1, <2>4, <2>6, <2>8, CallMade
  <1>4. CASE VisitNew \/ VisitOld
    <2>1. rq' = rq /\ rq \in Request /\ pc \in {"each", "each old"}
      BY <1>0, <1>4 DEF VisitNew, VisitOld, Keeps
    <2>2. rq.op \in {"bridges", "ports"}
      BY <2>1 DEF CallOK, PlaceOK
    <2>3. pc' \in {pc, "returned"} /\ (ret' = ret \/ ret' = ret + 1 \/ ret' = -1)
      BY <1>4 DEF VisitNew, VisitOld, Visit, SkipGone, Goes, Returns
    <2>4. PlaceOK'
      BY <2>1, <2>2, <2>3 DEF PlaceOK
    <2>5. todo' \subseteq todo /\ (visited' = visited \/ \E x \in todo : visited' = Append(visited, x))
      BY <1>4 DEF VisitNew, VisitOld, Visit, SkipGone
    <2>6. visited' \in Seq(Names)
      BY <1>0, <2>5
    <2>7. ret' \in Int
      BY <1>0, <2>3
    <2> QED BY <1>0, <2>1, <2>4, <2>5, <2>6, <2>7, CallMade
  <1>5. CASE OpenAttribute \/ OpenDirectory
    <2>1. UNCHANGED <<rq, visited, todo, ret>> /\ rq \in Request
      BY <1>0, <1>5 DEF OpenAttribute, OpenDirectory, Keeps, Goes
    <2>2. ASSUME OpenAttribute PROVE PlaceOK'
      <3>1. \/ rq.op = "setport" /\ pc' \in {"portno", "write"}
            \/ rq.op = "setbridge" /\ pc' = "ioctl"
        <4>1. CASE rq.op = "setport"
          BY <2>2, <4>1 DEF OpenAttribute, Goes
        <4>2. CASE rq.op = "setbridge"
          BY <2>2, <4>2 DEF OpenAttribute, Goes
        <4> QED BY <2>2, <4>1, <4>2 DEF OpenAttribute
      <3> QED BY <2>1, <3>1 DEF PlaceOK
    <2>3. ASSUME OpenDirectory PROVE PlaceOK'
      <3>1. \/ rq.op = "getport" /\ pc' \in {"portno", "ids"}
            \/ rq.op = "getbridge" /\ pc' \in {"ids", "ioctl"}
        BY <2>3 DEF OpenDirectory, Goes
      <3> QED BY <2>1, <3>1 DEF PlaceOK
    <2>4. PlaceOK'
      BY <1>5, <2>2, <2>3
    <2> QED BY <1>0, <2>1, <2>4, CallMade
  <1>6. CASE WriteAttribute \/ GetPortNo \/ IoctlSet \/ ReadIds \/ ReadIntegers \/ IoctlGet
    <2>1. UNCHANGED <<rq, visited, todo>> /\ rq \in Request
      BY <1>0, <1>6 DEF WriteAttribute, GetPortNo, IoctlSet, ReadIds, ReadIntegers, IoctlGet, Keeps
    <2>2. \/ pc' = "returned" /\ (ret' = 0 \/ ret' = -1)
          \/ pc' = "ioctl" /\ pc = "portno" /\ ret' = ret
          \/ pc' \in {"integers", "crashed"} /\ pc = "ids" /\ ret' = ret
      BY <1>6 DEF WriteAttribute, GetPortNo, IoctlSet, ReadIds, ReadIntegers, IoctlGet, Goes, Returns
    <2>3. /\ pc = "portno" => rq.op \in {"setport", "getport"}
          /\ pc = "ids" => rq.op \in {"getport", "getbridge"}
      BY DEF CallOK, PlaceOK
    <2>4. PlaceOK'
      BY <2>1, <2>2, <2>3 DEF PlaceOK
    <2>5. ret' \in Int
      BY <1>0, <2>2
    <2> QED BY <1>0, <2>1, <2>4, <2>5, CallMade
  <1>7. CASE ReadForwarding \/ RemovePort
    <2>1. UNCHANGED <<rq, visited, todo>> /\ rq \in Request
      BY <1>0, <1>7 DEF ReadForwarding, RemovePort, Keeps
    <2>2. \/ pc' = "returned" /\ (ret' = 0 \/ ret' = -1)
          \/ pc' = "open" /\ ret' = ret
          \/ pc' = "open again" /\ rq.op = "remove" /\ ret' = ret
      BY <1>7 DEF ReadForwarding, RemovePort, Goes, Returns
    <2>3. PlaceOK'
      BY <2>1, <2>2 DEF PlaceOK
    <2>4. ret' \in Int
      <3>1. ret' = 0 \/ ret' = -1 \/ ret' = ret
        BY <2>2
      <3> QED BY <1>0, <3>1
    <2> QED BY <1>0, <2>1, <2>3, <2>4, CallMade
  <1> QED BY <1>1, <1>2, <1>3, <1>4, <1>5, <1>6, <1>7 DEF BridgeNext, Change, bridgeVars

-----------------------------------------------------------------------------
(* Iterations.                                                             *)

LEMMA SteadyStep ==
    ASSUME KernelOK, CallOK, SteadyOK, [BridgeNext]_bridgeVars
    PROVE  SteadyOK'
  <1>1. CASE CallLibrary
    <2>1. rq' \in Request /\ UNCHANGED <<master, delay>>
          /\ steady' = CASE rq'.op = "bridges" -> There [] rq'.op = "ports" -> PortsOf(rq'.br)
                         [] OTHER -> {}
      BY <1>1 DEF CallLibrary, kernelOf
    <2> QED BY <2>1 DEF SteadyOK, There, PortsOf
  <1>2. ASSUME UNCHANGED <<rq, steady, master>>, There' = There PROVE SteadyOK'
    BY <1>2 DEF SteadyOK, PortsOf
  <1>3. CASE IoctlSet
    <2>1. UNCHANGED <<rq, steady, master>> /\ There' = There
      BY <1>3 DEF IoctlSet, There
    <2> QED BY <1>2, <2>1
  <1>4. CASE RemovePort
    <2>1. UNCHANGED <<rq, steady, delay>> /\ rq.op = "remove"
      BY <1>4 DEF RemovePort
    <2> QED BY <2>1 DEF SteadyOK
  <1>5. CASE Change
    <2>1. rq' = rq /\ (rq.op # "bridges" /\ rq # NoCall => rq.br \in Bridges)
      BY <1>5, RequestArguments DEF Change, callVars, CallOK
    <2>2. rq.op = "ports" => rq.br \in Bridges /\ rq.br # NoBridge
      BY <2>1, BridgeLibraryAssumption DEF NoCall, None
    <2>3. ASSUME NEW i \in Interfaces, ChangePort(i) PROVE SteadyOK'
      <3>1. steady' = steady \ {i} /\ UNCHANGED delay
        BY <2>3 DEF ChangePort
      <3>2. \A k \in Interfaces \ {i} : master'[k] = master[k]
        BY <2>3 DEF ChangePort, KernelOK
      <3>3. PortsOf(rq.br) \ {i} \subseteq PortsOf(rq.br)'
        BY <2>1, <3>2 DEF PortsOf
      <3> QED BY <2>1, <3>1, <3>3 DEF SteadyOK, There
    <2>4. ASSUME NEW b \in There, DeleteBridge(b) PROVE SteadyOK'
      <3>1. steady' = steady \ ({b} \cup PortsOf(b)) /\ There' = There \ {b}
        BY <2>4 DEF DeleteBridge, There
      <3>2. PortsOf(rq.br) \ PortsOf(b) \subseteq PortsOf(rq.br)'
        BY <2>1, <2>4 DEF DeleteBridge, PortsOf
      <3> QED BY <2>1, <3>1, <3>2 DEF SteadyOK
    <2> QED BY <1>5, <2>3, <2>4 DEF Change
  <1>6. CASE \/ UNCHANGED bridgeVars \/ ListSysfs \/ ListOld \/ VisitNew \/ VisitOld \/ OpenAttribute
             \/ WriteAttribute \/ GetPortNo \/ OpenDirectory \/ ReadIds \/ ReadIntegers \/ IoctlGet
             \/ ReadForwarding
    <2>1. UNCHANGED <<rq, steady, master, delay>>
      BY <1>6 DEF bridgeVars, callVars, kernelOf, ListSysfs, ListOld, VisitNew, VisitOld, OpenAttribute,
                  WriteAttribute, GetPortNo, OpenDirectory, ReadIds, ReadIntegers, IoctlGet, ReadForwarding,
                  Keeps
    <2> QED BY <1>2, <2>1 DEF There
  <1> QED BY <1>1, <1>3, <1>4, <1>5, <1>6 DEF BridgeNext

\* One more is visited.
LEMMA VisitOne ==
    ASSUME CallOK, NEW x \in todo, visited' = Append(visited, x)
    PROVE  /\ Visited' = Visited \cup {x}
           /\ x \notin Visited /\ (\A i, j \in DOMAIN visited : visited[i] = visited[j] => i = j)
                => \A i, j \in DOMAIN visited' : visited'[i] = visited'[j] => i = j
  <1>1. visited \in Seq(Names) /\ x \in Names
    BY DEF CallOK
  <1>2. /\ Len(visited) \in Nat /\ DOMAIN visited = 1 .. Len(visited)
        /\ DOMAIN visited' = 1 .. (Len(visited) + 1)
        /\ \A i \in 1 .. Len(visited) : visited'[i] = visited[i]
        /\ visited'[Len(visited) + 1] = x
    BY <1>1
  <1> QED BY <1>2 DEF Visited

LEMMA IterationStep ==
    ASSUME KernelOK, CallOK, SteadyOK, IterationOK, EachOnce, [BridgeNext]_bridgeVars
    PROVE  IterationOK' /\ EachOnce'
  <1> DEFINE Once == \A i, j \in DOMAIN visited : visited[i] = visited[j] => i = j
  <1>0. Once /\ (ret \in Int) /\ PlaceOK
    BY DEF EachOnce, CallOK
  <1>1. CASE CallLibrary
    <2>1. pc' = "open" /\ visited' = << >>
      BY <1>1 DEF CallLibrary
    <2>2. Once'
      BY <2>1
    <2>3. IterationOK'
      BY <2>1 DEF IterationOK
    <2> QED BY <2>1, <2>2, <2>3 DEF EachOnce
  <1>2. CASE UNCHANGED callVars /\ steady' \subseteq steady
    <2>1. Visited' = Visited
      BY <1>2 DEF Visited, callVars
    <2> QED BY <1>2, <2>1 DEF callVars, IterationOK, EachOnce
  \* A call that is no iteration.
  <1>3. ASSUME rq.op \notin {"bridges", "ports"}, UNCHANGED <<visited, steady>>,
               pc' = "open" => pc = "open", pc' \notin {"open old", "each", "each old"}
        PROVE  IterationOK' /\ EachOnce'
    <2>1. steady' = {} /\ Once'
      BY <1>0, <1>3 DEF SteadyOK
    <2> QED BY <1>3, <2>1 DEF IterationOK, EachOnce
  <1>4. CASE ListSysfs \/ ListOld
    <2>1. rq.op \in {"bridges", "ports"} /\ UNCHANGED <<visited, steady>> /\ pc \in {"open", "open old"}
      BY <1>0, <1>4 DEF ListSysfs, ListOld, Keeps, PlaceOK
    <2> DEFINE found == IF rq.op = "bridges" THEN There ELSE PortsOf(rq.br)
    <2>2. visited = << >>
      BY <2>1 DEF IterationOK
    <2>3. visited' = << >> /\ Visited' = {} /\ Once'
      <3>1. visited' = << >>
        BY <2>1, <2>2
      <3> QED BY <3>1 DEF Visited
    <2>4. steady' \subseteq found
      BY <2>1 DEF SteadyOK
    <2>5. \/ pc' = "open old"
          \/ pc' = "returned" /\ ret' = -1
          \/ pc' \in {"each", "each old"} /\ ret' >= 0 /\ todo' = found
      <3>1. CASE ListOld
        <4>1. \/ pc' = "returned" /\ ret' = -1
              \/ pc' = "each old" /\ todo' = found /\ ret' = 0
          BY <3>1 DEF ListOld, Returns
        <4>2. ret' = 0 => ret' >= 0
          OBVIOUS
        <4> HIDE DEF found
        <4> QED BY <4>1, <4>2
      <3>2. CASE ListSysfs
        <4>1. Cardinality(found) \in Nat
          BY Counted
        <4>2. \/ pc' = "open old"
              \/ /\ pc' = "each" /\ todo' = found
                 /\ ret' = Cardinality(found) + (IF rq.op = "ports" THEN 2 ELSE 0)
          BY <3>2 DEF ListSysfs, Goes
        <4> HIDE DEF found
        <4>3. pc' = "each" => ret' >= 0
          <5>1. ASSUME pc' = "each" PROVE ret' = Cardinality(found) + 0 \/ ret' = Cardinality(found) + 2
            BY <4>2, <5>1
          <5> QED BY <4>1, <5>1
        <4> QED BY <4>2, <4>3
      <3> QED BY <1>4, <3>1, <3>2
    <2> HIDE DEF found
    <2>6. IterationOK'
      BY <2>3, <2>4, <2>5 DEF IterationOK
    <2>7. ~(pc' = "returned" /\ ret' >= 0)
      <3>1. pc' = "returned" => ret' = -1
        BY <2>5
      <3>2. ret' = -1 => ~(ret' >= 0)
        OBVIOUS
      <3> QED BY <3>1, <3>2
    <2> QED BY <2>3, <2>6, <2>7 DEF EachOnce
  <1>5. CASE VisitNew \/ VisitOld
    <2>1. UNCHANGED <<rq, steady>> /\ pc \in {"each", "each old"}
      BY <1>5 DEF VisitNew, VisitOld, Keeps
    <2>2. steady \subseteq todo \cup Visited /\ todo \cap Visited = {} /\ ret >= 0
      BY <2>1 DEF IterationOK
    <2>3. ASSUME NEW x \in todo, Visit(x), ret' = ret \/ ret' = ret + 1
          PROVE  IterationOK' /\ EachOnce'
      <3>1. /\ visited' = Append(visited, x) /\ todo' = todo \ {x}
            /\ ret' >= 0
            /\ \/ stopped' /\ pc' = "returned"
               \/ pc' = pc
        BY <1>0, <2>2, <2>3 DEF Visit
      <3>2. Visited' = Visited \cup {x} /\ Once'
        BY <1>0, <2>2, <3>1, VisitOne
      <3>3. steady' \subseteq todo' \cup Visited' /\ todo' \cap Visited' = {}
        BY <2>1, <2>2, <3>1, <3>2
      <3>4. IterationOK'
        BY <2>1, <3>1, <3>3 DEF IterationOK
      <3>5. ~(pc' = "returned" /\ ~stopped')
        BY <2>1, <3>1
      <3> QED BY <3>2, <3>4, <3>5 DEF EachOnce
    <2>4. CASE todo = {} /\ pc' = "returned" /\ UNCHANGED visited
      <3>1. Visited' = Visited /\ Once'
        BY <1>0, <2>4 DEF Visited
      <3> QED BY <2>1, <2>2, <2>4, <3>1 DEF IterationOK, EachOnce, Visited
    <2>5. ASSUME NEW x \in todo, x \notin present \cup There, pc = "each old", UNCHANGED visited,
                 IF rq.op = "ports" THEN SkipGone(x) ELSE Returns(-1) /\ UNCHANGED todo
          PROVE  IterationOK' /\ EachOnce'
      <3>1. Visited' = Visited /\ Once'
        BY <1>0, <2>5 DEF Visited
      <3>2. CASE rq.op = "ports"
        <4>1. todo' = todo \ {x} /\ UNCHANGED <<pc, ret>>
          BY <2>5, <3>2 DEF SkipGone
        <4>2. rq.br \in Bridges
          BY <2>5, <3>2, RequestArguments DEF CallOK
        <4>3. x \notin steady
          BY <2>5, <3>2, <4>2, BridgeLibraryAssumption DEF SteadyOK, KernelOK, PortsOf
        <4> QED BY <2>1, <2>2, <2>5, <3>1, <4>1, <4>3 DEF IterationOK, EachOnce
      <3>3. CASE rq.op # "ports"
        <4>0. pc' = "returned" /\ ret' = -1
          BY <2>5, <3>3 DEF Returns
        <4>1. pc' = "returned" /\ ~(ret' >= 0)
          BY <4>0
        <4>2. IterationOK'
          BY <4>1 DEF IterationOK
        <4> QED BY <3>1, <4>1, <4>2 DEF EachOnce
      <3> QED BY <3>2, <3>3
    <2> QED BY <1>5, <2>3, <2>4, <2>5 DEF VisitNew, VisitOld, Goes
  <1>6. CASE \/ OpenAttribute \/ WriteAttribute \/ GetPortNo \/ IoctlSet \/ OpenDirectory \/ ReadIds
             \/ ReadIntegers \/ IoctlGet
    <2>1. rq.op \notin {"bridges", "ports"}
      BY <1>0, <1>6 DEF OpenAttribute, WriteAttribute, GetPortNo, IoctlSet, OpenDirectory, ReadIds,
                        ReadIntegers, IoctlGet, PlaceOK
    <2>2. UNCHANGED <<visited, steady>>
      BY <1>6 DEF OpenAttribute, WriteAttribute, GetPortNo, IoctlSet, OpenDirectory, ReadIds,
                  ReadIntegers, IoctlGet, Keeps
    <2>3. pc' \in {"write", "portno", "ioctl", "ids", "integers", "returned", "crashed"}
      BY <1>6 DEF OpenAttribute, WriteAttribute, GetPortNo, IoctlSet, OpenDirectory, ReadIds,
                  ReadIntegers, IoctlGet, Goes, Returns
    <2> QED BY <1>3, <2>1, <2>2, <2>3
  <1>7. CASE ReadForwarding \/ RemovePort
    <2>1. rq.op \notin {"bridges", "ports"} /\ UNCHANGED <<visited, steady>>
      BY <1>7 DEF ReadForwarding, RemovePort, Keeps
    <2>2. pc' \in {"open", "open again", "returned"} /\ (pc' = "open" => pc = "open")
      BY <1>7 DEF ReadForwarding, RemovePort, Goes, Returns
    <2> QED BY <1>3, <2>1, <2>2
  <1>8. CASE Change
    <2>1. UNCHANGED callVars /\ steady' \subseteq steady
      BY <1>8 DEF Change, ChangePort, DeleteBridge
    <2> QED BY <1>2, <2>1
  <1> QED BY <1>1, <1>2, <1>4, <1>5, <1>6, <1>7, <1>8 DEF BridgeNext, bridgeVars

LEMMA BridgeBegins == BridgeInit => IterationInv
  <1> SUFFICES ASSUME BridgeInit PROVE IterationInv
    OBVIOUS
  <1>1. KernelOK
    <2>1. PICK b \in Bridges : master = [i \in Interfaces |-> b]
      BY DEF BridgeInit
    <2>2. /\ sysfs \in BOOLEAN /\ present = Interfaces /\ There = Bridges
          /\ delay \in [There -> Nat] /\ cost \in [Interfaces -> Nat]
      BY DEF BridgeInit, There
    <2>3. /\ number \in [Interfaces -> 1 .. Cardinality(Interfaces)]
          /\ \A i, j \in Interfaces : i # j => number[i] # number[j]
      BY DEF BridgeInit
    <2>4. number \in [Interfaces -> Nat]
      <3>1. Cardinality(Interfaces) \in Nat
        BY BridgeLibraryAssumption, FS_CardinalityType
      <3>2. 1 .. Cardinality(Interfaces) \subseteq Nat
        BY <3>1
      <3> QED BY <2>3, <3>2
    <2>5. \A c : PortsOf(c) \subseteq Interfaces
      BY DEF PortsOf
    <2> QED BY <2>1, <2>2, <2>3, <2>4, <2>5 DEF KernelOK
  <1>2. /\ rq = NoCall /\ pc = "returned" /\ ret = 0 /\ todo = {} /\ visited = << >> /\ steady = {}
    BY DEF BridgeInit, NoCall
  <1>3. PlaceOK
    BY <1>2 DEF PlaceOK
  <1>4. visited \in Seq(Names) /\ ret \in Int
    BY <1>2
  <1>5. CallOK
    BY <1>2, <1>3, <1>4 DEF CallOK
  <1>6. SteadyOK /\ IterationOK
    BY <1>2 DEF SteadyOK, IterationOK
  <1>7. EachOnce
    BY <1>2 DEF EachOnce
  <1> QED BY <1>1, <1>5, <1>6, <1>7 DEF IterationInv

LEMMA IterationKept == BridgeSpec => []IterationInv
  <1>1. IterationInv /\ [BridgeNext]_bridgeVars => IterationInv'
    BY KernelStep, CallStep, SteadyStep, IterationStep DEF IterationInv
  <1> QED BY <1>1, BridgeBegins, PTL DEF BridgeSpec

\* br_foreach_bridge and br_foreach_port, with any bridges and ports and whatever other
\* processes change meanwhile, visit nothing twice, and miss nothing that was there all
\* the time unless they are stopped or report an error.
THEOREM IterationsAreComplete == BridgeSpec => []EachOnce
  <1>1. IterationInv => EachOnce
    BY DEF IterationInv
  <1> QED BY <1>1, IterationKept, PTL

-----------------------------------------------------------------------------
(* Calls that nobody disturbs.                                             *)

\* The kernel's time as a caller sees it is the same number of jiffies.
LEMMA TimeThereAndBack ==
    ASSUME NEW j \in Nat
    PROVE  JiffiesOf(TimeOf(j)) = j
  <1> DEFINE sec == (Jiffy * j) \div Second
             usec == Jiffy * j - Second * sec
  <1>1. TimeOf(j).sec = sec /\ TimeOf(j).usec = usec
    BY DEF TimeOf
  <1>2. Jiffy * j \in Nat /\ Second \in Nat /\ Second > 0
    BY DEF Jiffy, Second
  <1>3. sec \in Int
    BY <1>2
  <1> HIDE DEF sec
  <1>4. Second * sec + usec = Jiffy * j
    BY <1>2, <1>3
  <1>5. (Jiffy * j) \div Jiffy = j
    BY DEF Jiffy
  <1> QED BY <1>1, <1>4, <1>5 DEF JiffiesOf

\* The number a port has is that of no other port of its bridge.
LEMMA NumberIsOf ==
    ASSUME KernelOK, rq.br \in Bridges, rq.port \in Interfaces, master[rq.port] = rq.br,
           index' = number[rq.port], UNCHANGED <<master, number, rq>>
    PROVE  Addressed' = {rq'.port}
  <1>1. rq.port \in PortsOf(rq.br) /\ PortsOf(rq.br)' = PortsOf(rq.br)
    BY DEF PortsOf
  <1>2. \A i \in PortsOf(rq.br) : number[i] = number[rq.port] => i = rq.port
    BY <1>1 DEF KernelOK
  <1> QED BY <1>1, <1>2 DEF Addressed

\* A step of an undisturbed call inside the call.
LEMMA GoesOn ==
    ASSUME ~disturbed', pc' # "returned", pc' # "crashed",
           before' = [cost |-> cost', delay |-> delay'], ~refused',
           pc' = "write" => master'[rq'.port] # NoBridge,
           pc' = "ioctl" /\ rq'.op \in {"setport", "getport"} => Addressed' = {rq'.port},
           pc' \in {"ids", "integers"} => HasFiles'
    PROVE  CallInv'
  BY DEF CallInv, UndisturbedIsExact

\* A call returns.
LEMMA ReturnsExact ==
    ASSUME ~disturbed', pc' = "returned",
           ret' # 0 \/ rq'.op \in {"bridges", "ports", "fdb"}
    PROVE  CallInv'
  BY DEF CallInv, UndisturbedIsExact


LEMMA CallInvStep ==
    ASSUME KernelOK, CallOK, CallInv, [BridgeNext]_bridgeVars
    PROVE  CallInv'
  <1> SUFFICES ASSUME ~disturbed' PROVE CallInv'
    BY DEF CallInv
  <1>1. CASE UNCHANGED bridgeVars
    BY <1>1 DEF bridgeVars, callVars, kernelOf, CallInv, UndisturbedIsExact, Addressed, PortsOf, HasFiles, There
  <1>2. CASE CallLibrary
    <2>1. pc' = "open" /\ before' = [cost |-> cost', delay |-> delay'] /\ ~refused'
      BY <1>2 DEF CallLibrary, kernelOf
    <2> QED BY <2>1, GoesOn
  <1> SUFFICES ASSUME ~CallLibrary, ~UNCHANGED bridgeVars PROVE CallInv'
    BY <1>1, <1>2
  <1>3. ~Change /\ ~disturbed
    <2>1. ~Change
      BY DEF Change
    <2>2. disturbed' = disturbed
      BY <2>1 DEF BridgeNext, ListSysfs, ListOld, VisitNew, VisitOld, OpenAttribute, WriteAttribute,
                  GetPortNo, IoctlSet, OpenDirectory, ReadIds, ReadIntegers, IoctlGet, ReadForwarding,
                  RemovePort, Keeps
    <2> QED BY <2>1, <2>2
  \* Except when it changes the kernel.
  <1>4. ASSUME UNCHANGED <<kernelOf, before, refused, rq>>, pc # "returned",
               \/ pc' \notin {"returned", "crashed", "write", "ioctl", "ids", "integers"}
               \/ pc' = "returned" /\ (ret' = -1 \/ rq.op \in {"bridges", "ports", "fdb"})
        PROVE  CallInv'
    <2>1. before' = [cost |-> cost', delay |-> delay'] /\ ~refused'
      BY <1>3, <1>4 DEF CallInv, kernelOf
    <2>2. ret' = -1 => ret' # 0
      OBVIOUS
    <2> QED BY <1>4, <2>1, <2>2, GoesOn, ReturnsExact
  <1>5. PlaceOK /\ (pc # "returned" => rq \in Request)
    BY DEF CallOK
  <1>6. CASE ListSysfs \/ ListOld \/ VisitNew \/ VisitOld
    <2>1. UNCHANGED <<kernelOf, before, refused, rq>> /\ pc \in {"open", "open old", "each", "each old"}
      BY <1>6 DEF ListSysfs, ListOld, VisitNew, VisitOld, Keeps
    <2>2. rq.op \in {"bridges", "ports"}
      BY <1>5, <1>6 DEF PlaceOK, ListSysfs, ListOld, VisitNew, VisitOld
    <2>3. pc' \in {"open old", "each", "each old", "returned"}
      BY <1>6 DEF ListSysfs, ListOld, VisitNew, VisitOld, Visit, SkipGone, Goes, Returns
    <2> QED BY <1>4, <2>1, <2>2, <2>3
  <1>7. CASE OpenAttribute
    <2>1. UNCHANGED <<kernelOf, before, refused, rq>> /\ pc = "open"
      BY <1>7 DEF OpenAttribute, Keeps
    <2>2. before' = [cost |-> cost', delay |-> delay'] /\ ~refused'
      BY <1>3, <2>1 DEF CallInv, kernelOf
    <2>3. \/ pc' = "ioctl" /\ rq.op = "setbridge"
          \/ pc' = "write" /\ master[rq.port] # NoBridge
          \/ pc' = "portno"
      BY <1>7 DEF OpenAttribute, Goes
    <2>4. pc' = "write" => master'[rq'.port] # NoBridge
      BY <2>1, <2>3 DEF kernelOf
    <2>5. ~(pc' = "ioctl" /\ rq'.op \in {"setport", "getport"})
      BY <2>1, <2>3
    <2> QED BY <2>2, <2>3, <2>4, <2>5, GoesOn
  <1>8. CASE OpenDirectory
    <2>1. UNCHANGED <<kernelOf, before, refused, rq>> /\ pc = "open"
      BY <1>8 DEF OpenDirectory, Keeps
    <2>2. before' = [cost |-> cost', delay |-> delay'] /\ ~refused'
      BY <1>3, <2>1 DEF CallInv, kernelOf
    <2>3. \/ pc' = "ioctl" /\ rq.op = "getbridge"
          \/ pc' = "ids" /\ HasFiles
          \/ pc' = "portno"
      BY <1>8 DEF OpenDirectory, Goes, HasFiles
    <2>4. HasFiles' = HasFiles
      BY <2>1 DEF HasFiles, kernelOf, There
    <2>5. ~(pc' = "ioctl" /\ rq'.op \in {"setport", "getport"})
      BY <2>1, <2>3
    <2> QED BY <2>2, <2>3, <2>4, <2>5, GoesOn
  <1>9. CASE WriteAttribute
    <2>1. /\ pc = "write" /\ rq.op = "setport" /\ rq' = rq /\ before' = before
          /\ before.cost = cost /\ ~refused
      BY <1>3, <1>5, <1>9 DEF WriteAttribute, PlaceOK, CallInv
    <2>2. \/ cost' = [cost EXCEPT ![rq.port] = rq.cost] /\ ~refused'
          \/ cost' = cost /\ refused'
      BY <1>9, <2>1 DEF WriteAttribute
    <2>3. pc' = "returned" /\ ret' = 0
      BY <1>9 DEF WriteAttribute, Returns
    <2> QED BY <2>1, <2>2, <2>3 DEF CallInv, UndisturbedIsExact
  <1>10. CASE GetPortNo
    <2>1. UNCHANGED <<kernelOf, before, refused, rq>> /\ pc = "portno"
      BY <1>10 DEF GetPortNo, Keeps
    <2>2. CASE pc' = "returned" /\ ret' = -1
      BY <1>4, <2>1, <2>2
    <2>3. CASE pc' = "ioctl" /\ master[rq.port] = rq.br /\ index' = number[rq.port]
      <3>1. rq.br \in Bridges /\ rq.port \in Interfaces
        BY <1>5, <2>1, RequestArguments DEF PlaceOK
      <3>2. Addressed' = {rq'.port}
        BY <2>1, <2>3, <3>1, NumberIsOf DEF kernelOf
      <3>3. before' = [cost |-> cost', delay |-> delay'] /\ ~refused'
        BY <1>3, <2>1 DEF CallInv, kernelOf
      <3> QED BY <2>3, <3>2, <3>3, GoesOn
    <2> QED BY <1>10, <2>2, <2>3 DEF GetPortNo, Goes, Returns, PortNumber
  <1>11. CASE IoctlSet
    <2>1. /\ pc = "ioctl" /\ UNCHANGED <<rq, before, refused>>
          /\ before.cost = cost /\ before.delay = delay /\ ~refused
      BY <1>3, <1>11 DEF IoctlSet, CallInv
    <2>2. CASE ret' = -1
      <3>1. pc' = "returned" /\ ret' # 0
        BY <1>11, <2>2 DEF IoctlSet, Returns
      <3> QED BY <3>1, ReturnsExact
    <2>3. CASE rq.op = "setport" /\ ret' # -1
      <3>1. Addressed = {rq.port}
        BY <1>3, <2>1, <2>3 DEF CallInv
      <3>2. cost' = [cost EXCEPT ![rq.port] = rq.cost] /\ pc' = "returned"
        BY <1>11, <2>3, <3>1 DEF IoctlSet, Returns
      <3> QED BY <2>1, <2>3, <3>2 DEF CallInv, UndisturbedIsExact
    <2>4. CASE rq.op = "setbridge" /\ ret' # -1
      <3>1. delay' = [delay EXCEPT ![rq.br] = JiffiesOf(rq.time)] /\ pc' = "returned"
        BY <1>11, <2>4 DEF IoctlSet, Returns
      <3> QED BY <2>1, <2>4, <3>1 DEF CallInv, UndisturbedIsExact
    <2> QED BY <1>11, <2>2, <2>3, <2>4 DEF IoctlSet
  <1>12. CASE ReadIds
    <2>1. UNCHANGED <<kernelOf, before, refused, rq>> /\ pc = "ids"
      BY <1>12 DEF ReadIds, Keeps
    <2>2. HasFiles
      BY <1>3, <2>1 DEF CallInv
    <2>3. pc' = "integers"
      BY <1>12, <2>2 DEF ReadIds, Goes
    <2>4. HasFiles'
      BY <2>1, <2>2 DEF HasFiles, kernelOf, There
    <2>5. before' = [cost |-> cost', delay |-> delay'] /\ ~refused'
      BY <1>3, <2>1 DEF CallInv, kernelOf
    <2> QED BY <2>3, <2>4, <2>5, GoesOn
  <1>13. CASE ReadIntegers \/ IoctlGet
    <2>1. /\ UNCHANGED <<kernelOf, before, refused, rq>> /\ pc \in {"integers", "ioctl"}
          /\ pc' = "returned" /\ rq.op \in {"getport", "getbridge"}
      BY <1>5, <1>13 DEF ReadIntegers, IoctlGet, Keeps, Returns, PlaceOK
    <2>2. CASE ret' = -1
      BY <1>4, <2>1, <2>2
    <2>3. ASSUME ret' # -1 PROVE IF rq.op = "getport" THEN info' = cost[rq.port]
                                 ELSE rq.br \in There /\ info' = TimeOf(delay[rq.br])
      <3>1. CASE ReadIntegers
        <4>1. HasFiles
          BY <1>3, <3>1 DEF CallInv, ReadIntegers
        <4> QED BY <2>1, <3>1, <4>1 DEF ReadIntegers, HasFiles
      <3>2. CASE IoctlGet
        <4>1. rq.op = "getport" => Addressed = {rq.port}
          BY <1>3, <3>2 DEF CallInv, IoctlGet
        <4> QED BY <2>1, <2>3, <3>2, <4>1 DEF IoctlGet, Returns
      <3> QED BY <1>13, <3>1, <3>2
    <2>4. ASSUME ret' # -1 PROVE CallInv'
      <3>1. CASE rq.op = "getport"
        <4>1. rq'.op = "getport" /\ info' = cost'[rq'.port]
          BY <2>1, <2>3, <2>4, <3>1 DEF kernelOf
        <4> QED BY <2>1, <4>1 DEF CallInv, UndisturbedIsExact
      <3>2. CASE rq.op = "getbridge"
        <4>1. rq.br \in There /\ info' = TimeOf(delay[rq.br])
          BY <2>3, <2>4, <3>2
        <4>2. JiffiesOf(info') = delay[rq.br]
          BY <4>1, TimeThereAndBack DEF KernelOK
        <4>3. rq'.op = "getbridge" /\ JiffiesOf(info') = delay'[rq'.br]
          BY <2>1, <3>2, <4>2 DEF kernelOf
        <4> QED BY <2>1, <4>3 DEF CallInv, UndisturbedIsExact
      <3> QED BY <2>1, <3>1, <3>2
    <2> QED BY <2>2, <2>4
  <1>14. CASE ReadForwarding
    <2>1. UNCHANGED <<kernelOf, before, refused, rq>> /\ pc = "open" /\ rq.op = "fdb"
      BY <1>14 DEF ReadForwarding, Keeps
    <2>2. pc' \in {"open", "returned"}
      BY <1>14 DEF ReadForwarding, Goes, Returns
    <2> QED BY <1>4, <2>1, <2>2
  <1>15. CASE RemovePort
    <2>1. /\ UNCHANGED <<cost, delay, before, refused, rq>> /\ pc \in {"open", "open again"}
          /\ rq.op = "remove"
      BY <1>15 DEF RemovePort
    <2>2. rq.br \in Bridges /\ rq.port \in Interfaces /\ rq.br # NoBridge
      BY <1>5, <2>1, RequestArguments, BridgeLibraryAssumption
    <2>3. CASE pc' = "open again"
      <3>1. before' = [cost |-> cost', delay |-> delay'] /\ ~refused'
        BY <1>3, <2>1 DEF CallInv
      <3> QED BY <2>3, <3>1, GoesOn
    <2>4. CASE pc' = "returned" /\ ret' = -1
      <3>1. ret' # 0
        BY <2>4
      <3> QED BY <2>4, <3>1, ReturnsExact
    <2>5. CASE pc' = "returned" /\ master'[rq'.port] # rq'.br
      BY <2>1, <2>5 DEF CallInv, UndisturbedIsExact
    <2>6. \/ pc' = "open again"
          \/ pc' = "returned" /\ ret' = -1
          \/ pc' = "returned" /\ master' = master /\ master[rq.port] # rq.br
          \/ pc' = "returned" /\ master' = [master EXCEPT ![rq.port] = NoBridge]
      BY <1>15 DEF RemovePort, Goes, Returns
    <2> QED BY <2>1, <2>2, <2>3, <2>4, <2>5, <2>6 DEF KernelOK
  <1> QED BY <1>3, <1>6, <1>7, <1>8, <1>9, <1>10, <1>11, <1>12, <1>13, <1>14, <1>15 DEF BridgeNext

\* A call of libbridge that no other process disturbs, with any bridges, ports, times and
\* costs, by sysfs or by ioctl, does not crash, has set what it says, only that, and in
\* the kernel's units, reports what is so, and removes the interface it is asked to.
THEOREM UndisturbedCallsAreExact == BridgeSpec => []UndisturbedIsExact
  <1>1. BridgeInit => CallInv
    BY DEF BridgeInit, CallInv, UndisturbedIsExact, None
  <1>2. IterationInv /\ CallInv /\ [BridgeNext]_bridgeVars => CallInv'
    BY CallInvStep DEF IterationInv
  <1>3. CallInv => UndisturbedIsExact
    BY DEF CallInv, UndisturbedIsExact
  <1> QED BY <1>1, <1>2, <1>3, IterationKept, PTL DEF BridgeSpec
=============================================================================
