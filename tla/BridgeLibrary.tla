--------------------------- MODULE BridgeLibrary ---------------------------
(***************************************************************************)
(* libbridge: what its functions report and change while other processes   *)
(* change the bridges.  Every function tries sysfs first and falls back to *)
(* ioctls, where a port is a number in its bridge.  One step is one access *)
(* to the kernel.  The names of the definitions keep apart from those of   *)
(* the modules this one is checked with.                                   *)
(***************************************************************************)
EXTENDS Integers, Sequences, FiniteSets

CONSTANTS
    Bridges, Interfaces, \* names
    Times,               \* delays a caller sets, as [sec, usec]
    Costs,               \* path costs a caller sets
    MaxChanges           \* bound: changes by other processes

NoBridge == "no bridge"
Second == 1000 * 1000 \* in microseconds
Jiffy == 10000

ASSUME BridgeLibraryAssumption ==
    /\ IsFiniteSet(Bridges) /\ IsFiniteSet(Interfaces) /\ NoBridge \notin Bridges
    /\ Times \subseteq [sec : Nat, usec : 0 .. Second - 1] /\ Costs \subseteq Nat
    /\ MaxChanges \in Nat

Retries == 10

VARIABLES
    \* the kernel
    sysfs,    \* /sys is mounted
    present,  \* interfaces that exist
    master,   \* the bridge each interface is a port of
    number,   \* its number there
    delay,    \* forward delay of each bridge that exists, in jiffies
    cost,     \* path cost of each interface
    changes,
    \* the call
    rq,       \* what was called and with what
    pc, ret,
    todo, visited, stopped, \* br_foreach_bridge, br_foreach_port
    index,    \* what get_portno found
    info,     \* what br_get_bridge_info and br_get_port_info report
    tries,    \* of br_read_fdb
    \* observations
    before,   \* the kernel's values when the call began
    steady,   \* what was to be visited then and has been there since
    disturbed,\* something changed since
    refused   \* the kernel has refused a value

kernelOf == <<sysfs, present, master, number, delay, cost>>
callVars == <<rq, pc, ret, todo, visited, stopped, index, info, tries>>
bridgeVars == <<kernelOf, changes, callVars, before, steady, disturbed, refused>>

There == DOMAIN delay
PortsOf(b) == {i \in Interfaces : master[i] = b}
None == "none"

-----------------------------------------------------------------------------
(* libbridge_private.h.  An F_ definition is a fault in the definition     *)
(* after it, kept to show that some property notices it.                   *)

JiffiesOf(t) == (Second * t.sec + t.usec) \div Jiffy
TimeOf(j) == LET sec == (Jiffy * j) \div Second
             IN [sec |-> sec, usec |-> Jiffy * j - Second * sec]

\* fetch_int gives -1 for a file that is not there; as a time that is 10000 * (2^64 - 1).
Absurd == "absurd"

-----------------------------------------------------------------------------
BridgeInit ==
    /\ sysfs \in BOOLEAN /\ present = Interfaces /\ changes = 0
    /\ \E b \in Bridges : master = [i \in Interfaces |-> b]
    /\ number \in {f \in [Interfaces -> 1 .. Cardinality(Interfaces)] :
                      \A i, j \in Interfaces : i # j => f[i] # f[j]}
    /\ delay = [b \in Bridges |-> 0] /\ cost = [i \in Interfaces |-> 0]
    /\ rq = [op |-> None] /\ pc = "returned" /\ ret = 0
    /\ todo = {} /\ visited = << >> /\ stopped = FALSE
    /\ index = 0 /\ info = None /\ tries = 0
    /\ before = [cost |-> cost, delay |-> delay] /\ steady = {}
    /\ disturbed = FALSE /\ refused = FALSE

Goes(where) == pc' = where /\ UNCHANGED ret
Returns(value) == pc' = "returned" /\ ret' = value
Keeps(v) == UNCHANGED <<v, kernelOf, changes, before, steady, disturbed, rq>>

\* What callers pass: ports are named with a bridge they may not be in.
Request ==
    [op : {"bridges"}]
    \cup [op : {"ports", "getbridge", "fdb"}, br : Bridges]
    \cup [op : {"setbridge"}, br : Bridges, time : Times]
    \cup [op : {"getport", "remove"}, br : Bridges, port : Interfaces]
    \cup [op : {"setport"}, br : Bridges, port : Interfaces, cost : Costs]

CallLibrary ==
    /\ pc = "returned"
    /\ rq' \in Request
    /\ pc' = "open" /\ ret' = 0 /\ todo' = {} /\ visited' = << >> /\ stopped' = FALSE
    /\ index' = 0 /\ info' = None /\ tries' = 0
    /\ before' = [cost |-> cost, delay |-> delay]
    /\ steady' = CASE rq'.op = "bridges" -> There [] rq'.op = "ports" -> PortsOf(rq'.br)
                   [] OTHER -> {}
    /\ disturbed' = FALSE /\ refused' = FALSE
    /\ UNCHANGED <<kernelOf, changes>>

-----------------------------------------------------------------------------
(* br_foreach_bridge and br_foreach_port                                   *)

\* Also without any bridge the old interface is asked.  scandir finds "." and ".."
\* in brif, and they are counted, though not visited.
ListSysfs ==
    /\ pc = "open" /\ rq.op \in {"bridges", "ports"}
    /\ LET found == IF rq.op = "bridges" THEN There ELSE PortsOf(rq.br)
           usable == sysfs /\ (IF rq.op = "bridges" THEN There # {} ELSE rq.br \in There)
       IN IF usable
          THEN /\ todo' = found /\ pc' = "each"
               /\ ret' = Cardinality(found) + (IF rq.op = "ports" THEN 2 ELSE 0)
          ELSE Goes("open old") /\ UNCHANGED todo
    /\ Keeps(<<visited, stopped, index, info, tries, refused>>)

ListOld ==
    /\ pc = "open old"
    /\ \/ /\ IF rq.op = "bridges" THEN TRUE ELSE rq.br \in There
          /\ todo' = (IF rq.op = "bridges" THEN There ELSE PortsOf(rq.br))
          /\ pc' = "each old" /\ ret' = 0
       \/ Returns(-1) /\ UNCHANGED todo
    /\ Keeps(<<visited, stopped, index, info, tries, refused>>)

\* The iterator may stop.
Visit(x) ==
    /\ visited' = Append(visited, x) /\ todo' = todo \ {x}
    /\ stopped' \in BOOLEAN
    /\ pc' = IF stopped' THEN "returned" ELSE pc
VisitNew ==
    /\ pc = "each"
    /\ \/ \E x \in todo : Visit(x)
       \/ todo = {} /\ pc' = "returned" /\ UNCHANGED <<todo, visited, stopped>>
    /\ UNCHANGED ret /\ Keeps(<<index, info, tries, refused>>)

\* The old interface gives numbers.  A port whose name is gone is left out; a bridge
\* whose name is gone ends the iteration with an error.
F_SkipGone(x) == todo' = {} /\ UNCHANGED <<pc, ret>>      \* break instead of continue
SkipGone(x) == todo' = todo \ {x} /\ UNCHANGED <<pc, ret>>

VisitOld ==
    /\ pc = "each old"
    /\ \/ \E x \in todo :
            IF x \in present \cup There THEN Visit(x) /\ ret' = ret + 1
            ELSE /\ IF rq.op = "ports" THEN SkipGone(x) ELSE Returns(-1) /\ UNCHANGED todo
                 /\ UNCHANGED <<visited, stopped>>
       \/ todo = {} /\ Goes("returned") /\ UNCHANGED <<todo, visited, stopped>>
    /\ Keeps(<<index, info, tries, refused>>)

-----------------------------------------------------------------------------
(* get_portno, port_set, br_set, br_get_port_info, br_get_bridge_info      *)

\* port_set: the directory of a port is there in whatever bridge the port is.
\* br_set: the path has no /bridge in it, so that the file never is.
OpenAttribute ==
    /\ pc = "open" /\ rq.op \in {"setport", "setbridge"}
    /\ Goes(IF rq.op = "setbridge" THEN "ioctl"
            ELSE IF sysfs /\ master[rq.port] # NoBridge THEN "write" ELSE "portno")
    /\ Keeps(<<todo, visited, stopped, index, info, tries, refused>>)

\* What is printed to the file is written by fclose, whose result is ignored.
WriteAttribute ==
    /\ pc = "write" /\ Returns(0)
    /\ \/ master[rq.port] # NoBridge /\ cost' = [cost EXCEPT ![rq.port] = rq.cost] /\ UNCHANGED refused
       \/ refused' = TRUE /\ UNCHANGED cost
    /\ UNCHANGED <<sysfs, present, master, number, delay, changes, before, steady, disturbed, rq,
                   todo, visited, stopped, index, info, tries>>

F_PortNumber(i) == number[i] - 1                          \* the list taken to begin at 1
PortNumber(i) == number[i]

\* errno is that of the failed fopen or opendir at the latest.
GetPortNo ==
    /\ pc = "portno"
    /\ IF rq.port \in present /\ rq.br \in There /\ master[rq.port] = rq.br
       THEN Goes("ioctl") /\ index' = PortNumber(rq.port)
       ELSE Returns(-1) /\ UNCHANGED index
    /\ Keeps(<<todo, visited, stopped, info, tries, refused>>)

\* The ioctls address a port by the number it had.
Addressed == {i \in PortsOf(rq.br) : number[i] = index}
IoctlSet ==
    /\ pc = "ioctl" /\ rq.op \in {"setport", "setbridge"}
    /\ \/ /\ rq.op = "setport"
          /\ \E i \in Addressed : cost' = [cost EXCEPT ![i] = rq.cost]
          /\ Returns(0) /\ UNCHANGED delay
       \/ /\ rq.op = "setbridge" /\ rq.br \in There
          /\ delay' = [delay EXCEPT ![rq.br] = JiffiesOf(rq.time)]
          /\ Returns(0) /\ UNCHANGED cost
       \/ Returns(-1) /\ UNCHANGED <<cost, delay>>
    /\ UNCHANGED <<sysfs, present, master, number, changes, before, steady, disturbed, rq, refused,
                   todo, visited, stopped, index, info, tries>>

OpenDirectory ==
    /\ pc = "open" /\ rq.op \in {"getport", "getbridge"}
    /\ Goes(IF rq.op = "getbridge" THEN IF sysfs /\ rq.br \in There THEN "ids" ELSE "ioctl"
            ELSE IF sysfs /\ master[rq.port] # NoBridge THEN "ids" ELSE "portno")
    /\ Keeps(<<todo, visited, stopped, index, info, tries, refused>>)

HasFiles == IF rq.op = "getbridge" THEN rq.br \in There ELSE master[rq.port] # NoBridge

\* fetch_id reads from a null pointer when the file has gone meanwhile ...
ReadIds ==
    /\ pc = "ids" /\ Goes(IF HasFiles THEN "integers" ELSE "crashed")
    /\ Keeps(<<todo, visited, stopped, index, info, tries, refused>>)

\* ... and fetch_int and fetch_tv do not tell.
ReadIntegers ==
    /\ pc = "integers" /\ Returns(0)
    /\ info' = (IF ~HasFiles THEN Absurd
                ELSE IF rq.op = "getport" THEN cost[rq.port] ELSE TimeOf(delay[rq.br]))
    /\ Keeps(<<todo, visited, stopped, index, tries, refused>>)

IoctlGet ==
    /\ pc = "ioctl" /\ rq.op \in {"getport", "getbridge"}
    /\ \/ /\ rq.op = "getport" /\ \E i \in Addressed : info' = cost[i]
          /\ Returns(0)
       \/ /\ rq.op = "getbridge" /\ rq.br \in There /\ info' = TimeOf(delay[rq.br])
          /\ Returns(0)
       \/ Returns(-1) /\ UNCHANGED info
    /\ Keeps(<<todo, visited, stopped, index, tries, refused>>)

-----------------------------------------------------------------------------
\* br_read_fdb: a table that changes is read again, ten times at most.
ReadForwarding ==
    /\ pc = "open" /\ rq.op = "fdb"
    /\ IF rq.br \in There
       THEN \/ Returns(0) /\ UNCHANGED tries
            \/ /\ ~sysfs /\ tries' = tries + 1
               /\ IF tries' < Retries THEN Goes("open") ELSE Returns(-1)
       ELSE Returns(-1) /\ UNCHANGED tries
    /\ Keeps(<<todo, visited, stopped, index, info, refused>>)

\* br_del_interface tries the newer ioctl, then the older one; removeTAP counts an
\* interface or a bridge that is not there, and one that was not in it, as success.
RemovePort ==
    /\ rq.op = "remove" /\ pc \in {"open", "open again"}
    /\ \/ /\ rq.port \in present /\ master[rq.port] = rq.br
          /\ master' = [master EXCEPT ![rq.port] = NoBridge] /\ number' = [number EXCEPT ![rq.port] = 0]
          /\ Returns(0)
       \/ /\ IF pc = "open" /\ rq.port \in present THEN Goes("open again")
             ELSE \/ Returns(-1)
                  \/ master[rq.port] # rq.br /\ Returns(0)
          /\ UNCHANGED <<master, number>>
    /\ UNCHANGED <<sysfs, present, delay, cost, changes, before, steady, disturbed, rq, refused,
                   todo, visited, stopped, index, info, tries>>

-----------------------------------------------------------------------------
(* Other processes.                                                        *)

Free(b) == CHOOSE n \in 1 .. Cardinality(Interfaces) :
              /\ \A i \in PortsOf(b) : number[i] # n
              /\ \A k \in 1 .. (n - 1) : \E i \in PortsOf(b) : number[i] = k
ChangePort(i) ==
    /\ i \in present
    /\ \/ /\ master[i] # NoBridge
          /\ master' = [master EXCEPT ![i] = NoBridge] /\ number' = [number EXCEPT ![i] = 0]
          /\ \/ UNCHANGED present
             \/ present' = present \ {i}
       \/ /\ master[i] = NoBridge
          /\ \E b \in There : /\ master' = [master EXCEPT ![i] = b]
                              /\ number' = [number EXCEPT ![i] = Free(b)]
          /\ UNCHANGED present
    /\ UNCHANGED delay /\ steady' = steady \ {i}
DeleteBridge(b) ==
    /\ delay' = [c \in There \ {b} |-> delay[c]]
    /\ master' = [i \in Interfaces |-> IF master[i] = b THEN NoBridge ELSE master[i]]
    /\ number' = [i \in Interfaces |-> IF master[i] = b THEN 0 ELSE number[i]]
    /\ UNCHANGED present
    /\ steady' = steady \ ({b} \cup PortsOf(b))

Change ==
    /\ pc # "crashed" /\ changes < MaxChanges /\ changes' = changes + 1
    /\ \/ \E i \in Interfaces : ChangePort(i)
       \/ \E b \in There : DeleteBridge(b)
    /\ disturbed' = TRUE
    /\ UNCHANGED <<sysfs, cost, callVars, before, refused>>

BridgeNext ==
    \/ CallLibrary \/ ListSysfs \/ ListOld \/ VisitNew \/ VisitOld
    \/ OpenAttribute \/ WriteAttribute \/ GetPortNo \/ IoctlSet
    \/ OpenDirectory \/ ReadIds \/ ReadIntegers \/ IoctlGet
    \/ ReadForwarding \/ RemovePort \/ Change

BridgeSpec == BridgeInit /\ [][BridgeNext]_bridgeVars

-----------------------------------------------------------------------------
(* Properties.                                                             *)

\* A call that no other process disturbs is exact: it does not crash; what it says it
\* has set is set, in the kernel's units, and nothing else is, unless sysfs refused
\* the value; what it reports is so; a removed interface is not in the bridge.
UndisturbedIsExact ==
    ~disturbed =>
        /\ pc # "crashed"
        /\ pc = "returned" /\ ret = 0 =>
             CASE rq.op = "setport" ->
                    /\ ~refused => cost = [before.cost EXCEPT ![rq.port] = rq.cost]
                    /\ refused => cost = before.cost
               [] rq.op = "setbridge" ->
                    delay = [before.delay EXCEPT ![rq.br] = JiffiesOf(rq.time)]
               [] rq.op = "getbridge" -> JiffiesOf(info) = delay[rq.br]
               [] rq.op = "getport" -> info = cost[rq.port]
               [] rq.op = "remove" -> master[rq.port] # rq.br
               [] OTHER -> TRUE

\* Whatever changes meanwhile, an iteration visits nothing twice, and one that the
\* iterator does not stop and that reports no error visits all that was there throughout.
EachOnce ==
    /\ \A i, j \in DOMAIN visited : visited[i] = visited[j] => i = j
    /\ pc = "returned" /\ ~stopped /\ ret >= 0 =>
          steady \subseteq {visited[i] : i \in DOMAIN visited}
=============================================================================
