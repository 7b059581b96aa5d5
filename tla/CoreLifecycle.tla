--------------------------- MODULE CoreLifecycle ---------------------------
(***************************************************************************)
(* A whole run of the program: main calls EMPCACore::start, which reads    *)
(* the configuration, sets up DHCP, bridge and libvirt, starts the worker  *)
(* thread, sets up the configured machines, sleeps and returns; then main  *)
(* deletes the core.  The worker thread runs from the middle of start on   *)
(* and sets up machines of its own, so both threads are in                 *)
(* initializeTAPDevice and initializeInterfaceFilter at the same time, and *)
(* neither the counters that number devices and netfilter queues nor the   *)
(* containers both threads add to are protected: a number may be given     *)
(* twice, and of two elements added at once one may be lost.               *)
(*                                                                         *)
(* Each thread is the list of the calls it still has to make (todo); the   *)
(* next machine and an early return replace the list.  What the worker     *)
(* does with a request besides setting the machine up is in                *)
(* RequestPipeline.                                                        *)
(***************************************************************************)
EXTENDS Naturals, Sequences, FiniteSets

CONSTANTS
    OtherVMs,      \* sequence of [on: BOOLEAN, ip: address], the OtherVms of the configuration
    StartIP,       \* IPAddress of StartVm
    DhcpIP,        \* IPAddress of DHCP
    One,           \* the address 0.0.0.1
    IPs,           \* the addresses guests ask for
    Destroy,       \* Destroy of Bridge
    MaxQuestions   \* bound: requests the guests cause altogether

ASSUME LifecycleAssumption ==
    /\ OtherVMs \in Seq([on : BOOLEAN, ip : IPs])
    /\ {StartIP, DhcpIP, One} \subseteq IPs
    /\ Destroy \in BOOLEAN
    /\ MaxQuestions \in Nat

Thread == {"main", "worker"}

Peer(p) == IF p = "main" THEN "worker" ELSE "main"
Counter == {"tap", "queue"}

VARIABLES
    todo,        \* the calls each thread still has to make
    next,        \* index of the configured machine start() sets up next
    current,     \* the machine each thread is setting up
    count,       \* sequential_number_ and queue_number_
    created,     \* the numbers given to the elements of devices_ and interface_filter_
    threads,     \* TAP devices whose tap_thread_ is joinable
    interfaces,  \* numbers of the TAP interfaces the program made
    ports,       \* numbers of the TAP interfaces in the bridge
    nfqueues,    \* netfilter queue numbers that are bound
    served,      \* available_ip_adresses_
    lostIPs,     \* addresses whose insertion there was lost to the other thread's
    vms,         \* what has been pushed to virtual_machines_, in order
    lostEntries, \* places of vms whose element was lost to the other thread's push_back
    queue,       \* requests_, as the addresses asked for
    questions,   \* requests so far (bounded by MaxQuestions)
    up,          \* what start() has set up
    status,      \* what start() has returned
    ended,       \* how the process ended, "no" while it runs
    overlapped   \* counters both threads were using at once

numbers == <<count, created, overlapped>>
kernel == <<threads, interfaces, ports, nfqueues>>
core == <<served, lostIPs, vms, lostEntries, queue, questions>>
vars == <<todo, next, current, numbers, kernel, core, up, status, ended>>

-----------------------------------------------------------------------------
(* The calls, in the order the source makes them.                          *)

Begin == <<"config", "dhcp", "bridge", "virtlib", "template", "spawn", "next">>

OtherSteps == <<"define", "newTap", "countTap", "open", "addTAP", "newQueue", "countQueue",
                "filter", "attach", "boot", "insert", "record", "next">>
StartSteps == <<"prescript", "newTap", "countTap", "open", "addTAP", "define", "newQueue",
                "countQueue", "filter", "attach", "boot", "record", "postscript", "insert",
                "runtime">>
NewSteps == <<"newTap", "countTap", "open", "addTAP", "define", "newQueue", "countQueue",
              "filter", "lease", "boot", "insert", "record">>

Destructor == <<"~bridge", "~virtlib", "~taps", "~filters", "~core">>

Steps == {"config", "dhcp", "bridge", "virtlib", "template", "spawn", "next", "prescript", "define",
          "newTap", "countTap", "open", "addTAP", "newQueue", "countQueue", "filter", "attach",
          "lease", "boot", "insert", "record", "postscript", "runtime",
          "~bridge", "~virtlib", "~taps", "~filters", "~core"}
Statuses == {"none", "OK", "CONFIG_ERROR", "BRIDGE_ERROR", "START_SCRIPT_ERROR", "VIRTLIB_ERROR"}
Ends == {"no", "success", "failure", "assertAddTAP", "assertDomain", "assertQh",
         "terminate", "wildPointer"}
Domains == {"none", "shut", "running"}
Macs == {"read", "null", "wild"}      \* tap_in_mac_: an address, null or not initialised
Machine == [on : BOOLEAN, ip : IPs, tap : Nat, mac : Macs, queue : Nat, domain : Domains]

TypeOK ==
    /\ todo \in [Thread -> Seq(Steps)]
    /\ next \in 1 .. (Len(OtherVMs) + 2)
    /\ current \in [Thread -> Machine]
    /\ count \in [Counter -> Nat]
    /\ created \in [Counter -> Seq(Nat)]
    /\ threads \in Nat
    /\ interfaces \in SUBSET Nat /\ ports \in SUBSET Nat /\ nfqueues \in SUBSET Nat
    /\ served \in SUBSET IPs /\ lostIPs \in SUBSET IPs
    /\ vms \in Seq(Machine) /\ lostEntries \in SUBSET Nat
    /\ queue \in Seq(IPs)
    /\ questions \in 0 .. MaxQuestions
    /\ up \in SUBSET {"config", "dhcp", "bridgeManager", "bridge", "virtlib", "worker"}
    /\ status \in Statuses /\ ended \in Ends
    /\ overlapped \in SUBSET Counter

NoMachine == [on |-> FALSE, ip |-> One, tap |-> 0, mac |-> "wild", queue |-> 0,
              domain |-> "none"]

Init ==
    /\ todo = [p \in Thread |-> IF p = "main" THEN Begin ELSE << >>]
    /\ next = 1
    /\ current = [p \in Thread |-> NoMachine]
    /\ count = [c \in Counter |-> 0]
    /\ created = [c \in Counter |-> << >>]
    /\ threads = 0
    /\ interfaces = {} /\ ports = {} /\ nfqueues = {}
    /\ served = {} /\ lostIPs = {} /\ vms = << >> /\ lostEntries = {}
    /\ queue = << >> /\ questions = 0
    /\ up = {} /\ status = "none" /\ ended = "no" /\ overlapped = {}

-----------------------------------------------------------------------------
(* Pieces of the actions.  An F_ definition is a fault in the definition   *)
(* after it, kept to show that some property notices it.                   *)

At(p, step) == ended = "no" /\ todo[p] # << >> /\ Head(todo[p]) = step
Both(step) == \A p \in Thread : At(p, step)
Advance(p) == todo' = [todo EXCEPT ![p] = Tail(@)] /\ UNCHANGED <<status, ended>>
Abort(why) == ended' = why /\ UNCHANGED <<todo, status>>

\* start() returns early and main deletes the core.
Return(st) ==
    /\ status' = st
    /\ todo' = [todo EXCEPT !["main"] = Destructor]
    /\ UNCHANGED ended

\* getOtherVMs stores isUInt() of the validated address: true, converted to 1.
OtherVMAddress(i) == One

\* The elements start() sets up: OtherVMs in order, then StartVm.
Template(i) ==
    IF i \in DOMAIN OtherVMs
    THEN [NoMachine EXCEPT !.on = OtherVMs[i].on, !.ip = OtherVMAddress(i)]
    ELSE [NoMachine EXCEPT !.on = TRUE, !.ip = StartIP]

\* a device has two interfaces
Increment(c) == IF c = "tap" THEN 2 ELSE 1
F_Advanced(c, seen) == seen                               \* the increment is missing
Advanced(c, seen) == seen + Increment(c)

\* assert(bridge_manager_->addTAP(...))
F_AddTAPFails(p) == Advance(p)                            \* built with NDEBUG
AddTAPFails(p) == Abort("assertAddTAP")

\* only the main thread minds that startVM fails
F_BootFails(p) == Advance(p)                              \* handleStartVM does not either
BootFails(p) == IF p = "main" THEN Return("VIRTLIB_ERROR") ELSE Advance(p)

Counting(p, c) ==
    todo[p] # << >> /\ Head(todo[p]) = IF c = "tap" THEN "countTap" ELSE "countQueue"

-----------------------------------------------------------------------------
(* EMPCACore::start on the main thread, up to the worker.                  *)

ReadConfig ==
    /\ At("main", "config")
    /\ \/ up' = up \cup {"config"} /\ Advance("main")
       \/ up' = up /\ Return("CONFIG_ERROR")
    /\ UNCHANGED <<next, current, numbers, kernel, core>>

F_HandleDHCP ==                                           \* the status is dropped
    /\ At("main", "dhcp")
    /\ up' \in {up, up \cup {"dhcp"}} /\ served' = served \cup {DhcpIP} /\ Advance("main")
    /\ UNCHANGED <<next, current, numbers, kernel, lostIPs, vms, lostEntries, queue, questions>>

HandleDHCP ==
    /\ At("main", "dhcp")
    /\ \/ up' = up \cup {"dhcp"} /\ served' = served \cup {DhcpIP} /\ Advance("main")
       \/ UNCHANGED <<up, served>> /\ Return("CONFIG_ERROR")
    /\ UNCHANGED <<next, current, numbers, kernel, lostIPs, vms, lostEntries, queue, questions>>

\* BridgeManager::init; the object exists also when it fails.
InitBridge ==
    /\ At("main", "bridge")
    /\ \/ up' = up \cup {"bridgeManager", "bridge"} /\ Advance("main")
       \/ up' = up \cup {"bridgeManager"} /\ Return("BRIDGE_ERROR")
    /\ UNCHANGED <<next, current, numbers, kernel, core>>

InitVirtlib ==
    /\ At("main", "virtlib")
    /\ \/ up' = up \cup {"virtlib"} /\ Advance("main")
       \/ up' = up /\ Return("VIRTLIB_ERROR")
    /\ UNCHANGED <<next, current, numbers, kernel, core>>

HandleStandardTemplate ==
    /\ At("main", "template")
    /\ Advance("main") \/ Return("CONFIG_ERROR")
    /\ UNCHANGED <<next, current, numbers, kernel, core, up>>

SpawnWorker ==
    /\ At("main", "spawn")
    /\ up' = up \cup {"worker"} /\ Advance("main")
    /\ UNCHANGED <<next, current, numbers, kernel, core>>

-----------------------------------------------------------------------------
(* Setting a machine up: handleOtherVMs and handleStartVM on the main      *)
(* thread, handleRequest and initializeNewVM on the worker.                *)

NextTemplate ==
    /\ At("main", "next")
    /\ current' = [current EXCEPT !["main"] = Template(next)]
    /\ next' = next + 1
    /\ todo' = [todo EXCEPT !["main"] = IF next \in DOMAIN OtherVMs THEN OtherSteps ELSE StartSteps]
    /\ UNCHANGED <<numbers, kernel, core, up, status, ended>>

\* pre_script_ and post_script_ of StartVm
RunScript ==
    /\ At("main", "prescript") \/ At("main", "postscript")
    /\ Advance("main") \/ Return("START_SCRIPT_ERROR")
    /\ UNCHANGED <<next, current, numbers, kernel, core, up>>

\* requests_.pop(rq)
PopRequest ==
    /\ ended = "no" /\ "worker" \in up
    /\ todo["worker"] = << >> /\ queue # << >>
    /\ queue' = Tail(queue)
    /\ todo' = [todo EXCEPT !["worker"] = NewSteps]
    /\ current' = [current EXCEPT !["worker"] = [NoMachine EXCEPT !.on = TRUE, !.ip = Head(queue)]]
    /\ UNCHANGED <<next, numbers, kernel, served, lostIPs, vms, lostEntries, questions,
                   up, status, ended>>

\* createNewTapDevice and createNewInterfaceFilter read the counter ...
GiveNumber(p, c) ==
    /\ At(p, IF c = "tap" THEN "newTap" ELSE "newQueue")
    /\ current' = [current EXCEPT ![p] = IF c = "tap" THEN [@ EXCEPT !.tap = count[c]]
                                                    ELSE [@ EXCEPT !.queue = count[c]]]
    /\ overlapped' = overlapped \cup (IF Counting(Peer(p), c) THEN {c} ELSE {})
    /\ Advance(p)
    /\ UNCHANGED <<next, count, created, kernel, core, up>>

\* ... and then advance it, an addition that is not atomic: it may be made to
\* the value this thread saw before the other one added its own.  Beside the other
\* one's push_back the new element of devices_ or interface_filter_ may be lost.
Count(p, c) ==
    /\ At(p, IF c = "tap" THEN "countTap" ELSE "countQueue")
    /\ LET number == IF c = "tap" THEN current[p].tap ELSE current[p].queue
       IN /\ \E seen \in {count[c], number} : count' = [count EXCEPT ![c] = Advanced(c, seen)]
          /\ \/ created' = [created EXCEPT ![c] = Append(@, number)]
             \/ Counting(Peer(p), c) /\ UNCHANGED created
    /\ Advance(p)
    /\ UNCHANGED <<next, current, overlapped, kernel, core, up>>

\* TAPDevice::start.  Its result is ignored, and so is that of openTAP, which may
\* open either interface or none; an open one reads the address of the first.
\* up() asks for both by name, whoever opened them.  When it fails, closeTAP
\* gives them up only if it finds both and has both open.
OpenTap(p) ==
    /\ At(p, "open")
    /\ LET pair == {current[p].tap, current[p].tap + 1}
       IN \E opened \in SUBSET (pair \ interfaces) :
            LET there == interfaces \cup opened
                mac == IF opened = {} THEN "wild"
                       ELSE IF current[p].tap \in there THEN "read" ELSE "null"
            IN /\ current' = [current EXCEPT ![p].mac = mac]
               /\ \/ pair \subseteq there /\ interfaces' = there /\ threads' = threads + 1
                  \/ interfaces' = there /\ threads' = threads
                  \/ opened = pair /\ UNCHANGED <<interfaces, threads>>
    /\ Advance(p)
    /\ UNCHANGED <<next, numbers, ports, nfqueues, core, up>>

\* assert(bridge_manager_->addTAP(...)); a port of the bridge is no error.
AddTAP(p) ==
    /\ At(p, "addTAP")
    /\ LET out == current[p].tap + 1
       IN \/ out \in interfaces /\ "bridge" \in up /\ ports' = ports \cup {out} /\ Advance(p)
          \/ ports' = ports /\ AddTAPFails(p)
    /\ UNCHANGED <<next, current, numbers, threads, interfaces, nfqueues, core, up>>

\* createInterfaceDefinition copies the MAC address: a null pointer ends the
\* process, one that is not initialised may.
CopyMac(p) == current[p].mac # "null"
CopyMacDies(p) == current[p].mac # "read" /\ Abort("wildPointer")

\* virDomainDefineXML, for the worker in createNewVM after the text of the interface
Define(p) ==
    /\ At(p, "define")
    /\ \/ /\ p = "worker" => CopyMac(p)
          /\ \E d \in {"none", "shut"} : current' = [current EXCEPT ![p].domain = d]
          /\ Advance(p)
       \/ p = "worker" /\ UNCHANGED current /\ CopyMacDies(p)
    /\ UNCHANGED <<next, numbers, kernel, core, up>>

\* InterfaceFilter::start: the kernel binds a queue number once.  Whether it is
\* bound or start() fails before or after, the result is ignored.
StartFilter(p) ==
    /\ At(p, "filter")
    /\ LET number == current[p].queue
       IN \/ number \notin nfqueues /\ nfqueues' = nfqueues \cup {number} /\ Advance(p)
          \/ number \in nfqueues /\ nfqueues' = nfqueues /\ Abort("assertQh")
          \/ nfqueues' = nfqueues /\ Advance(p)
    /\ UNCHANGED <<next, current, numbers, threads, interfaces, ports, core, up>>

\* assert(domain_ != 0), addTapToDomain
Attach ==
    /\ At("main", "attach")
    /\ IF current["main"].domain = "none" THEN Abort("assertDomain")
       ELSE \/ CopyMac("main") /\ (Advance("main") \/ Return("VIRTLIB_ERROR"))
            \/ CopyMacDies("main")
    /\ UNCHANGED <<next, current, numbers, kernel, core, up>>

\* DHCPHandler::addHosts
Lease ==
    /\ At("worker", "lease")
    /\ Advance("worker")
    /\ UNCHANGED <<next, current, numbers, kernel, core, up>>

\* startVM, unless AlwaysOn is unset
Boot(p) ==
    /\ At(p, "boot")
    /\ \/ /\ current[p].on /\ current[p].domain = "shut"
          /\ current' = [current EXCEPT ![p].domain = "running"]
          /\ Advance(p)
       \/ UNCHANGED current /\ ~current[p].on /\ Advance(p)
       \/ UNCHANGED current /\ current[p].on /\ BootFails(p)
    /\ UNCHANGED <<next, numbers, kernel, core, up>>

\* addIP: two insertions at once may end in one.
Insert(p) ==
    /\ At(p, "insert")
    /\ \/ served' = served \cup {current[p].ip} /\ UNCHANGED lostIPs
       \/ Both("insert") /\ lostIPs' = lostIPs \cup {current[p].ip} /\ UNCHANGED served
    /\ Advance(p)
    /\ UNCHANGED <<next, current, numbers, kernel, vms, lostEntries, queue, questions, up>>

\* virtual_machines_.push_back: of two at once one may be lost.
Record(p) ==
    /\ At(p, "record")
    /\ vms' = Append(vms, current[p])
    /\ \/ UNCHANGED lostEntries
       \/ Both("record") /\ lostEntries' = lostEntries \cup {Len(vms) + 1}
    /\ Advance(p)
    /\ UNCHANGED <<next, current, numbers, kernel, served, lostIPs, queue, questions, up>>

\* A running guest asks for an address nobody serves: TAPDevice::createRequest.
Question(ip) ==
    /\ ended = "no" /\ threads > 0 /\ questions < MaxQuestions
    /\ \E m \in {vms[i] : i \in DOMAIN vms} \cup {current[p] : p \in Thread} : m.domain = "running"
    /\ ip \notin served
    /\ queue' = Append(queue, ip)
    /\ questions' = questions + 1
    /\ UNCHANGED <<todo, next, current, numbers, kernel, served, lostIPs, vms, lostEntries,
                   up, status, ended>>

-----------------------------------------------------------------------------
(* handleRuntime and the end of the process.                               *)

HandleRuntime ==
    /\ At("main", "runtime")
    /\ Return("OK")
    /\ UNCHANGED <<next, current, numbers, kernel, core, up>>

\* ~EMPCACore asks a configuration it may not have read, and a pointer start()
\* may not have set, to shut the bridge down.
DestroyBridge ==
    /\ At("main", "~bridge")
    /\ \E destroy \in (IF "config" \in up THEN {Destroy} ELSE BOOLEAN) :
         IF ~destroy THEN UNCHANGED <<up, ports>> /\ Advance("main")
         ELSE IF "bridgeManager" \in up
              THEN /\ \/ up' = up \ {"bridge"} /\ ports' = {}
                      \/ UNCHANGED <<up, ports>>
                   /\ Advance("main")
              ELSE UNCHANGED <<up, ports>> /\ Abort("wildPointer")
    /\ UNCHANGED <<next, current, numbers, threads, interfaces, nfqueues, core>>

\* ~VirtlibConnection shuts every domain down.  Without a connection libvirt
\* counts -1 of them, and new int[-1] throws inside a destructor.
DeleteVirtlib ==
    /\ At("main", "~virtlib")
    /\ IF "virtlib" \in up THEN up' = up \ {"virtlib"} /\ Advance("main")
       ELSE up' = up /\ Abort("terminate")
    /\ UNCHANGED <<next, current, numbers, kernel, core>>

\* ~TAPDevice destroys tap_thread_, which is still joinable, unless its device is
\* one that devices_ lost.  What closeTAP gives back is in HostInterfaces.
DeleteTaps ==
    /\ At("main", "~taps")
    /\ \/ threads > 0 /\ Abort("terminate")
       \/ (threads = 0 \/ "tap" \in overlapped) /\ Advance("main")
    /\ UNCHANGED <<next, current, numbers, kernel, core, up>>

\* ~FilterManager deletes the rules, none, and no InterfaceFilter.  dhcp_handler_,
\* deleted next, is set whenever this point is reached.
DeleteFilters ==
    /\ At("main", "~filters")
    /\ Advance("main")
    /\ UNCHANGED <<next, current, numbers, kernel, core, up>>

\* worker_thread_ is a member of the core and never joined.
DeleteCore ==
    /\ At("main", "~core")
    /\ Abort(IF "worker" \in up THEN "terminate"
             ELSE IF status = "OK" THEN "success" ELSE "failure")
    /\ UNCHANGED <<next, current, numbers, kernel, core, up>>

\* Both threads in one unprotected container, or the worker in a deleted object.
Crash ==
    /\ ended = "no"
    /\ todo["worker"] # << >> /\ todo["main"] # << >>
    /\ \/ /\ Head(todo["main"]) = Head(todo["worker"])
          /\ Head(todo["main"]) \in {"countTap", "countQueue", "insert", "record"}
       \/ Head(todo["main"]) \in {"~taps", "~filters", "~core"}
    /\ Abort("wildPointer")
    /\ UNCHANGED <<next, current, numbers, kernel, core, up>>

-----------------------------------------------------------------------------
MachineStep(p) ==
    \/ \E c \in Counter : GiveNumber(p, c) \/ Count(p, c)
    \/ OpenTap(p) \/ AddTAP(p) \/ Define(p) \/ StartFilter(p) \/ Boot(p) \/ Insert(p) \/ Record(p)

MainStep ==
    \/ ReadConfig \/ HandleDHCP \/ InitBridge \/ InitVirtlib \/ HandleStandardTemplate
    \/ SpawnWorker \/ NextTemplate \/ RunScript \/ MachineStep("main") \/ Attach
    \/ HandleRuntime \/ DestroyBridge \/ DeleteVirtlib \/ DeleteTaps \/ DeleteFilters \/ DeleteCore

WorkerStep == PopRequest \/ Lease \/ MachineStep("worker")

Next == MainStep \/ WorkerStep \/ Crash \/ \E ip \in IPs : Question(ip)

Spec == Init /\ [][Next]_vars

-----------------------------------------------------------------------------
(* Properties.                                                             *)

\* createNewTapDevice and createNewInterfaceFilter number consecutively as long
\* as the two threads were never inside the same one together.  That race alone makes
\* assert(qh_ != 0) of InterfaceFilter::start fail, if the kernel grants every queue
\* number that is free.
NumbersUnique ==
    /\ \A c \in Counter \ overlapped :
          /\ created[c] = [i \in 1 .. Len(created[c]) |-> (i - 1) * Increment(c)]
          /\ \A p \in Thread : Counting(p, c) =>
                (IF c = "tap" THEN current[p].tap ELSE current[p].queue) = count[c]
    /\ ended = "assertQh" => "queue" \in overlapped

\* While start() runs, the worker has everything handleRequest dereferences:
\* start() spawns it late enough.
WorkerHasItsTools ==
    todo["worker"] # << >> /\ status = "none"
        => {"config", "dhcp", "bridgeManager", "bridge", "virtlib"} \subseteq up

\* STATUS::OK means that the addresses of DHCP and StartVm are registered and that
\* every configured machine has been put into virtual_machines_, in a place of its
\* own, and is running there if it should be.  Only what the other thread's insertion
\* or push_back at the same moment overwrote may be missing.
OkMeansComplete ==
    status = "OK" =>
        /\ DhcpIP \in served /\ StartIP \in served \cup lostIPs
        /\ \E entry \in [1 .. (Len(OtherVMs) + 1) -> DOMAIN vms] :
              /\ \A i, j \in DOMAIN entry : i # j => entry[i] # entry[j]
              /\ \A i \in DOMAIN entry :
                    \/ entry[i] \in lostEntries
                    \/ vms[entry[i]].domain =
                          IF i \in DOMAIN OtherVMs /\ ~OtherVMs[i].on THEN "shut" ELSE "running"

\* While start() runs, an address is registered only for a machine whose outer TAP
\* interface is a port of the bridge, or for the DHCP server, though nobody looks
\* whether its device could be started.
ServedHasMachine ==
    status = "none" => \A ip \in served \ {DhcpIP} :
        \E m \in {vms[i] : i \in DOMAIN vms} \cup {current[p] : p \in Thread} :
            m.ip = ip /\ m.tap + 1 \in ports

(* What the repository says of the program, and the code does not keep.    *)

\* example/simple_example.json:12 gives an address for each of the OtherVms:
\* once start() has set them all up they are known addresses.
OtherVMsServed == status = "OK" => \A i \in DOMAIN OtherVMs : OtherVMs[i].ip \in served

\* EMPCACore.cpp:290 tells the user to press enter to exit: start() returns OK
\* then and main returns EXIT_SUCCESS.
ExitsWhenDone == status = "OK" => ended \in {"no", "success"}
=============================================================================
