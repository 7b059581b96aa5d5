--------------------------- MODULE HostInterfaces ---------------------------
(***************************************************************************)
(* The network interfaces of the host: TAPDevice (start, stop, openTAP,    *)
(* closeTAP, up, down, the destructor), BridgeManager (init, shutdown,     *)
(* addTAP) with the functions of libbridge and libnettools behind them,    *)
(* and the kernel, which other processes use too.                          *)
(*                                                                         *)
(* A TAP device has two interfaces, "in" towards the guest and "out"       *)
(* towards the bridge.  Each step of a device or of the bridge manager is  *)
(* one system call; what the result of a call makes the code do is kept in *)
(* todo, the calls a method still has to make.  Devices are set up by the  *)
(* main thread and by the worker, so their calls interleave.               *)
(***************************************************************************)
EXTENDS Naturals, Sequences

CONSTANTS
    Devices,     \* TAPDevice objects, with different numbers
    MaxMeddling  \* bound: what other processes do to interfaces and bridge

ASSUME HostAssumption == MaxMeddling \in Nat

Sides == {"in", "out"}
Iface == Devices \X Sides
Both(d) == {<<d, "in">>, <<d, "out">>}

VARIABLES
    \* the kernel
    link,       \* who has each interface: nobody (there is none), this process,
                \* another process, or nobody although it is there (persistent)
    persistent, \* interfaces that outlive their descriptor
    flags,      \* IFF_UP and IFF_PROMISC of each interface
    master,     \* the bridge each interface is a port of: ours or another
    bridge,     \* our bridge: absent, down or up
    \* TAPDevice
    fd,         \* device_in_ and device_out_
    thread,     \* devices whose tap_thread_ runs
    phase,      \* the last method called on each device and what it returned
    todo,       \* the calls the method has still to make
    \* BridgeManager
    init_,
    bphase,     \* the last method called and what it returned
    \* the process
    skfd,       \* the control socket of libnettools is open
    ended,      \* how the process ended, "no" while it runs
    \* observations
    meddling,   \* how often other processes interfered (bounded by MaxMeddling)
    strange,    \* interfaces another process has ever owned, left behind or enslaved
    meddled,    \* another process has changed the bridge since createBridge
    found,      \* the bridge was there before createBridge
    refused,    \* devices of which if_down failed on an interface that was there
    unknown     \* br_del_bridge failed with an error deleteBridge does not know

kernelVars == <<link, persistent, flags, master, bridge>>
deviceVars == <<fd, thread, phase, todo>>
managerVars == <<init_, bphase>>
processVars == <<skfd, ended>>
history == <<meddling, strange, meddled, found, refused, unknown>>
vars == <<kernelVars, deviceVars, managerVars, processVars, history>>

Links == {"none", "ours", "foreign", "free"}
Phases == {"new", "starting", "started", "failed", "placed", "stopping", "stopped",
           "stop failed", "deleting", "deleted"}
BridgePhases == {"new", "socket", "created", "undo", "init failed", "ready", "closing",
                 "deleting", "closed", "close failed"}
Calls == ({"open", "promisc", "up", "down"} \X Sides)
            \cup ({"run", "cancel", "unpersist", "close", "destroy"} \X {"both"})

TypeOK ==
    /\ link \in [Iface -> Links]
    /\ persistent \in SUBSET Iface
    /\ flags \in [Iface -> SUBSET {"up", "promisc"}]
    /\ master \in [Iface -> {"none", "ours", "other"}]
    /\ bridge \in {"absent", "down", "up"}
    /\ fd \in [Iface -> {"unset", "bad", "open"}]
    /\ thread \in SUBSET Devices
    /\ phase \in [Devices -> Phases]
    /\ todo \in [Devices -> Seq(Calls)]
    /\ init_ \in BOOLEAN
    /\ bphase \in BridgePhases
    /\ skfd \in BOOLEAN
    /\ ended \in {"no", "assert addTAP", "terminate", "wild pointer", "exit"}
    /\ meddling \in 0 .. MaxMeddling
    /\ strange \in SUBSET Iface
    /\ meddled \in BOOLEAN /\ found \in BOOLEAN
    /\ refused \in SUBSET Devices /\ unknown \in BOOLEAN

\* Other processes may have left interfaces of our names, and our bridge, behind.
Init ==
    /\ link \in [Iface -> {"none", "foreign", "free"}]
    /\ persistent = {i \in Iface : link[i] = "free"}
    /\ flags = [i \in Iface |-> {}]
    /\ master = [i \in Iface |-> "none"]
    /\ bridge \in {"absent", "down", "up"}
    /\ fd = [i \in Iface |-> "unset"]
    /\ thread = {}
    /\ phase = [d \in Devices |-> "new"]
    /\ todo = [d \in Devices |-> << >>]
    /\ init_ = FALSE /\ bphase = "new"
    /\ skfd = FALSE /\ ended = "no"
    /\ meddling = 0
    /\ strange = {i \in Iface : link[i] # "none"}
    /\ meddled = FALSE /\ found = (bridge # "absent")
    /\ refused = {} /\ unknown = FALSE

-----------------------------------------------------------------------------
(* The calls of each method.  An F_ definition is a fault in the           *)
(* definition after it, kept to show that some property notices it.        *)

StartCalls == <<<<"open", "in">>, <<"open", "out">>, <<"promisc", "in">>, <<"up", "in">>,
                <<"promisc", "out">>, <<"up", "out">>, <<"run", "both">>>>
CloseCalls == <<<<"down", "in">>, <<"down", "out">>, <<"unpersist", "both">>, <<"close", "both">>>>
StopCalls == <<<<"cancel", "both">>, <<"down", "in">>, <<"down", "out">>,
               <<"down", "in">>, <<"down", "out">>, <<"unpersist", "both">>, <<"close", "both">>>>
DestroyCalls == <<<<"destroy", "both">>>>

At(d, call, side) == ended = "no" /\ todo[d] # << >> /\ Head(todo[d]) = <<call, side>>
Advance(d) == todo' = [todo EXCEPT ![d] = Tail(@)] /\ UNCHANGED phase
Goto(d, calls) == todo' = [todo EXCEPT ![d] = calls] /\ UNCHANGED phase

\* up() has returned false: start() closes the device and returns false.
F_UpFails(d) == Advance(d)                                \* the result is ignored
F_UpFailsOpen(d) ==                                       \* closeTAP is not called
    phase' = [phase EXCEPT ![d] = "failed"] /\ todo' = [todo EXCEPT ![d] = << >>]
UpFails(d) == Goto(d, CloseCalls)

\* closeTAP has returned, into start(), stop() or the destructor.
Outcome(ph, ok) ==
    CASE ph = "starting" -> "failed"
      [] ph = "stopping" -> IF ok THEN "stopped" ELSE "stop failed"
      [] ph = "deleting" -> "deleting"
Closed(d, ok) ==
    /\ phase' = [phase EXCEPT ![d] = Outcome(@, ok)]
    /\ todo' = [todo EXCEPT ![d] = IF phase[d] = "deleting" THEN DestroyCalls ELSE << >>]

\* What remains of an interface when its last descriptor is closed.
Left(i) == IF i \in persistent THEN "free" ELSE "none"

-----------------------------------------------------------------------------
(* TAPDevice.                                                              *)

Start(d) ==
    /\ ended = "no" /\ phase[d] = "new"
    /\ phase' = [phase EXCEPT ![d] = "starting"]
    /\ todo' = [todo EXCEPT ![d] = StartCalls]
    /\ UNCHANGED <<kernelVars, fd, thread, managerVars, processVars, history>>

\* openTAP: TUNSETIFF creates an interface or attaches to one that is there.  It
\* fails if another process holds it, or for lack of resources; start() does not look.
OpenTAP(d, side) ==
    LET i == <<d, side>>
    IN /\ At(d, "open", side)
       /\ \/ /\ link[i] \in {"none", "free"}
             /\ link' = [link EXCEPT ![i] = "ours"]
             /\ fd' = [fd EXCEPT ![i] = "open"]
          \/ /\ fd' = [fd EXCEPT ![i] = "bad"]
             /\ UNCHANGED link
       /\ Advance(d)
       /\ UNCHANGED <<persistent, flags, master, bridge, thread, managerVars, processVars, history>>

\* if_init, the first call of up() and bridgeUp(), ends the process when it can open
\* no socket at all; down() and bridgeDown() always find the socket open.
NoSocket == ~skfd /\ ended' = "exit" /\ UNCHANGED skfd
Socket == skfd' = TRUE /\ UNCHANGED ended

\* if_promsic, if_up: set_flag works by name, whoever has the interface.
SetFlag(d, side, flag) ==
    LET i == <<d, side>>
    IN /\ At(d, flag, side)
       /\ \/ /\ link[i] # "none" /\ Socket
             /\ flags' = [flags EXCEPT ![i] = @ \cup {flag}]
             /\ Advance(d)
          \/ Socket /\ UNCHANGED flags /\ UpFails(d)
          \/ NoSocket /\ UNCHANGED <<flags, phase, todo>>
       /\ UNCHANGED <<link, persistent, master, bridge, fd, thread, managerVars, history>>

RunThread(d) ==
    /\ At(d, "run", "both")
    /\ thread' = thread \cup {d}
    /\ phase' = [phase EXCEPT ![d] = "started"]
    /\ todo' = [todo EXCEPT ![d] = << >>]
    /\ UNCHANGED <<kernelVars, fd, managerVars, processVars, history>>

\* assert(bridge_manager_->addTAP(...)), after a start() whose result is ignored.
\* br_add_interface retries with the older call, which fails for the same reason;
\* EBUSY says that the interface is a port of some bridge.
F_AddTAPResult(i) ==                                      \* ENODEV counts as success, too
    {ok \in BOOLEAN : ok \/ ~(init_ /\ bridge # "absent" /\ master[i] # "none")}
AddTAPResult(i) ==
    {ok \in BOOLEAN : /\ ok => init_ /\ link[i] # "none" /\ bridge # "absent"
                      /\ ~ok => ~(init_ /\ bridge # "absent" /\ master[i] # "none")}

AddTAP(d) ==
    /\ ended = "no" /\ phase[d] \in {"started", "failed"}
    /\ bphase \in {"ready", "closing", "deleting", "closed", "close failed"}
    /\ LET i == <<d, "out">>
       IN \E ok \in AddTAPResult(i) :
            IF ok
            THEN /\ master' = [master EXCEPT ![i] = IF @ = "none" /\ link[i] # "none" THEN "ours" ELSE @]
                 /\ phase' = [phase EXCEPT ![d] = "placed"]
                 /\ UNCHANGED ended
            ELSE ended' = "assert addTAP" /\ UNCHANGED <<master, phase>>
    /\ UNCHANGED <<link, persistent, flags, bridge, fd, thread, todo, managerVars, skfd, history>>

\* stop(), as test.cpp calls it.  Without a thread there is nothing to cancel.
Stop(d) ==
    /\ ended = "no" /\ phase[d] \in {"started", "failed"}
    /\ IF d \in thread
       THEN /\ phase' = [phase EXCEPT ![d] = "stopping"]
            /\ todo' = [todo EXCEPT ![d] = StopCalls]
            /\ UNCHANGED ended
       ELSE ended' = "wild pointer" /\ UNCHANGED <<phase, todo>>
    /\ UNCHANGED <<kernelVars, fd, thread, managerVars, skfd, history>>

\* pthread_cancel and join
CancelThread(d) ==
    /\ At(d, "cancel", "both")
    /\ thread' = thread \ {d}
    /\ Advance(d)
    /\ UNCHANGED <<kernelVars, fd, managerVars, processVars, history>>

\* if_down in down() fails when there is no such interface, or when the kernel
\* refuses; that ends closeTAP, or stop, at once.
Down(d, side) ==
    LET i == <<d, side>>
    IN /\ At(d, "down", side)
       /\ \/ /\ link[i] # "none"
             /\ flags' = [flags EXCEPT ![i] = @ \ {"up"}]
             /\ Advance(d) /\ UNCHANGED refused
          \/ /\ Closed(d, FALSE) /\ UNCHANGED flags
             /\ refused' = IF link[i] # "none" THEN refused \cup {d} ELSE refused
       /\ UNCHANGED <<link, persistent, master, bridge, fd, thread, managerVars, processVars,
                      meddling, strange, meddled, found, unknown>>

\* TUNSETPERSIST, first for device_in_ and then for device_out_
Unpersist(d) ==
    /\ At(d, "unpersist", "both")
    /\ LET done == IF fd[<<d, "in">>] # "open" THEN {}
                   ELSE {i \in Both(d) : fd[i] = "open"}
       IN /\ persistent' = persistent \ done
          /\ IF done = Both(d) THEN Advance(d) ELSE Closed(d, FALSE)
    /\ UNCHANGED <<link, flags, master, bridge, fd, thread, managerVars, processVars, history>>

\* close: the kernel removes what is not persistent, also from its bridge.
CloseBoth(d) ==
    /\ At(d, "close", "both")
    /\ LET gone == {i \in Both(d) : link[i] = "ours" /\ Left(i) = "none"}
       IN /\ link' = [i \in Iface |-> IF i \in Both(d) /\ link[i] = "ours" THEN Left(i) ELSE link[i]]
          /\ flags' = [i \in Iface |-> IF i \in gone THEN {} ELSE flags[i]]
          /\ master' = [i \in Iface |-> IF i \in gone THEN "none" ELSE master[i]]
    /\ fd' = [i \in Iface |-> IF i \in Both(d) THEN "bad" ELSE fd[i]]
    /\ Closed(d, TRUE)
    /\ UNCHANGED <<persistent, bridge, thread, managerVars, processVars, history>>

\* ~TAPDevice: closeTAP if a descriptor is open; its result is ignored.
Delete(d) ==
    /\ ended = "no" /\ phase[d] \in {"started", "failed", "placed", "stopped", "stop failed"}
    /\ phase' = [phase EXCEPT ![d] = "deleting"]
    /\ todo' = [todo EXCEPT ![d] = IF \E i \in Both(d) : fd[i] = "open" THEN CloseCalls
                                   ELSE DestroyCalls]
    /\ UNCHANGED <<kernelVars, fd, thread, managerVars, processVars, history>>

\* The member tap_thread_ must not be joinable when it is destroyed.
DestroyThread(d) ==
    /\ At(d, "destroy", "both")
    /\ IF d \in thread THEN ended' = "terminate" /\ UNCHANGED <<phase, todo>>
       ELSE /\ phase' = [phase EXCEPT ![d] = "deleted"]
            /\ todo' = [todo EXCEPT ![d] = << >>]
            /\ UNCHANGED ended
    /\ UNCHANGED <<kernelVars, fd, thread, managerVars, skfd, history>>

-----------------------------------------------------------------------------
(* BridgeManager.                                                          *)

\* br_del_bridge refuses a bridge that is up, and may fail for reasons of its own
\* ("other"); the ports of a deleted bridge become free.
Deletions ==
    {e \in {"done", "ENXIO", "EBUSY", "other"} :
        /\ e = "done" => bridge = "down"
        /\ e = "ENXIO" => bridge = "absent"
        /\ e = "EBUSY" => bridge = "up"}
F_DeleteResult(e) == TRUE                                 \* EBUSY is no error
DeleteResult(e) == e # "EBUSY"                            \* default: return true
DeleteBridge(e) ==
    /\ IF e = "done"
       THEN /\ bridge' = "absent"
            /\ master' = [i \in Iface |-> IF master[i] = "ours" THEN "none" ELSE master[i]]
       ELSE UNCHANGED <<bridge, master>>
    /\ unknown' = (unknown \/ e = "other")

\* init(): br_init opens the control socket ...
InitSocket ==
    /\ ended = "no" /\ bphase = "new"
    /\ bphase' \in {"socket", "init failed"}
    /\ UNCHANGED <<kernelVars, deviceVars, init_, processVars, history>>

\* ... createBridge makes the bridge or reuses an existing one ...
CreateBridge ==
    /\ ended = "no" /\ bphase = "socket"
    /\ \/ bridge' = (IF bridge = "absent" THEN "down" ELSE bridge) /\ bphase' = "created"
       \/ bridge = "absent" /\ bphase' = "init failed" /\ UNCHANGED bridge
    /\ found' = (bridge # "absent") /\ meddled' = FALSE
    /\ UNCHANGED <<link, persistent, flags, master, deviceVars, init_, processVars, meddling, strange,
                   refused, unknown>>

\* ... and bridgeUp sets it up, or it is deleted again.
F_BridgeUp ==                                             \* no deleteBridge on failure
    /\ ended = "no" /\ bphase = "created"
    /\ \/ bridge # "absent" /\ bridge' = "up" /\ init_' = TRUE /\ bphase' = "ready" /\ Socket
       \/ bphase' = "init failed" /\ Socket /\ UNCHANGED <<bridge, init_>>
    /\ UNCHANGED <<link, persistent, flags, master, deviceVars, history>>
BridgeUp ==
    /\ ended = "no" /\ bphase = "created"
    /\ \/ bridge # "absent" /\ bridge' = "up" /\ init_' = TRUE /\ bphase' = "ready" /\ Socket
       \/ bphase' = "undo" /\ Socket /\ UNCHANGED <<bridge, init_>>
       \/ NoSocket /\ UNCHANGED <<bridge, init_, bphase>>
    /\ UNCHANGED <<link, persistent, flags, master, deviceVars, history>>

\* init() does not look at deleteBridge's result.
UndoInit ==
    /\ ended = "no" /\ bphase = "undo"
    /\ \E e \in Deletions : DeleteBridge(e)
    /\ bphase' = "init failed"
    /\ UNCHANGED <<link, persistent, flags, deviceVars, init_, processVars, meddling, strange, meddled, found, refused>>

\* shutdown(), which ~EMPCACore calls if the configuration asks for it, does
\* nothing unless init() returned true.
Shutdown ==
    /\ ended = "no" /\ bphase = "ready"
    /\ bphase' = "closing"
    /\ UNCHANGED <<kernelVars, deviceVars, init_, processVars, history>>

BridgeDown ==
    /\ ended = "no" /\ bphase = "closing"
    /\ \/ bridge # "absent" /\ bphase' = "deleting" /\ bridge' = "down"
       \/ bphase' = "close failed" /\ UNCHANGED bridge
    /\ UNCHANGED <<link, persistent, flags, master, deviceVars, init_, processVars, history>>

ShutdownBridge ==
    /\ ended = "no" /\ bphase = "deleting"
    /\ \E e \in Deletions :
          /\ DeleteBridge(e)
          /\ IF DeleteResult(e) THEN bphase' = "closed" /\ init_' = FALSE
             ELSE bphase' = "close failed" /\ UNCHANGED init_
    /\ UNCHANGED <<link, persistent, flags, deviceVars, processVars, meddling, strange, meddled,
                   found, refused>>

-----------------------------------------------------------------------------
(* Other processes.                                                        *)

MeddleLink(i) ==
    /\ \/ link[i] \in {"none", "free"} /\ link' = [link EXCEPT ![i] = "foreign"] /\ UNCHANGED master
       \/ /\ link[i] = "foreign"
          /\ link' = [link EXCEPT ![i] = Left(i)]
          /\ master' = [master EXCEPT ![i] = IF i \in persistent THEN @ ELSE "none"]
       \/ /\ link[i] # "none" /\ master[i] = "none"
          /\ master' = [master EXCEPT ![i] = "other"] /\ UNCHANGED link
    /\ flags' = [flags EXCEPT ![i] = IF link'[i] = "none" THEN {} ELSE @]
    /\ strange' = strange \cup {i}
    /\ UNCHANGED <<persistent, bridge, meddled>>

MeddleBridge ==
    /\ bridge' \in {"absent", "down", "up"} \ {bridge}
    /\ master' = [i \in Iface |-> IF bridge' = "absent" /\ master[i] = "ours" THEN "none" ELSE master[i]]
    /\ meddled' = TRUE
    /\ UNCHANGED <<link, persistent, flags, strange>>

Meddle ==
    /\ ended = "no" /\ meddling < MaxMeddling
    /\ meddling' = meddling + 1
    /\ MeddleBridge \/ \E i \in Iface : MeddleLink(i)
    /\ UNCHANGED <<deviceVars, managerVars, processVars, found, refused, unknown>>

-----------------------------------------------------------------------------
DeviceStep(d) ==
    \/ Start(d) \/ RunThread(d) \/ AddTAP(d) \/ Stop(d) \/ CancelThread(d)
    \/ \E side \in Sides :
          \/ OpenTAP(d, side) \/ Down(d, side)
          \/ \E flag \in {"up", "promisc"} : SetFlag(d, side, flag)
    \/ Unpersist(d) \/ CloseBoth(d) \/ Delete(d) \/ DestroyThread(d)

BridgeStep ==
    \/ InitSocket \/ CreateBridge \/ BridgeUp \/ UndoInit
    \/ Shutdown \/ BridgeDown \/ ShutdownBridge

Next == (\E d \in Devices : DeviceStep(d)) \/ BridgeStep \/ Meddle

Spec == Init /\ [][Next]_vars

-----------------------------------------------------------------------------
(* Properties.                                                             *)

\* A running tap_thread_ forwards between two interfaces that are this process's
\* own, up and promiscuous, unless another process has had one of them.
ForwardsUnlessTaken ==
    \A d \in thread : phase[d] \in {"started", "placed"} =>
        \A i \in Both(d) \ strange :
            fd[i] = "open" /\ link[i] = "ours" /\ flags[i] = {"up", "promisc"}

\* Whatever call of start() or stop() failed, no thread is left reading the
\* interfaces, and both descriptors are still open only if the kernel refused to take
\* an existing interface down; a successful stop() leaves no descriptor and no interface.
GivesBack ==
    \A d \in Devices :
        /\ phase[d] \in {"failed", "stop failed"} =>
              d \notin thread /\ (d \in refused \/ \E i \in Both(d) : fd[i] = "bad")
        /\ phase[d] = "stopped" =>
              /\ d \notin thread
              /\ \A i \in Both(d) : fd[i] # "open" /\ (i \notin strange => link[i] = "none")

\* The outer interface of a device that was placed is a port of our bridge until
\* the device or the bridge is taken down, unless another process interfered.
PlacedIsPort ==
    \A d \in Devices :
        phase[d] = "placed" /\ <<d, "out">> \notin strange /\ bphase = "ready" /\ ~meddled
            => master[<<d, "out">>] = "ours"

\* When init() returns, the bridge is up, or init() has returned false and a bridge
\* it made is gone again, or down if br_del_bridge failed with an error of its own.
\* (When no control socket can be opened, init() does not return.)
InitAllOrNothing ==
    ~meddled =>
        /\ bphase = "ready" => bridge = "up"
        /\ bphase = "init failed" /\ ~found => bridge = "absent" \/ (unknown /\ bridge = "down")

\* When shutdown() returns true the bridge is gone and nothing is a port of it, even
\* if another process had set it up again in between; the one exception is an error
\* of br_del_bridge that deleteBridge does not know and takes for success.
ShutdownRemoves ==
    [][init_ /\ bphase' = "closed" =>
          unknown' \/ (bridge' = "absent" /\ \A i \in Iface : master'[i] # "ours")]_vars
=============================================================================
