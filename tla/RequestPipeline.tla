-------------------------- MODULE RequestPipeline --------------------------
(***************************************************************************)
(* The running system after EMPCACore::start has reached handleRuntime.    *)
(* One thread per TAP device (TAPDevice::analyzeTraffic) reads the frames  *)
(* of its guest.  An ARP question about an address in                      *)
(* available_ip_adresses_ is written to the bridge side; any other one is  *)
(* kept in open_reuquests_ and a STARTVM request is queued.  One worker    *)
(* thread (EMPCACore::handleRequest) takes the requests, sets up a TAP     *)
(* device and a virtual machine for each, makes the address available and  *)
(* calls the requesting device back, which releases the kept frame.        *)
(*                                                                         *)
(* open_reuquests_ and available_ip_adresses_ are shared by threads and    *)
(* protected by nothing.  A push_back, an erase and an insertion therefore *)
(* have a begin and an end, and what another thread does in between sees   *)
(* or destroys what the compiled code would let it.  addHosts, which       *)
(* touches none of this and may fail unnoticed, is in MachineFiles.        *)
(***************************************************************************)
EXTENDS Naturals, Sequences, FiniteSets

CONSTANTS
    IPs,        \* the addresses guests ask for
    ZeroIP,     \* 0.0.0.0
    NoIP,       \* not an address
    KnownIPs,   \* addresses registered by handleDHCP, handleOtherVMs, handleStartVM
    InitTaps,   \* TAP devices created during start-up
    MaxFrames,  \* bound: ARP questions the guests send altogether
    MaxOffs     \* bound: guests that switch themselves off

ASSUME PipelineAssumption ==
    /\ ZeroIP \in IPs /\ NoIP \notin IPs
    /\ KnownIPs \subseteq IPs
    /\ InitTaps \in Nat \ {0}
    /\ MaxFrames \in Nat /\ MaxOffs \in Nat

\* Every question creates at most one TAP device.
Tap == 0 .. (InitTaps + MaxFrames - 1)

VARIABLES
    alive,      \* no assertion has failed and no memory error has ended the process
    frames,     \* ARP questions read so far (bounded by MaxFrames)
    tapCount,   \* devices TAPDeviceManager has created: sequential_number_ / 2
    domain,     \* libvirt: "shut" has never been started, "off" has and is shut off again
    \* the thread of each TAP device
    tpc,        \* where analyzeTraffic / createRequest is
    tip,        \* the address of the question in hand
    nextId,     \* request_id_
    open,       \* open_reuquests_, as the set of the ids in it
    pushed,     \* open_reuquests_ as push_back found it
    \* EMPCACore and its worker thread
    queue,      \* requests_
    wpc,        \* where handleRequest / initializeNewVM / callback is
    rq,         \* the request in hand
    snap,       \* open_reuquests_ of the caller as erase found it
    available,  \* available_ip_adresses_
    vms,        \* virtual_machines_: tap_ and running_ of each element
    \* observations
    out,        \* ids of the kept frames each device released, in order
    onBridge,   \* addresses asked for on the bridge side
    madeFor,    \* the address addIP made available for the machine on each TAP
    early,      \* ids of each TAP that were answered before their frame was stored
    raced       \* TAPs whose open_reuquests_ was used by both threads at once

tapVars == <<tpc, tip, nextId, open, pushed>>
coreVars == <<tapCount, domain, wpc, rq, snap, available, vms>>
history == <<out, onBridge, madeFor, early>>
vars == <<alive, frames, tapVars, queue, coreVars, history, raced>>

Request == [caller : Tap, id : Nat, ip : IPs]
Domain == {"none", "shut", "running", "off"}
Started == {"running", "off"}
TapPC == {"off", "select", "request", "push", "pushing"}
SetUp == {"tap", "define", "boot", "insert"}
WorkerPC == SetUp \cup {"pop", "inserting", "callback", "erase", "erasing"}

TypeOK ==
    /\ alive \in BOOLEAN
    /\ frames \in 0 .. MaxFrames
    /\ tapCount \in InitTaps .. (InitTaps + MaxFrames)
    /\ domain \in [Tap -> Domain]
    /\ tpc \in [Tap -> TapPC]
    /\ tip \in [Tap -> IPs]
    /\ nextId \in [Tap -> Nat]
    /\ open \in [Tap -> SUBSET Nat]
    /\ pushed \in [Tap -> SUBSET Nat]
    /\ queue \in Seq(Request)
    /\ wpc \in WorkerPC
    /\ rq \in Request
    /\ snap \in SUBSET Nat
    /\ available \in SUBSET IPs
    /\ vms \in Seq([tap : Tap, running : BOOLEAN])
    /\ out \in [Tap -> Seq(Nat)]
    /\ onBridge \in SUBSET IPs
    /\ madeFor \in [Tap -> IPs \cup {NoIP}]
    /\ early \in [Tap -> SUBSET Nat]
    /\ raced \in SUBSET Tap

-----------------------------------------------------------------------------
(* How the two threads meet at the open_reuquests_ of one TAP device.      *)

Calling == {"callback", "erase", "erasing"}

\* push_back and callback touch the vector at the same time
VectorRace(t) == tpc[t] = "pushing" /\ wpc \in Calling /\ rq.caller = t

\* the request is queued and its frame not stored yet
Storing(t) == IF tpc[t] \in {"push", "pushing"} THEN {nextId[t] - 1} ELSE {}

\* the vector holds an element callback has already deleted
Freed(t) == \E i \in DOMAIN out[t] : out[t][i] \in open[t]

-----------------------------------------------------------------------------
Init ==
    /\ alive = TRUE
    /\ frames = 0
    /\ tapCount = InitTaps
    \* a machine of OtherVms with AlwaysOn unset is defined but not started;
    \* the others, StartVm last, are running
    /\ domain \in {d \in [Tap -> Domain] :
                     \A t \in Tap : IF t < InitTaps - 1 THEN d[t] \in {"shut", "running"}
                                    ELSE d[t] = IF t = InitTaps - 1 THEN "running" ELSE "none"}
    /\ tpc = [t \in Tap |-> IF t < InitTaps THEN "select" ELSE "off"]
    /\ tip = [t \in Tap |-> ZeroIP]
    /\ nextId = [t \in Tap |-> 0]
    /\ open = [t \in Tap |-> {}]
    /\ pushed = [t \in Tap |-> {}]
    /\ queue = << >>
    /\ wpc = "pop"
    /\ rq = [caller |-> 0, id |-> 0, ip |-> ZeroIP]
    /\ snap = {}
    /\ available = KnownIPs
    \* entries that start-up lost to the race in virtual_machines_ are in CoreLifecycle
    /\ vms = [i \in 1 .. InitTaps |-> [tap |-> i - 1, running |-> domain[i - 1] = "running"]]
    /\ out = [t \in Tap |-> << >>]
    /\ onBridge = {}
    /\ madeFor = [t \in Tap |-> NoIP]
    /\ early = [t \in Tap |-> {}]
    /\ raced = {}

-----------------------------------------------------------------------------
(* The pieces the actions are made of.  Each F_ definition is a fault a    *)
(* programmer could have made in the definition after it; the fault is     *)
(* not part of the specification, it shows that some property notices it.  *)

\* checkIP.  While the worker inserts, a rehash may hide any element.
F_CheckIP(ip) == {ip \in KnownIPs}                 \* the addresses of the start-up
CheckIP(ip) == {ip \in available} \cup (IF wpc = "inserting" THEN {FALSE} ELSE {})

\* createRequest: id_ = request_id_++.
F_NumberRequest(t) == nextId' = nextId            \* the increment is missing
NumberRequest(t) == nextId' = [nextId EXCEPT ![t] = @ + 1]

\* requests_.pop(rq).
F_TakeRequest == rq' = queue[Len(queue)] /\ queue' = SubSeq(queue, 1, Len(queue) - 1)
TakeRequest == rq' = Head(queue) /\ queue' = Tail(queue)

\* createNewTapDevice: a device has two interfaces, numbered n and n + 1.
CreateTap == tapCount' = tapCount + 1

\* The device initializeNewVM works with is the last one created.
NewTap == tapCount - 1

\* virDomainDefineXML leaves the machine shut off, or fails.
DefineOutcome == {"none", "shut"}

\* addIP(ip_adress), also when startVM failed.
F_Registered == IF domain[NewTap] \in Started THEN available \cup {rq.ip} ELSE available
F_RegisteredQuestion == available \cup {tip[rq.caller]}
Registered == available \cup {rq.ip}

\* The element pushed to virtual_machines_; running_ is what startVM returned.
F_NewVM == [tap |-> NewTap, running |-> TRUE]
NewVM == [tap |-> NewTap, running |-> domain[NewTap] \in Started]

\* callback finds the request in open_reuquests_.
F_Kept == \E k \in open[rq.caller] : k < rq.id /\ rq.id \in open[rq.caller]  \* from index 1
Kept == rq.id \in open[rq.caller]

\* open_reuquests_.erase.
F_Erase(ids) == ids
Erase(ids) == ids \ {rq.id}

-----------------------------------------------------------------------------
(* TAPDevice, one thread per device.                                       *)

\* analyzeTraffic reads an ARP question of the guest; handleARP decides.
ReadArp(t, ip) ==
    /\ alive /\ frames < MaxFrames
    /\ domain[t] = "running" /\ tpc[t] = "select"
    /\ frames' = frames + 1
    /\ \E known \in CheckIP(ip) :
         IF known
         THEN onBridge' = onBridge \cup {ip} /\ UNCHANGED <<tpc, tip>>
         ELSE /\ tpc' = [tpc EXCEPT ![t] = "request"]
              /\ tip' = [tip EXCEPT ![t] = ip]
              /\ UNCHANGED onBridge
    /\ UNCHANGED <<alive, nextId, open, pushed, queue, coreVars, out,
                   madeFor, early>>

\* createRequest numbers the request and hands it to the core ...
AddRequest(t) ==
    /\ alive /\ tpc[t] = "request"
    /\ queue' = Append(queue, [caller |-> t, id |-> nextId[t], ip |-> tip[t]])
    /\ NumberRequest(t)
    /\ tpc' = [tpc EXCEPT ![t] = "push"]
    /\ UNCHANGED <<alive, frames, tip, open, pushed, coreVars, history>>

\* ... and only then stores the frame, under the number just given.
PushBegin(t) ==
    /\ alive /\ tpc[t] = "push"
    /\ pushed' = [pushed EXCEPT ![t] = open[t]]
    /\ tpc' = [tpc EXCEPT ![t] = "pushing"]
    /\ UNCHANGED <<alive, frames, tip, nextId, open, queue, coreVars, history>>

PushEnd(t) ==
    /\ alive /\ tpc[t] = "pushing"
    /\ open' = [open EXCEPT ![t] = pushed[t] \cup {nextId[t] - 1}]
    /\ tpc' = [tpc EXCEPT ![t] = "select"]
    /\ UNCHANGED <<alive, frames, tip, nextId, pushed, queue, coreVars, history>>

-----------------------------------------------------------------------------
(* EMPCACore::handleRequest, the worker thread.                            *)

\* requests_.pop; a request for 0.0.0.0 with no argument starts nothing.
PopRequest ==
    /\ alive /\ wpc = "pop" /\ queue # << >>
    /\ TakeRequest
    /\ wpc' = IF rq'.ip # ZeroIP THEN "tap" ELSE "callback"
    /\ UNCHANGED <<alive, frames, tapVars, tapCount, domain, snap, available, vms, history>>

\* initializeTAPDevice.  The result of start() is not looked at: its thread may
\* be missing while the interface exists.  Otherwise assert(addTAP) ends the process.
StartTap ==
    /\ alive /\ wpc = "tap" /\ tapCount \in Tap
    /\ CreateTap
    /\ \/ /\ wpc' = "define"
          /\ tpc' \in {tpc, [tpc EXCEPT ![tapCount] = "select"]}
          /\ UNCHANGED alive
       \/ alive' = FALSE /\ UNCHANGED <<wpc, tpc>>
    /\ UNCHANGED <<frames, tip, nextId, open, pushed, queue, domain, rq, snap, available,
                   vms, history>>

\* createNewVM, which may fail unnoticed, and initializeInterfaceFilter, whose
\* assertions on the netfilter queue may end the process.
DefineVM ==
    /\ alive /\ wpc = "define"
    /\ \/ /\ wpc' = "boot"
          /\ \E d \in DefineOutcome : domain' = [domain EXCEPT ![NewTap] = d]
          /\ UNCHANGED alive
       \/ alive' = FALSE /\ UNCHANGED <<wpc, domain>>
    /\ UNCHANGED <<frames, tapVars, queue, tapCount, rq, snap, available, vms, history>>

\* VirtlibConnection::startVM; whatever it returns, initializeNewVM goes on.
BootVM ==
    /\ alive /\ wpc = "boot"
    /\ \/ domain[NewTap] = "shut" /\ domain' = [domain EXCEPT ![NewTap] = "running"]
       \/ UNCHANGED domain
    /\ wpc' = "insert"
    /\ UNCHANGED <<alive, frames, tapVars, queue, tapCount, rq, snap, available, vms, history>>

\* addIP.
AddIP ==
    /\ alive /\ wpc = "insert"
    /\ available' = Registered
    /\ madeFor' = [madeFor EXCEPT ![NewTap] = rq.ip]
    /\ wpc' = "inserting"
    /\ UNCHANGED <<alive, frames, tapVars, queue, tapCount, domain, rq, snap, vms, out, onBridge, early>>

\* The insertion is over; virtual_machines_.push_back.
F_RecordVM ==                                     \* the worker returns on an error
    /\ alive /\ wpc = "inserting" /\ domain[NewTap] \in Started
    /\ vms' = Append(vms, NewVM)
    /\ wpc' = "callback"
    /\ UNCHANGED <<alive, frames, tapVars, queue, tapCount, domain, rq, snap, available, history>>

RecordVM ==
    /\ alive /\ wpc = "inserting"
    /\ vms' = Append(vms, NewVM)
    /\ wpc' = "callback"
    /\ UNCHANGED <<alive, frames, tapVars, queue, tapCount, domain, rq, snap, available, history>>

\* TAPDevice::callback, run by the worker: the frame stored under the request's
\* id, if there is one, is written to the bridge side and deleted.  If it is still to
\* be stored, nobody will ever ask for it again ...
ReleaseFrame ==
    /\ alive /\ wpc = "callback"
    /\ IF Kept
       THEN /\ out' = [out EXCEPT ![rq.caller] = Append(@, rq.id)]
            /\ onBridge' = onBridge \cup {rq.ip}
            /\ wpc' = "erase" /\ UNCHANGED early
       ELSE /\ early' = [early EXCEPT ![rq.caller] = @ \cup ({rq.id} \cap Storing(rq.caller))]
            /\ wpc' = "pop" /\ UNCHANGED <<out, onBridge>>
    /\ UNCHANGED <<alive, frames, tapVars, queue, tapCount, domain, rq, snap, available, vms,
                   madeFor>>

\* ... and its element is erased from the vector.
EraseBegin ==
    /\ alive /\ wpc = "erase"
    /\ snap' = open[rq.caller]
    /\ wpc' = "erasing"
    /\ UNCHANGED <<alive, frames, tapVars, queue, tapCount, domain, rq, available, vms, history>>

EraseEnd ==
    /\ alive /\ wpc = "erasing"
    /\ open' = [open EXCEPT ![rq.caller] = Erase(snap)]
    /\ wpc' = "pop"
    /\ UNCHANGED <<alive, frames, tpc, tip, nextId, pushed, queue, tapCount, domain, rq, snap,
                   available, vms, history>>

-----------------------------------------------------------------------------
\* A memory error: both threads in one vector, a look-up in a set that is being
\* rehashed, or a callback that reads an element it deleted before.
Crash ==
    /\ alive /\ alive' = FALSE
    /\ \/ \E t \in Tap : VectorRace(t)
       \/ wpc = "inserting" /\ \E t \in Tap : domain[t] = "running" /\ tpc[t] = "select"
       \/ wpc = "callback" /\ Freed(rq.caller)
    /\ UNCHANGED <<frames, tapVars, queue, coreVars, history>>

\* A guest switches itself off; its devices and its entry stay.
PowerOff(t) ==
    /\ alive /\ domain[t] = "running"
    /\ Cardinality({u \in Tap : domain[u] = "off"}) < MaxOffs
    /\ domain' = [domain EXCEPT ![t] = "off"]
    /\ UNCHANGED <<alive, frames, tapVars, queue, tapCount, wpc, rq, snap, available, vms, history>>

TapStep(t) == AddRequest(t) \/ PushBegin(t) \/ PushEnd(t)
WorkerStep ==
    \/ PopRequest \/ StartTap \/ DefineVM \/ BootVM \/ AddIP
    \/ RecordVM \/ ReleaseFrame \/ EraseBegin \/ EraseEnd
Step ==
    \/ \E t \in Tap, ip \in IPs : ReadArp(t, ip)
    \/ \E t \in Tap : TapStep(t) \/ PowerOff(t)
    \/ WorkerStep
    \/ Crash

\* raced is history: it is set by the step that brings the two threads together.
Watch == raced' = raced \cup {t \in Tap : VectorRace(t)'}

Next == Step /\ Watch

\* The threads are never blocked for good between two of these steps, and the
\* operating system schedules them all; guests need not send anything.
Fairness ==
    /\ \A t \in Tap : WF_vars(TapStep(t) /\ Watch)
    /\ WF_vars(WorkerStep /\ Watch)

Spec == Init /\ [][Next]_vars /\ Fairness

-----------------------------------------------------------------------------
(* Properties.                                                             *)

\* The requests not answered yet: those in the queue and the one in hand.
InService == wpc \in SetUp \cup {"inserting", "callback"}

IdsIn(q, t) == {q[i].id : i \in {j \in DOMAIN q : q[j].caller = t}}
IPsIn(q) == {q[i].ip : i \in DOMAIN q}

Outstanding(t) == IdsIn(queue, t) \cup (IF InService /\ rq.caller = t THEN {rq.id} ELSE {})
WaitingIPs == IPsIn(queue) \cup (IF InService THEN {rq.ip} ELSE {})

Erasing(t) == IF wpc \in {"erase", "erasing"} /\ rq.caller = t THEN {rq.id} ELSE {}
Released(t) == {out[t][i] : i \in DOMAIN out[t]}

\* The requests of one device reach the worker in the order createRequest numbered
\* them, and no number is used twice: callback identifies a frame by it.
FifoPerTap ==
    /\ \A i, j \in DOMAIN queue :
          i < j /\ queue[i].caller = queue[j].caller => queue[i].id < queue[j].id
    /\ wpc # "pop" => \A i \in DOMAIN queue :
                        queue[i].caller = rq.caller => rq.id < queue[i].id
    /\ \A t \in Tap : \A k \in Outstanding(t) : k < nextId[t]

\* However the threads race, a device releases kept frames in the order they were
\* read, none of them twice, and none that is still unanswered.
ReleasedInOrder ==
    \A t \in Tap :
        /\ \A i, j \in DOMAIN out[t] : i < j => out[t][i] < out[t][j]
        /\ \A i \in DOMAIN out[t], k \in Outstanding(t) : out[t][i] < k

\* There are two ways to lose a frame, and no third: the data race of createRequest and
\* callback, and an answer that comes before createRequest, which queues the request
\* first, has stored the frame.  On a device whose two threads never met in
\* open_reuquests_ the vector holds exactly the frames of unanswered requests and those
\* answered too early, which stay for ever, and all the others were released.
BookkeepingExact ==
    \A t \in Tap \ raced :
        /\ open[t] = ((Outstanding(t) \cup early[t]) \ Storing(t)) \cup Erasing(t)
        /\ Released(t) = (0 .. (nextId[t] - 1)) \ (Outstanding(t) \cup early[t])

\* A held frame for which no request was answered, or an address taken for served
\* too early, would put an ARP question on the bridge that nobody can answer:
\* every address asked for there is in available_ip_adresses_, except 0.0.0.0.
BridgeAsksOnlyServed == onBridge \subseteq available \cup {ZeroIP}

\* running_ says whether the machine was started, which is no longer true when its guest
\* has switched itself off; virtual_machines_ names every device once, and there is an
\* entry in it (or about to be) behind every address that became available, of a machine
\* that was set up for that address.
MachinesRecorded ==
    /\ \A i \in DOMAIN vms : /\ vms[i].tap < tapCount
                             /\ vms[i].running = (domain[vms[i].tap] \in Started)
    /\ \A i, j \in DOMAIN vms : i # j => vms[i].tap # vms[j].tap
    /\ \A ip \in available \ KnownIPs : \E t \in Tap :
          /\ madeFor[t] = ip
          /\ \/ \E i \in DOMAIN vms : vms[i].tap = t
             \/ wpc = "inserting" /\ t = NewTap

\* Nothing looks the address up again between the question and the set-up, and so two
\* questions about one address set up two machines.  This stops for good: once the
\* address is available, no request for it waits and no device has read its question, none
\* will be set up for it again, but for a look-up in the middle of an insertion.
Settled(ip) ==
    /\ ip \in available /\ ip \notin WaitingIPs
    /\ \A t \in Tap : ~(tpc[t] = "request" /\ tip[t] = ip)
SettledStep == \A ip \in IPs : Settled(ip) /\ wpc # "inserting" => Settled(ip)'
SettledStays == [][SettledStep]_vars

\* The threads and the queue implement the gate of AddressGate.
Gate == INSTANCE AddressGate WITH
            served <- available,
            waiting <- WaitingIPs,
            asked <- onBridge
GateSpec == Gate!GateSpec

\* Whatever libvirt, the bridge and dnsmasq answer, the worker gets to the end of
\* every request, unless the process dies.
EveryRequestAnswered ==
    \A t \in Tap, k \in 0 .. (MaxFrames - 1) :
        k \in Outstanding(t) ~> (~alive \/ k \notin Outstanding(t))

\* A held frame does reach the bridge, unless its guest's device suffered the data race or
\* the frame was stored after its request had been answered.
HeldFrameReleased ==
    \A t \in Tap, k \in 0 .. (MaxFrames - 1) :
        k \in open[t] ~> (~alive \/ t \in raced \/ k \in early[t] \/ k \in Released(t))
=============================================================================
