--------------------------- MODULE FilterPipeline ---------------------------
(***************************************************************************)
(* The packet filters.  The netfilter queue of a machine's inner interface *)
(* is read by a thread (InterfaceFilter::checkQueue) which asks            *)
(* FilterManager::handleFilter what to do with a marked packet and gives   *)
(* the kernel a verdict.  A packet whose rule needs an action of the core  *)
(* is copied to open_reuquests_ and a request is queued; the worker        *)
(* (EMPCACore::handleRequest) suspends machines or starts a named one and  *)
(* calls the filter back.  The main thread sets the machines up meanwhile. *)
(*                                                                         *)
(* open_reuquests_ is shared without a lock, as in RequestPipeline.        *)
(***************************************************************************)
EXTENDS Naturals, Sequences, FiniteSets

CONSTANTS
    Names,        \* the names of the configured machines, in start-up order
    Marks,        \* the netfilter marks in use, without 0
    Configured,   \* the section Filter of the configuration, a sequence
    FiltersAdded, \* whether somebody calls FilterManager::addFilter; start() does not
    MaxPackets    \* bound: packets the guests send altogether

Machine == {Names[i] : i \in DOMAIN Names}

ASSUME FilterAssumption ==
    /\ Names \in Seq(Machine) /\ Names # << >>
    /\ \A i, j \in DOMAIN Names : i # j => Names[i] # Names[j]
    /\ 0 \notin Marks
    /\ FiltersAdded \in BOOLEAN
    /\ MaxPackets \in Nat

VARIABLES
    alive,      \* no assertion has failed and no memory error has ended the process
    filter,     \* filter_, as the rules it has of the configuration
    next,       \* the main thread: index of the machine being set up ...
    mpc,        \* ... and the step
    vms,        \* virtual_machines_, as the set of machines in it
    domain,     \* libvirt
    sent,       \* packets sent (bounded by MaxPackets)
    nfqueue,    \* the packets the kernel holds for each filter, as their marks
    \* the thread of each filter
    fpc,        \* where checkQueue / checkPacket / createRequest is
    packet,     \* the mark of the packet in hand and the verdict it will get
    rqOf,       \* the request being created
    nextId,     \* request_id_
    open,       \* open_reuquests_, as the set of the ids in it
    pushed,     \* open_reuquests_ as push_back found it
    \* the worker
    queue,      \* requests_
    wpc,        \* where handleRequest / callback is
    rq,         \* the request in hand
    targets,    \* the machines still to be suspended
    snap,       \* open_reuquests_ of the caller as erase found it
    \* observations
    given,      \* the verdicts of each filter, with the marks they are about
    released,   \* ids of the packets each filter wrote to its netlink socket
    froze,      \* machines whose FREEZESRC request was answered
    frozen,     \* machines libvirt has suspended
    refused,    \* machines libvirt has failed to suspend
    missed,     \* machines looked up when they were not in virtual_machines_, or while
                \* the main thread was inside its push_back
    raced       \* filters whose open_reuquests_ was used by both threads at once

mainVars == <<next, mpc, vms>>
threadVars == <<fpc, packet, rqOf, nextId, open, pushed>>
workerVars == <<wpc, rq, targets, snap>>
history == <<given, released, froze, frozen, refused, missed>>
vars == <<alive, filter, mainVars, domain, sent, nfqueue, threadVars, queue, workerVars,
          history, raced>>

Action == {"RUNSCRIPT", "STARTVM", "FREEZESRC", "FREEZEALL", "DROP", "UNKOWN"}
NoMark == 0
Params == {Configured[i].param : i \in DOMAIN Configured} \cup {""}
Verdict == {"ACCEPT", "DROP"}
FilterPC == {"off", "recv", "push", "pushing", "add", "verdict", "ended"}
WorkerPC == {"pop", "list", "find", "suspend", "start", "callback", "erase", "erasing"}
Request == [caller : Machine, id : Nat, action : Action, arg : Params, ip : {"zero", "garbage"}]

TypeOK ==
    /\ alive \in BOOLEAN
    /\ DOMAIN filter \subseteq DOMAIN Configured
    /\ \A i \in DOMAIN filter :
          filter[i] \in [mark : Marks \cup {NoMark}, action : Action, arg : Params]
    /\ next \in 1 .. (Len(Names) + 1)
    /\ mpc \in {"define", "filter", "boot", "record", "runtime"}
    /\ vms \subseteq Machine
    /\ domain \in [Machine -> {"none", "shut", "running", "paused"}]
    /\ sent \in 0 .. MaxPackets
    /\ nfqueue \in [Machine -> Seq(Marks \cup {NoMark})]
    /\ fpc \in [Machine -> FilterPC]
    /\ packet \in [Machine -> [mark : Marks \cup {NoMark}, verdict : Verdict]]
    /\ rqOf \in [Machine -> Request]
    /\ nextId \in [Machine -> Nat]
    /\ open \in [Machine -> SUBSET Nat] /\ pushed \in [Machine -> SUBSET Nat]
    /\ queue \in Seq(Request)
    /\ wpc \in WorkerPC /\ rq \in Request
    /\ targets \subseteq Machine /\ snap \in SUBSET Nat
    /\ given \in [Machine -> Seq([mark : Marks \cup {NoMark}, verdict : Verdict])]
    /\ released \in [Machine -> SUBSET Nat]
    /\ froze \subseteq Machine /\ frozen \subseteq Machine /\ refused \subseteq Machine
    /\ missed \subseteq Machine /\ raced \subseteq Machine

-----------------------------------------------------------------------------
(* FilterManager.  An F_ definition is a fault a programmer could have     *)
(* made in the definition after it.                                        *)

StringToAction(s) == IF s \in Action THEN s ELSE "UNKOWN"

\* addFilter refuses an unknown action and one that lacks its parameter.
F_Accepts(rule) ==                                \* only scripts are checked
    ~ \/ StringToAction(rule.action) = "RUNSCRIPT" /\ rule.param = ""
      \/ StringToAction(rule.action) = "UNKOWN"
Accepts(rule) ==
    ~ \/ StringToAction(rule.action) \in {"RUNSCRIPT", "STARTVM"} /\ rule.param = ""
      \/ StringToAction(rule.action) = "UNKOWN"

\* addFilter for each rule of the configuration: filter_ has those it accepts, under
\* their numbers in the configuration.  mark_ is not set: it is whatever the memory held.
AddFilters ==
    LET kept == {i \in DOMAIN Configured : Accepts(Configured[i])}
    IN {[i \in kept |-> [mark |-> m[i], action |-> StringToAction(Configured[i].action),
                         arg |-> Configured[i].param]] :
          m \in [kept -> Marks \cup {NoMark}]}

\* handleFilter: the first rule with the mark.
HandleFilter(mark) ==
    LET hits == {i \in DOMAIN filter : filter[i].mark = mark}
        first == {i \in hits : \A j \in hits : i <= j}
    IN IF first = {} THEN [action |-> "UNKOWN", arg |-> ""]
       ELSE LET i == CHOOSE i \in first : TRUE
            IN [action |-> filter[i].action, arg |-> filter[i].arg]

-----------------------------------------------------------------------------
NoRequest == [caller |-> Names[1], id |-> 0, action |-> "UNKOWN", arg |-> "", ip |-> "zero"]

Init ==
    /\ alive = TRUE
    /\ filter \in (IF FiltersAdded THEN AddFilters ELSE {<< >>})
    /\ next = 1 /\ mpc = "define" /\ vms = {}
    /\ domain = [m \in Machine |-> "none"]
    /\ sent = 0 /\ nfqueue = [m \in Machine |-> << >>]
    /\ fpc = [m \in Machine |-> "off"]
    /\ packet = [m \in Machine |-> [mark |-> NoMark, verdict |-> "ACCEPT"]]
    /\ rqOf = [m \in Machine |-> NoRequest]
    /\ nextId = [m \in Machine |-> 0]
    /\ open = [m \in Machine |-> {}] /\ pushed = [m \in Machine |-> {}]
    /\ queue = << >> /\ wpc = "pop" /\ rq = NoRequest
    /\ targets = {} /\ snap = {}
    /\ given = [m \in Machine |-> << >>] /\ released = [m \in Machine |-> {}]
    /\ froze = {} /\ frozen = {} /\ refused = {} /\ missed = {} /\ raced = {}

-----------------------------------------------------------------------------
(* The main thread: handleOtherVMs and handleStartVM, as far as filters    *)
(* and domains are concerned.                                              *)

MainAt(pc) == alive /\ next \in DOMAIN Names /\ mpc = pc

\* createVM; assert(domain_ != 0) ends the process.
DefineVM ==
    /\ MainAt("define")
    /\ \/ domain' = [domain EXCEPT ![Names[next]] = "shut"] /\ mpc' = "filter" /\ UNCHANGED alive
       \/ alive' = FALSE /\ UNCHANGED <<domain, mpc>>
    /\ UNCHANGED <<filter, next, vms, sent, nfqueue, threadVars, queue, workerVars, history>>

\* initializeInterfaceFilter does not look at the result of start().  Without a
\* protocol family or a copy mode there is no thread and no iptables rule.  Asserted
\* handles, and an iptables that fails to add a rule and then to remove it (stop
\* calls itself with a joined thread), end the process.
StartFilter ==
    /\ MainAt("filter")
    /\ \/ /\ fpc' \in {fpc, [fpc EXCEPT ![Names[next]] = "recv"]}
          /\ mpc' = "boot" /\ UNCHANGED alive
       \/ alive' = FALSE /\ UNCHANGED <<fpc, mpc>>
    /\ UNCHANGED <<filter, next, vms, domain, sent, nfqueue, packet, rqOf, nextId, open, pushed,
                   queue, workerVars, history>>

\* startVM, unless AlwaysOn is unset; its failure ends start() and the process.
\* It fails in particular when a STARTVM rule has started the machine already.
BootVM ==
    /\ MainAt("boot")
    /\ \/ /\ domain[Names[next]] = "shut"
          /\ domain' = [domain EXCEPT ![Names[next]] = "running"]
          /\ mpc' = "record" /\ UNCHANGED alive
       \/ mpc' = "record" /\ UNCHANGED <<domain, alive>>
       \/ alive' = FALSE /\ UNCHANGED <<domain, mpc>>
    /\ UNCHANGED <<filter, next, vms, sent, nfqueue, threadVars, queue, workerVars, history>>

\* virtual_machines_.push_back, without a lock, from "record" on: the worker can look
\* into the vector before it has ended, and the entry is lost if the worker appends one
\* of its own at the same time: it serves a TAP device ("pop" here) or starts what is
\* no machine.
RecordVM ==
    /\ MainAt("record")
    /\ vms' = vms \cup {Names[next]} \/ (wpc \in {"pop", "start"} /\ vms' = vms)
    /\ next' = next + 1
    /\ mpc' = IF next = Len(Names) THEN "runtime" ELSE "define"
    /\ UNCHANGED <<alive, filter, domain, sent, nfqueue, threadVars, queue, workerVars, history>>

-----------------------------------------------------------------------------
(* The guests and the kernel.                                              *)

\* A packet for a filtered interface; the rules of the host have marked it.
Send(m, mark) ==
    /\ alive /\ sent < MaxPackets
    /\ domain[m] = "running" /\ fpc[m] # "off"
    /\ sent' = sent + 1
    /\ nfqueue' = [nfqueue EXCEPT ![m] = Append(@, mark)]
    /\ UNCHANGED <<alive, filter, mainVars, domain, threadVars, queue, workerVars, history>>

\* A guest switches itself off.
PowerOff(m) ==
    /\ alive /\ domain[m] = "running"
    /\ domain' = [domain EXCEPT ![m] = "shut"]
    /\ UNCHANGED <<alive, filter, mainVars, sent, nfqueue, threadVars, queue, workerVars, history>>

-----------------------------------------------------------------------------
(* The filter's thread.                                                    *)

\* What checkPacket decides about a mark.  up_ is set before the thread runs, and
\* stop() is only called on a thread that has seen no packet.
Decide(mark) ==
    IF mark = NoMark THEN "ACCEPT"
    ELSE CASE HandleFilter(mark).action = "DROP" -> "DROP"
           [] HandleFilter(mark).action \in {"UNKOWN", "RUNSCRIPT"} -> "ACCEPT"
           [] OTHER -> "HOLD"

Receive(m) ==
    /\ alive /\ fpc[m] = "recv" /\ nfqueue[m] # << >>
    /\ nfqueue' = [nfqueue EXCEPT ![m] = Tail(@)]
    /\ LET decision == Decide(Head(nfqueue[m]))
       IN /\ packet' = [packet EXCEPT ![m] =
                [mark |-> Head(nfqueue[m]),
                 verdict |-> IF decision = "ACCEPT" THEN "ACCEPT" ELSE "DROP"]]
          /\ fpc' = [fpc EXCEPT ![m] = IF decision = "HOLD" THEN "push" ELSE "verdict"]
    /\ UNCHANGED <<alive, filter, mainVars, domain, sent, rqOf, nextId, open, pushed, queue,
                   workerVars, history>>

\* recv fails, for example because the kernel had to drop packets: the loop of
\* checkQueue ends and with it the thread.
ReceiveFails(m) ==
    /\ alive /\ fpc[m] = "recv"
    /\ fpc' = [fpc EXCEPT ![m] = "ended"]
    /\ UNCHANGED <<alive, filter, mainVars, domain, sent, nfqueue, packet, rqOf, nextId, open,
                   pushed, queue, workerVars, history>>

\* createRequest numbers the request, whose ip_ is not set, stores the packet ...
PushBegin(m) ==
    /\ alive /\ fpc[m] = "push"
    /\ LET answer == HandleFilter(packet[m].mark)
       IN \E ip \in (IF answer.action = "STARTVM" THEN {"zero", "garbage"} ELSE {"zero"}) :
            rqOf' = [rqOf EXCEPT ![m] = [caller |-> m, id |-> nextId[m], action |-> answer.action,
                                         arg |-> answer.arg, ip |-> ip]]
    /\ nextId' = [nextId EXCEPT ![m] = @ + 1]
    /\ pushed' = [pushed EXCEPT ![m] = open[m]]
    /\ fpc' = [fpc EXCEPT ![m] = "pushing"]
    /\ UNCHANGED <<alive, filter, mainVars, domain, sent, nfqueue, packet, open, queue,
                   workerVars, history>>

F_PushEnd(m) ==                                   \* the request is never handed over
    /\ alive /\ fpc[m] = "pushing"
    /\ open' = [open EXCEPT ![m] = pushed[m] \cup {rqOf[m].id}]
    /\ fpc' = [fpc EXCEPT ![m] = "verdict"]
    /\ UNCHANGED <<alive, filter, mainVars, domain, sent, nfqueue, packet, rqOf, nextId, pushed,
                   queue, workerVars, history>>
PushEnd(m) ==
    /\ alive /\ fpc[m] = "pushing"
    /\ open' = [open EXCEPT ![m] = pushed[m] \cup {rqOf[m].id}]
    /\ fpc' = [fpc EXCEPT ![m] = "add"]
    /\ UNCHANGED <<alive, filter, mainVars, domain, sent, nfqueue, packet, rqOf, nextId, pushed,
                   queue, workerVars, history>>

\* ... and then hands the request to the core.
F_AddRequest(m) ==                                \* the queue taken for a stack
    /\ alive /\ fpc[m] = "add"
    /\ queue' = <<rqOf[m]>> \o queue
    /\ fpc' = [fpc EXCEPT ![m] = "verdict"]
    /\ UNCHANGED <<alive, filter, mainVars, domain, sent, nfqueue, packet, rqOf, nextId, open,
                   pushed, workerVars, history>>
AddRequest(m) ==
    /\ alive /\ fpc[m] = "add"
    /\ queue' = Append(queue, rqOf[m])
    /\ fpc' = [fpc EXCEPT ![m] = "verdict"]
    /\ UNCHANGED <<alive, filter, mainVars, domain, sent, nfqueue, packet, rqOf, nextId, open,
                   pushed, workerVars, history>>

\* nfq_set_verdict; when it fails nfq_handle_packet does too, and the thread ends.
F_SendVerdict(m) == given' = given                \* createRequest returns without
SendVerdict(m) == given' = [given EXCEPT ![m] = Append(@, packet[m])]

F_GiveVerdict(m) ==                               \* only when the answer is there
    /\ alive /\ fpc[m] = "verdict"
    /\ Decide(packet[m].mark) = "HOLD" => rqOf[m].id \in released[m]
    /\ SendVerdict(m)
    /\ packet' = [packet EXCEPT ![m] = [mark |-> NoMark, verdict |-> "ACCEPT"]]
    /\ fpc' = [fpc EXCEPT ![m] = "recv"]
    /\ UNCHANGED <<alive, filter, mainVars, domain, sent, nfqueue, rqOf, nextId, open, pushed,
                   queue, workerVars, released, froze, frozen, refused, missed>>
GiveVerdict(m) ==
    /\ alive /\ fpc[m] = "verdict"
    /\ \/ /\ SendVerdict(m)
          /\ packet' = [packet EXCEPT ![m] = [mark |-> NoMark, verdict |-> "ACCEPT"]]
          /\ fpc' = [fpc EXCEPT ![m] = "recv"]
       \/ fpc' = [fpc EXCEPT ![m] = "ended"] /\ UNCHANGED <<given, packet>>
    /\ UNCHANGED <<alive, filter, mainVars, domain, sent, nfqueue, rqOf, nextId, open, pushed,
                   queue, workerVars, released, froze, frozen, refused, missed>>

-----------------------------------------------------------------------------
(* The worker.                                                             *)

PopRequest ==
    /\ alive /\ wpc = "pop" /\ queue # << >>
    /\ rq' = Head(queue) /\ queue' = Tail(queue)
    /\ wpc' = CASE rq'.action = "FREEZEALL" -> "list"
                [] rq'.action = "FREEZESRC" -> "find"
                [] rq'.action = "STARTVM" -> "start"
                [] OTHER -> "callback"
    /\ UNCHANGED <<alive, filter, mainVars, domain, sent, nfqueue, threadVars, targets, snap,
                   history>>

\* suspendAllVMs: virConnectListDomains has the active domains.
ListAll ==
    /\ alive /\ wpc = "list"
    /\ targets' = {m \in Machine : domain[m] \in {"running", "paused"}}
    /\ wpc' = "suspend"
    /\ UNCHANGED <<alive, filter, mainVars, domain, sent, nfqueue, threadVars, queue, rq, snap,
                   history>>

\* getVMByCaller returns 0 for a machine that is not in virtual_machines_, and
\* suspending nothing fails.  Beside push_back it may find the entry being written,
\* or nothing; that it may also read memory that is gone is among the steps of Crash.
F_VMByCaller == {Names[1]} \cap vms               \* the first machine
VMByCaller == {rq.caller} \cap vms

FindSource ==
    /\ alive /\ wpc = "find"
    /\ \/ targets' = VMByCaller
       \/ mpc = "record" /\ targets' \in {{}, {rq.caller}}
    /\ missed' = IF rq.caller \in vms /\ mpc # "record" THEN missed ELSE missed \cup {rq.caller}
    /\ wpc' = "suspend"
    /\ UNCHANGED <<alive, filter, mainVars, domain, sent, nfqueue, threadVars, queue, rq, snap,
                   given, released, froze, frozen, refused>>

\* suspendVM; nobody looks at the result.
Suspend(m) ==
    /\ alive /\ wpc = "suspend" /\ m \in targets
    /\ targets' = targets \ {m}
    /\ \/ /\ domain[m] = "running"
          /\ domain' = [domain EXCEPT ![m] = "paused"]
          /\ frozen' = frozen \cup {m} /\ UNCHANGED refused
       \/ /\ refused' = IF domain[m] = "paused" THEN refused ELSE refused \cup {m}
          /\ UNCHANGED <<domain, frozen>>
    /\ UNCHANGED <<alive, filter, mainVars, sent, nfqueue, threadVars, queue, wpc, rq, snap,
                   given, released, froze, missed>>

AllSuspended ==
    /\ alive /\ wpc = "suspend" /\ targets = {}
    /\ froze' = IF rq.action = "FREEZESRC" THEN froze \cup {rq.caller} ELSE froze
    /\ wpc' = "callback"
    /\ UNCHANGED <<alive, filter, mainVars, domain, sent, nfqueue, threadVars, queue, rq, targets,
                   snap, given, released, frozen, refused, missed>>

\* virDomainCreate starts a machine that is shut off.
F_Startable == {"shut", "paused"}                 \* resumes as well
Startable == {"shut"}

\* STARTVM.  With an indeterminate ip_ other than 0 a new machine is set up, which
\* RequestPipeline has and which may fail an assertion; otherwise the one with the
\* name is started, if it exists, and again nobody looks at the result.
StartNamed ==
    /\ alive /\ wpc = "start"
    /\ \/ /\ rq.ip = "garbage" /\ alive' \in BOOLEAN /\ UNCHANGED domain
       \/ /\ rq.ip = "zero" /\ rq.arg \in Machine
          /\ domain[rq.arg] \in Startable
          /\ domain' = [domain EXCEPT ![rq.arg] = "running"] /\ UNCHANGED alive
       \/ rq.ip = "zero" /\ UNCHANGED <<domain, alive>>
    /\ wpc' = "callback"
    /\ UNCHANGED <<filter, mainVars, sent, nfqueue, threadVars, queue, rq, targets, snap, history>>

\* InterfaceFilter::callback: the packet with the request's id is written to the
\* netlink socket, whatever becomes of it there (nobody looks at the result), and
\* deleted ...
Kept == rq.id \in open[rq.caller]

ReleasePacket ==
    /\ alive /\ wpc = "callback"
    /\ IF Kept
       THEN /\ released' = [released EXCEPT ![rq.caller] = @ \cup {rq.id}]
            /\ wpc' = "erase"
       ELSE wpc' = "pop" /\ UNCHANGED released
    /\ UNCHANGED <<alive, filter, mainVars, domain, sent, nfqueue, threadVars, queue, rq, targets,
                   snap, given, froze, frozen, refused, missed>>

\* ... and its element erased.
EraseBegin ==
    /\ alive /\ wpc = "erase"
    /\ snap' = open[rq.caller] /\ wpc' = "erasing"
    /\ UNCHANGED <<alive, filter, mainVars, domain, sent, nfqueue, threadVars, queue, rq, targets,
                   history>>

EraseEnd ==
    /\ alive /\ wpc = "erasing"
    /\ open' = [open EXCEPT ![rq.caller] = snap \ {rq.id}]
    /\ wpc' = "pop"
    /\ UNCHANGED <<alive, filter, mainVars, domain, sent, nfqueue, fpc, packet, rqOf, nextId,
                   pushed, queue, rq, targets, snap, history>>

-----------------------------------------------------------------------------
\* Both threads inside one open_reuquests_.
VectorRace(m) ==
    /\ fpc[m] = "pushing" /\ rq.caller = m
    /\ wpc \in {"callback", "erase", "erasing"}

\* A memory error: two threads in one vector, or a callback that reads an element it
\* has deleted before.
Crash ==
    /\ alive /\ alive' = FALSE
    /\ \/ \E m \in Machine : VectorRace(m)
       \/ mpc = "record" /\ wpc = "find"
       \/ wpc = "callback" /\ released[rq.caller] \cap open[rq.caller] # {}
    /\ UNCHANGED <<filter, mainVars, domain, sent, nfqueue, threadVars, queue, workerVars, history>>

MainStep == DefineVM \/ StartFilter \/ BootVM \/ RecordVM
FilterStep(m) ==
    Receive(m) \/ ReceiveFails(m) \/ PushBegin(m) \/ PushEnd(m) \/ AddRequest(m) \/ GiveVerdict(m)
WorkerStep ==
    \/ PopRequest \/ ListAll \/ FindSource \/ AllSuspended \/ StartNamed
    \/ ReleasePacket \/ EraseBegin \/ EraseEnd
    \/ \E m \in Machine : Suspend(m)
Guest == \E m \in Machine : PowerOff(m) \/ \E mark \in Marks \cup {NoMark} : Send(m, mark)

Watch == raced' = raced \cup {m \in Machine : VectorRace(m)'}

Next == (MainStep \/ WorkerStep \/ Guest \/ Crash \/ \E m \in Machine : FilterStep(m)) /\ Watch

\* A thread that has something to do is scheduled; the calls it makes return.
Fairness ==
    /\ \A m \in Machine : WF_vars(FilterStep(m) /\ Watch)
    /\ WF_vars(WorkerStep /\ Watch)

Spec == Init /\ [][Next]_vars /\ Fairness

-----------------------------------------------------------------------------
(* Properties.                                                             *)

IdsIn(q, m) == {q[i].id : i \in {j \in DOMAIN q : q[j].caller = m}}
InService == wpc \in {"list", "find", "suspend", "start", "callback"}
Outstanding(m) == IdsIn(queue, m) \cup (IF InService /\ rq.caller = m THEN {rq.id} ELSE {})

\* Because a filter stores a packet before it hands over the request, no answer can
\* come too early, as it can for a TAP device: unless both threads were in the vector
\* at once, it holds exactly the unanswered packets, and those answered were written
\* back to the netlink socket.
HeldExactly ==
    \A m \in Machine \ raced :
        LET adding == IF fpc[m] = "add" THEN {rqOf[m].id} ELSE {}
            storing == IF fpc[m] = "pushing" THEN {rqOf[m].id} ELSE {}
            erasing == IF wpc \in {"erase", "erasing"} /\ rq.caller = m THEN {rq.id} ELSE {}
        IN /\ open[m] = Outstanding(m) \cup adding \cup erasing
           /\ released[m] = (0 .. (nextId[m] - 1)) \ (Outstanding(m) \cup adding \cup storing)

\* Every packet that makes a request is kept from the guest by a DROP verdict, and
\* every one that is dropped without being asked about has a DROP rule: requests and
\* verdicts add up, also when the thread ends between them.
VerdictsAddUp ==
    \A m \in Machine :
        LET held == {i \in DOMAIN given[m] : /\ given[m][i].verdict = "DROP"
                                             /\ HandleFilter(given[m][i].mark).action # "DROP"}
            inHand == \/ fpc[m] \in {"pushing", "add"}
                      \/ /\ fpc[m] \in {"verdict", "ended"} /\ packet[m].verdict = "DROP"
                         /\ HandleFilter(packet[m].mark).action # "DROP"
        IN nextId[m] = Cardinality(held) + (IF inHand THEN 1 ELSE 0)

\* addFilter and checkPacket together keep from handleRequest what it cannot do: an
\* action its switch does not know, and a machine or a script without a name.
WorkerKnowsAction ==
    \A r \in {queue[i] : i \in DOMAIN queue} \cup (IF wpc = "pop" THEN {} ELSE {rq}) :
        /\ r.action \in {"FREEZEALL", "FREEZESRC", "RUNSCRIPT", "STARTVM"}
        /\ r.action \in {"RUNSCRIPT", "STARTVM"} => r.arg # ""

\* Once suspended a machine never runs again, although requests to start it by name
\* may follow: nobody resumes.
FrozenStays == \A m \in frozen : domain[m] = "paused"

\* An answered FREEZESRC has suspended the machine the packet came for, unless libvirt
\* refused, or getVMByCaller ran when the machine was not in virtual_machines_ (it runs
\* before push_back, and its entry can be lost) or while the main thread was appending.
SourceFrozen == \A m \in froze : domain[m] = "paused" \/ m \in refused \/ m \in missed

-----------------------------------------------------------------------------
(* What the filters promise.                                               *)

Asked(r) == [guest |-> r.caller, number |-> r.id, action |-> r.action, whom |-> r.arg]
HeldBack == {Asked(queue[i]) : i \in DOMAIN queue}
            \cup {Asked(rqOf[m]) : m \in {m \in Machine : fpc[m] \in {"pushing", "add"}}}
Booted == {Names[i] : i \in {i \in DOMAIN Names : i < next \/ (i = next /\ mpc = "record")}}

Gate == INSTANCE PacketGate WITH
            Guests <- Machine, Whom <- Params, asked <- nextId, waiting <- HeldBack,
            acting <- IF InService THEN {Asked(rq)} ELSE {}, passed <- released,
            power <- domain, booted <- Booted, lossy <- raced

\* The filters, the queue and the worker together do nothing but what the gate promises:
\* one action at a time, in the order of each machine's packets, each packet written back
\* once and after its action, unless the filter's two threads met in its vector; and no
\* machine is suspended or started by name but for the packet in hand.
PacketGateSpec == Gate!PacketSpec

-----------------------------------------------------------------------------
\* Every packet the kernel queues is decided, unless the filter's thread has ended
\* with a failing call.
PacketsDecided ==
    \A m \in Machine :
        nfqueue[m] # << >> ~> (~alive \/ fpc[m] = "ended" \/ (nfqueue[m] = << >> /\ fpc[m] = "recv"))

\* A packet held by a filter that is spared the race is written back in the end.
HeldPacketReleased ==
    \A m \in Machine, k \in 0 .. (MaxPackets - 1) :
        k \in open[m] ~> (~alive \/ m \in raced \/ k \in released[m])

\* example/simple_example.json, Rule 2: packets with a mark that the configuration has
\* a DROP rule for are not accepted.  start() never calls addFilter.
ConfiguredDrops ==
    \A m \in Machine, c \in DOMAIN Configured : \A i \in DOMAIN given[m] :
        /\ Configured[c].rule = given[m][i].mark /\ Configured[c].action = "DROP"
        /\ \A d \in DOMAIN Configured : Configured[d].rule = Configured[c].rule => d >= c
        => given[m][i].verdict = "DROP"
=============================================================================
