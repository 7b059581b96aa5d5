# TLA+ models of EMPCA

EMPCA puts virtual machines behind TAP devices of one bridge and starts further
machines on demand: when a guest asks by ARP for an address nobody serves, the
question is held, a machine is set up for the address, and the question is then
written to the bridge.  This directory holds TLA+ modules of that program, the TLC runs
that check them and the TLAPS proofs about them.  Paths below are relative to
the repository (`src/src/X.cpp` in PROJECT.json is its `src/X.cpp`).

## Inventory

| Part | State | Operations | Interacts with |
|---|---|---|---|
| `EMPCACore` (worker) | `requests_`, `available_ip_adresses_`, `virtual_machines_` | `checkIP`, `addRequest`, `handleRequest`, `initializeNewVM`, `addIP`, `getVMByCaller` | called by the threads of all TAP devices and filters; calls every other part; calls back the device that asked |
| `EMPCACore` (start-up) | pointers to all parts, `worker_thread_` | `start`, `handleDHCP`, `handleOtherVMs`, `handleStandardTemplate`, `handleStartVM`, `handleRuntime`, destructor | main thread, beside the worker |
| `TAPDevice` | `open_reuquests_`, `request_id_`, two descriptors, one thread | `analyzeTraffic`, `handleARP`, `createRequest`, `callback`, `start`, `stop`, `up`, `down`, `openTAP`, `closeTAP` | kernel TAP interfaces, `TAPDeviceManager`, worker |
| `TAPDeviceManager` | `devices_`, `sequential_number_` | `createNewTapDevice`, `removeTapDevice`, `checkIP`, `addRequest` | core |
| `InterfaceFilter` | `open_reuquests_`, `up_`, a netfilter queue, one thread | `start`, `stop`, `checkQueue`, `checkPacket`, `createRequest`, `callback` | netfilter, iptables, `FilterManager`, worker |
| `FilterManager` | `filter_`, `interface_filter_`, `queue_number_` | `addFilter`, `handleFilter`, `createNewInterfaceFilter`, `stringToAction` | core |
| `BridgeManager` | `init_`, bridge name | `init`, `shutdown`, `addTAP`, `removeTAP`, create/delete/up/down | libbridge, libnettools |
| `VirtlibConnection` | connection, guestfs handle | define, start, suspend, resume, stop domains, `addTapToDomain`, images | libvirt, libguestfs |
| `DHCPHandler` | directory, pid | `addHosts` | dnsmasq |
| `ConfigManager` | JSON values | `readConfig`, `validateJSON`, getters | start-up |
| `libbridge` | control socket, sysfs path | bridge and port ioctls with an older fallback | kernel |
| `libnettools` | sockets per address family, a cache of names | interface flags; route commands and route tables, which nothing in the program calls | kernel, resolver |
| Build, example, licences | none | `test.cpp` starts and stops one device by hand | |

Hard behaviour, in order of weight:

* three kinds of threads (main, one worker, one per TAP device and per filter)
  share vectors, a set and counters without a lock; only `requests_` is a
  concurrent container;
* a request is queued before the frame it is about is stored;
* every outcome of the kernel, libvirt, dnsmasq and the scripts is possible at
  every step, and many results are ignored;
* start-up overlaps with the worker, and the destructors with everything;
* images, domains and host files outlive the process, and are named by a clock that
  is read twice; dnsmasq may be another process than the one whose pid is known;
* other processes change bridges and ports between two calls of libbridge.

What makes each part correct: the worker answers each request once, in order,
and only after the address is served; a TAP device releases every held frame
once and in order; an address becomes known only with a device in the bridge;
numbers of interfaces and queues are unique; `STATUS::OK` means that the
configured machines are there; devices and bridge give back what they took from the
kernel.  The code keeps much of this only up to a race or an ignored error, and a
property below that holds up to such an exception names it.

## Modules

| Module | What it is |
|---|---|
| `AddressGate` | the promise about addresses, without threads: hold, pass, serve, answer |
| `RequestPipeline` | TAP threads, request queue, worker, callback, all unprotected sharing |
| `RequestPipelineProofs` | TLAPS: types, that the pipeline implements the gate, when set-ups end; order of requests and of released frames, the record of machines, the two ways to lose a frame |
| `CoreLifecycle` | a whole run: `start`, its early returns, the worker beside it, the destructors |
| `CoreLifecycleProofs` | TLAPS: types, numbering, order of start-up, what `STATUS::OK` means |
| `HostInterfaces` | TAP devices and the bridge manager call by call, beside other users of the kernel |
| `HostInterfacesProofs` | TLAPS: all its safety properties, and that `shutdown` removes the bridge |
| `PacketGate` | the promise about packets that need an action of the core, without threads: hold, take up, freeze, start, let through |
| `FilterPipeline` | packet filters: netfilter queues, verdicts, held packets, the worker's other actions |
| `FilterPipelineProofs` | TLAPS: known actions, frozen machines, verdicts, held packets, that the pipeline implements the gate |
| `MachineFiles` | what outlives the process: images, domains, host files; crashes and restarts |
| `MachineFilesProofs` | TLAPS: all its safety properties |
| `ConfigManager` | what `validateJSON` checks against what the getters need |
| `ConfigManagerProofs` | TLAPS: an accepted configuration can be read |
| `BridgeLibrary` | libbridge access by access, beside processes that change the bridges |
| `BridgeLibraryProofs` | TLAPS: iterations are complete, undisturbed calls exact |
| `RouteCommand` | libnettools: a route command read word by word |
| `RouteTables` | libnettools: route tables read line by line, and the cache of names |
| `RouteProofs` | TLAPS: what the kernel is told fits together and is what the words say; columns and names of the tables |
| `MCRequestPipeline`, `MCCoreLifecycle`, `MCHostInterfaces`, `MCFilterPipeline`, `MCMachineFiles` | the instances TLC checks |
| `MCLibraries` | the sequential parts `ConfigManager` (with the documents of `MCConfigManager`), `BridgeLibrary`, `RouteCommand` and `RouteTables` side by side |

`BridgeLibrary`, `RouteCommand` and `RouteTables` model code that was copied into the
repository.  Of libbridge the program uses four functions, which are in `HostInterfaces`;
of what `RouteCommand` and `RouteTables` model it uses nothing.

The modules overlap where one needs the outcome of what another has in detail:
`CoreLifecycle` and `RequestPipeline` know `addTAP` and `createNewVM` by their
outcomes, `HostInterfaces` and `MachineFiles` have the calls; `addHosts`, which touches
none of the state of `RequestPipeline`, is in `MachineFiles` and, as a call of the worker,
in `CoreLifecycle`.  An operator
whose name begins with `F_` is a plausible fault in the definition after it; no
specification uses it, it serves to show that some property would notice.

### RequestPipeline

The module begins when `start` has reached `handleRuntime`.  `tpc[t]` is the
place of the thread of device `t`; `wpc` that of the worker.

| Code | Model |
|---|---|
| `analyzeTraffic`, `handleARP`, `checkIP` | `ReadArp`, `CheckIP` |
| `createRequest` up to `addRequest`; `push_back` | `AddRequest`; `PushBegin`, `PushEnd` |
| `requests_.pop` and the test of `ip_` | `PopRequest` |
| `initializeTAPDevice` | `StartTap` |
| `createNewVM` and `initializeInterfaceFilter`; `startVM` | `DefineVM`; `BootVM` |
| `addIP`, `virtual_machines_.push_back` | `AddIP`, `RecordVM` |
| `TAPDevice::callback`: write and delete; `erase` | `ReleaseFrame`; `EraseBegin`, `EraseEnd` |

`MaxFrames` bounds the questions; every question sets up at most one device, so
the guard `tapCount \in Tap` of `StartTap` never stops the worker.  `MaxOffs` bounds the
guests that switch themselves off (`PowerOff`).

`open_reuquests_` is the set of the request numbers in it: the order of its
elements decides nothing, because numbers are unique (`FifoPerTap`).  The C++
data races are modelled by what they can do.  A `push_back` writes back the
vector as it found it plus one element, an `erase` what it found minus one, so
each can undo the other; while the worker inserts an address, a look-up may
miss any address; and where both threads are in one container, or a deleted
element is read, the process may die (`Crash`).  Outcomes that leave wrong bytes
behind without killing the process are not modelled.  Frames other than ARP
questions and all traffic towards the guest change no state and are left out.
The filters make no requests here: no rule is ever loaded (`addFilter` has no
caller), so `handleFilter` lets every packet pass; `FilterPipeline` has what they
would do with rules.

History variables: `out` and `onBridge` (what was written to the bridge side), `madeFor`
(the address made available for each device's machine), `early` (requests answered
after they were queued and before their frame was stored) and `raced` (devices whose two
threads met in `open_reuquests_`).  `early` is no data race: the two threads are one after
the other in the vector, in the wrong order.

Checked (run `pipeline_safety`: one start-up device, three questions about four
addresses, one of them served and one 0.0.0.0, so that up to three machines are
set up, all three questions can come from one guest, and machines set up at run
time ask questions themselves; the addresses not served are interchangeable and
declared symmetric):

* `FifoPerTap`, `ReleasedInOrder`: in spite of all races a device never releases
  a frame twice or out of order.
* `BookkeepingExact`: the exact content of `open_reuquests_` and of what was
  released, for every device that was spared the data race.  The frames in `early` stay
  in the vector for ever, all others are released when their request is answered.  A
  frame is therefore lost in these two ways and in no third.
* `BridgeAsksOnlyServed`: an address is available before a question about it is released.
* `SettledStays`: two questions about one address may set up two machines; once the
  address is available and no request for it is under way, none is set up for it
  again, but for a look-up in the middle of an insertion.
* `GateSpec`: the pipeline implements `AddressGate`, with `available` for
  `served`, the addresses of queued requests and the one in hand for `waiting`
  and `onBridge` for `asked`.  Served means that a set-up for the address has come to its
  end: `addIP` also runs when the machine could not be defined or started.

Run `pipeline_liveness` (two start-up devices, two questions about one address or 0.0.0.0,
one guest that may switch itself off) checks

* `EveryRequestAnswered` and `HeldFrameReleased`, which exempts frames in `early`, devices
  in `raced` and a process that has ended;
* `MachinesRecorded`: `running_` says which machines were started, not which still run;
  `virtual_machines_` has no device twice, and every address made available has an
  entry of a machine set up for it, or is about to.

Fairness: weak fairness of the
worker and of each TAP thread inside `createRequest`.  None of these steps waits
for anything but the calls it makes, which return; guests need not ask.

### CoreLifecycle

`todo[p]` is the list of calls thread `p` still has to make; `Return(status)` is
an early return of `start`, which leaves the destructors to be called.  The main
thread sets up the machines of `OtherVms` and `StartVm`, the worker one for each
question, and both number devices and netfilter queues (`GiveNumber`, `Count`).
A counter is read, then advanced; the addition may use the value the thread saw
first.  `Crash` ends the process when both threads are in the same unprotected
container or the worker uses what the destructor deleted.  Where it does not, one of two
elements added at once may be lost: `vms` is what was pushed to `virtual_machines_`,
`lostEntries` the places of it that were overwritten, `lostIPs` the addresses whose
insertion came to nothing, and `created` lacks the element of `devices_` or
`interface_filter_`.  A lost TAP device is not destroyed, so its thread does not end the
process in `DeleteTaps`; an `InterfaceFilter` never is, because `~FilterManager` deletes
only the rules.

A device has two interfaces with consecutive numbers, and `openTAP` may open either, both
or none.  What `tap_in_mac_` then is (`mac`) decides in `CopyMac` whether the text of the
interface can be made: a null pointer ends the process, one that was never set may.

| Code | Model |
|---|---|
| `main`, `start` up to the worker thread | `Begin`: `ReadConfig`, `HandleDHCP`, `InitBridge`, `InitVirtlib`, `HandleStandardTemplate`, `SpawnWorker` |
| the loop of `handleOtherVMs`, then `handleStartVM` | `NextTemplate`, which loads `OtherSteps` or `StartSteps` |
| `requests_.pop`, `initializeNewVM` | `PopRequest`, which loads `NewSteps`; `Lease` |
| `createNewTapDevice`, `createNewInterfaceFilter` | `GiveNumber`, `Count` |
| `initializeTAPDevice`, `initializeInterfaceFilter` | `OpenTap`, `AddTAP`; `StartFilter` |
| `createVM` or `createNewVM`, `startVM`, `addTapToDomain` | `Define`, `Boot`, `Attach`, with `CopyMac` |
| `addIP`, `virtual_machines_.push_back` | `Insert`, `Record` |
| scripts; `handleRuntime` | `RunScript`; `HandleRuntime` |
| `~EMPCACore` | `Destructor`: `DestroyBridge`, `DeleteVirtlib`, `DeleteTaps`, `DeleteFilters`, `DeleteCore` |

Run `lifecycle`: a machine that is not always on and one that is, one question,
every failure of every step.  Both machines are configured with 0.0.0.1, the address
all of `OtherVms` are registered with, so that the running one asks for `StartIP`
before `StartVm` is registered; a guest asking for an address no machine is configured
with takes the same steps.  One question is enough for both threads to be in the
same call, since the machine asking it is set up before `StartVm` is; two questions
exceed five minutes.  No fairness is assumed, as nothing is claimed to happen.

* `NumbersUnique`: numbering goes wrong only if both threads were inside one
  `createNew...` at once; `assert(qh_ != 0)` (`src/InterfaceFilter.cpp:44`) fails for
  no other reason, as far as it is up to the program.
* `WorkerHasItsTools`: what `handleRequest` dereferences is there while `start` runs.
* `OkMeansComplete`: after `STATUS::OK` every configured machine was pushed to
  `virtual_machines_` at a place of its own, in the state its `AlwaysOn` asks for; the
  places and addresses that the other thread's push or insertion overwrote are the only
  exception.
* `ServedHasMachine`: while `start` runs, behind a registered address there is a machine
  whose outer interface is a port of the bridge, which `~EMPCACore` may delete later.  Whether anybody forwards to it is not said: the result of
  `TAPDevice::start` is ignored.

Two runs show where the code does not do what the repository says:

* `lifecycle_othervms`: the address of a machine of `OtherVms`
  (`example/simple_example.json:12`) is never registered; `getOtherVMs` stores
  the result of `isUInt()`.
* `lifecycle_exit`: after "Press enter to exit" (`src/EMPCACore.cpp:290`) the
  process ends by `std::terminate`, since `~TAPDevice` destroys a running thread.

### HostInterfaces

`RequestPipeline` and `CoreLifecycle` know the kernel only by the outcomes of
whole methods; this module has the methods call by call.  `todo[d]` is the list
of system calls the method running on device `d` still makes, `phase[d]` the
last method and its result; `bphase` is the same for the bridge manager.

| Code | Model |
|---|---|
| `start`, `openTAP`, `up` | `Start`, `OpenTAP`, `SetFlag`, `RunThread`, `UpFails` |
| `stop`, `closeTAP`, `down`, destructor | `Stop`, `CancelThread`, `Down`, `Unpersist`, `CloseBoth`, `Delete`, `DestroyThread` |
| `BridgeManager::init`, `shutdown` | `InitSocket`, `CreateBridge`, `BridgeUp`, `UndoInit`; `Shutdown`, `BridgeDown`, `ShutdownBridge` |
| `assert(addTAP)` | `AddTAP` |

The functions of libbridge repeat a failing request with the older system call;
as that fails for the same reason, a function is one step with one result.
Interfaces and the bridge may have been left behind by somebody, and other
processes may hold, release or enslave interfaces and change the bridge
(`Meddle`, bounded by `MaxMeddling`); `strange` and `meddled` record it.  A
second device with the same number, the outcome of the race in
`createNewTapDevice`, is such another holder.  They do not delete an interface
this process has open.  After `ended` the kernel closes everything, which is not
modelled.

A call may also fail for reasons of its own.  `refused` has the devices of which `if_down`
failed on an interface that was there, `unknown` says that `br_del_bridge` failed with
another error than ENXIO and EBUSY, which `deleteBridge` reports as success
(`src/BridgeManager.cpp:140`), and `if_init` may end the process in `up()` and `bridgeUp()`
(`NoSocket`).

Run `interfaces` (one device, which meets others only at the bridge, and three
interferences, enough to change one interface twice and the bridge in between):

* `ForwardsUnlessTaken`: what a running thread may rely on.
* `GivesBack`: what `start` and `stop` leave after a failure at any call.  `closeTAP` stops
  at the first `if_down` that is refused, and then both descriptors stay open.
* `PlacedIsPort`: a placed device stays a port while nobody interferes.
* `InitAllOrNothing`: when `init` returns, the bridge is up or a bridge it made is gone, or
  down if `br_del_bridge` failed too.  The exit of `if_init` leaves the bridge behind.
* `ShutdownRemoves`: a `shutdown` that succeeds has removed the bridge even if it was set
  up again meanwhile, but for an `unknown` error.

`addTAP` takes EBUSY for "already in the bridge" (`src/BridgeManager.cpp:46`), also
when it is another bridge; the model has both meanings, and `PlacedIsPort` holds
only as far as nobody enslaved the interface.

### FilterPipeline

One filter per configured machine: its netfilter queue, its thread, its
`open_reuquests_`.  The main thread sets the machines up meanwhile, so that
packets come before a machine is in `virtual_machines_`.

| Code | Model |
|---|---|
| `handleOtherVMs`, `handleStartVM` | `DefineVM`, `StartFilter` (`start`, and `stop` in its failures), `BootVM`, `RecordVM` |
| `addFilter`, `stringToAction`; `handleFilter` | `Accepts`, `AddFilters`, `StringToAction`; `HandleFilter` |
| `checkQueue`, `checkPacket` | `Receive`, `ReceiveFails`, `GiveVerdict` |
| `createRequest` | `PushBegin`, `PushEnd`, `AddRequest` |
| `handleRequest` | `PopRequest`; `ListAll`, `FindSource`, `Suspend`, `AllSuspended`; `StartNamed` |
| `callback` | `ReleasePacket`, `EraseBegin`, `EraseEnd` |

`start()` reads the section `Filter` but hands its rules to nobody. The model has both
programs: with `FiltersAdded = FALSE` the one `main` runs, with `TRUE` the classes as
somebody who calls `addFilter` would find them. `addFilter` does not set `mark_`; the
model gives every rule every mark. A request's `ip_` is not set either: zero or not is a
choice (`StartNamed`). `getVMByCaller` walks over `virtual_machines_` without a lock:
while the main thread is in `push_back` it finds the machine, finds none or ends the
process (`FindSource`, `Crash`), and the entry may be lost beside another append
(`RecordVM`). A packet is let through by a write to the netlink socket whose result
nobody looks at (`src/InterfaceFilter.cpp:98`); `released` has what was written, not
what arrived. A frozen or started machine matters, what runs inside does not; a guest
may switch itself off at any time, and libvirt may refuse any call. Packets sent are
bounded by `MaxPackets`.

Run `filters` (two machines, two marks, two packets, a FREEZESRC and a STARTVM rule
and two that must be refused): two packets are enough for both threads of a filter to be in
its vector, for two filters to wait at once and for a start after a freeze.

* `HeldExactly`, `VerdictsAddUp`: in contrast to a TAP device a filter stores
  first and asks then, and its packets, verdicts and requests add up.
* `WorkerKnowsAction`: what `addFilter` refuses and `checkPacket` answers by itself
  is just what `handleRequest` cannot do.
* `FrozenStays`: a suspended machine does not run again.
* `SourceFrozen`: an answered FREEZESRC has suspended its machine, unless libvirt refused or
  the machine is in `missed`: looked up when it was not in `virtual_machines_`, or while
  that vector was being appended to.
* `PacketGateSpec`: the pipeline implements `PacketGate`.  A packet waits from the
  moment `createRequest` numbers it until the worker pops its request, `acting` is the
  request in hand until `callback`, `passed` is what was written back.  The gate says
  which packet a machine may be frozen or started for, in what order those of a machine
  are served, and that one is let through without effect only by a filter in `raced`:
  the queue, the numbering and the branches of `handleRequest` have to agree for that.

Run `filters_live` (one machine, three packets, a FREEZEALL, a DROP and a
RUNSCRIPT rule): `PacketsDecided`,
`HeldPacketReleased`, with the exceptions of the ended thread, the ended process and, for
the latter, the data race.  Fairness as above: weak fairness of the worker and of each
filter thread, not of the guests.  It assumes that a call returns, not that it
succeeds: the thread may end at any packet.

Run `filters_loaded` shows where the code does not do what the repository says: a
packet with a mark that has a DROP rule (`example/simple_example.json:40`) is
accepted, since `start()` does not call `addFilter`.  The action RUNSCRIPT is not
asked for even with rules loaded: `checkPacket` accepts such a packet itself.

### MachineFiles

One machine after the other is set up by the worker (`PopRequest` to `RecordVM`);
the process may end at any step and be started again (`End`, `Restart`), which
forgets `requests_` and the addresses but not images, domains and host files.

| Code | Model |
|---|---|
| `createImageWithBackingImage` | `CreateImage`: named by `time(0)`, put before the last `.` of the path, which may be in a directory or missing |
| the rest of `createNewVM` | `DefineVM`: named by a second `time(0)`; libvirt refuses a name in use, a missing image, and a definition that is not XML |
| `createInterfaceDefinition` | `MacPosition`, `WellFormed` |
| `DHCPHandler::addHosts` | `WriteHost`, `Signal` |
| `startVM`; `addIP` and the record | `BootVM`; `RecordVM` |
| dnsmasq (external) | `ReadFiles`, `RestartDnsmasq` |

Run `machines`: three machines, three seconds, two runs of the program and one
restart of dnsmasq.  Three machines are what it takes for two to share an image and
a third to be refused; the address plays no part in the names, so one is enough.

* `SharedDisk`: two domains share an image only if the clock moved on between the
  image and the name of the later one but not of the earlier one; hence never three.
* `DefinedHasDisk`: there is no domain without an image, although nobody looks.
* `LeaseTold`: dnsmasq knows a running machine, or is about to, unless the host file
  could not be written or the signal went to a process of the past.

Run `machines_xml` shows where the code does not do what its template says
(`src/VirtlibConnection.cpp:16`): the address is written at position 78
(`src/VirtlibConnection.cpp:183`), where `MAC` is only while the name of the device
has four characters, `tap0` to `tap9`.

### ConfigManager

A document is the type of each of its values; ten types are what the checks and
the conversions of jsoncpp (modelled from their use) tell apart.  `ValidateJSON`
is the outcome of the checks in their order, an operator ending in `Throws` says
of a getter whether it throws, and the actions are the calls of `start()` and of
the destructor that use the configuration.  A call may also end `start()` for
reasons of its own.  A file that cannot be parsed leaves any document.

Checked in run `libraries` for all documents that differ from a valid one in
`MaxRuntime` and in one more value.  The values do not interact but in the order of
the checks, which two changed values can show.

* `OnlyRuntimeEscapes`: an accepted configuration can be read, except for a
  `MaxRuntime` that is negative or too large; that ends the process when all
  machines run.
* `DestructorReads`, `ChecksDoNotThrow`: which documents make the destructor or
  `validateJSON` itself throw instead of being refused.

### BridgeLibrary

One call of libbridge at a time (`rq`), one step for each access to the kernel;
between two steps another process may take a port out, put one in or delete a
bridge (`Change`, bounded by `MaxChanges`).

| Code | Model |
|---|---|
| `br_foreach_bridge`, `br_foreach_port` | `ListSysfs`, `VisitNew`; `ListOld`, `VisitOld`, the fallback |
| `br_set`, `port_set`, `get_portno` | `OpenAttribute`, `WriteAttribute`; `GetPortNo`, `IoctlSet` |
| `br_get_bridge_info`, `br_get_port_info` | `OpenDirectory`, `ReadIds`, `ReadIntegers`; `IoctlGet` |
| `br_read_fdb` | `ReadForwarding`, with its ten tries |
| `br_del_interface` | `RemovePort` |
| the conversions of `libbridge_private.h` | `JiffiesOf`, `TimeOf` |

Of the values that are read and set there is one of each kind.  Run `libraries` has
two bridges, two interfaces and one change, which is enough to renumber a port
between `get_portno` and the ioctl.

* `UndisturbedIsExact`: what an undisturbed call reports is so, what it sets is set
  in the kernel's units and nothing else is, unless sysfs refused the value.
* `EachOnce`: whatever changes meanwhile, an iteration visits nothing twice and
  misses nothing that was there throughout.

### RouteCommand and RouteTables

Copies of net-tools that the program links and does not call.  In `RouteCommand` an
address or a mask is the set of its one bits (`Width` of them), and the words, the
answers of the resolver and those of the kernel are chosen when they are read.

| Code | Model |
|---|---|
| `route_edit`, `INET_rinput`, `X25_rinput` | `RouteEdit` |
| `INET_setroute`, `INET_resolve`, `INET_getnetmask` | `Target`, `Word` and one operator per option, `Bare`, `LastWord` |
| `X25_setroute`, `X25_input` | `Target25`, `Word25`, `LastWord25` |
| the socket and the ioctl | `OpenSocket`, `Tell` |
| `aftrans_opt`, `aftrans_def`, `getroute_init`, `route_info` | `AftransOpt`, `AftransDef`, `GetrouteInit`; `RouteInfo`, `NextFamily` |
| `proc_gen_fmt`, `proc_guess_fmt` | `Format`, `Layout` |
| `rprint_fib`, `rprint_cache` | `OpenFib`, `FibLine`; `OpenCache`, `CacheLine`, `UnknownLine`, `NoFormatLine`; `EndOfTable` |
| `INET_rresolve` and its cache | the names a line is printed with |
| `rprint` of the other families | `OtherTable` |

Run `libraries`: masks of two bits, two words after the target, every option;
tables of two lines, with the columns of the kernel and with one missing, added or
two swapped.  Two options and a device as the last word show every pair of options,
in both orders.

* `RouteFits`: a host route has the mask its command needs, a network's mask is
  contiguous and covers the target, numbers are in range, and no way out leaves a
  socket open.
* `RouteAsGiven`: the kernel is told what the words say, read together; of metric and irtt
  the sixteen bits of their fields, so that `metric 65535` and `irtt 65536` are told as 0.
* `ColumnsFound`: a table is read only if it has its columns in order; what is printed
  under a title is from the column of that title in this line.  Only the columns after the
  tenth (of the cache the twelfth) of a short line may differ: they show an earlier line's
  value, and `SpecDst` the `Source` of this line, because the text that is parsed again is
  a name by then and the failed parse leaves the address parsed last (`Reparsed`).
* `NamesStay`: an address is called the same in every table.

What reading and checking showed, without a line of the repository to contradict: a host
route with an explicit mask is always refused; a prefix of 32 gives, on x86, no mask at
all; of an X.25 address only one digit more than counts is copied into a variable nobody
initialised (`Copied`); `X25_input` writes through a null pointer for an address without
a slash that is too long or too short; a cache with only the column IRTT or only TOS is
taken for the old or the new layout and read with no format at all, as any is whose
columns are not in order, and another unknown layout is read as garbage; `NETROM_rprint`
leaves two files open for each call, a failing `proc_gen_fmt` one.

## Proofs

Each module of proofs has its own invariant, because none of the properties is
inductive as it stands; what has to be added is the argument why the code is right.
A temporal theorem combines `Init => Inv`, `Inv /\ [Next]_vars => Inv'` and
`Inv => property`; `Next` is split by action.

All safety properties of `RequestPipeline` are proved, for any number of devices,
questions and addresses, from the one assumption `PipelineAssumption` (0.0.0.0 is
an address, the known addresses are addresses, at least one start-up device).

| Theorem | Property | Strengthened by |
|---|---|---|
| `TypeCorrect` | `TypeOK` | `StoringNumbered`: a frame is stored under `request_id_ - 1`, which is a number only because `createRequest` counted before |
| `ImplementsGate` | `GateSpec` | `ServedBeforeAnswer`: from `addIP` to `callback` the address of the request in hand is available |
| `OnlyServedOnBridge` | `BridgeAsksOnlyServed` | holds of the abstract gate, and is carried over by the refinement step |
| `RequestsInOrder` | `FifoPerTap` | `OrderInv`: a number is in one of four places, and these are ordered: released < worker's hand < queue < counter |
| `FramesInOrder` | `ReleasedInOrder` | the same; the content of `open_reuquests_` plays no part, which is why the races cannot hurt |
| `MachinesAccounted` | `MachinesRecorded` | `FreshMachine`: the worker's machine is the last one and is not in `virtual_machines_` yet; a guest that switches itself off stays one that was started |
| `SetUpsEnd` | `SettledStays` | `TypeOK` alone: no single step takes an address back or asks for a settled one, but for a look-up during an insertion, which the property exempts |
| `NoFrameLostWithoutRace` | `BookkeepingExact` | `Undisturbed`: on a device without a race, neither thread works on a stale copy of the vector, and a number being stored is unanswered or in `early`; needs `OrderInv` |

`CoreLifecycle`, for any list of `OtherVms`, any addresses and any number of
questions (`LifecycleAssumption` gives the types).  The base of all is `Place`: each
thread is at a known call of a known list, so that the calls before it have been
made.

| Theorem | Property | Strengthened by |
|---|---|---|
| `LifecycleTypeCorrect` | `TypeOK` | `Place` |
| `WorkerReady` | `WorkerHasItsTools` | `Tools`: what `start` has set up before each of its calls |
| `NumberedInOrder` | `NumbersUnique` | `Numbers`: the numbers given are consecutive and below the counter, and the queue of a filter about to start is not bound, while the counter was never shared |
| `ServedBehindBridge` | `ServedHasMachine` | `Serving`, until `start` returns: the outer interface of the machine a thread is about to register is in the bridge; `StartVm` is recorded before its address, any other machine after |
| `OkIsComplete` | `OkMeansComplete` | `Progress`: the machines before `next` were pushed at a place each, which keeps its element or is in `lostEntries`; the worker only appends |

`HostInterfaces`, for any number of devices set up, stopped and deleted at once and
any amount of interference (`HostAssumption`).

| Theorem | Property | Strengthened by |
|---|---|---|
| `HostTypeCorrect` | `TypeOK` | `Placed`: a device is at one place of one method |
| `DevicesForward` | `ForwardsUnlessTaken` | `Own`: what the calls before that place have done to every interface no other process ever had, and which of them was refused |
| `DevicesGiveBack` | `GivesBack` | the same |
| `PortsStay` | `PlacedIsPort` | the same, with `BridgeInv` |
| `BridgeComplete`, `BridgeGone` | `InitAllOrNothing`, `ShutdownRemoves` | `BridgeInv`: a bridge that is absent has no ports, and each phase of the manager fixes the bridge unless somebody meddled or `br_del_bridge` failed with an unknown error |

`FilterPipeline`, for any machines, marks, rules and packets (`FilterAssumption`).

| Theorem | Property | Strengthened by |
|---|---|---|
| `FilterTypeCorrect` | `TypeOK` | `RulesOK`: the rules are among those configured, with the type of a rule |
| `OnlyKnownActions` | `WorkerKnowsAction` | `RulesOK`: no rule got in that nobody could carry out; `ThreadInv`, `QueueInv`: nor a request, on its way to the worker |
| `FrozenForGood` | `FrozenStays` | `DomainInv`: a domain is paused once and for all, and never defined again |
| `SourcesFreeze` | `SourceFrozen` | `FreezeInv`: from `getVMByCaller` to the answer the machine is still to be suspended, has been tried or was missed |
| `VerdictsCount` | `VerdictsAddUp` | `VerdictInv`: a thread is started once, in its machine's turn, and between two packets each one withheld has its request |
| `NoPacketLostWithoutRace` | `HeldExactly` | `LineInv`: a number is in one place, being stored, in the queue or in hand; `BookInv`: on a filter without a race, neither thread works on a stale copy of the vector |
| `ImplementsPacketGate` | `PacketGateSpec` | all of the above and `OrderInv`: the requests of a machine are queued in the order of its packets; `ServiceInv`: the worker's place in `handleRequest` fits the action in hand.  One lemma per thread maps its steps; taking a request up needs both the order and `LineInv`, letting one through needs `BookInv` |

`MachineFiles`, for any number of machines, seconds, runs and restarts
(`FilesAssumption`).

| Theorem | Property | Strengthened by |
|---|---|---|
| `FilesTypeCorrect` | `TypeOK` | `TypeInv`: while the worker is at a machine there is one in hand |
| `DisksSharedSeldom` | `SharedDisk` | `ClockOrder`: an image is named after all names given before, a name after its image |
| `DomainsHaveDisks` | `DefinedHasDisk` | the same |
| `LeasesTold` | `LeaseTold` | `LeaseOrder`: the host file comes before the signal and both before `startVM` |

`BridgeLibrary`, for any finite sets of bridges and interfaces, any times and costs, and
any number of changes by other processes (`BridgeLibraryAssumption`).

| Theorem | Property | Strengthened by |
|---|---|---|
| `IterationsAreComplete` | `EachOnce` | `IterationInv`: what was there throughout has been visited or is still to be, and nothing of what is still to be has been |
| `UndisturbedCallsAreExact` | `UndisturbedIsExact` | `CallInv`: what a call has learned of the kernel before each of its steps, with the kernel's own promise that ports of a bridge have different numbers (`NumberLeft`: there is always one for the next port); `TimeThereAndBack` proves `JiffiesOf(TimeOf(j)) = j` |

`RouteCommand`, for any width of an address and any words (`RouteCommandAssumption`), and
`RouteTables`, for any headers, lines, names and options (`RouteTablesAssumption`: a header
is a sequence of strings).

| Theorem | Property | Strengthened by |
|---|---|---|
| `RoutesFit` | `RouteFits` | `RouteInv`: which checks the route in hand has passed at each stage |
| `RoutesAsGiven` | `RouteAsGiven` | `GivenInv`: while words are read the route is what has been said so far (`AsRead`, which has the mask a host route loses at the end); `SaidMore` says what one more word does to the last value of each option |
| `ColumnsAreFound` | `ColumnsFound` | `TablesInv`: each cell was never read or is in the column of its title, and no cell is from a later line; `FormatFinds`: a format that finds all titles finds them in order |
| `NamesAreKept` | `NamesStay` | `NamesInv`: what was said is a part of the cache, which only grows |

`Format` is built on a function that is recursive in the columns (`Matched`).  The library's
induction theorem takes an operator as a parameter and cannot be used; `Induction` proves
the rule for sets of numbers from the well-foundedness of `<`, and `CountExists` from it
that the function exists.

The safety properties of `ConfigManager` are proved for every set of documents
(`DocumentsAssumption`).

| Theorem | Property | Strengthened by |
|---|---|---|
| `ConfigTypeCorrect` | `TypeOK` | `ReadOnlyValid`: after `readConfig` the document is valid, and a call that threw has its reason in the document |
| `AcceptedIsReadable` | `OnlyRuntimeEscapes` | the same, with `ValidIsReadable`: no type a value may have is one its conversion throws for |
| `DestructorReadsBridge` | `DestructorReads` | the same |
| `ChecksThrowSeldom` | `ChecksDoNotThrow` | the same, with `ThrowsOnlyUnindexable` |

Only model-checked is liveness, which is out of the prover's reach, as is `ENABLED`:
`EveryRequestAnswered`, `HeldFrameReleased`, `PacketsDecided`,
`HeldPacketReleased`.  Every safety property and every action property of a passing run
is proved, and so is the type invariant of each module that has one.

## Plan

Done, in this order: `RequestPipeline` with `AddressGate` and their proofs;
`CoreLifecycle`; `FilterPipeline`; `HostInterfaces`; `ConfigManager` and its proofs;
`MachineFiles` and its proofs; the libraries `BridgeLibrary`, `RouteCommand`,
`RouteTables`; the proofs of `HostInterfaces`, `FilterPipeline`, `RouteCommand`,
`CoreLifecycle`, `BridgeLibrary` and `RouteTables`; `PacketGate` and its refinement.

Left, most important first:

1. An abstract specification of `HostInterfaces`, the ports of one bridge, that it
   implements while nobody meddles.
2. Several questions in `CoreLifecycle`, which need a smaller state than the call
   lists to be checked.

## Not modelled

Four hazards of PROJECT.json have no property, because the code gives no promise to check;
the model lets each happen: a filter thread that has ended (`src/InterfaceFilter.cpp:111`),
a port renumbered under a libbridge call (`lib/libbridge/libbridge_devif.c:354`), EBUSY for an
interface of another bridge (`src/BridgeManager.cpp:45`) and an interface held by another
process (`src/TAPDevice.cpp:44`).  Several others happen as well, and their property bounds
the damage: it names the exception and says that there is no other.  Seen besides these,
and stated by none:

* After a failed `readConfig`, `~EMPCACore` may use `bridge_manager_` uninitialised
  (`src/EMPCACore.cpp:19`); `DestroyBridge` has the wild pointer.
* `handleStartVM` registers the address last, after the post script
  (`src/EMPCACore.cpp:226`): a guest asking meanwhile gets a second machine.
* A filter's request leaves `ip_` uninitialised (`src/InterfaceFilter.cpp:156`); the
  model takes both outcomes (`StartNamed`), and nothing says which is wanted.
* `InterfaceFilter::stop` calls itself when iptables fails
  (`src/InterfaceFilter.cpp:87`) and cancels a thread it has joined; `StartFilter` of
  `FilterPipeline` lets the process end there.
* `createBridge` reuses a bridge, and a failing `init` deletes it
  (`src/BridgeManager.cpp:122`); `InitAllOrNothing` speaks of bridges it has made.
* `down()` works by name (`src/TAPDevice.cpp:246`) and takes an interface of another
  process down; the model has it, as a step on a `strange` interface.

Code left out:

* of `libnettools` the decoding of flags and the printing of addresses other than
  inet's, `get_sname`, hardware types and the string helpers: formatting;
  `sockets_open` beyond the one socket the flags need;
* of `libbridge` `br_shutdown`, which closes a socket, and the text of
  `libbridge_misc.c`;
* `resumeVM`, `removeTapDevice`, the destructor of `BridgeManager` and `dumpConfig`,
  which nobody calls;
* XML texts, except for the place of the MAC address; MAC strings and console output;
* memory leaks and string buffers, which are out of TLA+'s reach here;
* build files, the example configuration and licences.
