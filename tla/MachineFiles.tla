---------------------------- MODULE MachineFiles ----------------------------
(***************************************************************************)
(* What setting machines up at run time leaves outside the process:        *)
(* overlay images (createImageWithBackingImage), libvirt domains           *)
(* (createNewVM) and the host files of dnsmasq (DHCPHandler::addHosts).    *)
(*                                                                         *)
(* The image and the domain of a machine are both named after time(0), in  *)
(* seconds and read twice; all of it outlives the process, which may end   *)
(* between any two steps and be started again.  The worker is the only     *)
(* thread that sets machines up this way, one after the other.             *)
(***************************************************************************)
EXTENDS Naturals, Sequences

CONSTANTS
    Addresses,    \* the addresses guests ask for
    StartDevices, \* TAP devices made during start-up
    MaxMachines,  \* bound: machines set up altogether
    MaxTime,      \* bound: seconds
    MaxRuns,      \* bound: times the program is started
    MaxDowns      \* bound: times dnsmasq is restarted

ASSUME FilesAssumption ==
    /\ StartDevices \in Nat /\ MaxMachines \in Nat /\ MaxTime \in Nat
    /\ MaxRuns \in Nat /\ MaxDowns \in Nat

Machine == 1 .. MaxMachines
None == 0                 \* no image, no name; time(0) is never 0

VARIABLES
    now,        \* time(0)
    dot,        \* where the last '.' of base_template_ is
    runs,       \* times the program was started (bounded by MaxRuns)
    step,       \* where initializeNewVM is
    queue,      \* requests_, as the addresses asked for
    available,  \* available_ip_adresses_
    count,      \* machines set up so far, the last one being the one in hand
    first,      \* the first machine of this run of the program
    \* each machine
    address,
    disk,       \* the second its image is named after
    name,       \* the second its domain is named after
    domain,     \* libvirt
    \* dnsmasq
    files,      \* machines that have a host file
    table,      \* machines whose host file dnsmasq has read
    hup,        \* a SIGHUP is on its way to it
    pidOK,      \* dhcp_server_pid_ is its process
    downs,      \* times it was restarted (bounded by MaxDowns)
    \* observations
    untold,     \* machines whose host file or whose signal was lost
    malformed   \* machines whose interface definition was not XML

coreVars == <<runs, step, queue, available, count, first>>
machineVars == <<address, disk, name, domain>>
dnsmasqVars == <<files, table, hup, pidOK, downs>>
vars == <<now, dot, coreVars, machineVars, dnsmasqVars, untold, malformed>>

TypeOK ==
    /\ now \in Nat \ {None}
    /\ dot \in {"name", "directory", "nowhere"}
    /\ runs \in Nat
    /\ step \in {"idle", "image", "define", "file", "signal", "boot", "record", "ended"}
    /\ queue \in Seq(Addresses)
    /\ available \subseteq Addresses
    /\ count \in Nat /\ count + Len(queue) <= MaxMachines
    /\ first \in 1 .. (MaxMachines + 1)
    /\ address \in [Machine -> Addresses]
    /\ disk \in [Machine -> Nat] /\ name \in [Machine -> Nat]
    /\ domain \in [Machine -> {"none", "shut", "running"}]
    /\ files \subseteq Machine /\ table \subseteq Machine
    /\ hup \in BOOLEAN /\ pidOK \in BOOLEAN /\ downs \in Nat
    /\ untold \subseteq Machine /\ malformed \subseteq Machine

Init ==
    /\ now = 1
    /\ dot \in {"name", "directory", "nowhere"}
    /\ runs = 1 /\ step = "idle" /\ queue = << >> /\ available = {}
    /\ count = 0 /\ first = 1
    /\ address \in [Machine -> Addresses]
    /\ disk = [m \in Machine |-> None] /\ name = [m \in Machine |-> None]
    /\ domain = [m \in Machine |-> "none"]
    /\ files = {} /\ table = {} /\ hup = FALSE /\ pidOK = TRUE /\ downs = 0
    /\ untold = {} /\ malformed = {}

-----------------------------------------------------------------------------
(* The names.  An F_ definition is a fault in the definition after it,     *)
(* kept to show that some property notices it.                             *)

\* number_in_ of the machine's device: two numbers for each device.
Number(m) == 2 * (StartDevices + m - first)
Digits(n) == IF n < 10 THEN 1 ELSE IF n < 100 THEN 2 ELSE 3

\* createInterfaceDefinition replaces three characters at 38 by "tap" and the
\* number and then three at 78, where MAC is if the device's name has four.
MacPosition(m) == 77 - Len("DEV") + Len("tap") + Digits(Number(m))
WellFormed(m) == MacPosition(m) = 78

\* The domain names in use; the last machine has no domain yet.
NameTaken(t) == \E m \in Machine : domain[m] # "none" /\ name[m] = t

-----------------------------------------------------------------------------
\* checkIP does not find the address a guest asks for.
Question(ip) ==
    /\ step # "ended" /\ count + Len(queue) < MaxMachines
    /\ ip \notin available
    /\ queue' = Append(queue, ip)
    /\ UNCHANGED <<now, dot, runs, step, available, count, first, machineVars, dnsmasqVars,
                   untold, malformed>>

\* requests_.pop, initializeTAPDevice and the definition of the interface
PopRequest ==
    /\ step = "idle" /\ queue # << >>
    /\ queue' = Tail(queue)
    /\ count' = count + 1
    /\ address' = [address EXCEPT ![count + 1] = Head(queue)]
    /\ step' = "image"
    /\ UNCHANGED <<now, dot, runs, available, first, disk, name, domain, dnsmasqVars,
                   untold, malformed>>

\* createImageWithBackingImage puts the time before the last '.' of the path.  Without
\* one substr throws; in front of the last '/' it makes a directory that is not there.
\* An image of the same name is replaced, whoever uses it, or kept by its lock.
CreateImage ==
    /\ step = "image"
    /\ IF dot = "nowhere" THEN step' = "ended" /\ UNCHANGED disk
       ELSE /\ step' = "define"
            /\ \/ dot = "name" /\ disk' = [disk EXCEPT ![count] = now]
               \/ UNCHANGED disk
    /\ UNCHANGED <<now, dot, runs, queue, available, count, first, address, name, domain,
                   dnsmasqVars, untold, malformed>>

\* The second half of createNewVM, from the second time(0) on.  Streaming the null
\* pointer of an image that is missing ends the XML there, and libvirt refuses that, an
\* interface that is not XML, and a name that another domain has.  Nobody looks.
F_Complete(m) == WellFormed(m)                    \* an empty path instead of a null pointer
Complete(m) == disk[m] # None /\ WellFormed(m)

F_DefineVM ==                                     \* named after the device instead
    /\ step = "define" /\ step' = "file"
    /\ \/ /\ Complete(count) /\ ~NameTaken(Number(count))
          /\ domain' = [domain EXCEPT ![count] = "shut"]
          /\ name' = [name EXCEPT ![count] = Number(count)]
       \/ UNCHANGED <<domain, name>>
    /\ UNCHANGED <<now, dot, runs, queue, available, count, first, address, disk, dnsmasqVars,
                   untold, malformed>>
DefineVM ==
    /\ step = "define" /\ step' = "file"
    /\ \/ /\ Complete(count) /\ ~NameTaken(now)
          /\ domain' = [domain EXCEPT ![count] = "shut"]
          /\ name' = [name EXCEPT ![count] = now]
       \/ UNCHANGED <<domain, name>>
    /\ malformed' = IF WellFormed(count) THEN malformed ELSE malformed \cup {count}
    /\ UNCHANGED <<now, dot, runs, queue, available, count, first, address, disk, dnsmasqVars,
                   untold>>

\* addHosts writes the host file, or fails to without looking ...
WriteHost ==
    /\ step = "file" /\ step' = "signal"
    /\ \/ files' = files \cup {count} /\ UNCHANGED untold
       \/ UNCHANGED files /\ untold' = untold \cup {count}
    /\ UNCHANGED <<now, dot, runs, queue, available, count, first, machineVars, table, hup, pidOK,
                   downs, malformed>>

\* ... and signals the process that was dnsmasq when the program started.
F_Signal ==                                       \* no signal; the file should do
    /\ step = "signal" /\ step' = "boot"
    /\ UNCHANGED <<now, dot, runs, queue, available, count, first, machineVars, files, table, hup,
                   pidOK, downs, untold, malformed>>
Signal ==
    /\ step = "signal" /\ step' = "boot"
    /\ hup' = (hup \/ pidOK)
    /\ untold' = IF pidOK THEN untold ELSE untold \cup {count}
    /\ UNCHANGED <<now, dot, runs, queue, available, count, first, machineVars, files, table,
                   pidOK, downs, malformed>>

\* startVM, on a null domain too
BootVM ==
    /\ step = "boot" /\ step' = "record"
    /\ \/ domain[count] = "shut" /\ domain' = [domain EXCEPT ![count] = "running"]
       \/ UNCHANGED domain
    /\ UNCHANGED <<now, dot, runs, queue, available, count, first, address, disk, name,
                   dnsmasqVars, untold, malformed>>

\* addIP, virtual_machines_.push_back and the answer
RecordVM ==
    /\ step = "record" /\ step' = "idle"
    /\ available' = available \cup {address[count]}
    /\ UNCHANGED <<now, dot, runs, queue, count, first, machineVars, dnsmasqVars,
                   untold, malformed>>

-----------------------------------------------------------------------------
(* The rest of the world.                                                  *)

\* The process ends, on purpose or not.
End ==
    /\ step # "ended" /\ step' = "ended"
    /\ UNCHANGED <<now, dot, runs, queue, available, count, first, machineVars, dnsmasqVars,
                   untold, malformed>>

\* A new one numbers its devices from the beginning and reads dnsmasq's pid file.
Restart ==
    /\ step = "ended" /\ runs < MaxRuns
    /\ step' = "idle" /\ runs' = runs + 1
    /\ queue' = << >> /\ available' = {}
    /\ first' = count + 1
    /\ pidOK' = TRUE
    /\ UNCHANGED <<now, dot, count, machineVars, files, table, hup, downs, untold, malformed>>

Tick ==
    /\ now < MaxTime /\ now' = now + 1
    /\ UNCHANGED <<dot, coreVars, machineVars, dnsmasqVars, untold, malformed>>

\* A guest is shut down; nobody starts it again.
Shut(m) ==
    /\ domain[m] = "running" /\ domain' = [domain EXCEPT ![m] = "shut"]
    /\ UNCHANGED <<now, dot, coreVars, address, disk, name, dnsmasqVars, untold, malformed>>

\* dnsmasq acts on a SIGHUP, or reads a new file by itself ...
ReadFiles ==
    /\ \/ hup /\ table' = files /\ hup' = FALSE
       \/ \E m \in files \ table : table' = table \cup {m} /\ UNCHANGED hup
    /\ UNCHANGED <<now, dot, coreVars, machineVars, files, pidOK, downs, untold, malformed>>

\* ... and is restarted, which reads them all, under another pid.
RestartDnsmasq ==
    /\ downs < MaxDowns /\ downs' = downs + 1
    /\ table' = files /\ hup' = FALSE /\ pidOK' = FALSE
    /\ UNCHANGED <<now, dot, coreVars, machineVars, files, untold, malformed>>

WorkerStep ==
    PopRequest \/ CreateImage \/ DefineVM \/ WriteHost \/ Signal \/ BootVM \/ RecordVM

Next ==
    \/ WorkerStep \/ End \/ Restart \/ Tick \/ ReadFiles \/ RestartDnsmasq
    \/ \E ip \in Addresses : Question(ip)
    \/ \E m \in Machine : Shut(m)

Spec == Init /\ [][Next]_vars

-----------------------------------------------------------------------------
(* Properties.                                                             *)

\* Nothing checks that an image is new, and the name that libvirt does check is made
\* from a second look at the clock.  Two domains share an image only if the clock
\* moved on between the image and the name of the later one, not of the earlier one;
\* hence never three.  Restarts in between make no difference.
SharedDisk ==
    \A a, b \in Machine :
        a < b /\ domain[a] # "none" /\ domain[b] # "none" /\ disk[a] = disk[b]
            => name[a] = disk[a] /\ name[b] > disk[b]

\* A domain that exists has an image of its own second or an earlier one, although
\* createNewVM never looks whether the image was made.
DefinedHasDisk ==
    \A m \in Machine : domain[m] # "none" => disk[m] \in 1 .. name[m]

\* dnsmasq knows every machine that runs, or is about to read its host file, unless
\* the file could not be written or the signal went to a process of the past.
LeaseTold == \A m \in Machine : domain[m] = "running" => m \in table \/ hup \/ m \in untold

(* What the repository says of the program, and the code does not keep.    *)

\* VirtlibConnection.cpp:16: an interface is <mac address='MAC'/> with the address in
\* the place of MAC, whatever the device is called.
InterfaceIsXml == malformed = {}
=============================================================================
