------------------------- MODULE MachineFilesProofs -------------------------
(***************************************************************************)
(* Proofs about MachineFiles, for any number of machines, seconds, runs    *)
(* and restarts.  SharedDisk rests on the order in which the worker reads  *)
(* the clock: the image of a machine is named after all names given to     *)
(* the machines before it, and a name after the image it goes with.        *)
(***************************************************************************)
EXTENDS MachineFiles, TLAPS

\* The variables keep their types, and there is a machine in hand while the worker
\* is at one.
TypeInv ==
    /\ TypeOK
    /\ step \notin {"idle", "ended"} => count \in Machine

\* The clock readings of the machines, in the order they were set up.
ClockOrder ==
    /\ \A m \in Machine : disk[m] <= now /\ name[m] <= now
    /\ \A m \in Machine : m > count => disk[m] = None /\ domain[m] = "none"
    /\ \A m \in Machine : domain[m] # "none" => disk[m] \in 1 .. name[m]
    /\ \A a, b \in Machine : a < b /\ domain[a] # "none" /\ disk[b] # None
                                => name[a] <= disk[b]
    /\ \A a, b \in Machine : a < b /\ domain[a] # "none" /\ domain[b] # "none"
                                => name[a] # name[b]
    /\ step = "image" => disk[count] = None
    /\ step \in {"image", "define"} => domain[count] = "none"

Inv == TypeInv /\ ClockOrder

LEMMA TypeInit == Init => TypeInv
<1> SUFFICES ASSUME Init PROVE TypeInv  OBVIOUS
<1>1. now \in Nat \ {None} /\ disk \in [Machine -> Nat] /\ name \in [Machine -> Nat]
  BY DEF Init, None
<1>2. queue \in Seq(Addresses) /\ count \in Nat /\ count + Len(queue) <= MaxMachines
  BY FilesAssumption DEF Init
<1>3. first \in 1 .. (MaxMachines + 1)
  BY FilesAssumption DEF Init
<1>4. domain \in [Machine -> {"none", "shut", "running"}] /\ address \in [Machine -> Addresses]
  BY DEF Init
<1> QED  BY <1>1, <1>2, <1>3, <1>4 DEF Init, TypeInv, TypeOK

LEMMA TypeStep == TypeInv /\ [Next]_vars => TypeInv'
<1> SUFFICES ASSUME TypeInv, [Next]_vars PROVE TypeInv'  OBVIOUS
<1> USE DEF TypeInv, TypeOK
<1>1. CASE UNCHANGED vars
  BY <1>1 DEF vars, coreVars, machineVars, dnsmasqVars
<1>2. ASSUME NEW ip \in Addresses, Question(ip) PROVE TypeInv'
  <2>1. Append(queue, ip) \in Seq(Addresses) /\ Len(Append(queue, ip)) = Len(queue) + 1
    BY <1>2
  <2>2. count + (Len(queue) + 1) <= MaxMachines
    BY <1>2, FilesAssumption DEF Question
  <2> QED  BY <1>2, <2>1, <2>2 DEF Question, machineVars, dnsmasqVars
<1>3. CASE PopRequest
  <2>1. Len(queue) > 0 /\ Len(Tail(queue)) = Len(queue) - 1 /\ Head(queue) \in Addresses
        /\ Tail(queue) \in Seq(Addresses)
    BY <1>3 DEF PopRequest
  <2>2. count + 1 \in Machine
    BY <2>1, FilesAssumption DEF Machine
  <2> QED  BY <1>3, <2>1, <2>2, FilesAssumption DEF PopRequest, dnsmasqVars
<1>4. CASE CreateImage
  BY <1>4 DEF CreateImage, dnsmasqVars, None
<1>5. CASE DefineVM
  BY <1>5 DEF DefineVM, dnsmasqVars, None
<1>6. CASE WriteHost
  BY <1>6 DEF WriteHost, machineVars
<1>7. CASE Signal
  BY <1>7 DEF Signal, machineVars
<1>8. CASE BootVM
  BY <1>8 DEF BootVM, dnsmasqVars
<1>9. CASE RecordVM
  BY <1>9 DEF RecordVM, machineVars, dnsmasqVars
<1>10. CASE End
  BY <1>10 DEF End, machineVars, dnsmasqVars
<1>11. CASE Restart
  BY <1>11, FilesAssumption DEF Restart, machineVars
<1>12. CASE Tick
  BY <1>12 DEF Tick, coreVars, machineVars, dnsmasqVars, None
<1>13. CASE ReadFiles
  BY <1>13 DEF ReadFiles, coreVars, machineVars
<1>14. CASE RestartDnsmasq
  <2>1. downs' \in Nat /\ table' \subseteq Machine
    BY <1>14 DEF RestartDnsmasq
  <2>2. hup' \in BOOLEAN /\ pidOK' \in BOOLEAN
    BY <1>14, Zenon DEF RestartDnsmasq
  <2> QED  BY <1>14, <2>1, <2>2 DEF RestartDnsmasq, coreVars, machineVars
<1>15. ASSUME NEW m \in Machine, Shut(m) PROVE TypeInv'
  BY <1>15 DEF Shut, coreVars, dnsmasqVars
<1> QED
  BY <1>1, <1>2, <1>3, <1>4, <1>5, <1>6, <1>7, <1>8, <1>9, <1>10, <1>11, <1>12, <1>13, <1>14, <1>15
     DEF Next, WorkerStep

LEMMA ClockInit == Init => ClockOrder
BY FilesAssumption DEF Init, ClockOrder, None, Machine

\* Only four actions read the clock or move it; the others leave what ClockOrder
\* speaks of alone, or take a machine from running to shut and back.
LEMMA ClockStep == TypeInv /\ ClockOrder /\ [Next]_vars => ClockOrder'
<1> SUFFICES ASSUME TypeInv, ClockOrder, [Next]_vars PROVE ClockOrder'  OBVIOUS
<1> USE DEF ClockOrder, TypeInv, TypeOK, Machine, None
<1>1. CASE UNCHANGED vars
  BY <1>1 DEF vars, coreVars, machineVars, dnsmasqVars
<1>2. ASSUME NEW ip \in Addresses, Question(ip) PROVE ClockOrder'
  BY <1>2 DEF Question, machineVars, dnsmasqVars
<1>3. CASE PopRequest
  <2>1. Len(queue) > 0  BY <1>3 DEF PopRequest
  <2>2. count + 1 \in Machine  BY <2>1, FilesAssumption
  <2> QED  BY <1>3, <2>2 DEF PopRequest, dnsmasqVars
<1>4. CASE CreateImage
  <2>1. CASE UNCHANGED disk
    BY <1>4, <2>1 DEF CreateImage, dnsmasqVars
  <2>2. CASE step = "image" /\ step' = "define" /\ disk' = [disk EXCEPT ![count] = now]
             /\ UNCHANGED <<now, count, name, domain>>
    BY <2>2
  <2> QED  BY <1>4, <2>1, <2>2 DEF CreateImage
<1>5. CASE DefineVM
  <2>1. CASE UNCHANGED <<domain, name>>
    BY <1>5, <2>1 DEF DefineVM, dnsmasqVars
  <2>2. CASE /\ Complete(count) /\ ~NameTaken(now)
             /\ domain' = [domain EXCEPT ![count] = "shut"]
             /\ name' = [name EXCEPT ![count] = now]
    <3>1. /\ step = "define" /\ step' = "file" /\ UNCHANGED <<now, count, disk>>
          /\ disk[count] # None /\ \A m \in Machine : domain[m] # "none" => name[m] # now
      BY <1>5, <2>2 DEF DefineVM, Complete, NameTaken
    <3> QED  BY <2>2, <3>1
  <2> QED  BY <1>5, <2>1, <2>2 DEF DefineVM
<1>6. CASE WriteHost
  BY <1>6 DEF WriteHost, machineVars
<1>7. CASE Signal
  BY <1>7 DEF Signal, machineVars
<1>8. CASE BootVM
  BY <1>8 DEF BootVM, dnsmasqVars
<1>9. CASE RecordVM
  BY <1>9 DEF RecordVM, machineVars, dnsmasqVars
<1>10. CASE End
  BY <1>10 DEF End, machineVars, dnsmasqVars
<1>11. CASE Restart
  BY <1>11 DEF Restart, machineVars
<1>12. CASE Tick
  BY <1>12 DEF Tick, coreVars, machineVars, dnsmasqVars
<1>13. CASE ReadFiles
  BY <1>13 DEF ReadFiles, coreVars, machineVars
<1>14. CASE RestartDnsmasq
  BY <1>14 DEF RestartDnsmasq, coreVars, machineVars
<1>15. ASSUME NEW m \in Machine, Shut(m) PROVE ClockOrder'
  BY <1>15 DEF Shut, coreVars, dnsmasqVars
<1> QED
  BY <1>1, <1>2, <1>3, <1>4, <1>5, <1>6, <1>7, <1>8, <1>9, <1>10, <1>11, <1>12, <1>13, <1>14, <1>15
     DEF Next, WorkerStep

LEMMA Invariant == Spec => []Inv
<1>1. Init => Inv  BY TypeInit, ClockInit DEF Inv
<1>2. Inv /\ [Next]_vars => Inv'  BY TypeStep, ClockStep DEF Inv
<1> QED  BY <1>1, <1>2, PTL DEF Spec

\* Names, images and dnsmasq's tables keep their types over any number of restarts; no
\* more machines are asked for than fit.
THEOREM FilesTypeCorrect == Spec => []TypeOK
<1>1. Inv => TypeOK  BY DEF Inv, TypeInv
<1> QED  BY <1>1, Invariant, PTL

\* Two domains share an image only if the clock moved on between the image and the
\* name of the later one: createImageWithBackingImage and createNewVM read it once each.
THEOREM DisksSharedSeldom == Spec => []SharedDisk
<1>1. Inv => SharedDisk
  <2> SUFFICES ASSUME Inv, NEW a \in Machine, NEW b \in Machine, a < b,
                      domain[a] # "none", domain[b] # "none", disk[a] = disk[b]
               PROVE name[a] = disk[a] /\ name[b] > disk[b]
    BY DEF SharedDisk
  <2> QED  BY DEF Inv, TypeInv, TypeOK, ClockOrder, None, Machine
<1> QED  BY <1>1, Invariant, PTL

\* Every domain that exists has an image made before it: createXmlDefinition cuts
\* the definition off at a missing one.
THEOREM DomainsHaveDisks == Spec => []DefinedHasDisk
<1>1. Inv => DefinedHasDisk  BY DEF Inv, ClockOrder, DefinedHasDisk
<1> QED  BY <1>1, Invariant, PTL

-----------------------------------------------------------------------------
\* A machine dnsmasq will know: it has read the host file or is about to.
Told(m) == (m \in files /\ (m \in table \/ hup)) \/ m \in untold

\* addHosts comes before startVM, and the file before the signal.
LeaseOrder ==
    /\ table \subseteq files
    /\ step = "signal" => count \in files \cup untold
    /\ step = "boot" => Told(count)
    /\ \A m \in Machine : domain[m] = "running" => Told(m)

LEMMA LeaseStep == TypeInv /\ ClockOrder /\ LeaseOrder /\ [Next]_vars => LeaseOrder'
<1> SUFFICES ASSUME TypeInv, ClockOrder, LeaseOrder, [Next]_vars PROVE LeaseOrder'  OBVIOUS
<1> USE DEF LeaseOrder, Told, TypeInv, TypeOK
<1>1. CASE UNCHANGED vars
  BY <1>1 DEF vars, coreVars, machineVars, dnsmasqVars
<1>2. ASSUME NEW ip \in Addresses, Question(ip) PROVE LeaseOrder'
  BY <1>2 DEF Question, machineVars, dnsmasqVars
<1>3. CASE PopRequest
  BY <1>3 DEF PopRequest, dnsmasqVars
<1>4. CASE CreateImage
  BY <1>4 DEF CreateImage, dnsmasqVars
<1>5. CASE DefineVM
  <2>1. \A m \in Machine : domain'[m] = "running" => domain[m] = "running"
    BY <1>5 DEF DefineVM
  <2> QED  BY <1>5, <2>1 DEF DefineVM, dnsmasqVars
<1>6. CASE WriteHost
  BY <1>6 DEF WriteHost, machineVars
<1>7. CASE Signal
  BY <1>7 DEF Signal, machineVars
<1>8. CASE BootVM
  BY <1>8 DEF BootVM, dnsmasqVars
<1>9. CASE RecordVM
  BY <1>9 DEF RecordVM, machineVars, dnsmasqVars
<1>10. CASE End
  BY <1>10 DEF End, machineVars, dnsmasqVars
<1>11. CASE Restart
  BY <1>11 DEF Restart, machineVars
<1>12. CASE Tick
  BY <1>12 DEF Tick, coreVars, machineVars, dnsmasqVars
<1>13. CASE ReadFiles
  BY <1>13 DEF ReadFiles, coreVars, machineVars
<1>14. CASE RestartDnsmasq
  BY <1>14 DEF RestartDnsmasq, coreVars, machineVars
<1>15. ASSUME NEW m \in Machine, Shut(m) PROVE LeaseOrder'
  BY <1>15 DEF Shut, coreVars, dnsmasqVars
<1> QED
  BY <1>1, <1>2, <1>3, <1>4, <1>5, <1>6, <1>7, <1>8, <1>9, <1>10, <1>11, <1>12, <1>13, <1>14, <1>15
     DEF Next, WorkerStep

\* Every machine that runs is known to dnsmasq or about to be, unless its host file
\* or its signal was lost: the order of DHCPHandler::addHosts and startVM.
THEOREM LeasesTold == Spec => []LeaseTold
<1>1. Init => LeaseOrder  BY DEF Init, LeaseOrder
<1>2. LeaseOrder => LeaseTold  BY DEF LeaseOrder, Told, LeaseTold
<1>3. Inv /\ LeaseOrder /\ [Next]_vars => LeaseOrder'  BY LeaseStep DEF Inv
<1> QED  BY <1>1, <1>2, <1>3, Invariant, PTL DEF Spec
=============================================================================
