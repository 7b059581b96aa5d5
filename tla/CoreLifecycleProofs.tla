------------------------ MODULE CoreLifecycleProofs ------------------------
(***************************************************************************)
(* The safety properties of CoreLifecycle for any configuration, any       *)
(* number of requests and any interleaving of the two threads.             *)
(*                                                                         *)
(* The argument: the call a thread makes next tells which calls it has     *)
(* made (Place), and each invariant says what these have done.             *)
(***************************************************************************)
EXTENDS CoreLifecycle, TLAPS

-----------------------------------------------------------------------------
(* Where in its list a thread is.                                          *)

\* Each call of q is followed by the call that comes after it in a list, the last by none.
InOrder(q, order) ==
    /\ \A i \in 1 .. (Len(q) - 1) : <<q[i], q[i + 1]>> \in order
    /\ q # << >> => <<q[Len(q)], "none">> \in order

BeginOrder == {<<"config", "dhcp">>, <<"dhcp", "bridge">>, <<"bridge", "virtlib">>,
        <<"virtlib", "template">>, <<"template", "spawn">>, <<"spawn", "next">>, <<"next", "none">>}
OtherOrder == {<<"define", "newTap">>, <<"newTap", "countTap">>, <<"countTap", "open">>,
        <<"open", "addTAP">>, <<"addTAP", "newQueue">>, <<"newQueue", "countQueue">>,
        <<"countQueue", "filter">>, <<"filter", "attach">>, <<"attach", "boot">>,
        <<"boot", "insert">>, <<"insert", "record">>, <<"record", "next">>, <<"next", "none">>}
StartOrder == {<<"prescript", "newTap">>, <<"newTap", "countTap">>,
        <<"countTap", "open">>, <<"open", "addTAP">>, <<"addTAP", "define">>,
        <<"define", "newQueue">>, <<"newQueue", "countQueue">>,
        <<"countQueue", "filter">>, <<"filter", "attach">>, <<"attach", "boot">>,
        <<"boot", "record">>, <<"record", "postscript">>, <<"postscript", "insert">>,
        <<"insert", "runtime">>, <<"runtime", "none">>}
NewOrder == {<<"newTap", "countTap">>, <<"countTap", "open">>, <<"open", "addTAP">>,
        <<"addTAP", "define">>, <<"define", "newQueue">>, <<"newQueue", "countQueue">>,
        <<"countQueue", "filter">>, <<"filter", "lease">>, <<"lease", "boot">>,
        <<"boot", "insert">>, <<"insert", "record">>, <<"record", "none">>}
DestructorOrder == {<<"~bridge", "~virtlib">>, <<"~virtlib", "~taps">>,
        <<"~taps", "~filters">>, <<"~filters", "~core">>, <<"~core", "none">>}

LEMMA OrderOfTail ==
  ASSUME NEW order, NEW q \in Seq(Steps), q # << >>, InOrder(q, order)
  PROVE  /\ Tail(q) \in Seq(Steps) /\ InOrder(Tail(q), order)
         /\ <<Head(q), IF Tail(q) = << >> THEN "none" ELSE Head(Tail(q))>> \in order
  <1>1. Len(q) \in Nat \ {0} /\ Head(q) = q[1]
    OBVIOUS
  <1>2. /\ Tail(q) \in Seq(Steps) /\ Len(Tail(q)) = Len(q) - 1
        /\ \A i \in 1 .. Len(Tail(q)) : Tail(q)[i] = q[i + 1]
    OBVIOUS
  <1>3. InOrder(Tail(q), order)
    BY <1>1, <1>2 DEF InOrder
  <1>4. Tail(q) # << >> => 1 \in 1 .. (Len(q) - 1) /\ Head(Tail(q)) = q[2]
    BY <1>1, <1>2
  <1>5. Tail(q) = << >> => Len(q) = 1
    BY <1>1, <1>2
  <1>6. <<Head(q), IF Tail(q) = << >> THEN "none" ELSE Head(Tail(q))>> \in order
    <2>1. CASE Tail(q) = << >>
      <3>1. <<q[1], "none">> \in order
        BY <1>5, <2>1 DEF InOrder
      <3> QED
        BY <1>1, <2>1, <3>1
    <2>2. CASE Tail(q) # << >>
      <3>1. <<q[1], q[1 + 1]>> \in order
        BY <1>4, <2>2 DEF InOrder
      <3> QED
        BY <1>1, <1>4, <2>2, <3>1
    <2> QED
      BY <2>1, <2>2
  <1> QED
    BY <1>2, <1>3, <1>6

LEMMA Lists ==
    /\ Begin \in Seq(Steps) /\ OtherSteps \in Seq(Steps) /\ StartSteps \in Seq(Steps)
    /\ NewSteps \in Seq(Steps) /\ Destructor \in Seq(Steps) /\ << >> \in Seq(Steps)
  <1>1. Begin \in Seq(Steps)
    BY DEF Begin, Steps
  <1>2. OtherSteps \in Seq(Steps)
    BY DEF OtherSteps, Steps
  <1>3. StartSteps \in Seq(Steps)
    BY DEF StartSteps, Steps
  <1>4. NewSteps \in Seq(Steps)
    BY DEF NewSteps, Steps
  <1>5. Destructor \in Seq(Steps)
    BY DEF Destructor, Steps
  <1> QED
    BY <1>1, <1>2, <1>3, <1>4, <1>5

LEMMA BeginOrdered == Begin # << >> /\ Head(Begin) = "config" /\ InOrder(Begin, BeginOrder)
  BY DEF Begin, InOrder, BeginOrder

LEMMA OtherOrdered == OtherSteps # << >> /\ Head(OtherSteps) = "define" /\ InOrder(OtherSteps, OtherOrder)
  BY DEF OtherSteps, InOrder, OtherOrder

LEMMA StartOrdered == StartSteps # << >> /\ Head(StartSteps) = "prescript" /\ InOrder(StartSteps, StartOrder)
  BY DEF StartSteps, InOrder, StartOrder

LEMMA NewOrdered == NewSteps # << >> /\ Head(NewSteps) = "newTap" /\ InOrder(NewSteps, NewOrder)
  BY DEF NewSteps, InOrder, NewOrder

LEMMA DestructorOrdered == Destructor # << >> /\ Head(Destructor) = "~bridge" /\ InOrder(Destructor, DestructorOrder)
  BY DEF Destructor, InOrder, DestructorOrder

\* The call a thread makes next.
Call(p) == IF todo[p] = << >> THEN "none" ELSE Head(todo[p])

\* The list a thread is in: what start() has returned and the machine it is at tell.
Order(p) ==
    IF p = "worker" THEN NewOrder
    ELSE IF status # "none" THEN DestructorOrder
    ELSE IF next = 1 THEN BeginOrder
    ELSE IF next = Len(OtherVMs) + 2 THEN StartOrder
    ELSE OtherOrder

CallsIn(order) == {r[1] : r \in order} \cup ({r[2] : r \in order} \ {"none"})

Place == \A p \in Thread : InOrder(todo[p], Order(p)) /\ Call(p) \in CallsIn(Order(p)) \cup {"none"}

Placed == TypeOK /\ Place

LEMMA CallsOf ==
    /\ CallsIn(BeginOrder) = {"config", "dhcp", "bridge", "virtlib", "template", "spawn", "next"}
    /\ CallsIn(OtherOrder) = {"define", "newTap", "countTap", "open", "addTAP", "newQueue",
                              "countQueue", "filter", "attach", "boot", "insert", "record", "next"}
    /\ CallsIn(StartOrder) = {"prescript", "newTap", "countTap", "open", "addTAP", "define",
                              "newQueue", "countQueue", "filter", "attach", "boot", "record",
                              "postscript", "insert", "runtime"}
    /\ CallsIn(NewOrder) = {"newTap", "countTap", "open", "addTAP", "define", "newQueue",
                            "countQueue", "filter", "lease", "boot", "insert", "record"}
    /\ CallsIn(DestructorOrder) = {"~bridge", "~virtlib", "~taps", "~filters", "~core"}
  <1>1. CallsIn(BeginOrder) = {"config", "dhcp", "bridge", "virtlib", "template", "spawn", "next"}
    BY DEF CallsIn, BeginOrder
  <1>2. CallsIn(OtherOrder) = {"define", "newTap", "countTap", "open", "addTAP", "newQueue",
                               "countQueue", "filter", "attach", "boot", "insert", "record", "next"}
    BY DEF CallsIn, OtherOrder
  <1>3. CallsIn(StartOrder) = {"prescript", "newTap", "countTap", "open", "addTAP", "define",
                               "newQueue", "countQueue", "filter", "attach", "boot", "record",
                               "postscript", "insert", "runtime"}
    BY DEF CallsIn, StartOrder
  <1>4. CallsIn(NewOrder) = {"newTap", "countTap", "open", "addTAP", "define", "newQueue",
                             "countQueue", "filter", "lease", "boot", "insert", "record"}
    BY DEF CallsIn, NewOrder
  <1>5. CallsIn(DestructorOrder) = {"~bridge", "~virtlib", "~taps", "~filters", "~core"}
    BY DEF CallsIn, DestructorOrder
  <1> QED
    BY <1>1, <1>2, <1>3, <1>4, <1>5

\* A call that is made: the thread goes on in its list, the other one stays where it is.
LEMMA AdvanceGoesOn ==
  ASSUME Placed, NEW p \in Thread, NEW step, At(p, step), Advance(p), next' = next
  PROVE  /\ todo' \in [Thread -> Seq(Steps)] /\ Place'
         /\ step = Call(p) /\ step \in CallsIn(Order(p))
         /\ <<step, Call(p)'>> \in Order(p)
         /\ Call(Peer(p))' = Call(Peer(p))
         /\ status' = status /\ ended' = "no"
  <1>1. /\ todo \in [Thread -> Seq(Steps)] /\ todo[p] # << >> /\ step = Head(todo[p])
        /\ todo' = [todo EXCEPT ![p] = Tail(todo[p])] /\ status' = status /\ ended' = "no"
    BY DEF Placed, TypeOK, At, Advance
  <1>2. Order("main")' = Order("main") /\ Order("worker")' = Order("worker")
    BY <1>1 DEF Order
  <1>3. step = Call(p) /\ step \in CallsIn(Order(p))
    <2>1. step = Call(p) /\ step \in Steps
      BY <1>1 DEF Call
    <2>2. step # "none"
      BY <2>1 DEF Steps
    <2> QED
      BY <2>1, <2>2 DEF Placed, Place
  <1>4. /\ Tail(todo[p]) \in Seq(Steps) /\ InOrder(Tail(todo[p]), Order(p))
        /\ <<step, IF Tail(todo[p]) = << >> THEN "none" ELSE Head(Tail(todo[p]))>> \in Order(p)
    BY <1>1, OrderOfTail DEF Placed, Place
  <1>5. todo'[p] = Tail(todo[p]) /\ todo'[Peer(p)] = todo[Peer(p)] /\ Peer(p) \in Thread
    BY <1>1 DEF Peer, Thread
  <1>6. <<step, Call(p)'>> \in Order(p)
    BY <1>4, <1>5 DEF Call
  <1>7. Call(Peer(p))' = Call(Peer(p))
    BY <1>5 DEF Call
  <1>8. Call(p)' \in CallsIn(Order(p)) \cup {"none"}
    BY <1>6 DEF CallsIn
  <1>9. Place'
    BY <1>2, <1>4, <1>5, <1>7, <1>8 DEF Placed, Place, Thread, Peer
  <1> QED
    BY <1>1, <1>3, <1>4, <1>6, <1>7, <1>9

\* A return leaves the destructors to be called.
LEMMA ReturnLeaves ==
  ASSUME Placed, NEW st \in Statuses \ {"none"}, Return(st), ended = "no"
  PROVE  /\ todo' \in [Thread -> Seq(Steps)] /\ Place'
         /\ Call("main")' = "~bridge" /\ Call("worker")' = Call("worker")
         /\ status' = st /\ ended' = "no"
  <1>1. /\ todo \in [Thread -> Seq(Steps)] /\ todo' = [todo EXCEPT !["main"] = Destructor]
        /\ status' = st /\ ended' = "no"
    BY DEF Placed, TypeOK, Return
  <1>2. todo'["main"] = Destructor /\ todo'["worker"] = todo["worker"]
    BY <1>1 DEF Thread
  <1>3. Call("main")' = "~bridge" /\ Call("worker")' = Call("worker")
    BY <1>2, DestructorOrdered DEF Call
  <1>4. Order("main")' = DestructorOrder /\ Order("worker")' = NewOrder /\ Order("worker") = NewOrder
    BY <1>1 DEF Order
  <1>5. Place'
    BY <1>2, <1>3, <1>4, DestructorOrdered, CallsOf DEF Placed, Place, Thread
  <1> QED
    BY <1>1, <1>3, <1>5, Lists

\* The end of the process, or a step of somebody else.
LEMMA AbortStays ==
  ASSUME Placed, UNCHANGED <<todo, next, status>>
  PROVE  Place' /\ todo' \in [Thread -> Seq(Steps)] /\ \A p \in Thread : Call(p)' = Call(p)
  BY DEF Placed, Place, TypeOK, Call, Order

-----------------------------------------------------------------------------
(* Types.                                                                  *)

\* TypeOK without todo.
RestOK ==
    /\ next \in 1 .. (Len(OtherVMs) + 2)
    /\ current \in [Thread -> Machine]
    /\ count \in [Counter -> Nat] /\ created \in [Counter -> Seq(Nat)]
    /\ threads \in Nat
    /\ interfaces \in SUBSET Nat /\ ports \in SUBSET Nat /\ nfqueues \in SUBSET Nat
    /\ served \in SUBSET IPs /\ lostIPs \in SUBSET IPs
    /\ vms \in Seq(Machine) /\ lostEntries \in SUBSET Nat /\ queue \in Seq(IPs)
    /\ questions \in 0 .. MaxQuestions
    /\ up \in SUBSET {"config", "dhcp", "bridgeManager", "bridge", "virtlib", "worker"}
    /\ status \in Statuses /\ ended \in Ends
    /\ overlapped \in SUBSET Counter

LEMMA TypeParts == TypeOK <=> todo \in [Thread -> Seq(Steps)] /\ RestOK
  BY DEF TypeOK, RestOK

LEMMA NoMachineType == NoMachine \in Machine /\ \A ip \in IPs, on \in BOOLEAN :
                           [NoMachine EXCEPT !.on = on, !.ip = ip] \in Machine
  BY LifecycleAssumption DEF NoMachine, Machine, Macs, Domains

LEMMA ElementType ==
  ASSUME NEW S, NEW s \in Seq(S), NEW i \in DOMAIN s
  PROVE  s[i] \in S
  OBVIOUS

LEMMA TemplateType ==
  ASSUME NEW i \in 1 .. (Len(OtherVMs) + 1)
  PROVE  /\ Template(i) \in Machine
         /\ Template(i).on = (IF i \in DOMAIN OtherVMs THEN OtherVMs[i].on ELSE TRUE)
         /\ i \notin DOMAIN OtherVMs => Template(i).ip = StartIP
  <1>1. CASE i \in DOMAIN OtherVMs
    <2>1. One \in IPs
      BY LifecycleAssumption
    <2>2. OtherVMs[i] \in [on : BOOLEAN, ip : IPs]
      BY <1>1, LifecycleAssumption, ElementType
    <2>3. OtherVMs[i].on \in BOOLEAN
      BY <2>2
    <2> QED
      BY <1>1, <2>1, <2>3 DEF Template, OtherVMAddress, NoMachine, Machine, Macs, Domains
  <1>2. CASE i \notin DOMAIN OtherVMs
    BY <1>2, LifecycleAssumption DEF Template, NoMachine, Machine, Macs, Domains
  <1> QED
    BY <1>1, <1>2

LEMMA MachineFields ==
  ASSUME NEW m \in Machine
  PROVE  /\ \A n \in Nat : [m EXCEPT !.tap = n] \in Machine /\ [m EXCEPT !.queue = n] \in Machine
         /\ \A d \in Domains : [m EXCEPT !.domain = d] \in Machine
         /\ \A mac \in Macs : [m EXCEPT !.mac = mac] \in Machine
  BY DEF Machine

\* The machine a thread sets up keeps its type.
LEMMA CurrentType ==
  ASSUME TypeOK, NEW p \in Thread, NEW m \in Machine, current' = [current EXCEPT ![p] = m]
  PROVE  current' \in [Thread -> Machine]
  BY DEF TypeOK

LEMMA PlacedInit == Init => Placed
  <1> SUFFICES ASSUME Init PROVE Placed
    OBVIOUS
  <1>1. todo["main"] = Begin /\ todo["worker"] = << >> /\ todo \in [Thread -> Seq(Steps)]
    BY Lists DEF Init, Thread
  <1>2. RestOK
    <2>1. next \in 1 .. (Len(OtherVMs) + 2)
      BY LifecycleAssumption DEF Init
    <2>2. current \in [Thread -> Machine]
      BY NoMachineType DEF Init
    <2>3. count \in [Counter -> Nat] /\ created \in [Counter -> Seq(Nat)]
      BY DEF Init
    <2>4. questions \in 0 .. MaxQuestions
      BY LifecycleAssumption DEF Init
    <2>5. /\ threads \in Nat /\ vms \in Seq(Machine) /\ queue \in Seq(IPs)
          /\ interfaces \in SUBSET Nat /\ ports \in SUBSET Nat /\ nfqueues \in SUBSET Nat
      BY DEF Init
    <2> QED
      BY <2>1, <2>2, <2>3, <2>4, <2>5 DEF Init, RestOK, Statuses, Ends
  <1>3. Order("main") = BeginOrder /\ Order("worker") = NewOrder
    BY DEF Init, Order
  <1>4. Call("main") = "config" /\ Call("worker") = "none"
    BY <1>1, BeginOrdered DEF Call
  <1>5. InOrder(<< >>, NewOrder)
    BY DEF InOrder
  <1> QED
    BY <1>1, <1>2, <1>3, <1>4, <1>5, TypeParts, BeginOrdered, CallsOf DEF Placed, Place, Thread

\* start(), but for the machines, and the destructors.
LEMMA PlacedMain ==
  ASSUME Placed, \/ ReadConfig \/ HandleDHCP \/ InitBridge \/ InitVirtlib \/ HandleStandardTemplate
                 \/ SpawnWorker \/ RunScript \/ Attach \/ HandleRuntime
                 \/ DestroyBridge \/ DeleteVirtlib \/ DeleteTaps \/ DeleteFilters \/ DeleteCore
  PROVE  Placed'
  <1>1. TypeOK /\ ended = "no" /\ Place /\ RestOK
    BY TypeParts DEF Placed, ReadConfig, HandleDHCP, InitBridge, InitVirtlib, HandleStandardTemplate,
       SpawnWorker, RunScript, Attach, HandleRuntime, DestroyBridge, DeleteVirtlib, DeleteTaps,
       DeleteFilters, DeleteCore, At
  <1>2. next' = next
    BY DEF ReadConfig, HandleDHCP, InitBridge, InitVirtlib, HandleStandardTemplate,
       SpawnWorker, RunScript, Attach, HandleRuntime, DestroyBridge, DeleteVirtlib, DeleteTaps,
       DeleteFilters, DeleteCore
  <1>3. \/ \E step : At("main", step) /\ Advance("main")
        \/ \E st \in Statuses \ {"none"} : Return(st)
        \/ \E why \in Ends : Abort(why)
    BY DEF ReadConfig, HandleDHCP, InitBridge, InitVirtlib, HandleStandardTemplate,
       SpawnWorker, RunScript, Attach, HandleRuntime, DestroyBridge, DeleteVirtlib, DeleteTaps,
       DeleteFilters, DeleteCore, CopyMacDies, Statuses, Ends
  <1>4. Place' /\ todo' \in [Thread -> Seq(Steps)] /\ status' \in Statuses /\ ended' \in Ends
    <2>1. ASSUME NEW step, At("main", step), Advance("main")
          PROVE  Place' /\ todo' \in [Thread -> Seq(Steps)] /\ status' \in Statuses /\ ended' \in Ends
      BY <1>1, <1>2, <2>1, AdvanceGoesOn DEF Thread, TypeOK, Ends
    <2>2. ASSUME NEW st \in Statuses \ {"none"}, Return(st)
          PROVE  Place' /\ todo' \in [Thread -> Seq(Steps)] /\ status' \in Statuses /\ ended' \in Ends
      BY <1>1, <2>2, ReturnLeaves DEF Ends
    <2>3. ASSUME NEW why \in Ends, Abort(why)
          PROVE  Place' /\ todo' \in [Thread -> Seq(Steps)] /\ status' \in Statuses /\ ended' \in Ends
      BY <1>1, <1>2, <2>3, AbortStays DEF Abort, TypeOK
    <2> QED
      BY <1>3, <2>1, <2>2, <2>3
  <1>5. /\ UNCHANGED <<current, count, created, threads, interfaces, nfqueues,
                       lostIPs, vms, lostEntries, queue, questions, overlapped>>
        /\ served' \in {served, served \cup {DhcpIP}} /\ ports' \in {ports, {}}
        /\ up' \subseteq up \cup {"config", "dhcp", "bridgeManager", "bridge", "virtlib", "worker"}
    BY DEF ReadConfig, HandleDHCP, InitBridge, InitVirtlib, HandleStandardTemplate,
       SpawnWorker, RunScript, Attach, HandleRuntime, DestroyBridge, DeleteVirtlib, DeleteTaps,
       DeleteFilters, DeleteCore, numbers, kernel, core
  <1>6. RestOK'
    BY <1>1, <1>2, <1>4, <1>5, LifecycleAssumption DEF RestOK
  <1> QED
    BY <1>4, <1>6, TypeParts DEF Placed, TypeOK, RestOK

\* The next configured machine, or StartVm after the last one.
LEMMA NextMachine ==
  ASSUME Placed, NextTemplate
  PROVE  /\ status = "none" /\ next \in 1 .. (Len(OtherVMs) + 1) /\ next' = next + 1
         /\ current' = [current EXCEPT !["main"] = Template(next)]
         /\ Call("main")' = (IF next <= Len(OtherVMs) THEN "define" ELSE "prescript")
         /\ Call("worker")' = Call("worker") /\ Call("main") = "next"
         /\ Placed'
  <1>1. /\ todo["main"] # << >> /\ Call("main") = "next"
        /\ next' = next + 1 /\ current' = [current EXCEPT !["main"] = Template(next)]
        /\ UNCHANGED <<numbers, kernel, core, up, status, ended>>
    BY DEF NextTemplate, At, Call
  <1>2. status = "none" /\ next # Len(OtherVMs) + 2
    BY <1>1, CallsOf DEF Placed, Place, Order, Thread
  <1>3. next \in 1 .. (Len(OtherVMs) + 1) /\ Len(OtherVMs) \in Nat /\ DOMAIN OtherVMs = 1 .. Len(OtherVMs)
    BY <1>2, LifecycleAssumption DEF Placed, TypeOK
  <1>4. /\ todo \in [Thread -> Seq(Steps)]
        /\ todo' = [todo EXCEPT !["main"] = IF next <= Len(OtherVMs) THEN OtherSteps ELSE StartSteps]
    BY <1>3 DEF NextTemplate, Placed, TypeOK
  <1>5. /\ todo'["main"] = (IF next <= Len(OtherVMs) THEN OtherSteps ELSE StartSteps)
        /\ todo'["worker"] = todo["worker"] /\ todo' \in [Thread -> Seq(Steps)]
    BY <1>4, Lists DEF Thread
  <1>6. /\ Call("main")' = (IF next <= Len(OtherVMs) THEN "define" ELSE "prescript")
        /\ Call("worker")' = Call("worker")
    BY <1>5, OtherOrdered, StartOrdered DEF Call
  <1>7. /\ Order("main")' = (IF next <= Len(OtherVMs) THEN OtherOrder ELSE StartOrder)
        /\ Order("worker")' = Order("worker")
    BY <1>1, <1>2, <1>3 DEF Order
  <1>8. Place'
    BY <1>5, <1>6, <1>7, OtherOrdered, StartOrdered, CallsOf DEF Placed, Place, Thread
  <1>9. RestOK'
    <2>1. current' \in [Thread -> Machine]
      BY <1>1, <1>3, TemplateType, CurrentType DEF Placed, Thread
    <2>2. next' \in 1 .. (Len(OtherVMs) + 2)
      BY <1>1, <1>3
    <2> QED
      BY <1>1, <2>1, <2>2, TypeParts DEF Placed, RestOK, numbers, kernel, core
  <1> QED
    BY <1>1, <1>2, <1>3, <1>5, <1>6, <1>8, <1>9 DEF Placed, TypeOK, RestOK

\* The worker begins with a request.
LEMMA NextRequest ==
  ASSUME Placed, PopRequest
  PROVE  /\ current' = [current EXCEPT !["worker"] = [NoMachine EXCEPT !.on = TRUE, !.ip = Head(queue)]]
         /\ Call("worker")' = "newTap" /\ Call("main")' = Call("main") /\ Call("worker") = "none"
         /\ "worker" \in up
         /\ Placed'
  <1>1. /\ todo["worker"] = << >> /\ "worker" \in up /\ Call("worker") = "none"
        /\ todo \in [Thread -> Seq(Steps)] /\ todo' = [todo EXCEPT !["worker"] = NewSteps]
        /\ queue # << >> /\ queue' = Tail(queue)
        /\ current' = [current EXCEPT !["worker"] = [NoMachine EXCEPT !.on = TRUE, !.ip = Head(queue)]]
        /\ UNCHANGED <<next, numbers, kernel, served, lostIPs, vms, lostEntries, questions,
                       up, status, ended>>
    BY DEF PopRequest, Call, Placed, TypeOK
  <1>2. todo'["worker"] = NewSteps /\ todo'["main"] = todo["main"] /\ todo' \in [Thread -> Seq(Steps)]
    BY <1>1, Lists DEF Thread
  <1>3. Call("worker")' = "newTap" /\ Call("main")' = Call("main")
    BY <1>2, NewOrdered DEF Call
  <1>4. Order("main")' = Order("main") /\ Order("worker")' = NewOrder
    BY <1>1 DEF Order
  <1>5. Place'
    BY <1>2, <1>3, <1>4, NewOrdered, CallsOf DEF Placed, Place, Thread
  <1>6. RestOK'
    <2>1. Head(queue) \in IPs /\ Tail(queue) \in Seq(IPs)
      BY <1>1 DEF Placed, TypeOK
    <2>2. current' \in [Thread -> Machine]
      BY <1>1, <2>1, NoMachineType, CurrentType DEF Placed, Thread
    <2> QED
      BY <1>1, <2>1, <2>2, TypeParts DEF Placed, RestOK, numbers, kernel
  <1> QED
    BY <1>1, <1>2, <1>3, <1>5, <1>6 DEF Placed, TypeOK, RestOK

\* What starting a device changes.
LEMMA Opens ==
  ASSUME TypeOK, NEW p \in Thread, OpenTap(p)
  PROVE  /\ \E mac \in Macs : current' = [current EXCEPT ![p].mac = mac]
         /\ interfaces' \in SUBSET Nat /\ threads' \in Nat
  <1>1. current[p].tap \in Nat
    BY DEF TypeOK, Machine
  <1>2. PICK opened \in SUBSET ({current[p].tap, current[p].tap + 1} \ interfaces), mac \in Macs :
           /\ current' = [current EXCEPT ![p].mac = mac]
           /\ interfaces' \in {interfaces, interfaces \cup opened}
           /\ threads' \in {threads, threads + 1}
    BY DEF OpenTap, Macs
  <1>3. opened \subseteq Nat
    <2>1. current[p].tap + 1 \in Nat
      BY <1>1
    <2> QED
      BY <1>1, <2>1
  <1>4. interfaces' \in SUBSET Nat
    BY <1>2, <1>3 DEF TypeOK
  <1>5. threads' \in Nat
    BY <1>2 DEF TypeOK
  <1> QED
    BY <1>2, <1>4, <1>5

\* How the machine a thread sets up changes.
LEMMA Shapes ==
  ASSUME TypeOK, NEW p \in Thread, MachineStep(p)
  PROVE  \/ current' = current
         \/ Define(p) /\ \E d \in {"none", "shut"} : current' = [current EXCEPT ![p].domain = d]
         \/ Boot(p) /\ current' = [current EXCEPT ![p].domain = "running"]
         \/ OpenTap(p) /\ \E mac \in Macs : current' = [current EXCEPT ![p].mac = mac]
         \/ /\ At(p, "newTap") /\ count["tap"] \in Nat
            /\ current' = [current EXCEPT ![p] = [@ EXCEPT !.tap = count["tap"]]]
         \/ /\ At(p, "newQueue") /\ count["queue"] \in Nat
            /\ current' = [current EXCEPT ![p] = [@ EXCEPT !.queue = count["queue"]]]
  <1>1. CASE OpenTap(p)
    BY <1>1, Opens
  <1>2. ASSUME NEW c \in Counter, GiveNumber(p, c)
        PROVE  \/ /\ At(p, "newTap") /\ count["tap"] \in Nat
                  /\ current' = [current EXCEPT ![p] = [@ EXCEPT !.tap = count["tap"]]]
               \/ /\ At(p, "newQueue") /\ count["queue"] \in Nat
                  /\ current' = [current EXCEPT ![p] = [@ EXCEPT !.queue = count["queue"]]]
    <2>1. CASE c = "tap"
      BY <1>2, <2>1 DEF GiveNumber, TypeOK, Counter
    <2>2. CASE c = "queue"
      BY <1>2, <2>2 DEF GiveNumber, TypeOK, Counter
    <2> QED
      BY <2>1, <2>2 DEF Counter
  <1>3. CASE Define(p)
    BY <1>3 DEF Define
  <1>4. CASE Boot(p)
    BY <1>4 DEF Boot
  <1>5. CASE AddTAP(p) \/ StartFilter(p) \/ Insert(p) \/ Record(p) \/ \E c \in Counter : Count(p, c)
    BY <1>5 DEF AddTAP, StartFilter, Insert, Record, Count
  <1> QED
    BY <1>1, <1>2, <1>3, <1>4, <1>5 DEF MachineStep

\* The calls both threads make for a machine.
LEMMA PlacedMachine ==
  ASSUME Placed, NEW p \in Thread, MachineStep(p)
  PROVE  Placed'
  <1>1. TypeOK /\ RestOK /\ ended = "no" /\ current[p] \in Machine
    BY TypeParts DEF Placed, TypeOK, MachineStep, GiveNumber, Count, OpenTap, AddTAP, Define,
       StartFilter, Boot, Insert, Record, At
  <1>2. next' = next
    BY DEF MachineStep, GiveNumber, Count, OpenTap, AddTAP, Define, StartFilter, Boot, Insert, Record
  <1>3. \/ \E step : At(p, step) /\ Advance(p)
        \/ \E st \in Statuses \ {"none"} : Return(st)
        \/ \E why \in Ends : Abort(why)
    BY DEF MachineStep, GiveNumber, Count, OpenTap, AddTAP, AddTAPFails, Define, CopyMacDies,
       StartFilter, Boot, BootFails, Insert, Record, Statuses, Ends
  <1>4. Place' /\ todo' \in [Thread -> Seq(Steps)] /\ status' \in Statuses /\ ended' \in Ends
    <2>1. ASSUME NEW step, At(p, step), Advance(p)
          PROVE  Place' /\ todo' \in [Thread -> Seq(Steps)] /\ status' \in Statuses /\ ended' \in Ends
      BY <1>1, <1>2, <2>1, AdvanceGoesOn DEF TypeOK, Ends
    <2>2. ASSUME NEW st \in Statuses \ {"none"}, Return(st)
          PROVE  Place' /\ todo' \in [Thread -> Seq(Steps)] /\ status' \in Statuses /\ ended' \in Ends
      BY <1>1, <2>2, ReturnLeaves DEF Ends
    <2>3. ASSUME NEW why \in Ends, Abort(why)
          PROVE  Place' /\ todo' \in [Thread -> Seq(Steps)] /\ status' \in Statuses /\ ended' \in Ends
      BY <1>1, <1>2, <2>3, AbortStays DEF Abort, TypeOK
    <2> QED
      BY <1>3, <2>1, <2>2, <2>3
  <1>5. current' \in [Thread -> Machine]
    <2>1. PICK m \in Machine : current' = current \/ current' = [current EXCEPT ![p] = m]
      <3>1. current[p] \in Machine /\ {"none", "shut", "running"} \subseteq Domains
        BY <1>1 DEF Domains
      <3> QED
        BY <1>1, <3>1, Shapes, MachineFields
    <2> QED
      BY <1>1, <2>1, CurrentType DEF TypeOK
  <1>6. /\ count' \in [Counter -> Nat] /\ created' \in [Counter -> Seq(Nat)]
        /\ overlapped' \in SUBSET Counter
    <2>1. ASSUME NEW c \in Counter, Count(p, c)
          PROVE  count' \in [Counter -> Nat] /\ created' \in [Counter -> Seq(Nat)] /\ overlapped' = overlapped
      <3>1. current[p].tap \in Nat /\ current[p].queue \in Nat
        BY <1>1 DEF Machine
      <3>2. \A n \in Nat : Advanced(c, n) \in Nat
        BY DEF Advanced, Increment
      <3>3. PICK number \in Nat, seen \in Nat :
               /\ count' = [count EXCEPT ![c] = Advanced(c, seen)]
               /\ created' \in {created, [created EXCEPT ![c] = Append(@, number)]}
        BY <1>1, <2>1, <3>1 DEF Count, TypeOK
      <3>4. Append(created[c], number) \in Seq(Nat)
        BY <1>1, <3>3 DEF TypeOK
      <3> QED
        BY <1>1, <2>1, <3>2, <3>3, <3>4 DEF Count, TypeOK
    <2> QED
      BY <1>1, <2>1 DEF MachineStep, GiveNumber, OpenTap, AddTAP, Define, StartFilter, Boot, Insert,
         Record, numbers, TypeOK
  <1>7. /\ threads' \in Nat /\ interfaces' \in SUBSET Nat /\ ports' \in SUBSET Nat
        /\ nfqueues' \in SUBSET Nat
    <2>1. current[p].tap + 1 \in Nat /\ current[p].queue \in Nat
      BY <1>1 DEF Machine
    <2>2. CASE OpenTap(p)
      BY <1>1, <2>2, Opens DEF OpenTap, TypeOK
    <2>3. CASE AddTAP(p)
      BY <1>1, <2>1, <2>3 DEF AddTAP, TypeOK
    <2> QED
      BY <1>1, <2>1, <2>2, <2>3 DEF MachineStep, GiveNumber, Count, Define, StartFilter, Boot,
         Insert, Record, kernel, TypeOK
  <1>8. /\ served' \in SUBSET IPs /\ lostIPs' \in SUBSET IPs
        /\ vms' \in Seq(Machine) /\ lostEntries' \in SUBSET Nat
    <2>1. /\ current[p].ip \in IPs /\ Append(vms, current[p]) \in Seq(Machine)
          /\ Len(vms) + 1 \in Nat
      BY <1>1 DEF Machine, TypeOK
    <2> QED
      BY <1>1, <2>1 DEF MachineStep, GiveNumber, Count, OpenTap, AddTAP, Define, StartFilter, Boot,
         Insert, Record, core, TypeOK
  <1>9. UNCHANGED <<queue, questions, up>>
    BY DEF MachineStep, GiveNumber, Count, OpenTap, AddTAP, Define, StartFilter, Boot, Insert, Record,
       core
  <1> QED
    BY <1>1, <1>2, <1>4, <1>5, <1>6, <1>7, <1>8, <1>9 DEF Placed, TypeOK, RestOK

LEMMA PlacedOthers ==
  ASSUME Placed, Lease \/ Crash \/ (\E ip \in IPs : Question(ip)) \/ UNCHANGED vars
  PROVE  Placed'
  <1>1. TypeOK /\ RestOK
    BY TypeParts DEF Placed
  <1>2. CASE Lease
    <2>1. At("worker", "lease") /\ Advance("worker") /\ next' = next /\ ended = "no"
      BY <1>2 DEF Lease, At
    <2>2. Place' /\ todo' \in [Thread -> Seq(Steps)]
      BY <2>1, AdvanceGoesOn DEF Thread
    <2> QED
      BY <1>1, <1>2, <2>1, <2>2 DEF Lease, Advance, Placed, TypeOK, RestOK, numbers, kernel, core
  <1>3. CASE Crash
    <2>1. Place'
      BY <1>3, AbortStays DEF Crash, Abort
    <2> QED
      BY <1>1, <1>3, <2>1 DEF Crash, Abort, Placed, TypeOK, numbers, kernel, core, Ends
  <1>4. ASSUME NEW ip \in IPs, Question(ip) PROVE Placed'
    <2>1. Append(queue, ip) \in Seq(IPs) /\ questions + 1 \in 0 .. MaxQuestions
      BY <1>1, <1>4, LifecycleAssumption DEF Question, TypeOK
    <2>2. Place'
      BY <1>4, AbortStays DEF Question
    <2> QED
      BY <1>1, <1>4, <2>1, <2>2 DEF Question, Placed, TypeOK, numbers, kernel
  <1>5. CASE UNCHANGED vars
    <2>1. Place'
      BY <1>5, AbortStays DEF vars
    <2> QED
      BY <1>1, <1>5, <2>1 DEF vars, Placed, TypeOK, numbers, kernel, core
  <1> QED
    BY <1>2, <1>3, <1>4, <1>5

LEMMA PlacedStep == Placed /\ [Next]_vars => Placed'
  BY PlacedMain, NextMachine, NextRequest, PlacedMachine, PlacedOthers
  DEF Next, MainStep, WorkerStep, Thread

-----------------------------------------------------------------------------
(* What a step does to the place of the threads.                           *)

GoesOn(p) ==
    status' = status /\ ended' = "no" /\ <<Call(p), Call(p)'>> \in Order(p)
Leaves(p) == p = "main" /\ status' \in Statuses \ {"none"} /\ ended' = "no" /\ Call(p)' = "~bridge"
Dies(p) == status' = status /\ ended' # "no" /\ Call(p)' = Call(p)

MainCall ==
    \/ ReadConfig \/ HandleDHCP \/ InitBridge \/ InitVirtlib \/ HandleStandardTemplate \/ SpawnWorker
    \/ RunScript \/ Attach \/ HandleRuntime
    \/ DestroyBridge \/ DeleteVirtlib \/ DeleteTaps \/ DeleteFilters \/ DeleteCore

Idle == Crash \/ (\E ip \in IPs : Question(ip)) \/ UNCHANGED vars

LEMMA AllSteps ==
  ASSUME [Next]_vars
  PROVE  \/ MainCall \/ NextTemplate \/ PopRequest \/ Lease \/ Idle
         \/ \E p \in Thread : MachineStep(p)
  BY DEF Next, MainStep, WorkerStep, Thread, MainCall, Idle

\* An empty list is the one without a next call.
LEMMA NoCall == ASSUME TypeOK, NEW p \in Thread PROVE Call(p) = "none" <=> todo[p] = << >>
  <1>1. todo[p] # << >> => Head(todo[p]) \in Steps
    BY DEF TypeOK
  <1>2. "none" \notin Steps
    BY DEF Steps
  <1> QED
    BY <1>1, <1>2 DEF Call

LEMMA Moves ==
  ASSUME Placed, NEW p \in Thread,
         (p = "main" /\ MainCall) \/ MachineStep(p) \/ (p = "worker" /\ Lease)
  PROVE  /\ next' = next /\ ended = "no" /\ Call(Peer(p))' = Call(Peer(p))
         /\ Call(p) \in CallsIn(Order(p))
         /\ GoesOn(p) \/ Leaves(p) \/ Dies(p)
  <1>1. next' = next /\ ended = "no"
    BY DEF MainCall, MachineStep, Lease, ReadConfig, HandleDHCP, InitBridge, InitVirtlib,
       HandleStandardTemplate, SpawnWorker, RunScript, Attach, HandleRuntime, DestroyBridge,
       DeleteVirtlib, DeleteTaps, DeleteFilters, DeleteCore, GiveNumber, Count, OpenTap, AddTAP,
       Define, StartFilter, Boot, Insert, Record, At
  <1>2. /\ \E step : At(p, step)
        /\ \/ \E step : At(p, step) /\ Advance(p)
           \/ \E st \in Statuses \ {"none"} : p = "main" /\ Return(st)
           \/ \E why \in Ends \ {"no"} : Abort(why)
    <2>1. CASE p = "main" /\ MainCall
      BY <2>1 DEF MainCall, ReadConfig, HandleDHCP, InitBridge, InitVirtlib,
       HandleStandardTemplate, SpawnWorker, RunScript, Attach, HandleRuntime, DestroyBridge,
       DeleteVirtlib, DeleteTaps, DeleteFilters, DeleteCore, CopyMacDies, Statuses, Ends
    <2>2. CASE MachineStep(p)
      BY <2>2 DEF MachineStep, GiveNumber, Count, OpenTap, AddTAP, AddTAPFails, Define, CopyMacDies,
         StartFilter, Boot, BootFails, Insert, Record, Statuses, Ends
    <2>3. CASE p = "worker" /\ Lease
      BY <2>3 DEF Lease
    <2> QED
      BY <2>1, <2>2, <2>3
  <1>3. Call(p) \in CallsIn(Order(p))
    <2>1. Call(p) # "none"
      BY <1>2, NoCall DEF At, Placed
    <2> QED
      BY <2>1 DEF Placed, Place
  <1>4. ASSUME NEW step, At(p, step), Advance(p)
        PROVE  Call(Peer(p))' = Call(Peer(p)) /\ GoesOn(p)
    BY <1>1, <1>4, AdvanceGoesOn DEF GoesOn
  <1>5. ASSUME NEW st \in Statuses \ {"none"}, p = "main", Return(st)
        PROVE  Call(Peer(p))' = Call(Peer(p)) /\ Leaves(p)
    BY <1>1, <1>5, ReturnLeaves DEF Leaves, Peer
  <1>6. ASSUME NEW why \in Ends \ {"no"}, Abort(why)
        PROVE  Call(Peer(p))' = Call(Peer(p)) /\ Dies(p)
    <2>1. Peer(p) \in Thread
      BY DEF Peer, Thread
    <2> QED
      BY <1>1, <1>6, <2>1, AbortStays DEF Abort, Dies
  <1> QED
    BY <1>1, <1>2, <1>3, <1>4, <1>5, <1>6

LEMMA Idles ==
  ASSUME Placed, Idle
  PROVE  /\ UNCHANGED <<next, current, count, created, overlapped, ports, nfqueues, served, lostIPs,
                        vms, up, status>>
         /\ \A p \in Thread : Call(p)' = Call(p)
         /\ ended' \in {ended, "wildPointer"}
  <1>1. /\ UNCHANGED <<todo, next, current, count, created, overlapped, ports, nfqueues, served,
                       lostIPs, vms, up, status>>
        /\ ended' \in {ended, "wildPointer"}
    BY DEF Idle, Crash, Question, Abort, vars, numbers, kernel, core
  <1> QED
    BY <1>1, AbortStays

-----------------------------------------------------------------------------
(* The worker has its tools.                                               *)

AllTools == {"config", "dhcp", "bridgeManager", "bridge", "virtlib"}

\* What start() has set up before the call it makes next.
ToolsBefore(step) ==
    /\ step \in {"dhcp", "bridge", "virtlib", "template", "spawn"} => "config" \in up
    /\ step \in {"bridge", "virtlib", "template", "spawn"} => "dhcp" \in up
    /\ step \in {"virtlib", "template", "spawn"} => {"bridgeManager", "bridge"} \subseteq up
    /\ step \in {"template", "spawn"} => "virtlib" \in up
    /\ step = "next" => "worker" \in up

Tools ==
    /\ Call("worker") # "none" => "worker" \in up
    /\ status = "none" /\ "worker" \in up => AllTools \subseteq up
    /\ status = "none" /\ next = 1 => ToolsBefore(Call("main"))
    /\ status = "none" /\ next # 1 => "worker" \in up

LEMMA ToolsInit == Init => Tools
  <1> SUFFICES ASSUME Init PROVE Tools
    OBVIOUS
  <1>1. Call("main") = "config" /\ Call("worker") = "none" /\ next = 1 /\ up = {}
    BY BeginOrdered DEF Init, Call, Thread
  <1> QED
    BY <1>1 DEF Tools, ToolsBefore

LEMMA ToolsStep ==
  ASSUME Placed, Tools, [Next]_vars
  PROVE  Tools'
  <1>1. CASE Idle
    BY <1>1, Idles DEF Tools, ToolsBefore, Thread
  <1>2. CASE NextTemplate
    <2>1. next' # 1 /\ up' = up /\ status' = status /\ "worker" \in up
      BY <1>2, NextMachine DEF NextTemplate, Tools, ToolsBefore
    <2> QED
      BY <1>2, <2>1, NextMachine DEF Tools
  <1>3. CASE PopRequest
    BY <1>3, NextRequest DEF Tools, ToolsBefore, PopRequest
  <1>4. ASSUME NEW p \in Thread, MachineStep(p) PROVE Tools'
    <2>1. up' = up /\ Call(p) \notin CallsIn(BeginOrder)
      <3>1. /\ Call(p) \in {"newTap", "newQueue", "countTap", "countQueue", "open", "addTAP", "define",
                           "filter", "boot", "insert", "record"}
            /\ up' = up
        BY <1>4 DEF MachineStep, GiveNumber, Count, OpenTap, AddTAP, Define, StartFilter, Boot, Insert,
           Record, At, Call
      <3> QED
        BY <3>1, CallsOf
    <2>2. /\ next' = next
          /\ status' = "none" => status = "none"
          /\ Call(Peer(p))' = Call(Peer(p)) /\ Call(p) # "none"
          /\ Call(p) \in CallsIn(Order(p))
      BY <1>4, Moves, CallsOf DEF GoesOn, Leaves, Dies, Order
    <2>3. CASE p = "worker"
      BY <2>1, <2>2, <2>3 DEF Tools, ToolsBefore, Peer
    <2>4. CASE p = "main"
      <3>1. status = "none" => next # 1
        BY <2>1, <2>2, <2>4 DEF Order
      <3> QED
        BY <2>1, <2>2, <2>4, <3>1 DEF Tools, Peer
    <2> QED
      BY <2>3, <2>4 DEF Thread
  <1>5. CASE Lease
    BY <1>5, Moves, CallsOf DEF Lease, Tools, ToolsBefore, GoesOn, Leaves, Dies, Thread, Peer, Order
  <1>6. CASE MainCall
    <2>1. /\ next' = next /\ Call("worker")' = Call("worker") /\ Call("main") \in CallsIn(Order("main"))
          /\ GoesOn("main") \/ Leaves("main") \/ Dies("main")
      BY <1>6, Moves DEF Thread, Peer
    <2>2. status = "none" => up \subseteq up'
      BY <1>6, <2>1, CallsOf DEF MainCall, ReadConfig, HandleDHCP, InitBridge, InitVirtlib,
         HandleStandardTemplate, SpawnWorker, RunScript, Attach, HandleRuntime, DestroyBridge,
         DeleteVirtlib, DeleteTaps, DeleteFilters, DeleteCore, Order, At, Call
    <2>3. "worker" \in up => "worker" \in up'
      BY <1>6 DEF MainCall, ReadConfig, HandleDHCP, InitBridge, InitVirtlib,
         HandleStandardTemplate, SpawnWorker, RunScript, Attach, HandleRuntime, DestroyBridge,
         DeleteVirtlib, DeleteTaps, DeleteFilters, DeleteCore
    <2>4. CASE Leaves("main") \/ status # "none"
      BY <2>1, <2>3, <2>4 DEF Tools, Leaves, GoesOn, Dies
    <2>5. CASE status = "none" /\ Dies("main")
      <3>1. up' = up
        BY <1>6, <2>1, <2>5, CallsOf DEF MainCall, ReadConfig, HandleDHCP, InitBridge, InitVirtlib,
           HandleStandardTemplate, SpawnWorker, RunScript, Attach, HandleRuntime, DestroyBridge,
           DeleteVirtlib, DeleteTaps, DeleteFilters, DeleteCore, Order, At, Call, Advance, Return, Dies
      <3> QED
        BY <2>1, <2>5, <3>1 DEF Tools, ToolsBefore, Dies
    <2>6. CASE status = "none" /\ GoesOn("main") /\ next # 1
      <3>1. "worker" \in up' /\ AllTools \subseteq up'
        BY <2>2, <2>6 DEF Tools
      <3> QED
        BY <2>1, <2>6, <3>1 DEF Tools, GoesOn
    <2>7. CASE status = "none" /\ GoesOn("main") /\ next = 1
      <3>1. /\ Call("main") \in CallsIn(BeginOrder)
            /\ <<Call("main"), Call("main")'>> \in BeginOrder
        BY <2>1, <2>7 DEF GoesOn, Order
      <3>2. /\ Call("main") = "config" => up' = up \cup {"config"}
            /\ Call("main") = "dhcp" => up' = up \cup {"dhcp"}
            /\ Call("main") = "bridge" => up' = up \cup {"bridgeManager", "bridge"}
            /\ Call("main") = "virtlib" => up' = up \cup {"virtlib"}
            /\ Call("main") = "template" => up' = up
            /\ Call("main") = "spawn" => up' = up \cup {"worker"}
            /\ Call("main") # "next"
        BY <1>6, <2>7, <3>1, CallsOf DEF MainCall, ReadConfig, HandleDHCP, InitBridge, InitVirtlib,
           HandleStandardTemplate, SpawnWorker, RunScript, Attach, HandleRuntime, DestroyBridge,
           DeleteVirtlib, DeleteTaps, DeleteFilters, DeleteCore, At, Call, GoesOn, Return, Abort
      <3>3. Call("main") \in {"config", "dhcp", "bridge", "virtlib", "template", "spawn"}
        BY <3>1, <3>2, CallsOf
      <3>4. ToolsBefore(Call("main"))
        BY <2>7 DEF Tools
      <3>5. ToolsBefore(Call("main"))'
        BY <3>1, <3>2, <3>3, <3>4 DEF BeginOrder, ToolsBefore
      <3>6. "worker" \in up' => AllTools \subseteq up'
        <4>1. CASE Call("main") = "spawn"
          BY <3>2, <3>4, <4>1 DEF ToolsBefore, AllTools
        <4>2. CASE Call("main") # "spawn"
          <5>1. "worker" \in up' => "worker" \in up
            BY <3>2, <3>3, <4>2
          <5> QED
            BY <2>2, <2>7, <5>1 DEF Tools
        <4> QED
          BY <4>1, <4>2
      <3> QED
        BY <2>1, <2>3, <2>7, <3>5, <3>6 DEF Tools, GoesOn
    <2> QED
      BY <2>1, <2>4, <2>5, <2>6, <2>7
  <1> QED
    BY AllSteps, <1>1, <1>2, <1>3, <1>4, <1>5, <1>6

-----------------------------------------------------------------------------
(* The numbers.                                                            *)

NumberOf(p, c) == IF c = "tap" THEN current[p].tap ELSE current[p].queue

\* Nobody else numbered while a thread was between reading the counter and adding.
Sequential(c) ==
    /\ created[c] = [i \in 1 .. Len(created[c]) |-> (i - 1) * Increment(c)]
    /\ count[c] = Len(created[c]) * Increment(c)
    /\ \A p \in Thread : Counting(p, c) => NumberOf(p, c) = count[c]
    /\ ~(Counting("main", c) /\ Counting("worker", c))

\* The number a thread is about to bind is not bound, and not the other thread's.
Unbound ==
    /\ \A n \in nfqueues : n < count["queue"]
    /\ \A p \in Thread : Call(p) = "filter" =>
          current[p].queue < count["queue"] /\ current[p].queue \notin nfqueues
    /\ ~(/\ Call("main") = "filter" /\ Call("worker") = "filter"
         /\ current["main"].queue = current["worker"].queue)

Numbers ==
    /\ \A c \in Counter \ overlapped : Sequential(c)
    /\ "queue" \notin overlapped => Unbound
    /\ ended = "assertQh" => "queue" \in overlapped

LEMMA CountingCall ==
  ASSUME NEW p, NEW c
  PROVE  Counting(p, c) <=> todo[p] # << >> /\ Call(p) = IF c = "tap" THEN "countTap" ELSE "countQueue"
  BY DEF Counting, Call

LEMMA NumbersInit == Init => Numbers
  <1> SUFFICES ASSUME Init PROVE Numbers
    OBVIOUS
  <1>1. Call("main") = "config" /\ Call("worker") = "none"
    BY BeginOrdered DEF Init, Call, Thread
  <1>2. ASSUME NEW c \in Counter PROVE Sequential(c)
    <2>1. created[c] = << >> /\ count[c] = 0 /\ Increment(c) \in Nat
      BY DEF Init, Increment
    <2>2. created[c] = [i \in 1 .. Len(created[c]) |-> (i - 1) * Increment(c)]
      BY <2>1
    <2>3. count[c] = Len(created[c]) * Increment(c)
      BY <2>1
    <2>4. \A p \in Thread : ~Counting(p, c)
      BY <1>1, CountingCall DEF Thread
    <2> QED
      BY <2>2, <2>3, <2>4 DEF Sequential, Thread
  <1>3. Unbound
    BY <1>1 DEF Init, Unbound, Thread
  <1> QED
    BY <1>2, <1>3 DEF Init, Numbers

\* A step that neither numbers nor binds, and that brings no thread to where it does.
LEMMA NumbersKept ==
  ASSUME Placed, Placed', Numbers, UNCHANGED <<count, created>>,
         overlapped \subseteq overlapped', nfqueues' \subseteq nfqueues,
         \A p \in Thread : Call(p)' \in {"countTap", "countQueue", "filter"} =>
              /\ Call(p)' = Call(p)
              /\ current'[p].tap = current[p].tap /\ current'[p].queue = current[p].queue,
         ended' = "assertQh" => ended = "assertQh"
  PROVE  Numbers'
  <1>1. ASSUME NEW c \in Counter, c \notin overlapped' PROVE Sequential(c)'
    <2>1. Sequential(c)
      BY <1>1 DEF Numbers
    <2>2. ASSUME NEW p \in Thread, Counting(p, c)'
          PROVE  Counting(p, c) /\ NumberOf(p, c)' = NumberOf(p, c)
      <3>1. Call(p)' = (IF c = "tap" THEN "countTap" ELSE "countQueue")
        BY <2>2 DEF Counting, Call
      <3>2. Call(p) = Call(p)'
        BY <3>1
      <3>3. todo[p] # << >>
        BY <3>1, <3>2, NoCall DEF Placed
      <3> QED
        BY <3>1, <3>2, <3>3, CountingCall DEF NumberOf
    <2> QED
      BY <2>1, <2>2 DEF Sequential, Thread
  <1>2. "queue" \notin overlapped' => Unbound'
    BY DEF Numbers, Unbound, Thread
  <1> QED
    BY <1>1, <1>2 DEF Numbers

\* Where the numbering calls lead, and what leads to them.
LEMMA AroundNumbers ==
  ASSUME NEW p \in Thread, GoesOn(p)
  PROVE  /\ Call(p)' = "countTap" <=> Call(p) = "newTap"
         /\ Call(p)' = "countQueue" <=> Call(p) = "newQueue"
         /\ Call(p)' = "filter" <=> Call(p) = "countQueue"
  <1>1. Order(p) \in {BeginOrder, OtherOrder, StartOrder, NewOrder, DestructorOrder}
    BY DEF Order
  <1>2. CASE Order(p) = BeginOrder
    BY <1>2 DEF BeginOrder, GoesOn
  <1>3. CASE Order(p) = OtherOrder
    BY <1>3 DEF OtherOrder, GoesOn
  <1>4. CASE Order(p) = StartOrder
    BY <1>4 DEF StartOrder, GoesOn
  <1>5. CASE Order(p) = NewOrder
    BY <1>5 DEF NewOrder, GoesOn
  <1>6. CASE Order(p) = DestructorOrder
    BY <1>6 DEF DestructorOrder, GoesOn
  <1> QED
    BY <1>1, <1>2, <1>3, <1>4, <1>5, <1>6

LEMMA NumbersGiven ==
  ASSUME Placed, Placed', Numbers, NEW p \in Thread, NEW c \in Counter, GiveNumber(p, c)
  PROVE  Numbers'
  <1> DEFINE d == IF c = "tap" THEN "queue" ELSE "tap"
  <1>1. /\ Call(p) = IF c = "tap" THEN "newTap" ELSE "newQueue"
        /\ GoesOn(p) /\ Call(Peer(p))' = Call(Peer(p))
    BY AdvanceGoesOn DEF GiveNumber, GoesOn
  <1>2. /\ UNCHANGED <<count, created, nfqueues>>
        /\ overlapped' = overlapped \cup (IF Counting(Peer(p), c) THEN {c} ELSE {})
        /\ ended' = "no" /\ Peer(p) \in Thread /\ Peer(p) # p /\ Counter = {c, d} /\ c # d
        /\ Thread = {p, Peer(p)}
    BY <1>1 DEF GiveNumber, GoesOn, kernel, Peer, Thread, Counter
  <1>3. /\ NumberOf(p, c)' = count[c] /\ NumberOf(p, d)' = NumberOf(p, d)
        /\ current'[Peer(p)] = current[Peer(p)]
    BY <1>2 DEF GiveNumber, Placed, TypeOK, Machine, Counter, NumberOf
  <1>4. /\ Counting(Peer(p), c)' <=> Counting(Peer(p), c)
        /\ Counting(Peer(p), d)' <=> Counting(Peer(p), d)
    <2>1. todo'[Peer(p)] = todo[Peer(p)]
      BY <1>2 DEF GiveNumber, Advance, Placed, TypeOK
    <2> QED
      BY <2>1 DEF Counting
  <1>5. ~Counting(p, d)'
    BY <1>1, <1>2, AroundNumbers DEF Counting, Call, Counter
  <1>6. ASSUME c \notin overlapped' PROVE Sequential(c)'
    <2>1. Sequential(c) /\ ~Counting(Peer(p), c)
      BY <1>2, <1>6 DEF Numbers
    <2> QED
      BY <1>2, <1>3, <1>4, <2>1 DEF Sequential, NumberOf, Thread, Peer
  <1>7. ASSUME d \notin overlapped' PROVE Sequential(d)'
    <2>1. Sequential(d)
      BY <1>2, <1>7 DEF Numbers
    <2> QED
      BY <1>2, <1>3, <1>4, <1>5, <2>1 DEF Sequential, NumberOf, Thread, Peer
  <1>8. ASSUME "queue" \notin overlapped' PROVE Unbound'
    <2>1. Unbound
      BY <1>2, <1>8 DEF Numbers
    <2>2. Call(p)' # "filter"
      BY <1>1, AroundNumbers
    <2> QED
      BY <1>1, <1>2, <1>3, <2>1, <2>2 DEF Unbound, Thread, Peer
  <1> QED
    BY <1>2, <1>6, <1>7, <1>8 DEF Numbers

LEMMA NumbersCounted ==
  ASSUME Placed, Placed', Numbers, NEW p \in Thread, NEW c \in Counter, Count(p, c)
  PROVE  Numbers'
  <1> DEFINE d == IF c = "tap" THEN "queue" ELSE "tap"
  <1>1. /\ Call(p) = IF c = "tap" THEN "countTap" ELSE "countQueue"
        /\ GoesOn(p) /\ Call(Peer(p))' = Call(Peer(p)) /\ Counting(p, c)
    BY AdvanceGoesOn DEF Count, GoesOn, At, Counting
  <1>2. /\ UNCHANGED <<current, overlapped, nfqueues>>
        /\ ended' = "no" /\ Peer(p) \in Thread /\ Peer(p) # p /\ Counter = {c, d} /\ c # d
        /\ Thread = {p, Peer(p)}
    BY <1>1 DEF Count, GoesOn, kernel, Peer, Thread, Counter
  <1>3. /\ count'[d] = count[d] /\ created'[d] = created[d]
        /\ \E seen \in {count[c], NumberOf(p, c)} : count'[c] = Advanced(c, seen)
        /\ Counting(Peer(p), c) \/ created'[c] = Append(created[c], NumberOf(p, c))
    BY <1>2 DEF Count, Placed, TypeOK, NumberOf
  <1>4. /\ Counting(Peer(p), c)' <=> Counting(Peer(p), c)
        /\ Counting(Peer(p), d)' <=> Counting(Peer(p), d)
    <2>1. todo'[Peer(p)] = todo[Peer(p)]
      BY <1>2 DEF Count, Advance, Placed, TypeOK
    <2> QED
      BY <2>1 DEF Counting
  <1>5. ~Counting(p, c)' /\ ~Counting(p, d)'
    BY <1>1, <1>2, AroundNumbers DEF Counting, Call, Counter
  <1>6. ASSUME c \notin overlapped'
        PROVE  /\ Sequential(c)' /\ NumberOf(p, c) = count[c] /\ ~Counting(Peer(p), c)
               /\ count'[c] = count[c] + Increment(c) /\ count[c] \in Nat /\ Increment(c) \in {1, 2}
    <2>1. Sequential(c)
      BY <1>2, <1>6 DEF Numbers
    <2>2. /\ NumberOf(p, c) = count[c] /\ ~Counting(Peer(p), c)
          /\ created'[c] = Append(created[c], NumberOf(p, c))
      BY <1>1, <1>3, <2>1 DEF Sequential, Thread, Peer
    <2>3. count'[c] = count[c] + Increment(c) /\ Increment(c) \in {1, 2}
      BY <1>3, <2>2 DEF Advanced, Increment
    <2>4. /\ Len(created'[c]) = Len(created[c]) + 1 /\ Len(created[c]) \in Nat /\ count[c] \in Nat
          /\ created[c] \in Seq(Nat)
      BY <1>3, <2>2 DEF Placed, TypeOK
    <2>5. count'[c] = Len(created'[c]) * Increment(c)
      <3>1. CASE Increment(c) = 1
        BY <2>1, <2>3, <2>4, <3>1 DEF Sequential
      <3>2. CASE Increment(c) = 2
        BY <2>1, <2>3, <2>4, <3>2 DEF Sequential
      <3> QED
        BY <2>3, <3>1, <3>2
    <2>6. created'[c] = [i \in 1 .. Len(created'[c]) |-> (i - 1) * Increment(c)]
      <3>1. created'[c] \in Seq(Nat) /\ created'[c] = [i \in 1 .. Len(created'[c]) |-> created'[c][i]]
        BY DEF Placed, TypeOK
      <3>2. ASSUME NEW i \in 1 .. Len(created'[c]) PROVE created'[c][i] = (i - 1) * Increment(c)
        <4>1. CASE i <= Len(created[c])
          BY <2>1, <2>2, <2>4, <4>1 DEF Sequential
        <4>2. CASE i = Len(created[c]) + 1
          BY <2>1, <2>2, <2>4, <4>2 DEF Sequential
        <4> QED
          BY <2>4, <4>1, <4>2
      <3> QED
        BY <3>1, <3>2
    <2> QED
      BY <1>2, <1>4, <1>5, <2>2, <2>3, <2>4, <2>5, <2>6 DEF Sequential, Thread, Peer
  <1>7. ASSUME d \notin overlapped' PROVE Sequential(d)'
    <2>1. Sequential(d)
      BY <1>2, <1>7 DEF Numbers
    <2> QED
      BY <1>2, <1>3, <1>4, <1>5, <2>1 DEF Sequential, NumberOf, Thread, Peer
  <1>8. ASSUME "queue" \notin overlapped' PROVE Unbound'
    <2>1. Unbound
      BY <1>2, <1>8 DEF Numbers
    <2>2. CASE c = "queue"
      <3>1. /\ current[p].queue = count["queue"] /\ count["queue"] \in Nat
            /\ count'["queue"] \in {count["queue"] + 1, count["queue"] + 2}
        BY <1>6, <1>8, <2>2 DEF NumberOf
      <3>2. \A n \in nfqueues : n \in Nat
        BY DEF Placed, TypeOK
      <3>3. current[Peer(p)].queue \in Nat
        BY <1>2 DEF Placed, TypeOK, Machine
      <3> QED
        BY <1>1, <1>2, <2>1, <3>1, <3>2, <3>3 DEF Unbound, Thread, Peer
    <2>3. CASE c = "tap"
      <3>1. Call(p)' # "filter" /\ count'["queue"] = count["queue"]
        BY <1>1, <1>3, <2>3, AroundNumbers
      <3> QED
        BY <1>1, <1>2, <2>1, <3>1 DEF Unbound, Thread, Peer
    <2> QED
      BY <2>2, <2>3 DEF Counter
  <1> QED
    BY <1>2, <1>6, <1>7, <1>8 DEF Numbers

LEMMA NumbersBound ==
  ASSUME Placed, Placed', Numbers, NEW p \in Thread, StartFilter(p)
  PROVE  Numbers'
  <1>1. /\ Call(p) = "filter" /\ UNCHANGED <<current, count, created, overlapped>>
        /\ MachineStep(p)
    BY DEF StartFilter, At, Call, numbers, MachineStep
  <1>2. Call(Peer(p))' = Call(Peer(p)) /\ (GoesOn(p) \/ Leaves(p) \/ Dies(p))
    BY <1>1, Moves
  <1>3. Call(p)' \in {"countTap", "countQueue", "filter"} => Call(p)' = Call(p)
    BY <1>1, <1>2, AroundNumbers DEF Leaves, Dies
  <1>4. CASE nfqueues' = nfqueues /\ ended' # "assertQh"
    <2>1. \A q \in Thread : Call(q)' \in {"countTap", "countQueue", "filter"} => Call(q)' = Call(q)
      BY <1>2, <1>3 DEF Thread, Peer
    <2> QED
      BY <1>1, <1>4, <2>1, NumbersKept
  <1>5. CASE /\ current[p].queue \notin nfqueues /\ nfqueues' = nfqueues \cup {current[p].queue}
             /\ Advance(p)
    <2>1. GoesOn(p) /\ Call(p)' \notin {"countTap", "countQueue", "filter"}
      BY <1>1, <1>5, AdvanceGoesOn, AroundNumbers DEF StartFilter, GoesOn
    <2>2. ASSUME NEW c \in Counter \ overlapped' PROVE Sequential(c)'
      <3>1. Sequential(c)
        BY <1>1 DEF Numbers
      <3>2. todo'[Peer(p)] = todo[Peer(p)]
        BY <1>5 DEF Advance, Placed, TypeOK, Peer, Thread
      <3>3. ~Counting(p, c)' /\ (Counting(Peer(p), c)' <=> Counting(Peer(p), c))
        BY <2>1, <3>2 DEF Counting, Call
      <3> QED
        BY <1>1, <3>1, <3>3 DEF Sequential, NumberOf, Thread, Peer
    <2>3. "queue" \notin overlapped' => Unbound'
      BY <1>1, <1>2, <1>5, <2>1 DEF Numbers, Unbound, Thread, Peer
    <2> QED
      BY <1>1, <2>1, <2>2, <2>3 DEF Numbers, GoesOn
  <1>6. CASE current[p].queue \in nfqueues /\ nfqueues' = nfqueues /\ Abort("assertQh")
    <2>1. "queue" \in overlapped
      BY <1>1, <1>6 DEF Numbers, Unbound
    <2>2. ASSUME NEW c \in Counter \ overlapped' PROVE Sequential(c)'
      BY <1>1, <1>6 DEF Numbers, Abort, Sequential, Counting, NumberOf
    <2> QED
      BY <1>1, <2>1, <2>2 DEF Numbers
  <1> QED
    BY <1>2, <1>4, <1>5, <1>6 DEF StartFilter, Advance, At

LEMMA NumbersStep ==
  ASSUME Placed, Placed', Numbers, [Next]_vars
  PROVE  Numbers'
  <1>1. CASE Idle
    BY <1>1, Idles, NumbersKept
  <1>2. CASE NextTemplate
    <2>1. /\ Call("main")' \in {"define", "prescript"} /\ Call("worker")' = Call("worker")
          /\ current'["worker"] = current["worker"]
      BY <1>2, NextMachine DEF Placed, TypeOK, Thread
    <2> QED
      BY <1>2, <2>1, NumbersKept DEF NextTemplate, numbers, kernel, Thread
  <1>3. CASE PopRequest
    <2>1. /\ Call("worker")' = "newTap" /\ Call("main")' = Call("main")
          /\ current'["main"] = current["main"]
      BY <1>3, NextRequest DEF Placed, TypeOK, Thread
    <2> QED
      BY <1>3, <2>1, NumbersKept DEF PopRequest, numbers, kernel, Thread
  <1>4. ASSUME NEW p \in Thread, (p = "main" /\ MainCall) \/ MachineStep(p) \/ (p = "worker" /\ Lease),
               \A c \in Counter : ~GiveNumber(p, c) /\ ~Count(p, c), ~StartFilter(p)
        PROVE  Numbers'
    <2>1. /\ UNCHANGED <<count, created, overlapped>>
          /\ nfqueues' \subseteq nfqueues /\ ended' # "assertQh"
          /\ Call(p) \notin {"newTap", "newQueue", "countTap", "countQueue", "filter"}
      <3>1. CASE p = "main" /\ MainCall
        BY <3>1 DEF MainCall, ReadConfig, HandleDHCP, InitBridge, InitVirtlib, HandleStandardTemplate,
           SpawnWorker, RunScript, Attach, HandleRuntime, DestroyBridge, DeleteVirtlib, DeleteTaps,
           DeleteFilters, DeleteCore, CopyMacDies, numbers, kernel, At, Call, Advance, Return, Abort
      <3>2. CASE MachineStep(p)
        BY <1>4, <3>2 DEF MachineStep, OpenTap, AddTAP, AddTAPFails, Define, CopyMacDies, Boot,
           BootFails, Insert, Record, numbers, kernel, At, Call, Advance, Return, Abort
      <3>3. CASE p = "worker" /\ Lease
        BY <3>3 DEF Lease, numbers, kernel, At, Call, Advance
      <3> QED
        BY <1>4, <3>1, <3>2, <3>3
    <2>2. \A q \in Thread : current'[q].tap = current[q].tap /\ current'[q].queue = current[q].queue
      <3>1. \/ current' = current
            \/ \E d \in Domains : current' = [current EXCEPT ![p].domain = d]
            \/ \E mac \in Macs : current' = [current EXCEPT ![p].mac = mac]
        <4>1. CASE p = "main" /\ MainCall
          BY <4>1 DEF MainCall, ReadConfig, HandleDHCP, InitBridge, InitVirtlib, HandleStandardTemplate,
             SpawnWorker, RunScript, Attach, HandleRuntime, DestroyBridge, DeleteVirtlib, DeleteTaps,
             DeleteFilters, DeleteCore
        <4>2. CASE MachineStep(p)
          <5>1. ~At(p, "newTap") /\ ~At(p, "newQueue")
            BY <2>1 DEF At, Call
          <5> QED
            BY <4>2, <5>1, Shapes DEF Placed, Domains
        <4>3. CASE p = "worker" /\ Lease
          BY <4>3 DEF Lease
        <4> QED
          BY <1>4, <4>1, <4>2, <4>3
      <3>2. \A q \in Thread : current[q] \in Machine
        BY DEF Placed, TypeOK
      <3>3. ASSUME NEW q \in Thread
            PROVE  \/ current'[q] = current[q]
                   \/ \E d \in Domains : current'[q] = [current[q] EXCEPT !.domain = d]
                   \/ \E mac \in Macs : current'[q] = [current[q] EXCEPT !.mac = mac]
        BY <3>1 DEF Placed, TypeOK
      <3> QED
        BY <3>2, <3>3 DEF Machine
    <2>3. \A q \in Thread : Call(q)' \in {"countTap", "countQueue", "filter"} => Call(q)' = Call(q)
      BY <1>4, <2>1, Moves, AroundNumbers DEF Leaves, Dies, Thread, Peer
    <2> QED
      BY <2>1, <2>2, <2>3, NumbersKept
  <1> QED
    BY AllSteps, <1>1, <1>2, <1>3, <1>4, NumbersGiven, NumbersCounted, NumbersBound DEF Thread

-----------------------------------------------------------------------------
(* Served addresses have a machine.                                        *)

\* The outer interface of the machine a thread sets up is in the bridge.
Plugged(p) ==
    \/ Call(p) \in {"newQueue", "countQueue", "filter", "attach", "lease", "boot", "insert", "record",
                    "postscript", "runtime"}
    \/ Call(p) = "define" /\ (p = "worker" \/ next = Len(OtherVMs) + 2)

\* StartVm is recorded before its address is registered, any other machine after.
StartRecorded == next = Len(OtherVMs) + 2 /\ Call("main") \in {"postscript", "insert", "runtime"}

Recorded(m) == \E i \in DOMAIN vms : vms[i].ip = m.ip /\ vms[i].tap = m.tap

Serving ==
    /\ \A p \in Thread : Plugged(p) => current[p].tap + 1 \in ports
    /\ StartRecorded => Recorded(current["main"])
    /\ \A ip \in served \ {DhcpIP} :
          \/ \E i \in DOMAIN vms : vms[i].ip = ip /\ vms[i].tap + 1 \in ports
          \/ \E p \in Thread : Call(p) = "record" /\ current[p].ip = ip

\* What leads to the calls of Plugged and StartRecorded, and away from them.
LEMMA AroundMachine ==
  ASSUME NEW p \in Thread, GoesOn(p), next' = next
  PROVE  /\ Plugged(p)' => Plugged(p) \/ Call(p) = "addTAP"
         /\ p = "main" /\ StartRecorded' => StartRecorded \/ Call(p) = "record"
         /\ Call(p) = "insert" => Call(p)' = "record" \/ (p = "main" /\ StartRecorded)
  <1>1. Len(OtherVMs) \in Nat
    BY LifecycleAssumption
  <1>2. CASE p = "main" /\ Order(p) = BeginOrder
    BY <1>2 DEF BeginOrder, GoesOn, Plugged, StartRecorded
  <1>3. CASE p = "main" /\ Order(p) = OtherOrder /\ next # Len(OtherVMs) + 2
    BY <1>3 DEF OtherOrder, GoesOn, Plugged, StartRecorded
  <1>4. CASE p = "main" /\ Order(p) = StartOrder /\ next = Len(OtherVMs) + 2
    BY <1>4 DEF StartOrder, GoesOn, Plugged, StartRecorded
  <1>5. CASE p = "worker" /\ Order(p) = NewOrder
    BY <1>5 DEF NewOrder, GoesOn, Plugged
  <1>6. CASE p = "main" /\ Order(p) = DestructorOrder
    BY <1>6 DEF DestructorOrder, GoesOn, Plugged, StartRecorded
  <1> QED
    BY <1>1, <1>2, <1>3, <1>4, <1>5, <1>6 DEF Order, Thread

LEMMA ServingInit == Init => Serving
  <1> SUFFICES ASSUME Init PROVE Serving
    OBVIOUS
  <1>1. Call("main") = "config" /\ Call("worker") = "none"
    BY BeginOrdered DEF Init, Call, Thread
  <1> QED
    BY <1>1 DEF Init, Serving, Plugged, StartRecorded, Thread

VmsGrow == \A i \in DOMAIN vms : i \in DOMAIN vms' /\ vms'[i] = vms[i]

\* A step that plugs, records and registers nothing.
LEMMA ServingKept ==
  ASSUME Serving, ports \subseteq ports', VmsGrow, served' \subseteq served \cup {DhcpIP},
         \A p \in Thread : Plugged(p)' => Plugged(p) /\ current'[p].tap = current[p].tap,
         StartRecorded' => /\ StartRecorded /\ current'["main"].tap = current["main"].tap
                           /\ current'["main"].ip = current["main"].ip,
         \A p \in Thread : Call(p) = "record" => Call(p)' = "record" /\ current'[p].ip = current[p].ip
  PROVE  Serving'
  <1>1. ASSUME NEW p \in Thread, Plugged(p)' PROVE current'[p].tap + 1 \in ports'
    BY <1>1 DEF Serving
  <1>2. StartRecorded' => Recorded(current["main"])'
    BY DEF Serving, Recorded, VmsGrow
  <1>3. ASSUME NEW ip \in served' \ {DhcpIP}
        PROVE  \/ \E i \in DOMAIN vms' : vms'[i].ip = ip /\ vms'[i].tap + 1 \in ports'
               \/ \E p \in Thread : Call(p)' = "record" /\ current'[p].ip = ip
    BY <1>3 DEF Serving, VmsGrow
  <1> QED
    BY <1>1, <1>2, <1>3 DEF Serving

\* start() returns once.
LEMMA ReturnsOnce ==
  ASSUME Placed, [Next]_vars, status' = "none"
  PROVE  status = "none" /\ ~DestroyBridge
  <1>1. status = "none"
    <2>1. CASE Idle
      BY <2>1, Idles
    <2>2. CASE NextTemplate
      BY <2>2, NextMachine
    <2>3. CASE PopRequest
      BY <2>3 DEF PopRequest
    <2>4. ASSUME NEW p \in Thread, (p = "main" /\ MainCall) \/ MachineStep(p) \/ (p = "worker" /\ Lease)
          PROVE  status = "none"
      BY <2>4, Moves DEF GoesOn, Leaves, Dies
    <2> QED
      BY AllSteps, <2>1, <2>2, <2>3, <2>4 DEF Thread
  <1>2. status = "none" => Call("main") # "~bridge"
    BY CallsOf DEF Placed, Place, Order, Thread
  <1> QED
    BY <1>1, <1>2 DEF DestroyBridge, At, Call

LEMMA ServingStep ==
  ASSUME Placed, Placed', Serving, [Next]_vars, ~DestroyBridge
  PROVE  Serving'
  <1>1. CASE Idle
    BY <1>1, Idles, ServingKept DEF Plugged, StartRecorded, VmsGrow, Thread
  <1>2. CASE NextTemplate
    <2>1. /\ next' = next + 1 /\ Call("main") = "next" /\ next \in 1 .. (Len(OtherVMs) + 1)
          /\ Call("main")' = (IF next <= Len(OtherVMs) THEN "define" ELSE "prescript")
          /\ Call("worker")' = Call("worker") /\ current'["worker"] = current["worker"]
          /\ Len(OtherVMs) \in Nat
      BY <1>2, NextMachine, LifecycleAssumption DEF Placed, TypeOK, Thread
    <2>2. ports' = ports /\ vms' = vms /\ served' = served
      BY <1>2 DEF NextTemplate, kernel, core
    <2>3. ~Plugged("main")' /\ ~StartRecorded' /\ (Plugged("worker")' => Plugged("worker"))
      BY <2>1 DEF Plugged, StartRecorded
    <2> QED
      BY <2>1, <2>2, <2>3, ServingKept DEF VmsGrow, Thread
  <1>3. CASE PopRequest
    <2>1. /\ Call("worker")' = "newTap" /\ Call("main")' = Call("main") /\ Call("worker") = "none"
          /\ current'["main"] = current["main"]
      BY <1>3, NextRequest DEF Placed, TypeOK, Thread
    <2>2. ports' = ports /\ vms' = vms /\ served' = served /\ next' = next
      BY <1>3 DEF PopRequest, kernel
    <2> QED
      BY <2>1, <2>2, ServingKept DEF VmsGrow, Thread, Plugged, StartRecorded
  <1>4. ASSUME NEW p \in Thread, (p = "main" /\ MainCall) \/ MachineStep(p) \/ (p = "worker" /\ Lease),
               ~AddTAP(p), ~Insert(p), ~Record(p)
        PROVE  Serving'
    <2>1. /\ ports' = ports /\ vms' = vms /\ served' \subseteq served \cup {DhcpIP}
          /\ Call(p) \notin {"addTAP", "insert", "record"}
      <3>1. CASE p = "main" /\ MainCall
        BY <3>1 DEF MainCall, ReadConfig, HandleDHCP, InitBridge, InitVirtlib, HandleStandardTemplate,
           SpawnWorker, RunScript, Attach, HandleRuntime, DeleteVirtlib, DeleteTaps,
           DeleteFilters, DeleteCore, kernel, core, At, Call
      <3>2. CASE MachineStep(p)
        BY <1>4, <3>2 DEF MachineStep, GiveNumber, Count, OpenTap, Define, StartFilter, Boot,
           kernel, core, At, Call
      <3>3. CASE p = "worker" /\ Lease
        BY <3>3 DEF Lease, kernel, core, At, Call
      <3> QED
        BY <1>4, <3>1, <3>2, <3>3
    <2>2. \A q \in Thread : /\ current'[q].ip = current[q].ip
                            /\ current'[q].tap = current[q].tap \/ (q = p /\ Call(p) = "newTap")
      <3>1. \/ current' = current
            \/ \E d \in Domains : current' = [current EXCEPT ![p].domain = d]
            \/ \E mac \in Macs : current' = [current EXCEPT ![p].mac = mac]
            \/ Call(p) = "newTap" /\ current' = [current EXCEPT ![p] = [@ EXCEPT !.tap = count["tap"]]]
            \/ current' = [current EXCEPT ![p] = [@ EXCEPT !.queue = count["queue"]]]
        <4>1. CASE p = "main" /\ MainCall
          BY <4>1 DEF MainCall, ReadConfig, HandleDHCP, InitBridge, InitVirtlib, HandleStandardTemplate,
             SpawnWorker, RunScript, Attach, HandleRuntime, DestroyBridge, DeleteVirtlib, DeleteTaps,
             DeleteFilters, DeleteCore
        <4>2. CASE MachineStep(p)
          <5>1. At(p, "newTap") => Call(p) = "newTap"
            BY DEF At, Call
          <5> QED
            BY <4>2, <5>1, Shapes DEF Placed, Domains
        <4>3. CASE p = "worker" /\ Lease
          BY <4>3 DEF Lease
        <4> QED
          BY <1>4, <4>1, <4>2, <4>3
      <3>2. \A q \in Thread : current[q] \in Machine
        BY DEF Placed, TypeOK
      <3>3. ASSUME NEW q \in Thread, q # p PROVE current'[q] = current[q]
        BY <3>1, <3>3 DEF Placed, TypeOK
      <3>4. \/ current'[p] = current[p]
            \/ \E d \in Domains : current'[p] = [current[p] EXCEPT !.domain = d]
            \/ \E mac \in Macs : current'[p] = [current[p] EXCEPT !.mac = mac]
            \/ Call(p) = "newTap" /\ current'[p] = [current[p] EXCEPT !.tap = count["tap"]]
            \/ current'[p] = [current[p] EXCEPT !.queue = count["queue"]]
        BY <3>1 DEF Placed, TypeOK
      <3> QED
        BY <3>2, <3>3, <3>4 DEF Machine
    <2>3. next' = next /\ Call(Peer(p))' = Call(Peer(p)) /\ (GoesOn(p) \/ Leaves(p) \/ Dies(p))
      BY <1>4, Moves
    <2>4. /\ Plugged(p)' => Plugged(p)
          /\ p = "main" /\ StartRecorded' => StartRecorded
      <3>1. CASE GoesOn(p)
        BY <2>1, <2>3, <3>1, AroundMachine
      <3>2. CASE Leaves(p) \/ Dies(p)
        BY <2>3, <3>2 DEF Leaves, Dies, Plugged, StartRecorded
      <3> QED
        BY <2>3, <3>1, <3>2
    <2>5. p = "worker" => (Plugged("main")' => Plugged("main")) /\ (StartRecorded' => StartRecorded)
      BY <2>3 DEF Plugged, StartRecorded, Peer
    <2>6. p = "main" => (Plugged("worker")' => Plugged("worker"))
      BY <2>3 DEF Plugged, Peer
    <2>7. \A q \in Thread : Plugged(q)' => Plugged(q) /\ current'[q].tap = current[q].tap
      BY <2>2, <2>4, <2>5, <2>6 DEF Plugged, Thread
    <2>8. StartRecorded' => /\ StartRecorded /\ current'["main"].tap = current["main"].tap
                            /\ current'["main"].ip = current["main"].ip
      BY <2>2, <2>4, <2>5 DEF StartRecorded, Thread
    <2>9. \A q \in Thread : Call(q) = "record" => Call(q)' = "record" /\ current'[q].ip = current[q].ip
      BY <2>1, <2>2, <2>3 DEF Thread, Peer
    <2> QED
      BY <2>1, <2>7, <2>8, <2>9, ServingKept DEF VmsGrow
  <1>5. ASSUME NEW p \in Thread, AddTAP(p) PROVE Serving'
    <2>1. /\ Call(p) = "addTAP" /\ MachineStep(p) /\ UNCHANGED <<current, vms, served>>
          /\ \/ current[p].tap + 1 \in ports' /\ ports \subseteq ports'
             \/ ports' = ports /\ Abort("assertAddTAP")
      BY <1>5 DEF AddTAP, AddTAPFails, At, Call, MachineStep, core
    <2>2. next' = next /\ Call(Peer(p))' = Call(Peer(p)) /\ (GoesOn(p) \/ Leaves(p) \/ Dies(p))
      BY <2>1, Moves
    <2>3. ~StartRecorded' \/ (StartRecorded /\ p = "worker")
      BY <2>1, <2>2, AroundMachine DEF StartRecorded, Leaves, Dies, Thread, Peer
    <2>4. ASSUME NEW q \in Thread, Plugged(q)' PROVE current'[q].tap + 1 \in ports'
      <3>1. CASE q = p
        <4>1. CASE Abort("assertAddTAP")
          BY <2>1, <2>2, <2>4, <3>1, <4>1, AbortStays DEF Plugged, Abort
        <4>2. CASE current[p].tap + 1 \in ports'
          BY <2>1, <3>1, <4>2
        <4> QED
          BY <2>1, <4>1, <4>2
      <3>2. CASE q = Peer(p)
        BY <2>1, <2>2, <2>4, <3>2 DEF Serving, Plugged
      <3> QED
        BY <3>1, <3>2 DEF Thread, Peer
    <2>5. StartRecorded' => Recorded(current["main"])'
      BY <2>1, <2>3 DEF Serving, Recorded
    <2>6. \A q \in Thread : Call(q) = "record" => Call(q)' = "record"
      BY <2>1, <2>2 DEF Thread, Peer
    <2>7. ports \subseteq ports'
      BY <2>1
    <2> QED
      BY <2>1, <2>4, <2>5, <2>6, <2>7 DEF Serving
  <1>6. ASSUME NEW p \in Thread, Insert(p) PROVE Serving'
    <2>1. /\ Call(p) = "insert" /\ MachineStep(p) /\ UNCHANGED <<current, vms, ports>>
          /\ served' \subseteq served \cup {current[p].ip} /\ At(p, "insert") /\ Advance(p)
      BY <1>6 DEF Insert, At, Call, MachineStep, core, kernel
    <2>2. next' = next /\ Call(Peer(p))' = Call(Peer(p)) /\ GoesOn(p)
      BY <2>1, Moves, AdvanceGoesOn DEF GoesOn
    <2>3. Plugged(p) /\ (\A q \in Thread : Plugged(q)' => Plugged(q)) /\ (StartRecorded' => StartRecorded)
      BY <2>1, <2>2, AroundMachine DEF Plugged, StartRecorded, Thread, Peer
    <2>4. \A q \in Thread : Plugged(q)' => current'[q].tap + 1 \in ports'
      BY <2>1, <2>3 DEF Serving
    <2>5. StartRecorded' => Recorded(current["main"])'
      BY <2>1, <2>3 DEF Serving, Recorded
    <2>6. \/ \E i \in DOMAIN vms' : vms'[i].ip = current[p].ip /\ vms'[i].tap + 1 \in ports'
          \/ Call(p)' = "record" /\ current'[p].ip = current[p].ip
      BY <2>1, <2>2, <2>3, AroundMachine DEF Serving, Recorded
    <2>7. \A q \in Thread : Call(q) = "record" => Call(q)' = "record"
      BY <2>1, <2>2 DEF Thread, Peer
    <2> QED
      BY <2>1, <2>4, <2>5, <2>6, <2>7 DEF Serving
  <1>7. ASSUME NEW p \in Thread, Record(p) PROVE Serving'
    <2>1. /\ Call(p) = "record" /\ MachineStep(p) /\ UNCHANGED <<current, served, ports>>
          /\ vms' = Append(vms, current[p]) /\ At(p, "record") /\ Advance(p)
      BY <1>7 DEF Record, At, Call, MachineStep, core, kernel
    <2>2. next' = next /\ Call(Peer(p))' = Call(Peer(p)) /\ GoesOn(p)
      BY <2>1, Moves, AdvanceGoesOn DEF GoesOn
    <2>3. /\ VmsGrow /\ Len(vms) + 1 \in DOMAIN vms' /\ vms'[Len(vms) + 1] = current[p]
      BY <2>1 DEF Placed, TypeOK, VmsGrow
    <2>4. /\ Plugged(p) /\ \A q \in Thread : Plugged(q)' => Plugged(q)
      BY <2>1, <2>2, AroundMachine DEF Plugged, Thread, Peer
    <2>5. \A q \in Thread : Plugged(q)' => current'[q].tap + 1 \in ports'
      BY <2>1, <2>4 DEF Serving
    <2>6. StartRecorded' => Recorded(current["main"])'
      <3>1. CASE p = "main"
        BY <2>1, <2>3, <3>1 DEF Recorded
      <3>2. CASE p = "worker"
        <4>1. StartRecorded' => StartRecorded
          BY <2>2, <3>2 DEF StartRecorded, Peer
        <4> QED
          BY <2>1, <2>3, <4>1 DEF Serving, Recorded, VmsGrow
      <3> QED
        BY <3>1, <3>2 DEF Thread
    <2>7. ASSUME NEW ip \in served' \ {DhcpIP}
          PROVE  \/ \E i \in DOMAIN vms' : vms'[i].ip = ip /\ vms'[i].tap + 1 \in ports'
                 \/ \E q \in Thread : Call(q)' = "record" /\ current'[q].ip = ip
      <3>1. CASE \E i \in DOMAIN vms : vms[i].ip = ip /\ vms[i].tap + 1 \in ports
        BY <2>1, <2>3, <3>1 DEF VmsGrow
      <3>2. CASE current[p].ip = ip
        BY <2>1, <2>3, <2>4, <3>2 DEF Serving
      <3>3. CASE \E q \in Thread : q # p /\ Call(q) = "record" /\ current[q].ip = ip
        BY <2>1, <2>2, <3>3 DEF Thread, Peer
      <3> QED
        BY <2>1, <2>7, <3>1, <3>2, <3>3 DEF Serving
    <2> QED
      BY <2>5, <2>6, <2>7 DEF Serving
  <1> QED
    BY AllSteps, <1>1, <1>2, <1>3, <1>4, <1>5, <1>6, <1>7 DEF Thread

-----------------------------------------------------------------------------
(* OK means complete.                                                      *)

Wanted(i) == IF i \in DOMAIN OtherVMs /\ ~OtherVMs[i].on THEN "shut" ELSE "running"

\* The first n configured machines have entries of their own.
Complete(n) ==
    \E entry \in [1 .. n -> DOMAIN vms] :
        /\ \A i, j \in 1 .. n : i # j => entry[i] # entry[j]
        /\ \A i \in 1 .. n : vms[entry[i]].domain = Wanted(i)

\* The machine start() is setting up, the one with index next - 1, has been recorded.
RecordMade ==
    \/ Call("main") \in {"next", "postscript", "runtime"}
    \/ Call("main") = "insert" /\ next = Len(OtherVMs) + 2

\* The machine start() is setting up, after the calls made for it.
SetUp ==
    /\ current["main"].on = Template(next - 1).on /\ current["main"].ip = Template(next - 1).ip
    /\ Call("main") \in {"prescript", "define", "newTap", "countTap", "open", "addTAP", "newQueue",
                         "countQueue", "filter", "attach"} => current["main"].domain # "running"
    /\ Call("main") = "boot" => current["main"].domain = "shut"
    /\ Call("main") \in {"insert", "record", "postscript"} =>
          current["main"].domain = IF current["main"].on THEN "running" ELSE "shut"

Progress ==
    /\ status = "none" /\ next # 1 => Complete(IF RecordMade THEN next - 1 ELSE next - 2) /\ SetUp
    /\ status = "none" /\ Call("main") = "runtime" => StartIP \in served \cup lostIPs
    /\ "dhcp" \in up => DhcpIP \in served
    /\ status = "OK" => /\ DhcpIP \in served /\ StartIP \in served \cup lostIPs
                       /\ Complete(Len(OtherVMs) + 1)

LEMMA CompleteNone == Complete(0)
  <1>1. [i \in 1 .. 0 |-> i] \in [1 .. 0 -> DOMAIN vms]
    OBVIOUS
  <1>2. \A i \in 1 .. 0 : FALSE
    OBVIOUS
  <1> QED
    BY <1>1, <1>2 DEF Complete

LEMMA CompleteStays ==
  ASSUME NEW n, Complete(n), VmsGrow
  PROVE  Complete(n)'
  <1>1. PICK entry \in [1 .. n -> DOMAIN vms] :
           /\ \A i, j \in 1 .. n : i # j => entry[i] # entry[j]
           /\ \A i \in 1 .. n : vms[entry[i]].domain = Wanted(i)
    BY DEF Complete
  <1>2. entry \in [1 .. n -> DOMAIN vms']
    BY DEF VmsGrow
  <1>3. \A i \in 1 .. n : vms'[entry[i]] = vms[entry[i]]
    BY DEF VmsGrow
  <1>4. \A i \in 1 .. n : vms'[entry[i]].domain = Wanted(i)
    BY <1>1, <1>3
  <1> QED
    BY <1>1, <1>2, <1>4 DEF Complete, Wanted

LEMMA CompleteGrows ==
  ASSUME TypeOK, NEW n \in Nat, Complete(n), NEW m, vms' = Append(vms, m), m.domain = Wanted(n + 1)
  PROVE  Complete(n + 1)'
  <1>1. PICK entry \in [1 .. n -> DOMAIN vms] :
           /\ \A i, j \in 1 .. n : i # j => entry[i] # entry[j]
           /\ \A i \in 1 .. n : vms[entry[i]].domain = Wanted(i)
    BY DEF Complete
  <1> DEFINE new == [i \in 1 .. (n + 1) |-> IF i = n + 1 THEN Len(vms) + 1 ELSE entry[i]]
  <1>2. /\ DOMAIN vms = 1 .. Len(vms) /\ Len(vms) \in Nat /\ DOMAIN vms' = 1 .. (Len(vms) + 1)
        /\ \A i \in 1 .. Len(vms) : vms'[i] = vms[i]
        /\ vms'[Len(vms) + 1] = m
    BY DEF TypeOK
  <1>3. \A i \in 1 .. n : entry[i] \in 1 .. Len(vms)
    BY <1>2
  <1>4. new \in [1 .. (n + 1) -> DOMAIN vms']
    BY <1>2, <1>3
  <1>5. \A i, j \in 1 .. (n + 1) : i # j => new[i] # new[j]
    BY <1>1, <1>2, <1>3
  <1>6. ASSUME NEW i \in 1 .. (n + 1) PROVE vms'[new[i]].domain = Wanted(i)
    <2>1. CASE i = n + 1
      BY <1>2, <2>1
    <2>2. CASE i \in 1 .. n
      <3>1. new[i] = entry[i] /\ vms'[entry[i]] = vms[entry[i]]
        BY <1>2, <1>3, <2>2
      <3> QED
        BY <1>1, <2>2, <3>1
    <2> QED
      BY <2>1, <2>2
  <1> QED
    BY <1>4, <1>5, <1>6 DEF Complete, Wanted

LEMMA ProgressInit == Init => Progress
  <1> SUFFICES ASSUME Init PROVE Progress
    OBVIOUS
  <1>1. Call("main") = "config" /\ next = 1 /\ status = "none" /\ up = {}
    BY BeginOrdered DEF Init, Call, Thread
  <1> QED
    BY <1>1 DEF Progress

LEMMA ProgressStep ==
  ASSUME Placed, Placed', Tools, Progress, [Next]_vars
  PROVE  Progress'
  <1>1. VmsGrow /\ served \subseteq served' /\ lostIPs \subseteq lostIPs'
    <2>1. vms' = vms \/ \E p \in Thread : vms' = Append(vms, current[p])
      BY AllSteps, Idles DEF NextTemplate, PopRequest, Lease, MainCall, ReadConfig, HandleDHCP,
         InitBridge, InitVirtlib, HandleStandardTemplate, SpawnWorker, RunScript, Attach, HandleRuntime,
         DestroyBridge, DeleteVirtlib, DeleteTaps, DeleteFilters, DeleteCore, MachineStep, GiveNumber,
         Count, OpenTap, AddTAP, Define, StartFilter, Boot, Insert, Record, core
    <2>2. served \subseteq served' /\ lostIPs \subseteq lostIPs'
      BY AllSteps, Idles DEF NextTemplate, PopRequest, Lease, MainCall, ReadConfig, HandleDHCP,
         InitBridge, InitVirtlib, HandleStandardTemplate, SpawnWorker, RunScript, Attach, HandleRuntime,
         DestroyBridge, DeleteVirtlib, DeleteTaps, DeleteFilters, DeleteCore, MachineStep, GiveNumber,
         Count, OpenTap, AddTAP, Define, StartFilter, Boot, Insert, Record, core
    <2>3. vms \in Seq(Machine)
      BY DEF Placed, TypeOK
    <2> QED
      BY <2>1, <2>2, <2>3 DEF VmsGrow
  <1>2. CASE Idle
    BY <1>1, <1>2, Idles, CompleteStays DEF Progress, SetUp, RecordMade, Thread
  <1>3. CASE NextTemplate
    <2>1. /\ status = "none" /\ next \in 1 .. (Len(OtherVMs) + 1) /\ next' = next + 1
          /\ current'["main"] = Template(next) /\ Call("main") = "next"
          /\ Call("main")' \in {"define", "prescript"} /\ status' = "none" /\ up' = up
      BY <1>3, NextMachine DEF NextTemplate, Placed, TypeOK, Thread
    <2>2. Complete(next - 1)
      BY <2>1, CompleteNone DEF Progress, RecordMade
    <2>3. ~RecordMade'
      BY <2>1 DEF RecordMade
    <2>4. Template(next).domain = "none" /\ next' - 1 = next
      BY <2>1 DEF Template, NoMachine, Placed, TypeOK
    <2>5. SetUp'
      BY <2>1, <2>4 DEF SetUp
    <2>6. PICK n : n = next - 1 /\ n = next' - 2
      BY <2>1
    <2>7. Complete(n)'
      BY <1>1, <2>2, <2>6, CompleteStays
    <2> QED
      BY <1>1, <2>1, <2>3, <2>5, <2>6, <2>7 DEF Progress
  <1>4. CASE PopRequest \/ Lease \/ MachineStep("worker")
    <2>1. /\ Call("main")' = Call("main") /\ status' = status /\ up' = up /\ next' = next
          /\ current'["main"] = current["main"]
      <3>1. CASE PopRequest
        BY <3>1, NextRequest DEF PopRequest, Placed, TypeOK, Thread
      <3>2. CASE Lease \/ MachineStep("worker")
        <4>1. Call("main")' = Call("main") /\ status' = status /\ next' = next
          BY <3>2, Moves DEF GoesOn, Leaves, Dies, Thread, Peer
        <4>2. up' = up /\ current'["main"] = current["main"]
          BY <3>2 DEF Lease, MachineStep, GiveNumber, Count, OpenTap, AddTAP, Define, StartFilter, Boot,
             Insert, Record, Placed, TypeOK, Thread
        <4> QED
          BY <4>1, <4>2
      <3> QED
        BY <1>4, <3>1, <3>2
    <2> QED
      BY <1>1, <2>1, CompleteStays DEF Progress, SetUp, RecordMade
  <1>5. CASE MachineStep("main")
    <2>1. /\ next' = next /\ Call("main") \in CallsIn(Order("main"))
          /\ GoesOn("main") \/ Leaves("main") \/ Dies("main")
      BY <1>5, Moves DEF Thread
    <2>2. /\ up' = up /\ status' \in {status, "VIRTLIB_ERROR"}
          /\ Call("main") \in {"newTap", "newQueue", "countTap", "countQueue", "open", "addTAP", "define",
                               "filter", "boot", "insert", "record"}
      BY <1>5 DEF MachineStep, GiveNumber, Count, OpenTap, AddTAP, AddTAPFails, Define, CopyMacDies,
         StartFilter, Boot, BootFails, Insert, Record, At, Call, Advance, Abort, Return
    <2>3. status = "none" /\ next # 1 /\ Order("main") \in {OtherOrder, StartOrder}
      BY <2>1, <2>2, CallsOf DEF Order
    <2>4. SetUp /\ Complete(IF RecordMade THEN next - 1 ELSE next - 2)
      BY <2>3 DEF Progress
    <2>5. PICK n : n = (IF RecordMade THEN next - 1 ELSE next - 2) /\ Complete(n)'
      BY <1>1, <2>4, CompleteStays
    <2>6. ("dhcp" \in up' => DhcpIP \in served') /\ status' # "OK"
      BY <1>1, <2>2, <2>3 DEF Progress
    <2>7. CASE Leaves("main")
      BY <2>6, <2>7 DEF Progress, Leaves
    <2>8. CASE Dies("main")
      <3>1. current' = current
        BY <1>5, <2>8 DEF MachineStep, GiveNumber, Count, OpenTap, AddTAP, Define, CopyMacDies,
           StartFilter, Boot, BootFails, Insert, Record, At, Advance, Return, Dies
      <3> QED
        BY <1>1, <2>1, <2>3, <2>4, <2>5, <2>6, <2>8, <3>1 DEF Progress, SetUp, RecordMade, Dies
    <2>9. CASE GoesOn("main") /\ Record("main")
      <3>1. /\ Call("main") = "record" /\ vms' = Append(vms, current["main"]) /\ current' = current
        BY <2>9 DEF Record, At, Call
      <3>2. Call("main")' \in {"next", "postscript"} /\ status' = "none"
        BY <2>3, <2>9, <3>1 DEF GoesOn, OtherOrder, StartOrder
      <3>3. next - 1 \in 1 .. (Len(OtherVMs) + 1) /\ ~RecordMade
        BY <2>3, <3>1 DEF Placed, TypeOK, RecordMade
      <3>4. current["main"].domain = Wanted(next - 1)
        BY <2>4, <3>1, <3>3, TemplateType DEF SetUp, Wanted
      <3>5. PICK m \in Nat : m = next - 2
        <4>1. next - 2 \in Nat
          BY <2>3 DEF Placed, TypeOK
        <4> QED
          BY <4>1
      <3>6. Complete(m + 1)'
        <4>1. Complete(m) /\ current["main"].domain = Wanted(m + 1)
          <5>1. m + 1 = next - 1
            BY <3>5 DEF Placed, TypeOK
          <5> QED
            BY <2>4, <3>3, <3>4, <3>5, <5>1
        <4> QED
          BY <3>1, <4>1, CompleteGrows DEF Placed
      <3>7. m + 1 = next' - 1 /\ RecordMade'
        BY <2>1, <3>2, <3>5 DEF RecordMade, Placed, TypeOK
      <3>8. SetUp'
        BY <2>1, <2>4, <3>1, <3>2 DEF SetUp
      <3> QED
        BY <2>6, <3>2, <3>6, <3>7, <3>8 DEF Progress
    <2>10. CASE GoesOn("main") /\ ~Record("main")
      <3>1. status' = "none" /\ <<Call("main"), Call("main")'>> \in Order("main")
        BY <2>3, <2>10 DEF GoesOn
      <3>2. Call("main") # "record"
        BY <1>5, <2>10 DEF MachineStep, GiveNumber, Count, OpenTap, AddTAP, Define, StartFilter, Boot,
           Insert, At, Call
      <3>3. Order("main") = StartOrder <=> next = Len(OtherVMs) + 2
        <4>1. OtherOrder # StartOrder
          <5>1. <<"insert", "runtime">> \in StartOrder /\ <<"insert", "runtime">> \notin OtherOrder
            BY DEF StartOrder, OtherOrder
          <5> QED
            BY <5>1
        <4> QED
          BY <2>3, <4>1 DEF Order
      <3>4. RecordMade' <=> RecordMade
        BY <2>1, <2>2, <2>3, <3>1, <3>2, <3>3 DEF OtherOrder, StartOrder, RecordMade
      <3>5. SetUp'
        <4>1. CASE Boot("main")
          <5>1. Call("main") = "boot" /\ current["main"] \in Machine
            BY <4>1 DEF Boot, At, Call, Placed, TypeOK, Thread
          <5>2. Call("main")' \in {"insert", "record"}
            BY <2>3, <3>1, <5>1 DEF OtherOrder, StartOrder
          <5>3. \/ /\ current["main"].on /\ current'["main"] = [current["main"] EXCEPT !.domain = "running"]
                \/ ~current["main"].on /\ current' = current
            BY <2>3, <3>1, <4>1 DEF Boot, BootFails, Return, Placed, TypeOK, Thread
          <5> QED
            BY <2>1, <2>4, <5>1, <5>2, <5>3 DEF SetUp, Machine
        <4>2. CASE Insert("main")
          <5>1. Call("main") = "insert" /\ current' = current
            BY <4>2 DEF Insert, At, Call
          <5>2. Call("main")' \in {"record", "runtime"}
            BY <2>3, <3>1, <5>1 DEF OtherOrder, StartOrder
          <5> QED
            BY <2>1, <2>4, <5>1, <5>2 DEF SetUp
        <4>3. CASE ~Boot("main") /\ ~Insert("main")
          <5>1. /\ Call("main") \in {"newTap", "newQueue", "countTap", "countQueue", "open", "addTAP",
                                    "define", "filter"}
            BY <1>5, <2>10, <4>3 DEF MachineStep, GiveNumber, Count, OpenTap, AddTAP, Define, StartFilter,
               At, Call
          <5>2. Call("main")' \in {"newTap", "countTap", "open", "addTAP", "define", "newQueue",
                                   "countQueue", "filter", "attach"}
            BY <2>3, <3>1, <5>1 DEF OtherOrder, StartOrder
          <5>3. current["main"] \in Machine /\ current["main"].domain # "running"
            BY <2>4, <5>1 DEF SetUp, Placed, TypeOK, Thread
          <5>4. \/ current'["main"] = current["main"]
                \/ \E d \in {"none", "shut"} : current'["main"] = [current["main"] EXCEPT !.domain = d]
                \/ \E mac \in Macs : current'["main"] = [current["main"] EXCEPT !.mac = mac]
                \/ \E k \in Nat : current'["main"] = [current["main"] EXCEPT !.tap = k]
                \/ \E k \in Nat : current'["main"] = [current["main"] EXCEPT !.queue = k]
            BY <1>5, <4>3, Shapes DEF Placed, TypeOK, Thread
          <5>5. /\ current'["main"].on = current["main"].on /\ current'["main"].ip = current["main"].ip
                /\ current'["main"].domain # "running"
            BY <5>3, <5>4 DEF Machine
          <5> QED
            BY <2>1, <2>4, <5>2, <5>5 DEF SetUp
        <4> QED
          BY <4>1, <4>2, <4>3
      <3>6. Call("main")' = "runtime" => StartIP \in served' \cup lostIPs'
        <4>1. ASSUME Call("main")' = "runtime"
              PROVE  Call("main") = "insert" /\ next = Len(OtherVMs) + 2
          BY <2>3, <3>1, <3>3, <4>1 DEF OtherOrder, StartOrder
        <4>2. ASSUME Call("main") = "insert"
              PROVE  current["main"].ip \in served' \cup lostIPs'
          BY <1>5, <4>2 DEF MachineStep, GiveNumber, Count, OpenTap, AddTAP, Define, StartFilter, Boot,
             Insert, Record, At, Call
        <4>3. next = Len(OtherVMs) + 2 => current["main"].ip = StartIP
          <5>1. Len(OtherVMs) \in Nat /\ DOMAIN OtherVMs = 1 .. Len(OtherVMs)
            BY LifecycleAssumption
          <5>2. ASSUME next = Len(OtherVMs) + 2
                PROVE  next - 1 \in 1 .. (Len(OtherVMs) + 1) /\ next - 1 \notin DOMAIN OtherVMs
            BY <5>1, <5>2
          <5>3. current["main"].ip = Template(next - 1).ip
            BY <2>4 DEF SetUp
          <5> QED
            BY <5>2, <5>3, TemplateType
        <4> QED
          BY <4>1, <4>2, <4>3
      <3> QED
        BY <2>1, <2>5, <2>6, <3>1, <3>4, <3>5, <3>6 DEF Progress
    <2> QED
      BY <1>5, <2>1, <2>7, <2>8, <2>9, <2>10
  <1>6. CASE MainCall
    <2>1. /\ next' = next /\ Call("main") \in CallsIn(Order("main"))
          /\ GoesOn("main") \/ Leaves("main") \/ Dies("main")
      BY <1>6, Moves DEF Thread
    <2>2. current' = current
      BY <1>6 DEF MainCall, ReadConfig, HandleDHCP, InitBridge, InitVirtlib, HandleStandardTemplate,
         SpawnWorker, RunScript, Attach, HandleRuntime, DestroyBridge, DeleteVirtlib, DeleteTaps,
         DeleteFilters, DeleteCore
    <2>3. "dhcp" \in up' => DhcpIP \in served'
      BY <1>1, <1>6 DEF Progress, MainCall, ReadConfig, HandleDHCP, InitBridge, InitVirtlib,
         HandleStandardTemplate, SpawnWorker, RunScript, Attach, HandleRuntime, DestroyBridge,
         DeleteVirtlib, DeleteTaps, DeleteFilters, DeleteCore
    <2>4. CASE status # "none"
      <3>1. status' = status
        BY <1>6, <2>1, <2>4, CallsOf DEF MainCall, ReadConfig, HandleDHCP, InitBridge, InitVirtlib,
           HandleStandardTemplate, SpawnWorker, RunScript, Attach, HandleRuntime, DestroyBridge,
           DeleteVirtlib, DeleteTaps, DeleteFilters, DeleteCore, Order, At, Call, Advance,
           Abort
      <3> QED
        BY <1>1, <2>3, <2>4, <3>1, CompleteStays DEF Progress
    <2>5. CASE status = "none" /\ next = 1
      <3>1. Call("main") \in CallsIn(BeginOrder)
        BY <2>1, <2>5 DEF Order
      <3>2. status' # "OK"
        BY <1>6, <2>5, <3>1, CallsOf DEF MainCall, ReadConfig, HandleDHCP, InitBridge, InitVirtlib,
           HandleStandardTemplate, SpawnWorker, RunScript, Attach, HandleRuntime, DestroyBridge,
           DeleteVirtlib, DeleteTaps, DeleteFilters, DeleteCore, At, Call, Advance,
           Abort, Return
      <3>3. status' = "none" => Call("main")' # "runtime"
        BY <2>1, <2>5, <3>1, CallsOf DEF GoesOn, Leaves, Dies, Order, BeginOrder
      <3> QED
        BY <2>1, <2>3, <2>5, <3>2, <3>3 DEF Progress
    <2>6. CASE status = "none" /\ next # 1
      <3>1. Order("main") \in {OtherOrder, StartOrder}
        BY <2>6 DEF Order
      <3>2. /\ Call("main") \in {"prescript", "postscript", "attach", "runtime"}
            /\ status' = "OK" => Call("main") = "runtime"
            /\ Call("main") = "attach" /\ GoesOn("main") => current["main"].domain # "none"
            /\ Call("main") = "runtime" => status' = "OK"
        BY <1>6, <2>1, <2>6, <3>1, CallsOf DEF MainCall, ReadConfig, HandleDHCP, InitBridge, InitVirtlib,
           HandleStandardTemplate, SpawnWorker, RunScript, Attach, HandleRuntime, DestroyBridge,
           DeleteVirtlib, DeleteTaps, DeleteFilters, DeleteCore, CopyMacDies, At, Call, Advance,
           Abort, Return, GoesOn
      <3>3. SetUp
        BY <2>6 DEF Progress
      <3>4. PICK n : n = (IF RecordMade THEN next - 1 ELSE next - 2) /\ Complete(n)'
        BY <1>1, <2>6, CompleteStays DEF Progress
      <3>5. CASE Call("main") = "runtime"
        <4>1. Call("main") = "runtime" => next = Len(OtherVMs) + 2
          BY <2>1, <2>6, CallsOf DEF Order
        <4>2. n = Len(OtherVMs) + 1
          BY <3>4, <3>5, <4>1, LifecycleAssumption DEF RecordMade
        <4>3. DhcpIP \in served' /\ StartIP \in served' \cup lostIPs'
          BY <1>1, <2>6, <3>5 DEF Progress, Tools, AllTools
        <4> QED
          BY <2>3, <3>2, <3>4, <3>5, <4>2, <4>3 DEF Progress
      <3>6. CASE Call("main") # "runtime" /\ Leaves("main")
        BY <2>3, <3>2, <3>6 DEF Progress, Leaves
      <3>7. CASE Call("main") # "runtime" /\ Dies("main")
        BY <2>1, <2>2, <2>3, <2>6, <3>2, <3>3, <3>4, <3>7 DEF Progress, SetUp, RecordMade, Dies
      <3>8. CASE Call("main") # "runtime" /\ GoesOn("main")
        <4>1. /\ Call("main") = "prescript" => Call("main")' = "newTap"
              /\ Call("main") = "postscript" => Call("main")' = "insert" /\ next = Len(OtherVMs) + 2
              /\ Call("main") = "attach" => Call("main")' = "boot"
          <5>1. CASE Order("main") = OtherOrder
            BY <3>2, <3>8, <5>1 DEF GoesOn, OtherOrder
          <5>2. CASE Order("main") = StartOrder
            <6>1. Call("main") = "postscript" => next = Len(OtherVMs) + 2
              BY <2>1, <2>6, CallsOf DEF Order
            <6> QED
              BY <3>2, <3>8, <5>2, <6>1 DEF GoesOn, StartOrder
          <5> QED
            BY <3>1, <5>1, <5>2
        <4>2. RecordMade' <=> RecordMade
          BY <2>1, <3>2, <3>8, <4>1 DEF RecordMade
        <4>3. current["main"].domain \in {"none", "shut", "running"}
          BY DEF Placed, TypeOK, Machine, Domains, Thread
        <4>4. SetUp'
          BY <2>1, <2>2, <3>2, <3>3, <3>8, <4>1, <4>3 DEF SetUp
        <4>5. Call("main")' # "runtime" /\ status' # "OK"
          BY <3>2, <3>8, <4>1
        <4> QED
          BY <2>1, <2>3, <3>4, <4>2, <4>4, <4>5 DEF Progress
      <3> QED
        BY <2>1, <3>5, <3>6, <3>7, <3>8
    <2> QED
      BY <2>4, <2>5, <2>6
  <1> QED
    BY AllSteps, <1>2, <1>3, <1>4, <1>5, <1>6 DEF Thread

-----------------------------------------------------------------------------
(* The theorems.                                                           *)

\* Every variable keeps its type, whatever the two threads do to the counters.
THEOREM LifecycleTypeCorrect == Spec => []TypeOK
  <1>1. Placed => TypeOK
    BY DEF Placed
  <1> QED
    BY PlacedInit, PlacedStep, <1>1, PTL DEF Spec

\* EMPCACore::start spawns the worker after everything handleRequest uses is there, and
\* nothing of it goes before start() returns.
THEOREM WorkerReady == Spec => []WorkerHasItsTools
  <1>1. Placed /\ Tools => WorkerHasItsTools
    BY NoCall DEF Placed, Tools, AllTools, WorkerHasItsTools, Thread
  <1> QED
    BY PlacedInit, PlacedStep, ToolsInit, ToolsStep, <1>1, PTL DEF Spec

\* TAPDeviceManager and FilterManager number consecutively unless both threads were in one
\* of them together; only then does assert(qh_ != 0) fail for a number already bound.
THEOREM NumberedInOrder == Spec => []NumbersUnique
  <1>1. Numbers => NumbersUnique
    BY DEF Numbers, Sequential, NumberOf, NumbersUnique
  <1> QED
    BY PlacedInit, PlacedStep, NumbersInit, NumbersStep, <1>1, PTL DEF Spec

\* Until start() returns, addIP is called for machines whose TAP device is in the bridge,
\* whichever thread calls it.
THEOREM ServedBehindBridge == Spec => []ServedHasMachine
  <1> DEFINE Inv == status = "none" => Serving
  <1>1. Init => Inv
    BY ServingInit
  <1>2. Placed /\ Placed' /\ Inv /\ [Next]_vars => Inv'
    BY ReturnsOnce, ServingStep
  <1>3. Inv => ServedHasMachine
    BY DEF Serving, Plugged, ServedHasMachine, Thread
  <1> QED
    BY PlacedInit, PlacedStep, <1>1, <1>2, <1>3, PTL DEF Spec

\* start() returns STATUS::OK only when every configured machine is set up and recorded.
THEOREM OkIsComplete == Spec => []OkMeansComplete
  <1>1. Progress /\ Placed => OkMeansComplete
    <2> SUFFICES ASSUME Progress, Placed, status = "OK"
                 PROVE  OkMeansComplete
      BY DEF OkMeansComplete
    <2>1. PICK entry \in [1 .. (Len(OtherVMs) + 1) -> DOMAIN vms] :
             /\ \A i, j \in 1 .. (Len(OtherVMs) + 1) : i # j => entry[i] # entry[j]
             /\ \A i \in 1 .. (Len(OtherVMs) + 1) : vms[entry[i]].domain = Wanted(i)
      BY DEF Progress, Complete
    <2>2. DOMAIN entry = 1 .. (Len(OtherVMs) + 1)
      OBVIOUS
    <2> QED
      BY <2>1, <2>2 DEF OkMeansComplete, Progress, Wanted
  <1> QED
    BY PlacedInit, PlacedStep, ToolsInit, ToolsStep, ProgressInit, ProgressStep, <1>1, PTL DEF Spec

=============================================================================
