----------------------- MODULE RequestPipelineProofs -----------------------
(***************************************************************************)
(* Proofs about RequestPipeline, for any number of start-up devices, any   *)
(* number of questions and any set of addresses.                           *)
(***************************************************************************)
EXTENDS RequestPipeline, TLAPS

\* A device that stores a frame has numbered a request before.
StoringNumbered == \A t \in Tap : tpc[t] \in {"push", "pushing"} => nextId[t] # 0

TypeInv == TypeOK /\ StoringNumbered

LEMMA InitTypeInv == Init => TypeInv
  <1> SUFFICES ASSUME Init PROVE TypeInv
    OBVIOUS
  <1> USE PipelineAssumption DEF Init
  <1>1. InitTaps \in Nat \ {0} /\ MaxFrames \in Nat /\ 0 \in Tap /\ InitTaps - 1 \in Tap
    BY DEF Tap
  <1>2. tpc \in [Tap -> TapPC] /\ domain \in [Tap -> Domain]
    BY DEF TapPC, Domain
  <1>3. vms \in Seq([tap : Tap, running : BOOLEAN])
    BY <1>1 DEF Tap
  <1>4. out \in [Tap -> Seq(Nat)] /\ queue \in Seq(Request)
    OBVIOUS
  <1>5. rq \in Request
    BY <1>1 DEF Request
  <1>6. nextId \in [Tap -> Nat] /\ open \in [Tap -> SUBSET Nat] /\ pushed \in [Tap -> SUBSET Nat]
    OBVIOUS
  <1>7. /\ tip \in [Tap -> IPs] /\ madeFor \in [Tap -> IPs \cup {NoIP}]
        /\ early \in [Tap -> SUBSET Nat]
    OBVIOUS
  <1>8. StoringNumbered
    BY DEF StoringNumbered
  <1>9. /\ alive \in BOOLEAN /\ frames \in 0 .. MaxFrames
        /\ tapCount \in InitTaps .. (InitTaps + MaxFrames)
        /\ wpc \in WorkerPC /\ snap \in SUBSET Nat /\ available \in SUBSET IPs
        /\ onBridge \in SUBSET IPs /\ raced \in SUBSET Tap
    BY DEF WorkerPC
  <1> HIDE DEF Init
  <1> QED
    BY <1>2, <1>3, <1>4, <1>5, <1>6, <1>7, <1>8, <1>9 DEF TypeInv, TypeOK

LEMMA NextTypeInv == TypeInv /\ [Next]_vars => TypeInv'
  <1> SUFFICES ASSUME TypeInv, [Next]_vars PROVE TypeInv'
    OBVIOUS
  <1> USE PipelineAssumption
  <1> TypeOK /\ StoringNumbered
    BY DEF TypeInv
  <1>1. CASE UNCHANGED vars
    BY <1>1 DEF TypeInv, TypeOK, StoringNumbered, vars, tapVars, coreVars, history
  <1>2. CASE Next
    <2>0. raced' \in SUBSET Tap
      BY <1>2 DEF Next, Watch, TypeOK
    <2>1. ASSUME NEW t \in Tap, NEW ip \in IPs, ReadArp(t, ip) PROVE TypeInv'
      <3>1. PICK known \in CheckIP(ip) :
              IF known THEN onBridge' = onBridge \cup {ip} /\ UNCHANGED <<tpc, tip>>
              ELSE /\ tpc' = [tpc EXCEPT ![t] = "request"]
                   /\ tip' = [tip EXCEPT ![t] = ip]
                   /\ UNCHANGED onBridge
        BY <2>1 DEF ReadArp
      <3>2. tpc' \in [Tap -> TapPC] /\ tip' \in [Tap -> IPs] /\ onBridge' \in SUBSET IPs
        BY <3>1 DEF TypeOK, TapPC
      <3>3. frames' \in 0 .. MaxFrames
        BY <2>1 DEF TypeOK, ReadArp
      <3>4. UNCHANGED <<alive, nextId, open, pushed, queue, coreVars, out, madeFor, early>>
        BY <2>1 DEF ReadArp
      <3>5. StoringNumbered'
        BY <3>1, <3>4 DEF TypeOK, StoringNumbered
      <3> QED
        BY <2>0, <3>2, <3>3, <3>4, <3>5 DEF TypeInv, TypeOK, coreVars
    <2>2. ASSUME NEW t \in Tap, AddRequest(t) PROVE TypeInv'
      BY <2>0, <2>2 DEF TypeInv, TypeOK, StoringNumbered, AddRequest, NumberRequest, coreVars,
                        TapPC, Request, history
    <2>3. ASSUME NEW t \in Tap, PushBegin(t) PROVE TypeInv'
      BY <2>0, <2>3 DEF TypeInv, TypeOK, StoringNumbered, PushBegin, coreVars, TapPC, history
    <2>4. ASSUME NEW t \in Tap, PushEnd(t) PROVE TypeInv'
      BY <2>0, <2>4 DEF TypeInv, TypeOK, StoringNumbered, PushEnd, coreVars, TapPC, history
    <2>5. CASE PopRequest
      BY <2>0, <2>5 DEF TypeInv, TypeOK, StoringNumbered, PopRequest, TakeRequest, tapVars,
                        WorkerPC, SetUp, history
    <2>6. CASE StartTap
      <3>1. tpc' \in [Tap -> TapPC] /\ StoringNumbered'
        BY <2>6 DEF TypeOK, StoringNumbered, StartTap, TapPC
      <3>2. tapCount' \in InitTaps .. (InitTaps + MaxFrames)
        BY <2>6 DEF TypeOK, StartTap, CreateTap, Tap
      <3>3. wpc' \in WorkerPC /\ alive' \in BOOLEAN
        BY <2>6 DEF TypeOK, StartTap, WorkerPC, SetUp
      <3> QED
        BY <2>0, <2>6, <3>1, <3>2, <3>3 DEF TypeInv, TypeOK, StartTap, history
    <2>7. CASE DefineVM
      BY <2>0, <2>7 DEF TypeInv, TypeOK, StoringNumbered, DefineVM, DefineOutcome, Domain,
                        tapVars, WorkerPC, SetUp, history
    <2>8. ASSUME NEW t \in Tap, PowerOff(t) PROVE TypeInv'
      BY <2>0, <2>8 DEF TypeInv, TypeOK, StoringNumbered, PowerOff, Domain, tapVars, history
    <2>9. CASE BootVM
      BY <2>0, <2>9 DEF TypeInv, TypeOK, StoringNumbered, BootVM, Domain, tapVars,
                        WorkerPC, SetUp, history
    <2>10. CASE AddIP
      <3>1. madeFor' \in [Tap -> IPs \cup {NoIP}]
        BY <2>10 DEF AddIP, TypeOK, Request
      <3> QED
        BY <2>0, <2>10, <3>1 DEF TypeInv, TypeOK, StoringNumbered, AddIP, Registered, Request,
                                   tapVars, WorkerPC, SetUp
    <2>11. CASE RecordVM
      <3>1. NewVM \in [tap : Tap, running : BOOLEAN]
        BY DEF NewVM, NewTap, Tap, TypeOK
      <3>2. vms' \in Seq([tap : Tap, running : BOOLEAN])
        BY <2>11, <3>1 DEF RecordVM, TypeOK
      <3> QED
        BY <2>0, <2>11, <3>2 DEF TypeInv, TypeOK, StoringNumbered, RecordVM, tapVars, WorkerPC,
                                   history
    <2>12. CASE ReleaseFrame
      <3>1. rq.caller \in Tap /\ rq.id \in Nat /\ rq.ip \in IPs
        BY DEF TypeOK, Request
      <3>2. out' \in [Tap -> Seq(Nat)] /\ onBridge' \in SUBSET IPs
        <4>1. out[rq.caller] \in Seq(Nat)
          BY <3>1 DEF TypeOK
        <4>2. Append(out[rq.caller], rq.id) \in Seq(Nat)
          BY <3>1, <4>1
        <4> QED
          BY <2>12, <3>1, <4>2 DEF ReleaseFrame, TypeOK
      <3>3. wpc' \in WorkerPC
        BY <2>12 DEF ReleaseFrame, WorkerPC
      <3>4. early' \in [Tap -> SUBSET Nat]
        <4> DEFINE now == {rq.id} \cap Storing(rq.caller)
        <4>1. now \in SUBSET Nat
          BY <3>1
        <4>2. early' = early \/ early' = [early EXCEPT ![rq.caller] = @ \cup now]
          BY <2>12 DEF ReleaseFrame
        <4> HIDE DEF now
        <4>3. early \in [Tap -> SUBSET Nat] /\ early[rq.caller] \cup now \in SUBSET Nat
          BY <3>1, <4>1 DEF TypeOK
        <4> QED
          BY <3>1, <4>2, <4>3
      <3> QED
        BY <2>0, <2>12, <3>2, <3>3, <3>4 DEF TypeInv, TypeOK, StoringNumbered, ReleaseFrame, tapVars
    <2>13. CASE EraseBegin
      BY <2>0, <2>13 DEF TypeInv, TypeOK, StoringNumbered, EraseBegin, Request, tapVars,
                        WorkerPC, SetUp, history
    <2>14. CASE EraseEnd
      BY <2>0, <2>14 DEF TypeInv, TypeOK, StoringNumbered, EraseEnd, Erase, Request,
                        WorkerPC, SetUp, history
    <2>15. CASE Crash
      BY <2>0, <2>15 DEF TypeInv, TypeOK, StoringNumbered, Crash, tapVars, coreVars, history
    <2> QED
      BY <1>2, <2>1, <2>2, <2>3, <2>4, <2>5, <2>6, <2>7, <2>8, <2>9, <2>10, <2>11, <2>12,
         <2>13, <2>14, <2>15 DEF Next, Step, TapStep, WorkerStep
  <1> QED
    BY <1>1, <1>2

\* Every state of the program has its type, whatever the threads interleave.
THEOREM TypeCorrect == Spec => []TypeOK
  <1>1. TypeInv => TypeOK
    BY DEF TypeInv
  <1> QED
    BY InitTypeInv, NextTypeInv, <1>1, PTL DEF Spec
-----------------------------------------------------------------------------
(* What appending a request to the queue, and taking the first one, does   *)
(* to the addresses and to the ids the queue holds.                        *)

LEMMA IPsInAppend ==
  ASSUME NEW q \in Seq(Request), NEW r \in Request
  PROVE  IPsIn(Append(q, r)) = IPsIn(q) \cup {r.ip}
  <1>1. DOMAIN Append(q, r) = 1 .. (Len(q) + 1) /\ DOMAIN q = 1 .. Len(q) /\ Len(q) \in Nat
    OBVIOUS
  <1>2. \A i \in 1 .. (Len(q) + 1) : Append(q, r)[i] = IF i \in 1 .. Len(q) THEN q[i] ELSE r
    OBVIOUS
  <1> QED
    BY <1>1, <1>2 DEF IPsIn

LEMMA IPsInTail ==
  ASSUME NEW q \in Seq(Request), q # << >>
  PROVE  IPsIn(q) = IPsIn(Tail(q)) \cup {Head(q).ip}
  <1>1. /\ DOMAIN Tail(q) = 1 .. (Len(q) - 1) /\ DOMAIN q = 1 .. Len(q)
        /\ Len(q) \in Nat \ {0} /\ Head(q) = q[1]
    OBVIOUS
  <1>2. \A i \in 1 .. (Len(q) - 1) : Tail(q)[i] = q[i + 1]
    OBVIOUS
  <1>3. ASSUME NEW i \in 1 .. Len(q) PROVE q[i].ip \in IPsIn(Tail(q)) \cup {Head(q).ip}
    <2>1. CASE i = 1
      BY <1>1, <2>1
    <2>2. CASE i # 1
      <3>1. i - 1 \in 1 .. (Len(q) - 1) /\ Tail(q)[i - 1] = q[i]
        BY <1>1, <1>2, <2>2
      <3> QED
        BY <1>1, <3>1 DEF IPsIn
    <2> QED
      BY <2>1, <2>2
  <1>4. ASSUME NEW i \in 1 .. (Len(q) - 1) PROVE Tail(q)[i].ip \in IPsIn(q)
    BY <1>1, <1>2 DEF IPsIn
  <1> QED
    BY <1>1, <1>3, <1>4 DEF IPsIn

-----------------------------------------------------------------------------
(* The pipeline implements the gate.                                       *)

\* The worker sets machines up for real addresses only, and when it calls the
\* device back the address is available.
ServedBeforeAnswer ==
    /\ wpc \in SetUp => rq.ip # ZeroIP
    /\ wpc \in {"inserting", "callback"} => rq.ip \in available \cup {ZeroIP}

LEMMA InitServed == Init => ServedBeforeAnswer
  BY DEF Init, ServedBeforeAnswer, SetUp

LEMMA NextServed == TypeOK /\ ServedBeforeAnswer /\ [Next]_vars => ServedBeforeAnswer'
  <1> SUFFICES ASSUME TypeOK, ServedBeforeAnswer, [Next]_vars PROVE ServedBeforeAnswer'
    OBVIOUS
  <1> USE DEF ServedBeforeAnswer, SetUp
  <1>1. CASE UNCHANGED <<wpc, rq, available>>
    BY <1>1
  <1>2. ASSUME WorkerStep PROVE ServedBeforeAnswer'
    BY <1>2 DEF WorkerStep, PopRequest, TakeRequest, StartTap, DefineVM, BootVM, AddIP,
                Registered, RecordVM, ReleaseFrame, EraseBegin, EraseEnd, TypeOK
  <1>3. ASSUME [Next]_vars, ~WorkerStep PROVE UNCHANGED <<wpc, rq, available>>
    BY <1>3 DEF Next, Step, TapStep, ReadArp, AddRequest, PushBegin, PushEnd, PowerOff, Crash,
                vars, tapVars, coreVars
  <1> QED
    BY <1>1, <1>2, <1>3

LEMMA WorkerImplementsGate ==
  ASSUME TypeOK, ServedBeforeAnswer, WorkerStep
  PROVE  [Gate!GateNext]_(Gate!gateVars)
  <1> USE DEF Gate!gateVars, history
  <1> rq.ip \in IPs
    BY DEF TypeOK, Request
  <1>1. CASE PopRequest
    <2>1. queue \in Seq(Request) /\ queue # << >>
      BY <1>1 DEF TypeOK, PopRequest
    <2>2. IPsIn(queue) = IPsIn(queue') \cup {rq'.ip}
      BY <1>1, <2>1, IPsInTail DEF PopRequest, TakeRequest
    <2>3. WaitingIPs' = WaitingIPs
      BY <1>1, <2>2 DEF PopRequest, WaitingIPs, InService, SetUp
    <2> QED
      BY <1>1, <2>3 DEF PopRequest
  <1>2. CASE StartTap
    BY <1>2 DEF StartTap, WaitingIPs, InService, SetUp
  <1>3. CASE DefineVM
    BY <1>3 DEF DefineVM, WaitingIPs, InService, SetUp, tapVars
  <1>4. CASE BootVM \/ RecordVM
    BY <1>4 DEF BootVM, RecordVM, WaitingIPs, InService, SetUp, tapVars
  <1>5. CASE AddIP
    <2>1. rq.ip \in WaitingIPs \ {ZeroIP}
      BY <1>5 DEF AddIP, WaitingIPs, InService, SetUp, ServedBeforeAnswer
    <2>2. WaitingIPs' = WaitingIPs
      BY <1>5 DEF AddIP, WaitingIPs, InService, SetUp
    <2>3. Gate!Serve(rq.ip)
      BY <1>5, <2>1, <2>2 DEF Gate!Serve, AddIP, Registered
    <2> QED
      BY <2>3 DEF Gate!GateNext
  <1>6. CASE ReleaseFrame
    <2>1. rq.ip \in WaitingIPs /\ rq.ip \in available \cup {ZeroIP}
      BY <1>6 DEF ReleaseFrame, WaitingIPs, InService, SetUp, ServedBeforeAnswer
    <2>2. WaitingIPs = IPsIn(queue) \cup {rq.ip} /\ WaitingIPs' = IPsIn(queue)
      BY <1>6 DEF ReleaseFrame, WaitingIPs, InService, SetUp
    <2>3. onBridge' \in {onBridge, onBridge \cup {rq.ip}} /\ available' = available
      BY <1>6 DEF ReleaseFrame
    <2>4. WaitingIPs' \in {WaitingIPs, WaitingIPs \ {rq.ip}}
      BY <2>2
    <2>5. Gate!Answer(rq.ip)
      BY <2>1, <2>3, <2>4 DEF Gate!Answer
    <2> QED
      BY <2>5 DEF Gate!GateNext
  <1>7. CASE EraseBegin \/ EraseEnd
    BY <1>7 DEF EraseBegin, EraseEnd, WaitingIPs, InService, SetUp, tapVars
  <1> QED
    BY <1>1, <1>2, <1>3, <1>4, <1>5, <1>6, <1>7 DEF WorkerStep

LEMMA TapImplementsGate ==
  ASSUME TypeOK, NEW t \in Tap,
         TapStep(t) \/ \E ip \in IPs : ReadArp(t, ip)
  PROVE  [Gate!GateNext]_(Gate!gateVars)
  <1> USE DEF Gate!gateVars, history
  <1>1. ASSUME NEW ip \in IPs, ReadArp(t, ip) PROVE [Gate!GateNext]_(Gate!gateVars)
    <2>1. WaitingIPs' = WaitingIPs /\ available' = available
      BY <1>1 DEF ReadArp, WaitingIPs, InService, coreVars
    <2>2. \/ UNCHANGED onBridge
          \/ TRUE \in CheckIP(ip) /\ onBridge' = onBridge \cup {ip}
      BY <1>1 DEF ReadArp, CheckIP
    <2>3. CASE UNCHANGED onBridge
      BY <2>1, <2>3
    <2>4. CASE TRUE \in CheckIP(ip) /\ onBridge' = onBridge \cup {ip}
      <3>1. ip \in available
        BY <2>4 DEF CheckIP
      <3>2. Gate!Pass(ip)
        BY <2>1, <2>4, <3>1 DEF Gate!Pass
      <3> QED
        BY <3>2 DEF Gate!GateNext
    <2> QED
      BY <2>2, <2>3, <2>4
  <1>2. CASE AddRequest(t)
    <2>1. [caller |-> t, id |-> nextId[t], ip |-> tip[t]] \in Request /\ tip[t] \in IPs
      BY DEF TypeOK, Request
    <2>2. IPsIn(queue') = IPsIn(queue) \cup {tip[t]}
      BY <1>2, <2>1, IPsInAppend DEF AddRequest, TypeOK
    <2>3. WaitingIPs' = WaitingIPs \cup {tip[t]}
      BY <1>2, <2>2 DEF AddRequest, WaitingIPs, InService, coreVars
    <2>4. Gate!Hold(tip[t])
      BY <1>2, <2>3 DEF Gate!Hold, AddRequest, coreVars
    <2> QED
      BY <2>1, <2>4 DEF Gate!GateNext
  <1>3. CASE PushBegin(t) \/ PushEnd(t)
    BY <1>3 DEF PushBegin, PushEnd, WaitingIPs, InService, coreVars
  <1> QED
    BY <1>1, <1>2, <1>3 DEF TapStep

LEMMA StepImplementsGate ==
  TypeOK /\ ServedBeforeAnswer /\ [Next]_vars => [Gate!GateNext]_(Gate!gateVars)
  <1> SUFFICES ASSUME TypeOK, ServedBeforeAnswer, [Next]_vars
               PROVE  [Gate!GateNext]_(Gate!gateVars)
    OBVIOUS
  <1>1. CASE UNCHANGED vars \/ Crash \/ \E t \in Tap : PowerOff(t)
    BY <1>1 DEF Gate!gateVars, vars, Crash, PowerOff, coreVars, history, WaitingIPs, InService
  <1>2. CASE \E t \in Tap : TapStep(t) \/ \E ip \in IPs : ReadArp(t, ip)
    BY <1>2, TapImplementsGate
  <1>3. CASE WorkerStep
    BY <1>3, WorkerImplementsGate
  <1> QED
    BY <1>1, <1>2, <1>3 DEF Next, Step

LEMMA InitImplementsGate == Init => Gate!GateInit
  BY DEF Init, Gate!GateInit, WaitingIPs, IPsIn, InService, SetUp

\* The threads, the queue and the callback, with all their races, do what the
\* abstract gate does: a question passes if its address is served, is held
\* otherwise, and a held one is answered only when its address is served.
THEOREM ImplementsGate == Spec => GateSpec
  <1>1. TypeInv => TypeOK
    BY DEF TypeInv
  <1> QED
    BY <1>1, InitTypeInv, NextTypeInv, InitServed, NextServed, InitImplementsGate,
       StepImplementsGate, PTL DEF Spec, GateSpec, Gate!GateSpec

\* No ARP question about an address nobody serves reaches the bridge: ReadArp
\* looks available_ip_adresses_ up, and initializeNewVM calls addIP before the
\* worker calls the device back.
THEOREM OnlyServedOnBridge == Spec => []BridgeAsksOnlyServed
  <1>1. Init => BridgeAsksOnlyServed
    BY DEF Init, BridgeAsksOnlyServed
  <1>2. BridgeAsksOnlyServed /\ [Gate!GateNext]_(Gate!gateVars) => BridgeAsksOnlyServed'
    BY DEF BridgeAsksOnlyServed, Gate!GateNext, Gate!gateVars, Gate!Hold, Gate!Pass, Gate!Serve,
           Gate!Answer
  <1>3. TypeInv => TypeOK
    BY DEF TypeInv
  <1> QED
    BY <1>1, <1>2, <1>3, InitTypeInv, NextTypeInv, InitServed, NextServed, StepImplementsGate,
       PTL DEF Spec

-----------------------------------------------------------------------------
(* When the set-ups for an address end.                                    *)

LEMMA TapSettled ==
  ASSUME TypeOK, NEW t \in Tap, TapStep(t) \/ \E i \in IPs : ReadArp(t, i)
  PROVE  SettledStep
  <1> SUFFICES ASSUME NEW ip \in IPs, Settled(ip), wpc # "inserting" PROVE Settled(ip)'
    BY DEF SettledStep
  <1>1. ASSUME NEW i \in IPs, ReadArp(t, i) PROVE Settled(ip)'
    <2>1. UNCHANGED <<queue, wpc, rq, available>>
      BY <1>1 DEF ReadArp, coreVars
    <2>2. \/ UNCHANGED <<tpc, tip>>
          \/ /\ i \notin available
             /\ tpc' = [tpc EXCEPT ![t] = "request"] /\ tip' = [tip EXCEPT ![t] = i]
      BY <1>1 DEF ReadArp, CheckIP
    <2> QED
      BY <2>1, <2>2 DEF Settled, WaitingIPs, IPsIn, InService, TypeOK
  <1>2. CASE AddRequest(t)
    <2>1. [caller |-> t, id |-> nextId[t], ip |-> tip[t]] \in Request
      BY DEF TypeOK, Request
    <2>2. IPsIn(queue') = IPsIn(queue) \cup {tip[t]}
      BY <1>2, <2>1, IPsInAppend DEF AddRequest, TypeOK
    <2>3. tpc[t] = "request" /\ tpc' = [tpc EXCEPT ![t] = "push"]
          /\ UNCHANGED <<tip, wpc, rq, available>>
      BY <1>2 DEF AddRequest, coreVars
    <2> QED
      BY <2>2, <2>3 DEF Settled, WaitingIPs, InService, TypeOK
  <1>3. CASE PushBegin(t) \/ PushEnd(t)
    BY <1>3 DEF PushBegin, PushEnd, coreVars, Settled, WaitingIPs, IPsIn, InService, TypeOK
  <1> QED
    BY <1>1, <1>2, <1>3 DEF TapStep

LEMMA WorkerSettled ==
  ASSUME TypeOK, WorkerStep PROVE SettledStep
  <1> SUFFICES ASSUME NEW ip \in IPs, Settled(ip), wpc # "inserting" PROVE Settled(ip)'
    BY DEF SettledStep
  <1>1. CASE PopRequest
    <2>1. rq' = Head(queue) /\ queue' = Tail(queue) /\ queue # << >> /\ queue \in Seq(Request)
          /\ UNCHANGED <<tpc, tip, available>>
      BY <1>1 DEF PopRequest, TakeRequest, tapVars, TypeOK
    <2>2. rq'.ip \in IPsIn(queue) /\ IPsIn(queue') \subseteq IPsIn(queue)
      BY <2>1, IPsInTail
    <2> QED
      BY <2>1, <2>2 DEF Settled, WaitingIPs, InService
  <1>2. CASE StartTap
    <2>1. /\ wpc = "tap" /\ wpc' \in {"tap", "define"} /\ UNCHANGED <<tip, queue, rq, available>>
          /\ tpc' \in {tpc, [tpc EXCEPT ![tapCount] = "select"]}
      BY <1>2 DEF StartTap
    <2> QED
      BY <2>1 DEF Settled, WaitingIPs, IPsIn, InService, SetUp, TypeOK
  <1>3. CASE DefineVM \/ BootVM \/ AddIP
    <2>1. /\ wpc \in SetUp /\ wpc' \in SetUp \cup {"inserting"}
          /\ UNCHANGED <<tpc, tip, queue, rq>>
          /\ available \subseteq available'
      BY <1>3 DEF DefineVM, BootVM, AddIP, SetUp, tapVars, Registered
    <2> QED
      BY <2>1 DEF Settled, WaitingIPs, IPsIn, InService
  <1>4. CASE ReleaseFrame \/ EraseBegin \/ EraseEnd
    BY <1>4 DEF ReleaseFrame, EraseBegin, EraseEnd, tapVars, Settled, WaitingIPs, IPsIn, InService,
                SetUp
  <1>5. CASE RecordVM
    BY <1>5 DEF RecordVM
  <1> QED
    BY <1>1, <1>2, <1>3, <1>4, <1>5 DEF WorkerStep

LEMMA NextSettled == TypeOK /\ [Next]_vars => [SettledStep]_vars
  <1> SUFFICES ASSUME TypeOK, [Next]_vars PROVE [SettledStep]_vars
    OBVIOUS
  <1>1. CASE UNCHANGED vars
    BY <1>1
  <1>2. CASE Crash \/ \E t \in Tap : PowerOff(t)
    BY <1>2 DEF Crash, PowerOff, tapVars, coreVars, SettledStep, Settled, WaitingIPs, IPsIn, InService
  <1>3. CASE \E t \in Tap : TapStep(t) \/ \E ip \in IPs : ReadArp(t, ip)
    BY <1>3, TapSettled
  <1>4. CASE WorkerStep
    BY <1>4, WorkerSettled
  <1> QED
    BY <1>1, <1>2, <1>3, <1>4 DEF Next, Step

\* handleARP asks checkIP when a question is read and initializeNewVM does not ask again:
\* a machine is set up in vain only for a question that was read before the address was
\* there, or while an address was being inserted.
THEOREM SetUpsEnd == Spec => SettledStays
  <1>1. TypeInv => TypeOK
    BY DEF TypeInv
  <1> QED
    BY <1>1, InitTypeInv, NextTypeInv, NextSettled, PTL DEF Spec, SettledStays

-----------------------------------------------------------------------------
(* The order of requests and releases.  Each part relates two of the four  *)
(* places a number can be in: the counter, the queue, the worker's hand    *)
(* and the list of released frames.                                        *)

QueueSorted ==
    \A i, j \in DOMAIN queue :
        i < j /\ queue[i].caller = queue[j].caller => queue[i].id < queue[j].id

QueueNumbered == \A i \in DOMAIN queue : queue[i].id < nextId[queue[i].caller]

HandBeforeQueue ==
    wpc # "pop" => /\ rq.id < nextId[rq.caller]
                   /\ \A i \in DOMAIN queue : queue[i].caller = rq.caller => rq.id < queue[i].id

OutSorted == \A t \in Tap : \A i, j \in DOMAIN out[t] : i < j => out[t][i] < out[t][j]

OutNumbered == \A t \in Tap : \A i \in DOMAIN out[t] : out[t][i] < nextId[t]

OutBeforeQueue ==
    \A t \in Tap : \A i \in DOMAIN out[t], j \in DOMAIN queue :
        queue[j].caller = t => out[t][i] < queue[j].id

OutBeforeHand ==
    InService => \A i \in DOMAIN out[rq.caller] : out[rq.caller][i] < rq.id

OrderInv ==
    /\ QueueSorted /\ QueueNumbered /\ HandBeforeQueue
    /\ OutSorted /\ OutNumbered /\ OutBeforeQueue /\ OutBeforeHand

LEMMA InitOrder == Init => OrderInv
  BY DEF Init, OrderInv, QueueSorted, QueueNumbered, HandBeforeQueue, OutSorted, OutNumbered,
         OutBeforeQueue, OutBeforeHand, InService, SetUp

\* createRequest gives a number larger than all those in use.
LEMMA AddRequestOrder ==
  ASSUME TypeOK, OrderInv, NEW t \in Tap, AddRequest(t)
  PROVE  OrderInv'
  <1> DEFINE r == [caller |-> t, id |-> nextId[t], ip |-> tip[t]]
  <1>1. /\ queue \in Seq(Request) /\ r \in Request /\ queue' = Append(queue, r)
        /\ nextId \in [Tap -> Nat] /\ nextId' = [nextId EXCEPT ![t] = @ + 1]
        /\ UNCHANGED <<wpc, rq, out>>
    BY DEF TypeOK, Request, AddRequest, NumberRequest, coreVars, history
  <1>2. /\ DOMAIN queue = 1 .. Len(queue) /\ DOMAIN queue' = 1 .. (Len(queue) + 1)
        /\ Len(queue) \in Nat
        /\ \A i \in 1 .. Len(queue) : queue'[i] = queue[i] /\ queue[i] \in Request
        /\ queue'[Len(queue) + 1] = r
    <2> HIDE DEF r
    <2> QED BY <1>1
  <1>3. /\ rq \in Request /\ \A u \in Tap : out[u] \in Seq(Nat)
        /\ \A u \in Tap : \A i \in DOMAIN out[u] : out[u][i] \in Nat
        /\ r.caller = t /\ r.id = nextId[t]
    BY DEF TypeOK
  <1> HIDE DEF r
  <1>4. /\ nextId'[t] = nextId[t] + 1 /\ nextId[t] \in Nat
        /\ \A u \in Tap : u # t => nextId'[u] = nextId[u]
        /\ \A u \in Tap : nextId[u] \in Nat /\ nextId[u] <= nextId'[u]
    BY <1>1
  <1>5. QueueSorted'
    BY <1>2, <1>3 DEF QueueSorted, OrderInv, QueueNumbered, Request
  <1>6. QueueNumbered'
    BY <1>2, <1>3, <1>4 DEF OrderInv, QueueNumbered, Request
  <1>7. HandBeforeQueue'
    BY <1>1, <1>2, <1>3, <1>4 DEF OrderInv, HandBeforeQueue, Request
  <1>8. OutSorted' /\ OutBeforeHand'
    BY <1>1 DEF OrderInv, OutSorted, OutBeforeHand, InService
  <1>9. OutNumbered'
    BY <1>1, <1>3, <1>4 DEF OrderInv, OutNumbered
  <1>10. OutBeforeQueue'
    BY <1>1, <1>2, <1>3 DEF OrderInv, OutBeforeQueue, OutNumbered
  <1> QED
    BY <1>5, <1>6, <1>7, <1>8, <1>9, <1>10 DEF OrderInv

\* The worker takes the oldest request.
LEMMA PopRequestOrder ==
  ASSUME TypeOK, OrderInv, PopRequest
  PROVE  OrderInv'
  <1>1. /\ queue \in Seq(Request) /\ queue # << >>
        /\ rq' = Head(queue) /\ queue' = Tail(queue)
        /\ UNCHANGED <<nextId, out>>
    BY DEF TypeOK, PopRequest, TakeRequest, tapVars, history
  <1>2. /\ DOMAIN queue = 1 .. Len(queue) /\ DOMAIN queue' = 1 .. (Len(queue) - 1)
        /\ Len(queue) \in Nat \ {0} /\ rq' = queue[1]
        /\ \A i \in 1 .. (Len(queue) - 1) : queue'[i] = queue[i + 1]
        /\ \A i \in 1 .. Len(queue) : queue[i] \in Request
    BY <1>1
  <1>3. QueueSorted'
    BY <1>2 DEF OrderInv, QueueSorted
  <1>4. QueueNumbered'
    BY <1>1, <1>2 DEF OrderInv, QueueNumbered
  <1>5. HandBeforeQueue'
    <2>1. rq'.id < nextId'[rq'.caller]
      BY <1>1, <1>2 DEF OrderInv, QueueNumbered
    <2>2. ASSUME NEW i \in DOMAIN queue', queue'[i].caller = rq'.caller
          PROVE  rq'.id < queue'[i].id
      BY <1>2, <2>2 DEF OrderInv, QueueSorted
    <2> QED
      BY <2>1, <2>2 DEF HandBeforeQueue
  <1>6. OutSorted' /\ OutNumbered'
    BY <1>1 DEF OrderInv, OutSorted, OutNumbered
  <1>7. OutBeforeQueue'
    BY <1>1, <1>2 DEF OrderInv, OutBeforeQueue
  <1>8. OutBeforeHand'
    <2>1. queue[1].caller \in Tap /\ rq'.caller = queue[1].caller /\ 1 \in DOMAIN queue
      BY <1>2 DEF Request
    <2>2. \A i \in DOMAIN out[queue[1].caller] : out[queue[1].caller][i] < queue[1].id
      BY <2>1 DEF OrderInv, OutBeforeQueue
    <2> QED
      BY <1>1, <1>2, <2>1, <2>2 DEF OutBeforeHand
  <1> QED
    BY <1>3, <1>4, <1>5, <1>6, <1>7, <1>8 DEF OrderInv

\* callback releases the frame of the request in hand, which is younger than
\* all released before and older than all in the queue.
LEMMA ReleaseFrameOrder ==
  ASSUME TypeOK, OrderInv, ReleaseFrame
  PROVE  OrderInv'
  <1>1. /\ UNCHANGED <<nextId, queue, rq>> /\ wpc = "callback" /\ wpc' \in {"erase", "pop"}
        /\ rq \in Request /\ rq.caller \in Tap /\ rq.id \in Nat
        /\ \A t \in Tap : out[t] \in Seq(Nat)
        /\ DOMAIN out = Tap
    BY DEF TypeOK, ReleaseFrame, tapVars, Request
  <1>2. QueueSorted' /\ QueueNumbered' /\ HandBeforeQueue'
    BY <1>1 DEF OrderInv, QueueSorted, QueueNumbered, HandBeforeQueue
  <1>3. OutBeforeHand'
    BY <1>1 DEF OutBeforeHand, InService, SetUp
  <1>4. CASE UNCHANGED out
    BY <1>1, <1>2, <1>3, <1>4 DEF OrderInv, OutSorted, OutNumbered, OutBeforeQueue
  <1>5. CASE out' = [out EXCEPT ![rq.caller] = Append(@, rq.id)]
    <2> DEFINE c == rq.caller
    <2>1. /\ \A t \in Tap \ {c} : out'[t] = out[t]
          /\ out'[c] = Append(out[c], rq.id) /\ c \in Tap
      BY <1>1, <1>5
    <2>2. /\ DOMAIN out[c] = 1 .. Len(out[c]) /\ DOMAIN out'[c] = 1 .. (Len(out[c]) + 1)
          /\ Len(out[c]) \in Nat
          /\ \A i \in 1 .. Len(out[c]) : out'[c][i] = out[c][i] /\ out[c][i] \in Nat
          /\ out'[c][Len(out[c]) + 1] = rq.id
      <3>1. out[c] \in Seq(Nat) /\ rq.id \in Nat
        BY <1>1
      <3> QED
        BY <2>1, <3>1
    <2>3. \A i \in DOMAIN out[c] : out[c][i] < rq.id
      BY <1>1 DEF OrderInv, OutBeforeHand, InService
    <2>4. /\ rq.id < nextId[c]
          /\ \A i \in DOMAIN queue : queue[i].caller = c => rq.id < queue[i].id
      BY <1>1 DEF OrderInv, HandBeforeQueue
    <2> HIDE DEF c
    <2>5. OutSorted'
      <3>1. ASSUME NEW t \in Tap, NEW i \in DOMAIN out'[t], NEW j \in DOMAIN out'[t], i < j
            PROVE  out'[t][i] < out'[t][j]
        <4>1. CASE t = c
          <5>1. CASE j \in 1 .. Len(out[c])
            <6>1. i \in 1 .. Len(out[c]) /\ out[c][i] < out[c][j]
              BY <2>1, <2>2, <3>1, <4>1, <5>1 DEF OrderInv, OutSorted
            <6> QED
              BY <2>2, <4>1, <5>1, <6>1
          <5>2. CASE j = Len(out[c]) + 1
            <6>1. i \in 1 .. Len(out[c])
              BY <2>2, <3>1, <4>1, <5>2
            <6> QED
              BY <2>2, <2>3, <4>1, <5>2, <6>1
          <5> QED
            BY <2>2, <3>1, <4>1, <5>1, <5>2
        <4>2. CASE t # c
          BY <2>1, <3>1, <4>2 DEF OrderInv, OutSorted
        <4> QED
          BY <4>1, <4>2
      <3> QED
        BY <3>1 DEF OutSorted
    <2>6. OutNumbered'
      <3>1. ASSUME NEW t \in Tap, NEW i \in DOMAIN out'[t] PROVE out'[t][i] < nextId[t]
        <4>1. CASE t = c
          BY <2>2, <2>4, <2>1, <3>1, <4>1 DEF OrderInv, OutNumbered
        <4>2. CASE t # c
          BY <2>1, <3>1, <4>2 DEF OrderInv, OutNumbered
        <4> QED
          BY <4>1, <4>2
      <3> QED
        BY <1>1, <3>1 DEF OutNumbered
    <2>7. OutBeforeQueue'
      <3>1. ASSUME NEW t \in Tap, NEW i \in DOMAIN out'[t], NEW j \in DOMAIN queue,
                   queue[j].caller = t
            PROVE  out'[t][i] < queue[j].id
        <4>1. CASE t = c
          BY <2>2, <2>4, <2>1, <3>1, <4>1 DEF OrderInv, OutBeforeQueue
        <4>2. CASE t # c
          BY <2>1, <3>1, <4>2 DEF OrderInv, OutBeforeQueue
        <4> QED
          BY <4>1, <4>2
      <3> QED
        BY <1>1, <3>1 DEF OutBeforeQueue
    <2> QED
      BY <1>2, <1>3, <2>5, <2>6, <2>7 DEF OrderInv
  <1> QED
    BY <1>4, <1>5 DEF ReleaseFrame

LEMMA NextOrder == TypeOK /\ OrderInv /\ [Next]_vars => OrderInv'
  <1> SUFFICES ASSUME TypeOK, OrderInv, [Next]_vars PROVE OrderInv'
    OBVIOUS
  <1>1. CASE \E t \in Tap : AddRequest(t)
    BY <1>1, AddRequestOrder
  <1>2. CASE PopRequest
    BY <1>2, PopRequestOrder
  <1>3. CASE ReleaseFrame
    BY <1>3, ReleaseFrameOrder
  <1>4. CASE /\ UNCHANGED <<queue, nextId, rq, out>>
             /\ wpc' = "pop" \/ (wpc # "pop" /\ InService' = InService) \/ wpc' = wpc
             /\ wpc' # "pop" => wpc # "pop"
    <2>1. InService' => InService
      BY <1>4 DEF InService, SetUp
    <2> QED
      BY <1>4, <2>1 DEF OrderInv, QueueSorted, QueueNumbered, HandBeforeQueue, OutSorted,
                        OutNumbered, OutBeforeQueue, OutBeforeHand
  <1>5. CASE UNCHANGED vars \/ Crash \/ \E t \in Tap : PowerOff(t)
    BY <1>4, <1>5 DEF vars, Crash, PowerOff, tapVars, coreVars, history
  <1>6. CASE \E t \in Tap : PushBegin(t) \/ PushEnd(t) \/ \E ip \in IPs : ReadArp(t, ip)
    BY <1>4, <1>6 DEF PushBegin, PushEnd, ReadArp, coreVars, history
  <1>7. CASE StartTap \/ DefineVM \/ BootVM \/ AddIP \/ RecordVM
    BY <1>4, <1>7 DEF StartTap, DefineVM, BootVM, AddIP, RecordVM, tapVars, InService,
                      SetUp, history
  <1>8. CASE EraseBegin \/ EraseEnd
    BY <1>4, <1>8 DEF EraseBegin, EraseEnd, tapVars, InService, SetUp, history
  <1> QED
    BY <1>1, <1>2, <1>3, <1>5, <1>6, <1>7, <1>8 DEF Next, Step, TapStep, WorkerStep

LEMMA OrderMeansFifo == TypeOK /\ OrderInv => FifoPerTap /\ ReleasedInOrder
  BY DEF OrderInv, QueueSorted, QueueNumbered, HandBeforeQueue, OutSorted, OutNumbered,
         OutBeforeQueue, OutBeforeHand, FifoPerTap, ReleasedInOrder, Outstanding, IdsIn,
         InService, SetUp

\* The requests of one device reach the worker in the order createRequest
\* numbered them, and no number is given twice.
THEOREM RequestsInOrder == Spec => []FifoPerTap
  <1>1. TypeInv => TypeOK
    BY DEF TypeInv
  <1> QED
    BY <1>1, InitTypeInv, NextTypeInv, InitOrder, NextOrder, OrderMeansFifo, PTL DEF Spec

\* callback writes held frames out in the order the guest sent them, none twice,
\* even where createRequest and callback destroy open_reuquests_ between them.
THEOREM FramesInOrder == Spec => []ReleasedInOrder
  <1>1. TypeInv => TypeOK
    BY DEF TypeInv
  <1> QED
    BY <1>1, InitTypeInv, NextTypeInv, InitOrder, NextOrder, OrderMeansFifo, PTL DEF Spec

-----------------------------------------------------------------------------
(* The machine initializeNewVM is setting up.                              *)

\* The worker is between createNewTapDevice and virtual_machines_.push_back.
InHand == wpc \in {"define", "boot", "insert", "inserting"}

\* It works on the last device, which belongs to no machine of the start-up or of
\* an earlier request.
FreshMachine ==
    /\ \A t \in Tap : t >= tapCount => domain[t] = "none"
    /\ InHand => \A i \in DOMAIN vms : vms[i].tap < NewTap

MachineInv == FreshMachine /\ MachinesRecorded

\* The parts of the state the invariant is about.
machineVars == <<tapCount, domain, wpc, available, madeFor, vms>>

LEMMA InitMachine == Init => MachineInv
  <1> SUFFICES ASSUME Init PROVE MachineInv
    OBVIOUS
  <1> USE PipelineAssumption DEF Init
  <1>1. FreshMachine
    BY DEF FreshMachine, InHand, Tap
  <1>2. MachinesRecorded
    <2>1. \A t \in Tap : t < InitTaps => domain[t] # "off"
      OBVIOUS
    <2>2. \A i \in DOMAIN vms : i - 1 \in Tap /\ i - 1 < InitTaps
      BY DEF Tap
    <2> QED
      BY <2>1, <2>2 DEF MachinesRecorded, Started
  <1> QED
    BY <1>1, <1>2 DEF MachineInv

\* What is recorded stays true as long as only the machine in hand changes.
LEMMA RecordedKept ==
  ASSUME MachinesRecorded, UNCHANGED <<vms, available, madeFor>>, wpc # "inserting",
         tapCount \in Nat, tapCount' \in {tapCount, tapCount + 1},
         \A i \in DOMAIN vms : /\ vms[i].tap \in Tap /\ vms[i].tap \in Nat
                               /\ domain'[vms[i].tap] = domain[vms[i].tap]
  PROVE  MachinesRecorded'
  BY DEF MachinesRecorded

\* The steps of initializeNewVM, one by one.
LEMMA SetUpMachine ==
  ASSUME TypeOK, MachineInv,
         StartTap \/ DefineVM \/ BootVM \/ AddIP \/ RecordVM
  PROVE  MachineInv'
  <1> USE PipelineAssumption DEF history
  <1>0. /\ tapCount \in InitTaps .. (InitTaps + MaxFrames)
        /\ InitTaps \in Nat \ {0} /\ MaxFrames \in Nat
        /\ domain \in [Tap -> Domain] /\ madeFor \in [Tap -> IPs \cup {NoIP}]
        /\ NewTap \in Tap /\ NewTap < tapCount /\ NewTap \in Nat /\ Tap \subseteq Nat
        /\ vms \in Seq([tap : Tap, running : BOOLEAN])
        /\ \A i \in DOMAIN vms : vms[i].tap \in Tap
    <2>1. /\ tapCount \in InitTaps .. (InitTaps + MaxFrames)
          /\ vms \in Seq([tap : Tap, running : BOOLEAN])
          /\ domain \in [Tap -> Domain] /\ madeFor \in [Tap -> IPs \cup {NoIP}]
      BY DEF TypeOK
    <2>2. \A i \in DOMAIN vms : vms[i].tap \in Tap
      <3> DEFINE R == [tap : Tap, running : BOOLEAN]
      <3>1. vms \in Seq(R)
        BY <2>1
      <3>2. \A r \in R : r.tap \in Tap
        OBVIOUS
      <3> HIDE DEF R
      <3>3. \A i \in DOMAIN vms : vms[i] \in R
        BY <3>1
      <3> QED
        BY <3>2, <3>3
    <2>3. NewTap \in Tap /\ NewTap < tapCount /\ NewTap \in Nat /\ Tap \subseteq Nat
      BY <2>1 DEF NewTap, Tap
    <2> QED
      BY <2>1, <2>2, <2>3
  <1>1. CASE StartTap
    <2>1. /\ tapCount' = tapCount + 1 /\ NewTap' = tapCount /\ tapCount \in Tap
          /\ wpc = "tap" /\ wpc' \in {"tap", "define"}
          /\ UNCHANGED <<domain, available, madeFor, vms>>
      <3>1. tapCount' = tapCount + 1 /\ tapCount \in Tap /\ wpc = "tap"
        BY <1>1 DEF StartTap, CreateTap
      <3>2. wpc' \in {"tap", "define"} /\ UNCHANGED <<domain, available, madeFor, vms>>
        BY <1>1, <3>1 DEF StartTap
      <3>3. NewTap' = tapCount
        BY <1>0, <3>1 DEF NewTap
      <3> QED
        BY <3>1, <3>2, <3>3
    <2>2. FreshMachine'
      BY <1>0, <2>1 DEF MachineInv, FreshMachine, MachinesRecorded, InHand
    <2>3. MachinesRecorded'
      BY <1>0, <2>1, RecordedKept DEF MachineInv
    <2> QED
      BY <2>2, <2>3 DEF MachineInv
  <1>2. CASE DefineVM \/ BootVM
    <2>1. /\ wpc \in {"define", "boot"} /\ wpc' \in {"define", "boot", "insert"}
          /\ NewTap' = NewTap
          /\ UNCHANGED <<tapCount, available, madeFor, vms>>
          /\ \A t \in Tap \ {NewTap} : domain'[t] = domain[t]
      BY <1>0, <1>2 DEF DefineVM, DefineOutcome, BootVM, NewTap, tapVars
    <2>2. FreshMachine'
      <3>1. ASSUME NEW t \in Tap, t >= tapCount PROVE domain'[t] = "none"
        <4>1. t # NewTap /\ domain[t] = "none"
          BY <1>0, <3>1 DEF MachineInv, FreshMachine
        <4> QED
          BY <2>1, <4>1
      <3>2. \A i \in DOMAIN vms : vms[i].tap < NewTap
        BY <2>1 DEF MachineInv, FreshMachine, InHand
      <3> QED
        BY <2>1, <3>1, <3>2 DEF FreshMachine
    <2>3. MachinesRecorded'
      <3>1. \A i \in DOMAIN vms : vms[i].tap \in Nat /\ vms[i].tap < NewTap
        BY <1>0, <2>1 DEF MachineInv, FreshMachine, InHand
      <3>2. \A i \in DOMAIN vms : vms[i].tap # NewTap
        BY <1>0, <3>1
      <3> QED
        BY <1>0, <2>1, <3>1, <3>2, RecordedKept DEF MachineInv
    <2> QED
      BY <2>2, <2>3 DEF MachineInv
  <1>3. CASE AddIP
    <2>1. /\ wpc = "insert" /\ wpc' = "inserting" /\ NewTap' = NewTap
          /\ UNCHANGED <<tapCount, domain, vms>>
          /\ available' = available \cup {rq.ip}
          /\ madeFor' = [madeFor EXCEPT ![NewTap] = rq.ip]
      BY <1>3 DEF AddIP, Registered, NewTap, tapVars
    <2>2. FreshMachine'
      BY <1>0, <2>1 DEF MachineInv, FreshMachine, InHand
    <2>3. /\ \A i \in DOMAIN vms' : /\ vms'[i].tap < tapCount'
                                    /\ vms'[i].running = (domain'[vms'[i].tap] \in Started)
          /\ \A i, j \in DOMAIN vms' : i # j => vms'[i].tap # vms'[j].tap
      BY <2>1 DEF MachineInv, MachinesRecorded
    <2>4. ASSUME NEW ip \in available' \ KnownIPs, ip # rq.ip
          PROVE  \E t \in Tap : madeFor'[t] = ip /\ \E i \in DOMAIN vms' : vms'[i].tap = t
      <3>1. PICK t \in Tap : madeFor[t] = ip /\ \E i \in DOMAIN vms : vms[i].tap = t
        BY <2>1, <2>4 DEF MachineInv, MachinesRecorded
      <3>2. PICK i \in DOMAIN vms : vms[i].tap = t
        BY <3>1
      <3>3. t < NewTap /\ t \in Nat
        BY <1>0, <2>1, <3>2 DEF MachineInv, FreshMachine, InHand
      <3>4. t # NewTap
        BY <1>0, <3>3
      <3>5. madeFor'[t] = ip
        BY <1>0, <2>1, <3>1, <3>4
      <3> QED
        BY <2>1, <3>2, <3>5
    <2>5. madeFor'[NewTap] = rq.ip /\ NewTap \in Tap
      BY <1>0, <2>1
    <2>6. MachinesRecorded'
      BY <2>1, <2>3, <2>4, <2>5 DEF MachinesRecorded
    <2> QED
      BY <2>2, <2>6 DEF MachineInv
  <1>4. CASE RecordVM
    <2>1. /\ wpc = "inserting" /\ wpc' = "callback" /\ NewTap' = NewTap
          /\ UNCHANGED <<tapCount, domain, available, madeFor>>
          /\ vms' = Append(vms, NewVM)
      BY <1>4 DEF RecordVM, NewTap, tapVars
    <2>2. NewVM.tap = NewTap /\ NewVM.running = (domain[NewTap] \in Started)
      BY DEF NewVM
    <2>3. /\ DOMAIN vms = 1 .. Len(vms) /\ DOMAIN vms' = 1 .. (Len(vms) + 1)
          /\ Len(vms) \in Nat
          /\ \A i \in 1 .. Len(vms) : vms'[i] = vms[i]
          /\ vms'[Len(vms) + 1] = NewVM
      BY <1>0, <2>1
    <2>4. FreshMachine'
      BY <1>0, <2>1 DEF MachineInv, FreshMachine, InHand
    <2>5. \A i \in DOMAIN vms : vms[i].tap < NewTap
      BY <2>1 DEF MachineInv, FreshMachine, InHand
    <2>6. \A i \in DOMAIN vms' : /\ vms'[i].tap < tapCount'
                                 /\ vms'[i].running = (domain'[vms'[i].tap] \in Started)
      BY <1>0, <2>1, <2>2, <2>3 DEF MachineInv, MachinesRecorded
    <2>7. \A i, j \in DOMAIN vms' : i # j => vms'[i].tap # vms'[j].tap
      <3>1. ASSUME NEW i \in DOMAIN vms', NEW j \in DOMAIN vms', i < j
            PROVE  vms'[i].tap # vms'[j].tap
        <4>1. i \in 1 .. Len(vms) /\ vms'[i] = vms[i] /\ vms[i].tap \in Nat
          BY <1>0, <2>3, <3>1
        <4>2. CASE j = Len(vms) + 1
          BY <1>0, <2>2, <2>3, <2>5, <4>1, <4>2
        <4>3. CASE j \in 1 .. Len(vms)
          BY <2>3, <3>1, <4>1, <4>3 DEF MachineInv, MachinesRecorded
        <4> QED
          BY <2>3, <3>1, <4>2, <4>3
      <3>2. ASSUME NEW i \in DOMAIN vms', NEW j \in DOMAIN vms', i # j
            PROVE  i < j \/ j < i
        BY <2>3, <3>2
      <3> QED
        BY <3>1, <3>2
    <2>8. ASSUME NEW ip \in available' \ KnownIPs
          PROVE  \E t \in Tap : /\ madeFor'[t] = ip
                                /\ \E i \in DOMAIN vms' : vms'[i].tap = t
      <3>1. PICK t \in Tap : /\ madeFor[t] = ip
                             /\ \/ \E i \in DOMAIN vms : vms[i].tap = t
                                \/ t = NewTap
        BY <2>1 DEF MachineInv, MachinesRecorded
      <3>2. \E i \in DOMAIN vms' : vms'[i].tap = t
        <4>1. CASE t = NewTap
          BY <2>2, <2>3, <4>1
        <4>2. ASSUME NEW i \in DOMAIN vms, vms[i].tap = t PROVE \E j \in DOMAIN vms' : vms'[j].tap = t
          BY <2>3, <4>2
        <4> QED
          BY <3>1, <4>1, <4>2
      <3> QED
        BY <2>1, <3>1, <3>2
    <2>9. MachinesRecorded'
      BY <2>6, <2>7, <2>8 DEF MachinesRecorded
    <2> QED
      BY <2>4, <2>9 DEF MachineInv
  <1> QED
    BY <1>1, <1>2, <1>3, <1>4

LEMMA NextMachine == TypeOK /\ MachineInv /\ [Next]_vars => MachineInv'
  <1> SUFFICES ASSUME TypeOK, MachineInv, [Next]_vars PROVE MachineInv'
    OBVIOUS
  <1>1. CASE StartTap \/ DefineVM \/ BootVM \/ AddIP \/ RecordVM
    BY <1>1, SetUpMachine
  <1>2. CASE /\ UNCHANGED <<tapCount, domain, available, madeFor, vms>>
             /\ wpc \in {"pop", "callback", "erase", "erasing"}
             /\ wpc' \in {"tap", "pop", "callback", "erase", "erasing"}
    BY <1>2 DEF MachineInv, FreshMachine, InHand, NewTap, MachinesRecorded
  <1>3. CASE UNCHANGED machineVars
    BY <1>3 DEF machineVars, MachineInv, FreshMachine, InHand, NewTap, MachinesRecorded
  <1>4. CASE PopRequest \/ ReleaseFrame \/ EraseBegin \/ EraseEnd
    BY <1>2, <1>4 DEF PopRequest, ReleaseFrame, EraseBegin, EraseEnd, history
  <1>5. CASE UNCHANGED vars \/ Crash
    BY <1>3, <1>5 DEF vars, coreVars, Crash, machineVars, history
  <1>6. CASE \E t \in Tap : TapStep(t) \/ \E ip \in IPs : ReadArp(t, ip)
    BY <1>3, <1>6 DEF TapStep, AddRequest, PushBegin, PushEnd, ReadArp, coreVars, machineVars, history
  <1>7. ASSUME NEW t \in Tap, PowerOff(t) PROVE MachineInv'
    <2>1. /\ UNCHANGED <<tapCount, wpc, available, madeFor, vms>>
          /\ domain[t] = "running" /\ domain' = [domain EXCEPT ![t] = "off"]
          /\ domain \in [Tap -> Domain]
      BY <1>7 DEF PowerOff, history, TypeOK
    <2>2. /\ \A u : domain'[u] \in Started <=> domain[u] \in Started
          /\ \A u \in Tap : domain[u] = "none" => domain'[u] = "none"
      BY <2>1 DEF Started
    <2>3. \A i \in DOMAIN vms : (domain'[vms[i].tap] \in Started) = (domain[vms[i].tap] \in Started)
      BY <2>2
    <2>4. MachinesRecorded'
      BY <2>1, <2>3 DEF MachineInv, MachinesRecorded, NewTap
    <2>5. FreshMachine'
      BY <2>1, <2>2 DEF MachineInv, FreshMachine, InHand, NewTap
    <2> QED
      BY <2>4, <2>5 DEF MachineInv
  <1> QED
    BY <1>1, <1>4, <1>5, <1>6, <1>7 DEF Next, Step, WorkerStep

\* running_ of virtual_machines_ says which machines were started, each device is there
\* once, and there is an entry for every address that was made available at run time.
THEOREM MachinesAccounted == Spec => []MachinesRecorded
  <1>1. (TypeInv => TypeOK) /\ (MachineInv => MachinesRecorded)
    BY DEF TypeInv, MachineInv
  <1> QED
    BY <1>1, InitTypeInv, NextTypeInv, InitMachine, NextMachine, PTL DEF Spec

-----------------------------------------------------------------------------
(* A device loses a frame by the race of createRequest and callback in     *)
(* open_reuquests_ or by an answer that comes before the frame is stored,  *)
(* and in no other way.  It rests on the order of requests.                *)

LEMMA IdsInAppend ==
  ASSUME NEW q \in Seq(Request), NEW r \in Request, NEW t \in Tap
  PROVE  IdsIn(Append(q, r), t) = IdsIn(q, t) \cup (IF r.caller = t THEN {r.id} ELSE {})
  <1>1. DOMAIN Append(q, r) = 1 .. (Len(q) + 1) /\ DOMAIN q = 1 .. Len(q) /\ Len(q) \in Nat
    OBVIOUS
  <1>2. /\ \A i \in 1 .. Len(q) : Append(q, r)[i] = q[i]
        /\ Append(q, r)[Len(q) + 1] = r
    OBVIOUS
  <1> QED
    BY <1>1, <1>2 DEF IdsIn

LEMMA IdsInTail ==
  ASSUME NEW q \in Seq(Request), q # << >>, NEW t \in Tap
  PROVE  IdsIn(q, t) = IdsIn(Tail(q), t) \cup (IF Head(q).caller = t THEN {Head(q).id} ELSE {})
  <1>1. /\ DOMAIN Tail(q) = 1 .. (Len(q) - 1) /\ DOMAIN q = 1 .. Len(q)
        /\ Len(q) \in Nat \ {0} /\ Head(q) = q[1]
    OBVIOUS
  <1>2. \A i \in 1 .. (Len(q) - 1) : Tail(q)[i] = q[i + 1]
    OBVIOUS
  <1>3. ASSUME NEW i \in 1 .. Len(q), q[i].caller = t
        PROVE  q[i].id \in IdsIn(Tail(q), t) \cup (IF Head(q).caller = t THEN {Head(q).id} ELSE {})
    <2>1. CASE i = 1
      BY <1>1, <1>3, <2>1
    <2>2. CASE i # 1
      <3>1. i - 1 \in 1 .. (Len(q) - 1) /\ Tail(q)[i - 1] = q[i]
        BY <1>1, <1>2, <2>2
      <3> QED
        BY <1>1, <1>3, <3>1 DEF IdsIn
    <2> QED
      BY <2>1, <2>2
  <1>4. ASSUME NEW i \in 1 .. (Len(q) - 1), Tail(q)[i].caller = t PROVE Tail(q)[i].id \in IdsIn(q, t)
    BY <1>1, <1>2, <1>4 DEF IdsIn
  <1>5. Head(q).caller = t => Head(q).id \in IdsIn(q, t)
    BY <1>1 DEF IdsIn
  <1> QED
    BY <1>1, <1>3, <1>4, <1>5 DEF IdsIn

LEMMA ReleasedAppend ==
  ASSUME NEW s \in Seq(Nat), NEW k \in Nat
  PROVE  {Append(s, k)[i] : i \in DOMAIN Append(s, k)} = {s[i] : i \in DOMAIN s} \cup {k}
  <1>1. DOMAIN Append(s, k) = 1 .. (Len(s) + 1) /\ DOMAIN s = 1 .. Len(s) /\ Len(s) \in Nat
    OBVIOUS
  <1>2. \A i \in 1 .. Len(s) : Append(s, k)[i] = s[i]
    OBVIOUS
  <1>3. Append(s, k)[Len(s) + 1] = k
    OBVIOUS
  <1> QED
    BY <1>1, <1>2, <1>3

-----------------------------------------------------------------------------
(* The bookkeeping of one device whose threads have not met.               *)

\* The number whose frame is on its way into the vector is unanswered or answered too
\* early, a number answered too early is not answered again, and neither thread's copy of
\* the vector is stale.
Undisturbed(t) ==
    /\ ~VectorRace(t)
    /\ tpc[t] \in {"push", "pushing"} => nextId[t] - 1 \in Outstanding(t) \cup early[t]
    /\ \A k \in early[t] : k < nextId[t] /\ k \notin Outstanding(t) \cup Erasing(t)
    /\ tpc[t] = "pushing" => pushed[t] = open[t]
    /\ wpc = "erasing" /\ rq.caller = t => snap = open[t]

Exact(t) ==
    /\ open[t] = ((Outstanding(t) \cup early[t]) \ Storing(t)) \cup Erasing(t)
    /\ Released(t) = (0 .. (nextId[t] - 1)) \ (Outstanding(t) \cup early[t])

\* A device that has not been created has no thread.
ThreadsOff == \A t \in Tap : t >= tapCount => tpc[t] = "off"

BookInv == ThreadsOff /\ \A t \in Tap \ raced : Undisturbed(t) /\ Exact(t)

LEMMA InitBook == Init => BookInv
  <1> SUFFICES ASSUME Init PROVE BookInv
    OBVIOUS
  <1> USE PipelineAssumption DEF Init
  <1>1. ThreadsOff
    BY DEF ThreadsOff, Tap
  <1>2. ASSUME NEW t \in Tap PROVE Undisturbed(t) /\ Exact(t)
    <2>1. Outstanding(t) = {} /\ Released(t) = {} /\ Storing(t) = {} /\ Erasing(t) = {}
          /\ early[t] = {}
      BY DEF Outstanding, IdsIn, InService, SetUp, Released, Storing, Erasing
    <2>2. 0 .. (nextId[t] - 1) = {}
      BY DEF Tap
    <2> QED
      BY <2>1, <2>2 DEF Undisturbed, Exact, VectorRace
  <1> QED
    BY <1>1, <1>2 DEF BookInv

LEMMA NextThreadsOff == TypeOK /\ ThreadsOff /\ [Next]_vars => ThreadsOff'
  <1> SUFFICES ASSUME TypeOK, ThreadsOff, [Next]_vars PROVE ThreadsOff'
    OBVIOUS
  <1> USE PipelineAssumption DEF ThreadsOff
  <1>0. tapCount \in Nat /\ tpc \in [Tap -> TapPC] /\ Tap \subseteq Nat
    BY DEF TypeOK, Tap
  <1>1. CASE StartTap
    <2>1. /\ tapCount' = tapCount + 1 /\ tapCount \in Tap
          /\ tpc' = tpc \/ tpc' = [tpc EXCEPT ![tapCount] = "select"]
      BY <1>1 DEF StartTap, CreateTap
    <2> QED
      BY <1>0, <2>1
  <1>2. ASSUME NEW t \in Tap, TapStep(t) \/ \E ip \in IPs : ReadArp(t, ip) PROVE ThreadsOff'
    <2>1. tapCount' = tapCount /\ tpc[t] # "off"
      BY <1>2 DEF TapStep, AddRequest, PushBegin, PushEnd, ReadArp, coreVars
    <2>2. \A u \in Tap \ {t} : tpc'[u] = tpc[u]
      BY <1>0, <1>2 DEF TapStep, AddRequest, PushBegin, PushEnd, ReadArp
    <2> QED
      BY <2>1, <2>2
  <1>3. CASE UNCHANGED <<tapCount, tpc>>
    BY <1>3
  <1>4. CASE WorkerStep /\ ~StartTap
    BY <1>3, <1>4 DEF WorkerStep, PopRequest, DefineVM, BootVM, AddIP, RecordVM,
                      ReleaseFrame, EraseBegin, EraseEnd, tapVars
  <1>5. CASE UNCHANGED vars \/ Crash \/ \E t \in Tap : PowerOff(t)
    BY <1>3, <1>5 DEF vars, Crash, PowerOff, tapVars, coreVars
  <1> QED
    BY <1>1, <1>2, <1>4, <1>5 DEF Next, Step

\* What the order of requests says of one device's numbers.
LEMMA Numbers ==
  ASSUME TypeOK, OrderInv, NEW t \in Tap
  PROVE  /\ \A k \in Outstanding(t) : k \in Nat /\ k < nextId[t]
         /\ \A k \in IdsIn(queue, t) : k \in Nat /\ k < nextId[t]
         /\ wpc # "pop" /\ rq.caller = t => rq.id \notin IdsIn(queue, t) /\ rq.id < nextId[t]
         /\ nextId[t] \in Nat /\ rq.id \in Nat
  <1>1. /\ nextId[t] \in Nat /\ rq.id \in Nat
        /\ queue \in Seq(Request) /\ DOMAIN queue = 1 .. Len(queue)
        /\ \A i \in DOMAIN queue : queue[i] \in Request
    <2>1. queue \in Seq(Request) /\ rq \in Request /\ nextId[t] \in Nat
      BY DEF TypeOK
    <2>2. DOMAIN queue = 1 .. Len(queue) /\ \A i \in DOMAIN queue : queue[i] \in Request
      BY <2>1
    <2>3. rq.id \in Nat
      BY <2>1 DEF Request
    <2> QED
      BY <2>1, <2>2, <2>3
  <1>2. \A i \in DOMAIN queue : queue[i].id \in Nat
    BY <1>1 DEF Request
  <1>3. \A k \in IdsIn(queue, t) : k \in Nat /\ k < nextId[t]
    BY <1>2 DEF IdsIn, OrderInv, QueueNumbered
  <1>4. wpc # "pop" /\ rq.caller = t => rq.id \notin IdsIn(queue, t) /\ rq.id < nextId[t]
    BY <1>1, <1>2 DEF IdsIn, OrderInv, HandBeforeQueue
  <1> QED
    BY <1>1, <1>3, <1>4 DEF Outstanding, InService, SetUp

-----------------------------------------------------------------------------
(* One step of the pipeline and one device that is still undisturbed after *)
(* it.                                                                     *)

\* A step that leaves the device's vector, its numbers and its requests alone.
LEMMA BookKept ==
  ASSUME NEW t \in Tap, Undisturbed(t), Exact(t), ~VectorRace(t)',
         open'[t] = open[t], nextId'[t] = nextId[t], early'[t] = early[t],
         Outstanding(t)' = Outstanding(t), Released(t)' = Released(t), Erasing(t)' = Erasing(t),
         tpc'[t] \in {"push", "pushing"} <=> tpc[t] \in {"push", "pushing"},
         tpc'[t] = "pushing" => pushed'[t] = open[t],
         wpc' = "erasing" /\ rq'.caller = t => snap' = open[t]
  PROVE  Undisturbed(t)' /\ Exact(t)'
  <1>1. Storing(t)' = Storing(t)
    BY DEF Storing
  <1>2. Exact(t)'
    BY <1>1 DEF Exact
  <1>3. tpc'[t] \in {"push", "pushing"} => nextId'[t] - 1 \in Outstanding(t)' \cup early'[t]
    BY DEF Undisturbed
  <1>4. Undisturbed(t)'
    BY <1>3 DEF Undisturbed
  <1> QED
    BY <1>2, <1>4

\* Steps of the device's own thread.
LEMMA TapBook ==
  ASSUME TypeInv, OrderInv, NEW u \in Tap, NEW t \in Tap, Undisturbed(t), Exact(t),
         ~VectorRace(t)',
         TapStep(u) \/ \E ip \in IPs : ReadArp(u, ip)
  PROVE  Undisturbed(t)' /\ Exact(t)'
  <1> TypeOK
    BY DEF TypeInv
  <1>0. /\ tpc \in [Tap -> TapPC] /\ nextId \in [Tap -> Nat]
        /\ open \in [Tap -> SUBSET Nat] /\ pushed \in [Tap -> SUBSET Nat]
        /\ early \in [Tap -> SUBSET Nat]
    BY DEF TypeOK
  <1>n. /\ \A k \in Outstanding(t) : k \in Nat /\ k < nextId[t]
        /\ nextId[t] \in Nat
    BY Numbers
  <1>1. CASE \E ip \in IPs : ReadArp(u, ip)
    <2>1. /\ UNCHANGED <<nextId, open, pushed, queue, wpc, rq, snap, out, early>>
          /\ tpc[u] = "select"
          /\ tpc' = tpc \/ tpc' = [tpc EXCEPT ![u] = "request"]
      BY <1>1 DEF ReadArp, coreVars
    <2>2. tpc'[t] \in {"push", "pushing"} <=> tpc[t] \in {"push", "pushing"}
      BY <1>0, <2>1
    <2>3. /\ tpc'[t] = "pushing" => pushed'[t] = open[t]
          /\ wpc' = "erasing" /\ rq'.caller = t => snap' = open[t]
      BY <1>0, <2>1 DEF Undisturbed
    <2>4. /\ Outstanding(t)' = Outstanding(t)
          /\ Erasing(t)' = Erasing(t) /\ Released(t)' = Released(t)
      BY <2>1 DEF Outstanding, InService, Erasing, Released
    <2> QED
      BY <2>1, <2>2, <2>3, <2>4, BookKept
  <1>2. CASE AddRequest(u)
    <2> DEFINE r == [caller |-> u, id |-> nextId[u], ip |-> tip[u]]
    <2>1. /\ UNCHANGED <<open, pushed, wpc, rq, snap, out, early>>
          /\ tpc[u] = "request" /\ tpc' = [tpc EXCEPT ![u] = "push"]
          /\ nextId' = [nextId EXCEPT ![u] = @ + 1]
          /\ queue' = Append(queue, r) /\ r \in Request /\ queue \in Seq(Request)
          /\ r.caller = u /\ r.id = nextId[u]
      BY <1>2 DEF AddRequest, NumberRequest, coreVars, history, TypeOK, Request
    <2> HIDE DEF r
    <2>2. IdsIn(queue', t) = IdsIn(queue, t) \cup (IF u = t THEN {nextId[t]} ELSE {})
      BY <2>1, IdsInAppend
    <2>3. Outstanding(t)' = Outstanding(t) \cup (IF u = t THEN {nextId[t]} ELSE {})
      BY <2>1, <2>2 DEF Outstanding, InService
    <2>4. CASE u = t
      <3>1. /\ tpc[t] = "request" /\ tpc'[t] = "push"
            /\ nextId'[t] = nextId[t] + 1 /\ nextId'[t] - 1 = nextId[t]
        BY <1>0, <1>n, <2>1, <2>4
      <3>2. Storing(t) = {} /\ Storing(t)' = {nextId[t]} /\ Erasing(t)' = Erasing(t)
        BY <2>1, <3>1 DEF Storing, Erasing
      <3>e. \A k \in early[t] : k < nextId[t] /\ k # nextId[t]
        BY <1>n, <1>0 DEF Undisturbed
      <3>3. (Outstanding(t)' \cup early'[t]) \ Storing(t)' = Outstanding(t) \cup early[t]
        BY <1>n, <2>1, <2>3, <2>4, <3>2, <3>e
      <3>4. Released(t)' = Released(t)
        BY <2>1 DEF Released
      <3>5. (0 .. (nextId'[t] - 1)) \ (Outstanding(t)' \cup early'[t])
              = (0 .. (nextId[t] - 1)) \ (Outstanding(t) \cup early[t])
        BY <1>n, <2>1, <2>3, <2>4, <3>1
      <3>6. Exact(t)'
        BY <2>1, <3>2, <3>3, <3>4, <3>5 DEF Exact
      <3>7. Undisturbed(t)'
        <4>1. \A k \in early'[t] : k < nextId'[t] /\ k \notin Outstanding(t)' \cup Erasing(t)'
          <5>1. early'[t] = early[t] /\ \A k \in early[t] : k \in Nat
            BY <1>0, <2>1
          <5>2. \A k \in early[t] : k \notin Outstanding(t)' \cup Erasing(t)'
            BY <2>3, <2>4, <3>2, <3>e DEF Undisturbed
          <5>3. \A k \in early[t] : k < nextId[t] + 1
            BY <1>n, <3>e, <5>1
          <5> QED
            BY <3>1, <5>1, <5>2, <5>3
        <4> QED
          BY <2>1, <2>3, <2>4, <3>1, <4>1 DEF Undisturbed
      <3> QED
        BY <3>6, <3>7
    <2>5. CASE u # t
      <3>1. tpc'[t] = tpc[t] /\ nextId'[t] = nextId[t] /\ Outstanding(t)' = Outstanding(t)
        BY <1>0, <2>1, <2>3, <2>5
      <3>2. Erasing(t)' = Erasing(t) /\ Released(t)' = Released(t)
        BY <2>1 DEF Erasing, Released
      <3>3. /\ tpc'[t] = "pushing" => pushed'[t] = open[t]
            /\ wpc' = "erasing" /\ rq'.caller = t => snap' = open[t]
        BY <2>1, <3>1 DEF Undisturbed
      <3> QED
        BY <2>1, <3>1, <3>2, <3>3, BookKept
    <2> QED
      BY <2>4, <2>5
  <1>3. CASE PushBegin(u)
    <2>1. /\ UNCHANGED <<nextId, open, queue, wpc, rq, snap, out, early>>
          /\ tpc[u] = "push" /\ tpc' = [tpc EXCEPT ![u] = "pushing"]
          /\ pushed' = [pushed EXCEPT ![u] = open[u]]
      BY <1>3 DEF PushBegin, coreVars, history
    <2>2. /\ tpc'[t] \in {"push", "pushing"} <=> tpc[t] \in {"push", "pushing"}
          /\ tpc'[t] = "pushing" => pushed'[t] = open[t]
      BY <1>0, <2>1 DEF Undisturbed
    <2>3. /\ Outstanding(t)' = Outstanding(t)
          /\ Erasing(t)' = Erasing(t) /\ Released(t)' = Released(t)
      BY <2>1 DEF Outstanding, InService, Erasing, Released
    <2>4. wpc' = "erasing" /\ rq'.caller = t => snap' = open[t]
      BY <2>1 DEF Undisturbed
    <2> QED
      BY <2>1, <2>2, <2>3, <2>4, BookKept
  <1>4. CASE PushEnd(u)
    <2>1. /\ UNCHANGED <<nextId, pushed, queue, wpc, rq, snap, out, early>>
          /\ tpc[u] = "pushing" /\ tpc' = [tpc EXCEPT ![u] = "select"]
          /\ open' = [open EXCEPT ![u] = pushed[u] \cup {nextId[u] - 1}]
      BY <1>4 DEF PushEnd, coreVars, history
    <2>2. Outstanding(t)' = Outstanding(t) /\ Erasing(t)' = Erasing(t) /\ Released(t)' = Released(t)
      BY <2>1 DEF Outstanding, InService, Erasing, Released
    <2>3. CASE u = t
      <3>1. open'[t] = open[t] \cup {nextId[t] - 1} /\ tpc'[t] = "select"
        BY <1>0, <2>1, <2>3 DEF Undisturbed
      <3>2. nextId[t] - 1 \in Outstanding(t) \cup early[t] /\ Storing(t) = {nextId[t] - 1} /\ Storing(t)' = {}
        BY <2>1, <2>3, <3>1 DEF Undisturbed, Storing
      <3>3. ~(wpc = "erasing" /\ rq.caller = t)
        BY <2>1, <2>3 DEF Undisturbed, VectorRace, Calling
      <3> QED
        BY <2>1, <2>2, <3>1, <3>2, <3>3 DEF Undisturbed, Exact
    <2>4. CASE u # t
      <3>1. open'[t] = open[t] /\ tpc'[t] = tpc[t]
        BY <1>0, <2>1, <2>4
      <3> QED
        BY <2>1, <2>2, <3>1 DEF Undisturbed, Exact, Storing
    <2> QED
      BY <2>3, <2>4
  <1> QED
    BY <1>1, <1>2, <1>3, <1>4 DEF TapStep

\* Steps of the worker.
LEMMA WorkerBook ==
  ASSUME TypeInv, OrderInv, ThreadsOff, NEW t \in Tap, Undisturbed(t), Exact(t),
         ~VectorRace(t)', WorkerStep
  PROVE  Undisturbed(t)' /\ Exact(t)'
  <1> TypeOK
    BY DEF TypeInv
  <1>0. /\ open \in [Tap -> SUBSET Nat] /\ rq.caller \in Tap /\ rq.id \in Nat
        /\ out \in [Tap -> Seq(Nat)] /\ tpc \in [Tap -> TapPC] /\ early \in [Tap -> SUBSET Nat]
    BY DEF TypeOK, Request
  <1>n. /\ \A k \in Outstanding(t) : k \in Nat /\ k < nextId[t]
        /\ \A k \in IdsIn(queue, t) : k \in Nat /\ k < nextId[t]
        /\ wpc # "pop" /\ rq.caller = t => rq.id \notin IdsIn(queue, t) /\ rq.id < nextId[t]
        /\ nextId[t] \in Nat
    BY Numbers
  <1>1. CASE PopRequest
    <2>1. /\ UNCHANGED <<tpc, nextId, open, pushed, snap, out, early>>
          /\ wpc = "pop" /\ wpc' \in {"tap", "callback"}
          /\ queue \in Seq(Request) /\ queue # << >>
          /\ rq' = Head(queue) /\ queue' = Tail(queue)
      BY <1>1 DEF PopRequest, TakeRequest, tapVars, history, TypeOK
    <2>2. Outstanding(t) = IdsIn(queue, t)
      BY <2>1 DEF Outstanding, InService, SetUp
    <2>3. Outstanding(t)' = IdsIn(queue', t) \cup (IF rq'.caller = t THEN {rq'.id} ELSE {})
      BY <2>1 DEF Outstanding, InService, SetUp
    <2>4. Outstanding(t)' = Outstanding(t)
      BY <2>1, <2>2, <2>3, IdsInTail
    <2>5. Erasing(t)' = Erasing(t) /\ Released(t)' = Released(t)
      BY <2>1 DEF Erasing, Released
    <2>6. tpc'[t] = "pushing" => pushed'[t] = open[t]
      BY <2>1 DEF Undisturbed
    <2> QED
      BY <2>1, <2>4, <2>5, <2>6, BookKept
  <1>2. CASE StartTap
    <2>1. /\ UNCHANGED <<nextId, open, pushed, queue, rq, snap, out, early>>
          /\ wpc = "tap" /\ wpc' \in {"tap", "define"} /\ tapCount \in Tap
          /\ tpc' = tpc \/ tpc' = [tpc EXCEPT ![tapCount] = "select"]
      BY <1>2 DEF StartTap, history
    <2>2. tpc[tapCount] = "off"
      BY <2>1 DEF ThreadsOff, TypeOK, Tap
    <2>3. /\ tpc'[t] \in {"push", "pushing"} <=> tpc[t] \in {"push", "pushing"}
          /\ tpc'[t] = "pushing" => pushed'[t] = open[t]
      BY <1>0, <2>1, <2>2 DEF Undisturbed
    <2>4. Outstanding(t)' = Outstanding(t)
      BY <2>1 DEF Outstanding, InService, SetUp
    <2>5. Erasing(t)' = Erasing(t) /\ Released(t)' = Released(t)
      BY <2>1 DEF Erasing, Released
    <2> QED
      BY <2>1, <2>3, <2>4, <2>5, BookKept
  <1>3. CASE DefineVM \/ BootVM \/ AddIP \/ RecordVM
    <2>1. /\ UNCHANGED <<tpc, nextId, open, pushed, queue, rq, snap, out, early>>
          /\ InService /\ InService'
          /\ wpc \notin {"erase", "erasing"} /\ wpc' \notin {"erase", "erasing"}
      BY <1>3 DEF DefineVM, BootVM, AddIP, RecordVM, tapVars, history, InService, SetUp
    <2>2. Outstanding(t)' = Outstanding(t)
      BY <2>1 DEF Outstanding
    <2>3. Erasing(t)' = Erasing(t) /\ Released(t)' = Released(t)
      BY <2>1 DEF Erasing, Released
    <2>4. tpc'[t] = "pushing" => pushed'[t] = open[t]
      BY <2>1 DEF Undisturbed
    <2> QED
      BY <2>1, <2>2, <2>3, <2>4, BookKept
  <1>4. CASE ReleaseFrame
    <2>1. /\ UNCHANGED <<tpc, nextId, open, pushed, queue, rq, snap>> /\ wpc = "callback"
          /\ IF Kept THEN /\ out' = [out EXCEPT ![rq.caller] = Append(@, rq.id)]
                          /\ wpc' = "erase" /\ early' = early
             ELSE /\ wpc' = "pop" /\ UNCHANGED out
                  /\ early' = [early EXCEPT ![rq.caller] = @ \cup ({rq.id} \cap Storing(rq.caller))]
      BY <1>4 DEF ReleaseFrame, tapVars
    <2>2. Outstanding(t) = IdsIn(queue, t) \cup (IF rq.caller = t THEN {rq.id} ELSE {})
      BY <2>1 DEF Outstanding, InService
    <2>3. Outstanding(t)' = IdsIn(queue, t)
      BY <2>1 DEF Outstanding, InService, SetUp
    <2>4. CASE rq.caller = t /\ rq.id \notin Storing(t)
      <3>2. rq.id \in open[t]
        BY <2>2, <2>4 DEF Exact
      <3>3. out' = [out EXCEPT ![t] = Append(@, rq.id)] /\ wpc' = "erase" /\ early' = early
        BY <2>1, <2>4, <3>2 DEF Kept
      <3>4. out'[t] = Append(out[t], rq.id) /\ out[t] \in Seq(Nat)
        BY <1>0, <3>3
      <3>5. Released(t)' = Released(t) \cup {rq.id}
        <4> DEFINE s == out[t]
        <4>1. {Append(s, rq.id)[i] : i \in DOMAIN Append(s, rq.id)} = {s[i] : i \in DOMAIN s} \cup {rq.id}
          BY <1>0, <3>4, ReleasedAppend
        <4> QED
          BY <3>4, <4>1 DEF Released
      <3>6. rq.id \notin IdsIn(queue, t) /\ rq.id \in 0 .. (nextId[t] - 1)
        BY <1>0, <1>n, <2>1, <2>4
      <3>e. rq.id \notin early[t] /\ early'[t] = early[t]
        BY <2>2, <2>4, <3>3 DEF Undisturbed
      <3>7. Released(t)' = (0 .. (nextId[t] - 1)) \ (Outstanding(t)' \cup early'[t])
        BY <2>2, <2>3, <2>4, <3>5, <3>6, <3>e DEF Exact
      <3>8. Storing(t)' = Storing(t) /\ Erasing(t) = {} /\ Erasing(t)' = {rq.id}
        BY <2>1, <2>4, <3>3 DEF Storing, Erasing
      <3>9. open[t] = ((Outstanding(t)' \cup early'[t]) \ Storing(t)') \cup Erasing(t)'
        BY <2>2, <2>3, <2>4, <3>8, <3>e DEF Exact
      <3>10. tpc[t] \in {"push", "pushing"} => nextId[t] - 1 \in Outstanding(t)' \cup early'[t]
        BY <2>2, <2>3, <2>4, <3>e DEF Storing, Undisturbed
      <3>11. \A k \in early'[t] : k < nextId[t] /\ k \notin Outstanding(t)' \cup Erasing(t)'
        BY <2>2, <2>3, <3>8, <3>e DEF Undisturbed
      <3>12. Undisturbed(t)'
        BY <2>1, <3>3, <3>10, <3>11 DEF Undisturbed
      <3>13. Exact(t)'
        BY <2>1, <3>7, <3>9 DEF Exact
      <3> QED
        BY <3>12, <3>13
    <2>6. CASE rq.caller = t /\ rq.id \in Storing(t)
      <3>1. rq.id \notin open[t]
        <4>1. Erasing(t) = {}
          BY <2>1 DEF Erasing
        <4> QED
          BY <2>6, <4>1 DEF Exact
      <3>2. wpc' = "pop" /\ out' = out /\ early' = [early EXCEPT ![t] = @ \cup {rq.id}]
        BY <2>1, <2>6, <3>1 DEF Kept
      <3>3. early'[t] = early[t] \cup {rq.id}
        BY <3>2, <1>0
      <3>4. Outstanding(t)' \cup early'[t] = Outstanding(t) \cup early[t]
        BY <2>2, <2>3, <2>6, <3>3
      <3>5. Erasing(t) = {} /\ Erasing(t)' = {} /\ Storing(t)' = Storing(t) /\ Released(t)' = Released(t)
        BY <2>1, <3>2 DEF Erasing, Storing, Released
      <3>6. Exact(t)'
        BY <2>1, <3>4, <3>5 DEF Exact
      <3>7. rq.id \notin IdsIn(queue, t) /\ rq.id < nextId[t]
        BY <1>n, <2>1, <2>6
      <3>8. \A k \in early'[t] : k < nextId'[t] /\ k \notin Outstanding(t)' \cup Erasing(t)'
        BY <2>1, <2>2, <2>3, <3>3, <3>5, <3>7 DEF Undisturbed
      <3>9. Undisturbed(t)'
        BY <2>1, <3>2, <3>4, <3>8 DEF Undisturbed
      <3> QED
        BY <3>6, <3>9
    <2>5. CASE rq.caller # t
      <3>1. out'[t] = out[t] /\ early'[t] = early[t]
        BY <1>0, <2>1, <2>5
      <3>2. Outstanding(t)' = Outstanding(t)
        BY <2>2, <2>3, <2>5
      <3>3. Erasing(t)' = Erasing(t) /\ Released(t)' = Released(t)
        BY <2>1, <2>5, <3>1 DEF Erasing, Released
      <3>4. tpc'[t] = "pushing" => pushed'[t] = open[t]
        BY <2>1 DEF Undisturbed
      <3> QED
        BY <2>1, <2>5, <3>1, <3>2, <3>3, <3>4, BookKept
    <2> QED
      BY <2>4, <2>5, <2>6
  <1>5. CASE EraseBegin
    <2>1. /\ UNCHANGED <<tpc, nextId, open, pushed, queue, rq, out, early>>
          /\ wpc = "erase" /\ wpc' = "erasing" /\ snap' = open[rq.caller]
      BY <1>5 DEF EraseBegin, tapVars, history
    <2>2. Outstanding(t)' = Outstanding(t)
      BY <2>1 DEF Outstanding, InService, SetUp
    <2>3. Erasing(t)' = Erasing(t) /\ Released(t)' = Released(t)
      BY <2>1 DEF Erasing, Released
    <2>4. tpc'[t] = "pushing" => pushed'[t] = open[t]
      BY <2>1 DEF Undisturbed
    <2> QED
      BY <2>1, <2>2, <2>3, <2>4, BookKept
  <1>6. CASE EraseEnd
    <2>1. /\ UNCHANGED <<tpc, nextId, pushed, queue, rq, snap, out, early>>
          /\ wpc = "erasing" /\ wpc' = "pop"
          /\ open' = [open EXCEPT ![rq.caller] = snap \ {rq.id}]
      BY <1>6 DEF EraseEnd, Erase, history
    <2>2. Outstanding(t)' = Outstanding(t) /\ Outstanding(t) = IdsIn(queue, t)
      BY <2>1 DEF Outstanding, InService, SetUp
    <2>3. Storing(t)' = Storing(t) /\ Released(t)' = Released(t) /\ Erasing(t)' = {}
      BY <2>1 DEF Storing, Released, Erasing
    <2>4. CASE rq.caller = t
      <3>1. open'[t] = open[t] \ {rq.id} /\ Erasing(t) = {rq.id}
        BY <1>0, <2>1, <2>4 DEF Undisturbed, Erasing
      <3>2. rq.id \notin Outstanding(t) \cup early[t]
        BY <1>n, <2>1, <2>2, <2>4, <3>1 DEF Undisturbed
      <3>3. tpc[t] # "pushing"
        BY <2>1, <2>4 DEF Undisturbed, VectorRace, Calling
      <3> QED
        BY <2>1, <2>2, <2>3, <3>1, <3>2, <3>3 DEF Undisturbed, Exact
    <2>5. CASE rq.caller # t
      <3>1. open'[t] = open[t] /\ Erasing(t) = {}
        BY <1>0, <2>1, <2>5 DEF Erasing
      <3> QED
        BY <2>1, <2>2, <2>3, <2>5, <3>1 DEF Undisturbed, Exact
    <2> QED
      BY <2>4, <2>5
  <1> QED
    BY <1>1, <1>2, <1>3, <1>4, <1>5, <1>6 DEF WorkerStep

LEMMA NextBook == TypeInv /\ OrderInv /\ BookInv /\ [Next]_vars => BookInv'
  <1> SUFFICES ASSUME TypeInv, OrderInv, BookInv, [Next]_vars PROVE BookInv'
    OBVIOUS
  <1>0. TypeOK /\ ThreadsOff
    BY DEF TypeInv, BookInv
  <1>1. ThreadsOff'
    BY <1>0, NextThreadsOff
  <1>2. ASSUME NEW t \in Tap, t \notin raced' PROVE Undisturbed(t)' /\ Exact(t)'
    <2>1. CASE UNCHANGED vars
      BY <1>2, <2>1 DEF BookInv, vars, tapVars, coreVars, history, Undisturbed, Exact, VectorRace,
                        Outstanding, InService, Storing, Erasing, Released
    <2>2. CASE Next
      <3>1. t \notin raced /\ ~VectorRace(t)'
        BY <1>2, <2>2 DEF Next, Watch
      <3>2. Undisturbed(t) /\ Exact(t)
        BY <3>1 DEF BookInv
      <3>3. CASE WorkerStep
        BY <1>0, <3>1, <3>2, <3>3, WorkerBook
      <3>4. ASSUME NEW u \in Tap, TapStep(u) \/ \E ip \in IPs : ReadArp(u, ip)
            PROVE  Undisturbed(t)' /\ Exact(t)'
        BY <3>1, <3>2, <3>4, TapBook
      <3>5. CASE Crash \/ \E u \in Tap : PowerOff(u)
        <4>1. UNCHANGED <<tpc, nextId, open, pushed, queue, wpc, rq, snap, out, early>>
          BY <3>5 DEF Crash, PowerOff, tapVars, coreVars, history
        <4> QED
          BY <3>2, <4>1 DEF Undisturbed, Exact, VectorRace, Outstanding, InService, Storing, Erasing,
                            Released
      <3> QED
        BY <2>2, <3>3, <3>4, <3>5 DEF Next, Step
    <2> QED
      BY <2>1, <2>2
  <1> QED
    BY <1>1, <1>2 DEF BookInv

\* A device whose thread and whose callback never met in open_reuquests_ keeps exactly the
\* frames of unanswered requests there, and those answered before they were stored, and has
\* released all others.
THEOREM NoFrameLostWithoutRace == Spec => []BookkeepingExact
  <1>1. (TypeInv => TypeOK) /\ (BookInv => BookkeepingExact)
    BY DEF TypeInv, BookInv, Exact, BookkeepingExact
  <1> QED
    BY <1>1, InitTypeInv, NextTypeInv, InitOrder, NextOrder, InitBook, NextBook, PTL DEF Spec
=============================================================================
