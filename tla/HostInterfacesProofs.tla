------------------------ MODULE HostInterfacesProofs ------------------------
(***************************************************************************)
(* The properties of HostInterfaces for any number of devices that are     *)
(* set up, stopped and deleted at once, and any amount of interference.    *)
(*                                                                         *)
(* The argument: a device is at one place of one method (Shape), and what  *)
(* the calls before that place have done is known of every interface no    *)
(* other process ever had (Progress, Lit).                                 *)
(***************************************************************************)
EXTENDS HostInterfaces, TLAPS

-----------------------------------------------------------------------------
(* What is left of the calls of start, stop and closeTAP.                  *)

C1 == <<<<"close", "both">>>>
C2 == <<<<"unpersist", "both">>, <<"close", "both">>>>
C3 == <<<<"down", "out">>, <<"unpersist", "both">>, <<"close", "both">>>>
T5 == <<<<"down", "out">>, <<"down", "in">>, <<"down", "out">>, <<"unpersist", "both">>,
        <<"close", "both">>>>
T6 == <<<<"down", "in">>, <<"down", "out">>, <<"down", "in">>, <<"down", "out">>,
        <<"unpersist", "both">>, <<"close", "both">>>>
S1 == <<<<"run", "both">>>>
S2 == <<<<"up", "out">>, <<"run", "both">>>>
S3 == <<<<"promisc", "out">>, <<"up", "out">>, <<"run", "both">>>>
S4 == <<<<"up", "in">>, <<"promisc", "out">>, <<"up", "out">>, <<"run", "both">>>>
S5 == <<<<"promisc", "in">>, <<"up", "in">>, <<"promisc", "out">>, <<"up", "out">>,
        <<"run", "both">>>>
S6 == <<<<"open", "out">>, <<"promisc", "in">>, <<"up", "in">>, <<"promisc", "out">>,
        <<"up", "out">>, <<"run", "both">>>>

Closing == {CloseCalls, C3, C2, C1}
Raising == {S5, S4, S3, S2, S1}

Heads ==
    /\ Head(StartCalls) = <<"open", "in">> /\ Head(S6) = <<"open", "out">>
    /\ Head(S5) = <<"promisc", "in">> /\ Head(S4) = <<"up", "in">>
    /\ Head(S3) = <<"promisc", "out">> /\ Head(S2) = <<"up", "out">>
    /\ Head(S1) = <<"run", "both">>
    /\ Head(StopCalls) = <<"cancel", "both">>
    /\ Head(T6) = <<"down", "in">> /\ Head(T5) = <<"down", "out">>
    /\ Head(CloseCalls) = <<"down", "in">> /\ Head(C3) = <<"down", "out">>
    /\ Head(C2) = <<"unpersist", "both">> /\ Head(C1) = <<"close", "both">>
    /\ Head(DestroyCalls) = <<"destroy", "both">>

Tails ==
    /\ Tail(StartCalls) = S6 /\ Tail(S6) = S5 /\ Tail(S5) = S4 /\ Tail(S4) = S3
    /\ Tail(S3) = S2 /\ Tail(S2) = S1
    /\ Tail(StopCalls) = T6 /\ Tail(T6) = T5 /\ Tail(T5) = CloseCalls
    /\ Tail(CloseCalls) = C3 /\ Tail(C3) = C2 /\ Tail(C2) = C1

\* The first call left tells where in which method a device is, up to down().
LEMMA HeadsTails == Heads /\ Tails
  <1>1. /\ Head(StartCalls) = <<"open", "in">> /\ Head(S6) = <<"open", "out">>
        /\ Head(S5) = <<"promisc", "in">> /\ Head(S4) = <<"up", "in">>
    BY DEF StartCalls, S6, S5, S4
  <1>2. /\ Head(S3) = <<"promisc", "out">> /\ Head(S2) = <<"up", "out">>
        /\ Head(S1) = <<"run", "both">>
    BY DEF S3, S2, S1
  <1>3. /\ Head(StopCalls) = <<"cancel", "both">> /\ Head(T6) = <<"down", "in">>
        /\ Head(T5) = <<"down", "out">>
    BY DEF StopCalls, T6, T5
  <1>4. /\ Head(CloseCalls) = <<"down", "in">> /\ Head(C3) = <<"down", "out">>
        /\ Head(C2) = <<"unpersist", "both">> /\ Head(C1) = <<"close", "both">>
        /\ Head(DestroyCalls) = <<"destroy", "both">>
    BY DEF CloseCalls, C3, C2, C1, DestroyCalls
  <1>5. Tail(StartCalls) = S6 /\ Tail(S6) = S5 /\ Tail(S5) = S4
    BY DEF StartCalls, S6, S5, S4
  <1>6. Tail(S4) = S3 /\ Tail(S3) = S2 /\ Tail(S2) = S1
    BY DEF S4, S3, S2, S1
  <1>7. Tail(StopCalls) = T6 /\ Tail(T6) = T5 /\ Tail(T5) = CloseCalls
    BY DEF StopCalls, T6, T5, CloseCalls
  <1>8. Tail(CloseCalls) = C3 /\ Tail(C3) = C2 /\ Tail(C2) = C1
    BY DEF CloseCalls, C3, C2, C1
  <1> QED BY <1>1, <1>2, <1>3, <1>4, <1>5, <1>6, <1>7, <1>8, Zenon DEF Heads, Tails

\* No two of them are the same where it matters.
LEMMA Different ==
    /\ \A s \in Raising : s # StartCalls /\ s # S6 /\ s \notin Closing /\ s # << >>
    /\ StartCalls # S6 /\ StartCalls # << >> /\ S6 # << >>
    /\ StartCalls \notin Closing /\ S6 \notin Closing /\ << >> \notin Closing
    /\ S1 # S2 /\ S1 # S3 /\ S1 # S4 /\ S1 # S5 /\ S2 # S3 /\ S2 # S4 /\ S2 # S5
    /\ S3 # S4 /\ S3 # S5 /\ S4 # S5
    /\ StopCalls \notin Closing /\ StopCalls # T6 /\ StopCalls # T5
    /\ DestroyCalls \notin Closing
    /\ \A s \in {T6, T5, DestroyCalls} \cup Closing :
          s \notin Raising /\ s # StartCalls /\ s # S6 /\ s # StopCalls
  <1>1. /\ StartCalls # << >> /\ S6 # << >> /\ S5 # << >> /\ S4 # << >> /\ S3 # << >>
        /\ S2 # << >> /\ S1 # << >>
    BY DEF StartCalls, S6, S5, S4, S3, S2, S1
  <1>2. << >> \notin Closing
    BY DEF Closing, CloseCalls, C3, C2, C1
  <1>3. /\ \A s \in Raising : s # StartCalls /\ s # S6 /\ s # << >>
        /\ StartCalls # S6 /\ StartCalls # << >> /\ S6 # << >>
        /\ S1 # S2 /\ S1 # S3 /\ S1 # S4 /\ S1 # S5 /\ S2 # S3 /\ S2 # S4 /\ S2 # S5
        /\ S3 # S4 /\ S3 # S5 /\ S4 # S5
    BY <1>1, HeadsTails DEF Heads, Raising
  <1>4. \A s \in Closing : Head(s) \in {<<"down", "in">>, <<"down", "out">>,
                                        <<"unpersist", "both">>, <<"close", "both">>}
    BY HeadsTails DEF Heads, Closing
  <1>5. /\ \A s \in Raising : s \notin Closing
        /\ StartCalls \notin Closing /\ S6 \notin Closing /\ StopCalls \notin Closing
        /\ DestroyCalls \notin Closing
    BY <1>4, HeadsTails DEF Heads, Raising
  <1>6. StopCalls # T6 /\ StopCalls # T5
    BY HeadsTails DEF Heads
  <1>7. \A s \in {T6, T5, DestroyCalls} :
            s \notin Raising /\ s # StartCalls /\ s # S6 /\ s # StopCalls
    BY HeadsTails DEF Heads, Raising
  <1> QED BY <1>2, <1>3, <1>5, <1>6, <1>7

-----------------------------------------------------------------------------
(* Types.                                                                  *)

LEMMA CallTypes ==
    /\ StartCalls \in Seq(Calls) /\ CloseCalls \in Seq(Calls) /\ StopCalls \in Seq(Calls)
    /\ DestroyCalls \in Seq(Calls) /\ << >> \in Seq(Calls)
  <1>1. StartCalls \in Seq(Calls)
    BY DEF StartCalls, Calls, Sides
  <1>2. CloseCalls \in Seq(Calls)
    BY DEF CloseCalls, Calls, Sides
  <1>3. StopCalls \in Seq(Calls)
    BY DEF StopCalls, Calls, Sides
  <1>4. DestroyCalls \in Seq(Calls)
    BY DEF DestroyCalls, Calls, Sides
  <1>5. << >> \in Seq(Calls)
    OBVIOUS
  <1> QED BY <1>1, <1>2, <1>3, <1>4, <1>5

\* closeTAP returns into one of three methods.
LEMMA Outcomes ==
    ASSUME NEW ok \in BOOLEAN
    PROVE  /\ Outcome("starting", ok) = "failed"
           /\ Outcome("stopping", ok) = IF ok THEN "stopped" ELSE "stop failed"
           /\ Outcome("deleting", ok) = "deleting"
  BY Zenon DEF Outcome

-----------------------------------------------------------------------------
(* A device is at one place of one method.                                 *)

Busy == {"starting", "stopping", "deleting"}

Shape(d) ==
    /\ phase[d] = "starting" => todo[d] \in {StartCalls, S6} \cup Raising \cup Closing
    /\ phase[d] = "stopping" => todo[d] \in {StopCalls, T6, T5} \cup Closing
    /\ phase[d] = "deleting" => todo[d] \in Closing \cup {DestroyCalls}
    /\ phase[d] \notin Busy => todo[d] = << >>

\* The call a device makes next tells its method and what follows.
LEMMA Where ==
    ASSUME NEW d \in Devices, Shape(d), NEW call, NEW side, At(d, call, side)
    PROVE  /\ phase[d] \in Busy
           /\ call = "open" /\ side = "in" =>
                 phase[d] = "starting" /\ todo[d] = StartCalls /\ Tail(todo[d]) = S6
           /\ call = "open" /\ side = "out" =>
                 phase[d] = "starting" /\ todo[d] = S6 /\ Tail(todo[d]) = S5
           /\ call = "promisc" /\ side = "in" =>
                 phase[d] = "starting" /\ todo[d] = S5 /\ Tail(todo[d]) = S4
           /\ call = "up" /\ side = "in" =>
                 phase[d] = "starting" /\ todo[d] = S4 /\ Tail(todo[d]) = S3
           /\ call = "promisc" /\ side = "out" =>
                 phase[d] = "starting" /\ todo[d] = S3 /\ Tail(todo[d]) = S2
           /\ call = "up" /\ side = "out" =>
                 phase[d] = "starting" /\ todo[d] = S2 /\ Tail(todo[d]) = S1
           /\ call = "run" => phase[d] = "starting" /\ todo[d] = S1
           /\ call = "cancel" => phase[d] = "stopping" /\ todo[d] = StopCalls /\ Tail(todo[d]) = T6
           /\ call = "down" /\ side = "in" =>
                 \/ phase[d] = "stopping" /\ todo[d] = T6 /\ Tail(todo[d]) = T5
                 \/ todo[d] = CloseCalls /\ Tail(todo[d]) = C3
           /\ call = "down" /\ side = "out" =>
                 \/ phase[d] = "stopping" /\ todo[d] = T5 /\ Tail(todo[d]) = CloseCalls
                 \/ todo[d] = C3 /\ Tail(todo[d]) = C2
           /\ call = "unpersist" => todo[d] = C2 /\ Tail(todo[d]) = C1
           /\ call = "close" => todo[d] = C1
           /\ call = "destroy" => phase[d] = "deleting" /\ todo[d] = DestroyCalls
  <1>1. todo[d] # << >> /\ Head(todo[d]) = <<call, side>>
    BY DEF At
  <1>2. phase[d] \in Busy
    BY <1>1 DEF Shape
  <1> DEFINE Is(s, c, e) == todo[d] = s /\ call = c /\ side = e
             Rest(t) == Tail(todo[d]) = t
  <1>11. ASSUME NEW s, NEW c, NEW e, todo[d] = s, Head(s) = <<c, e>>
        PROVE  Is(s, c, e)
    BY <1>1, <1>11
  <1>12. ASSUME NEW s, NEW t, todo[d] = s, Tail(s) = t
        PROVE  Rest(t)
    BY <1>12
  <1> HIDE DEF Is, Rest
  <1>3. todo[d] \in Closing =>
           \/ Is(CloseCalls, "down", "in") /\ Rest(C3)
           \/ Is(C3, "down", "out") /\ Rest(C2)
           \/ Is(C2, "unpersist", "both") /\ Rest(C1)
           \/ Is(C1, "close", "both")
    BY <1>11, <1>12, HeadsTails, Zenon DEF Heads, Tails, Closing
  <1>4. CASE phase[d] = "starting"
    <2>1. \/ todo[d] \in Closing
          \/ Is(StartCalls, "open", "in") /\ Rest(S6)
          \/ Is(S6, "open", "out") /\ Rest(S5)
          \/ Is(S5, "promisc", "in") /\ Rest(S4)
          \/ Is(S4, "up", "in") /\ Rest(S3)
          \/ Is(S3, "promisc", "out") /\ Rest(S2)
          \/ Is(S2, "up", "out") /\ Rest(S1)
          \/ Is(S1, "run", "both")
      BY <1>11, <1>12, <1>4, HeadsTails, ZenonT(30) DEF Heads, Tails, Shape, Raising
    <2> QED BY <1>2, <1>3, <1>4, <2>1 DEF Is, Rest
  <1>5. CASE phase[d] = "stopping"
    <2>1. \/ todo[d] \in Closing
          \/ Is(StopCalls, "cancel", "both") /\ Rest(T6)
          \/ Is(T6, "down", "in") /\ Rest(T5)
          \/ Is(T5, "down", "out") /\ Rest(CloseCalls)
      BY <1>11, <1>12, <1>5, HeadsTails, Zenon DEF Heads, Tails, Shape
    <2> QED BY <1>2, <1>3, <1>5, <2>1 DEF Is, Rest
  <1>6. CASE phase[d] = "deleting"
    <2>1. todo[d] \in Closing \/ Is(DestroyCalls, "destroy", "both")
      BY <1>11, <1>12, <1>6, HeadsTails, Zenon DEF Heads, Tails, Shape
    <2> QED BY <1>2, <1>3, <1>6, <2>1 DEF Is, Rest
  <1> QED BY <1>2, <1>4, <1>5, <1>6 DEF Busy

Placed == TypeOK /\ \A d \in Devices : Shape(d)

\* What Advance, Goto and the end of a method make of the place of a device.
LEMMA Moves ==
    ASSUME Placed, NEW d \in Devices, NEW p \in Phases, NEW s \in Seq(Calls),
           phase' = [phase EXCEPT ![d] = p], todo' = [todo EXCEPT ![d] = s],
           p = "starting" => s \in {StartCalls, S6} \cup Raising \cup Closing,
           p = "stopping" => s \in {StopCalls, T6, T5} \cup Closing,
           p = "deleting" => s \in Closing \cup {DestroyCalls},
           p \notin Busy => s = << >>
    PROVE  /\ phase' \in [Devices -> Phases] /\ todo' \in [Devices -> Seq(Calls)]
           /\ \A e \in Devices : Shape(e)'
  <1>1. phase' \in [Devices -> Phases] /\ todo' \in [Devices -> Seq(Calls)]
    BY DEF Placed, TypeOK
  <1>2. ASSUME NEW e \in Devices PROVE Shape(e)'
    <2>1. CASE e = d
      <3>1. phase'[e] = p /\ todo'[e] = s
        BY <2>1 DEF Placed, TypeOK
      <3> QED BY <3>1 DEF Shape
    <2>2. CASE e # d
      <3>1. phase'[e] = phase[e] /\ todo'[e] = todo[e]
        BY <2>2 DEF Placed, TypeOK
      <3> QED BY <3>1 DEF Shape, Placed
    <2> QED BY <2>1, <2>2
  <1> QED BY <1>1, <1>2

LEMMA AdvanceMoves ==
    ASSUME Placed, NEW d \in Devices, NEW call, NEW side, At(d, call, side), Advance(d),
           call \notin {"run", "close", "destroy"}
    PROVE  /\ phase' \in [Devices -> Phases] /\ todo' \in [Devices -> Seq(Calls)]
           /\ \A e \in Devices : Shape(e)'
  <1>1. Shape(d) /\ todo[d] \in Seq(Calls) /\ todo[d] # << >> /\ phase[d] \in Phases
    BY DEF Placed, TypeOK, At
  <1>2. Tail(todo[d]) \in Seq(Calls)
    BY <1>1
  <1>3. /\ phase[d] = "starting" => Tail(todo[d]) \in {StartCalls, S6} \cup Raising \cup Closing
        /\ phase[d] = "stopping" => Tail(todo[d]) \in {StopCalls, T6, T5} \cup Closing
        /\ phase[d] = "deleting" => Tail(todo[d]) \in Closing \cup {DestroyCalls}
        /\ phase[d] \in Busy
    <2> DEFINE t == Tail(todo[d])
    <2>1. /\ phase[d] = "starting" => todo[d] \in {StartCalls, S6, S5, S4, S3, S2, S1} \cup Closing
          /\ phase[d] = "stopping" => todo[d] \in {StopCalls, T6, T5} \cup Closing
          /\ phase[d] = "deleting" => todo[d] \in Closing \cup {DestroyCalls}
          /\ phase[d] \in Busy
      BY <1>1, Where DEF Shape, Raising
    <2>2. todo[d] # S1 /\ todo[d] # C1 /\ todo[d] # DestroyCalls
      BY HeadsTails DEF At, Heads
    <2>3. todo[d] \in Closing => t \in Closing
      BY <2>2, HeadsTails DEF Tails, Closing
    <2>4. todo[d] \in {StartCalls, S6, S5, S4, S3, S2} => t \in {S6} \cup Raising
      BY HeadsTails DEF Tails, Raising
    <2>5. todo[d] \in {StopCalls, T6, T5} => t \in {T6, T5} \cup Closing
      BY HeadsTails DEF Tails, Closing
    <2> QED BY <2>1, <2>2, <2>3, <2>4, <2>5
  <1>4. phase' = [phase EXCEPT ![d] = phase[d]] /\ todo' = [todo EXCEPT ![d] = Tail(todo[d])]
    BY DEF Advance, Placed, TypeOK
  <1> QED BY <1>1, <1>2, <1>3, <1>4, Moves

\* up() has failed, or closeTAP returns.
LEMMA EndMoves ==
    ASSUME Placed, NEW d \in Devices, phase[d] \in Busy,
           \/ phase[d] = "starting" /\ Goto(d, CloseCalls)
           \/ \E ok \in BOOLEAN : Closed(d, ok)
    PROVE  /\ phase' \in [Devices -> Phases] /\ todo' \in [Devices -> Seq(Calls)]
           /\ \A e \in Devices : Shape(e)'
  <1>1. CASE phase[d] = "starting" /\ Goto(d, CloseCalls)
    <2>1. phase' = [phase EXCEPT ![d] = "starting"] /\ todo' = [todo EXCEPT ![d] = CloseCalls]
      BY <1>1 DEF Goto, Placed, TypeOK
    <2> QED BY <2>1, Moves, CallTypes DEF Closing, Phases, Busy
  <1>2. CASE \E ok \in BOOLEAN : Closed(d, ok)
    <2>1. PICK ok \in BOOLEAN : Closed(d, ok)
      BY <1>2
    <2> DEFINE p == Outcome(phase[d], ok)
               s == IF phase[d] = "deleting" THEN DestroyCalls ELSE << >>
    <2>2. phase' = [phase EXCEPT ![d] = p] /\ todo' = [todo EXCEPT ![d] = s]
      BY <2>1 DEF Closed, Placed, TypeOK
    <2>3. \/ p \in {"failed", "stopped", "stop failed"} /\ s = << >>
          \/ p = "deleting" /\ s = DestroyCalls
      <3>1. CASE phase[d] = "starting"
        <4>1. p = "failed" BY <3>1, Outcomes, Zenon
        <4>2. s = << >> BY <3>1
        <4> HIDE DEF p, s
        <4> QED BY <4>1, <4>2
      <3>2. CASE phase[d] = "stopping"
        <4>1. p = IF ok THEN "stopped" ELSE "stop failed" BY <3>2, Outcomes, Zenon
        <4>2. p \in {"stopped", "stop failed"} BY <4>1, Zenon
        <4>3. s = << >> BY <3>2
        <4> HIDE DEF p, s
        <4> QED BY <4>2, <4>3
      <3>3. CASE phase[d] = "deleting"
        BY <3>3, Outcomes
      <3> QED BY <3>1, <3>2, <3>3 DEF Busy
    <2>4. p \in Phases /\ s \in Seq(Calls)
      BY <2>3, CallTypes DEF Phases
    <2> HIDE DEF p, s
    <2> QED BY <2>2, <2>3, <2>4, Moves DEF Busy
  <1> QED BY <1>1, <1>2

LEMMA PlacedInit == Init => Placed
  <1> SUFFICES ASSUME Init PROVE Placed
    OBVIOUS
  <1>1. TypeOK
    <2>1. /\ link \in [Iface -> Links] /\ persistent \in SUBSET Iface /\ strange \in SUBSET Iface
          /\ flags \in [Iface -> SUBSET {"up", "promisc"}]
      BY DEF Init, Links
    <2>2. /\ master \in [Iface -> {"none", "ours", "other"}]
          /\ fd \in [Iface -> {"unset", "bad", "open"}]
          /\ phase \in [Devices -> Phases]
      BY DEF Init, Phases
    <2>3. todo \in [Devices -> Seq(Calls)]
      BY CallTypes DEF Init
    <2>4. meddling \in 0 .. MaxMeddling
      BY HostAssumption DEF Init
    <2>5. found \in BOOLEAN /\ meddled \in BOOLEAN /\ unknown \in BOOLEAN /\ bphase \in BridgePhases /\ init_ \in BOOLEAN
      BY DEF Init, BridgePhases
    <2> QED BY <2>1, <2>2, <2>3, <2>4, <2>5 DEF Init, TypeOK
  <1>2. \A d \in Devices : Shape(d)
    BY DEF Init, Shape, Busy
  <1> QED BY <1>1, <1>2 DEF Placed

LEMMA PlacedDevice ==
    ASSUME Placed, NEW d \in Devices, DeviceStep(d)
    PROVE  Placed'
  <1> USE DEF Placed, TypeOK, managerVars, history, processVars, kernelVars
  <1>0. \A side \in Sides : <<d, side>> \in Iface
    BY DEF Iface
  <1>1. CASE Start(d)
    <2>1. /\ phase' \in [Devices -> Phases] /\ todo' \in [Devices -> Seq(Calls)]
          /\ \A e \in Devices : Shape(e)'
      BY <1>1, Moves, CallTypes DEF Start, Phases, Busy
    <2> QED BY <1>1, <2>1 DEF Start
  <1>2. CASE RunThread(d)
    <2>1. << >> \in Seq(Calls)
      BY CallTypes
    <2>2. /\ phase' \in [Devices -> Phases] /\ todo' \in [Devices -> Seq(Calls)]
          /\ \A e \in Devices : Shape(e)'
      BY <1>2, <2>1, Moves DEF RunThread, Phases, Busy
    <2> QED BY <1>2, <2>2 DEF RunThread
  <1>3. CASE AddTAP(d)
    <2>1. << >> \in Seq(Calls) /\ todo[d] = << >>
      BY <1>3 DEF AddTAP, Shape, Busy
    <2>2. /\ phase' \in [Devices -> Phases] /\ todo' \in [Devices -> Seq(Calls)]
          /\ \A e \in Devices : Shape(e)'
      <3>1. CASE UNCHANGED phase
        BY <1>3, <3>1 DEF AddTAP, Shape
      <3>2. CASE phase' = [phase EXCEPT ![d] = "placed"]
        <4>1. todo' = [todo EXCEPT ![d] = << >>]
          BY <1>3, <2>1 DEF AddTAP
        <4> QED BY <2>1, <3>2, <4>1, Moves DEF Phases, Busy
      <3> QED BY <1>3, <3>1, <3>2 DEF AddTAP
    <2>3. master' \in [Iface -> {"none", "ours", "other"}] /\ ended' \in {"no", "assert addTAP", "terminate", "wild pointer", "exit"}
      BY <1>0, <1>3 DEF AddTAP, Sides
    <2> QED BY <1>3, <2>2, <2>3 DEF AddTAP
  <1>4. CASE Stop(d)
    <2>1. CASE d \in thread
      <3>1. /\ phase' \in [Devices -> Phases] /\ todo' \in [Devices -> Seq(Calls)]
            /\ \A e \in Devices : Shape(e)'
        BY <1>4, <2>1, Moves, CallTypes DEF Stop, Phases, Busy
      <3> QED BY <1>4, <2>1, <3>1 DEF Stop
    <2>2. CASE d \notin thread
      BY <1>4, <2>2 DEF Stop, Shape
    <2> QED BY <2>1, <2>2
  <1>5. CASE CancelThread(d)
    <2>1. /\ phase' \in [Devices -> Phases] /\ todo' \in [Devices -> Seq(Calls)]
          /\ \A e \in Devices : Shape(e)'
      BY <1>5, AdvanceMoves DEF CancelThread
    <2> QED BY <1>5, <2>1 DEF CancelThread
  <1>6. ASSUME NEW side \in Sides, OpenTAP(d, side) PROVE Placed'
    <2>1. /\ phase' \in [Devices -> Phases] /\ todo' \in [Devices -> Seq(Calls)]
          /\ \A e \in Devices : Shape(e)'
      BY <1>6, AdvanceMoves DEF OpenTAP
    <2>2. link' \in [Iface -> Links] /\ fd' \in [Iface -> {"unset", "bad", "open"}]
      BY <1>0, <1>6 DEF OpenTAP, Links
    <2> QED BY <1>6, <2>1, <2>2 DEF OpenTAP
  <1>7. ASSUME NEW side \in Sides, Down(d, side) PROVE Placed'
    <2>1. Shape(d) /\ At(d, "down", side) /\ phase[d] \in Busy
      BY <1>7, Where DEF Down
    <2>2. /\ phase' \in [Devices -> Phases] /\ todo' \in [Devices -> Seq(Calls)]
          /\ \A e \in Devices : Shape(e)'
      BY <1>7, <2>1, AdvanceMoves, EndMoves DEF Down
    <2>3. flags' \in [Iface -> SUBSET {"up", "promisc"}] /\ refused' \in SUBSET Devices
      BY <1>0, <1>7 DEF Down
    <2> QED BY <1>7, <2>2, <2>3 DEF Down
  <1>8. ASSUME NEW side \in Sides, NEW flag \in {"up", "promisc"}, SetFlag(d, side, flag)
        PROVE  Placed'
    <2>1. Shape(d) /\ At(d, flag, side) /\ phase[d] = "starting"
      BY <1>8, Where DEF SetFlag, Sides
    <2>2. /\ phase' \in [Devices -> Phases] /\ todo' \in [Devices -> Seq(Calls)]
          /\ \A e \in Devices : Shape(e)'
      <3>1. CASE Advance(d) \/ UpFails(d)
        BY <2>1, <3>1, AdvanceMoves, EndMoves DEF UpFails, Busy
      <3>2. CASE UNCHANGED <<phase, todo>>
        BY <3>2 DEF Shape
      <3> QED BY <1>8, <3>1, <3>2 DEF SetFlag
    <2>3. flags' \in [Iface -> SUBSET {"up", "promisc"}]
      <3>1. <<d, side>> \in Iface /\ flags[<<d, side>>] \cup {flag} \in SUBSET {"up", "promisc"}
        BY <1>0, <1>8
      <3> QED BY <1>8, <3>1 DEF SetFlag, Socket, NoSocket
    <2>4. skfd' \in BOOLEAN /\ ended' \in {"no", "assert addTAP", "terminate", "wild pointer", "exit"}
      BY <1>8 DEF SetFlag, Socket, NoSocket
    <2> QED BY <1>8, <2>2, <2>3, <2>4 DEF SetFlag
  <1>9. CASE Unpersist(d)
    <2>1. Shape(d) /\ At(d, "unpersist", "both") /\ phase[d] \in Busy
      BY <1>9, Where DEF Unpersist
    <2>2. Advance(d) \/ Closed(d, FALSE)
      BY <1>9, Zenon DEF Unpersist
    <2>3. /\ phase' \in [Devices -> Phases] /\ todo' \in [Devices -> Seq(Calls)]
          /\ \A e \in Devices : Shape(e)'
      BY <2>1, <2>2, AdvanceMoves, EndMoves
    <2>4. persistent' \subseteq persistent
      BY <1>9 DEF Unpersist
    <2> QED BY <1>9, <2>3, <2>4 DEF Unpersist
  <1>10. CASE CloseBoth(d)
    <2>1. Shape(d) /\ At(d, "close", "both") /\ phase[d] \in Busy
      BY <1>10, Where DEF CloseBoth
    <2>2. /\ phase' \in [Devices -> Phases] /\ todo' \in [Devices -> Seq(Calls)]
          /\ \A e \in Devices : Shape(e)'
      BY <1>10, <2>1, EndMoves DEF CloseBoth
    <2>3. /\ link' \in [Iface -> Links] /\ flags' \in [Iface -> SUBSET {"up", "promisc"}]
          /\ master' \in [Iface -> {"none", "ours", "other"}]
      BY <1>10 DEF CloseBoth, Left, Links
    <2>4. fd' \in [Iface -> {"unset", "bad", "open"}]
      BY <1>10 DEF CloseBoth
    <2> QED BY <1>10, <2>2, <2>3, <2>4 DEF CloseBoth
  <1>11. CASE Delete(d)
    <2> DEFINE s == IF \E i \in Both(d) : fd[i] = "open" THEN CloseCalls ELSE DestroyCalls
    <2>1. s \in Seq(Calls) /\ s \in Closing \cup {DestroyCalls}
      BY CallTypes DEF Closing
    <2>2. phase' = [phase EXCEPT ![d] = "deleting"] /\ todo' = [todo EXCEPT ![d] = s]
      BY <1>11 DEF Delete
    <2> HIDE DEF s
    <2>3. /\ phase' \in [Devices -> Phases] /\ todo' \in [Devices -> Seq(Calls)]
          /\ \A e \in Devices : Shape(e)'
      BY <2>1, <2>2, Moves DEF Phases, Busy
    <2> QED BY <1>11, <2>3 DEF Delete
  <1>12. CASE DestroyThread(d)
    <2>1. CASE d \in thread
      BY <1>12, <2>1 DEF DestroyThread, Shape
    <2>2. CASE d \notin thread
      <3>1. << >> \in Seq(Calls)
        BY CallTypes
      <3>2. /\ phase' \in [Devices -> Phases] /\ todo' \in [Devices -> Seq(Calls)]
            /\ \A e \in Devices : Shape(e)'
        BY <1>12, <2>2, <3>1, Moves DEF DestroyThread, Phases, Busy
      <3> QED BY <1>12, <2>2, <3>2 DEF DestroyThread
    <2> QED BY <2>1, <2>2
  <1> QED
    BY <1>1, <1>2, <1>3, <1>4, <1>5, <1>6, <1>7, <1>8, <1>9, <1>10, <1>11, <1>12
    DEF DeviceStep

LEMMA PlacedOthers ==
    ASSUME Placed, BridgeStep \/ Meddle \/ UNCHANGED vars
    PROVE  Placed'
  <1> USE DEF Placed, TypeOK, deviceVars, history, kernelVars, managerVars, processVars
  <1>0. ASSUME UNCHANGED <<phase, todo>> PROVE \A d \in Devices : Shape(d)'
    BY <1>0 DEF Shape
  <1>1. CASE InitSocket
    BY <1>0, <1>1 DEF InitSocket, BridgePhases
  <1>2. CASE CreateBridge
    BY <1>0, <1>2 DEF CreateBridge, BridgePhases
  <1>3. CASE BridgeUp
    BY <1>0, <1>3 DEF BridgeUp, Socket, NoSocket, BridgePhases
  <1>4. CASE UndoInit
    BY <1>0, <1>4 DEF UndoInit, DeleteBridge, BridgePhases
  <1>5. CASE Shutdown
    BY <1>0, <1>5 DEF Shutdown, BridgePhases
  <1>6. CASE BridgeDown
    BY <1>0, <1>6 DEF BridgeDown, BridgePhases
  <1>7. CASE ShutdownBridge
    BY <1>0, <1>7 DEF ShutdownBridge, DeleteBridge, BridgePhases
  <1>8. CASE Meddle
    <2>1. \A d \in Devices : Shape(d)'
      BY <1>0, <1>8 DEF Meddle
    <2>2. meddling' \in 0 .. MaxMeddling
      BY <1>8, HostAssumption DEF Meddle
    <2>3. CASE MeddleBridge
      BY <1>8, <2>1, <2>2, <2>3 DEF Meddle, MeddleBridge
    <2>4. ASSUME NEW i \in Iface, MeddleLink(i) PROVE Placed'
      <3>1. link' \in [Iface -> Links] /\ master' \in [Iface -> {"none", "ours", "other"}]
        BY <2>4 DEF MeddleLink, Links, Left
      <3>2. flags' \in [Iface -> SUBSET {"up", "promisc"}]
        BY <2>4 DEF MeddleLink
      <3> QED BY <1>8, <2>1, <2>2, <2>4, <3>1, <3>2 DEF Meddle, MeddleLink
    <2> QED BY <1>8, <2>3, <2>4 DEF Meddle
  <1>9. CASE UNCHANGED vars
    BY <1>0, <1>9 DEF vars
  <1> QED BY <1>1, <1>2, <1>3, <1>4, <1>5, <1>6, <1>7, <1>8, <1>9 DEF BridgeStep

\* The variables have their types, and each device is where its method left it.
THEOREM HostTypeCorrect == Spec => []TypeOK
  <1>1. Init => Placed
    BY PlacedInit
  <1>2. Placed /\ [Next]_vars => Placed'
    BY PlacedDevice, PlacedOthers DEF Next
  <1>3. Placed => TypeOK
    BY DEF Placed
  <1> QED BY <1>1, <1>2, <1>3, PTL DEF Spec

-----------------------------------------------------------------------------
(* The bridge.                                                             *)

\* A bridge that is not there has no ports; what init() has made is down until
\* bridgeUp, or as long as it could not be deleted, and shutdown() succeeds once.
BridgeInv ==
    /\ bridge = "absent" => \A i \in Iface : master[i] # "ours"
    /\ bphase = "closed" => ~init_
    /\ ~meddled => /\ bphase = "ready" => bridge = "up"
                   /\ bphase \in {"new", "socket"} /\ ~found => bridge = "absent"
                   /\ bphase = "init failed" /\ ~found =>
                         bridge = "absent" \/ (unknown /\ bridge = "down")
                   /\ bphase \in {"created", "undo"} /\ ~found => bridge = "down"

\* A device changes nothing of the bridge and of what others have done.
LEMMA DeviceFrame ==
    ASSUME NEW d \in Devices, DeviceStep(d)
    PROVE  UNCHANGED <<bridge, managerVars, meddling, strange, meddled, found, unknown>>
  <1> USE DEF kernelVars, managerVars, history, processVars
  <1>1. CASE Start(d) \/ RunThread(d) \/ AddTAP(d) \/ Stop(d) \/ CancelThread(d)
    BY <1>1 DEF Start, RunThread, AddTAP, Stop, CancelThread
  <1>2. ASSUME NEW side \in Sides, OpenTAP(d, side) \/ Down(d, side)
        PROVE  UNCHANGED <<bridge, managerVars, meddling, strange, meddled, found, unknown>>
    BY <1>2 DEF OpenTAP, Down
  <1>3. ASSUME NEW side \in Sides, NEW flag \in {"up", "promisc"}, SetFlag(d, side, flag)
        PROVE  UNCHANGED <<bridge, managerVars, meddling, strange, meddled, found, unknown>>
    BY <1>3 DEF SetFlag
  <1>4. CASE Unpersist(d) \/ CloseBoth(d) \/ Delete(d) \/ DestroyThread(d)
    BY <1>4 DEF Unpersist, CloseBoth, Delete, DestroyThread
  <1> QED BY <1>1, <1>2, <1>3, <1>4 DEF DeviceStep

\* Only addTAP and the end of a device touch its port.
LEMMA PortChanges ==
    ASSUME Placed, NEW d \in Devices, DeviceStep(d)
    PROVE  \/ UNCHANGED master
           \/ AddTAP(d) /\ bridge # "absent"
           \/ CloseBoth(d) /\ \A i \in Iface : master'[i] \in {master[i], "none"}
  <1> USE DEF kernelVars, managerVars, history, processVars
  <1>1. CASE Start(d) \/ RunThread(d) \/ Stop(d) \/ CancelThread(d)
    BY <1>1 DEF Start, RunThread, Stop, CancelThread
  <1>2. ASSUME NEW side \in Sides, OpenTAP(d, side) \/ Down(d, side)
        PROVE  UNCHANGED master
    BY <1>2 DEF OpenTAP, Down
  <1>3. ASSUME NEW side \in Sides, NEW flag \in {"up", "promisc"}, SetFlag(d, side, flag)
        PROVE  UNCHANGED master
    BY <1>3 DEF SetFlag
  <1>4. CASE Unpersist(d) \/ Delete(d) \/ DestroyThread(d)
    BY <1>4 DEF Unpersist, Delete, DestroyThread
  <1>5. CASE AddTAP(d)
    BY <1>5 DEF AddTAP, AddTAPResult
  <1>6. CASE CloseBoth(d)
    BY <1>6 DEF CloseBoth, Placed, TypeOK
  <1> QED BY <1>1, <1>2, <1>3, <1>4, <1>5, <1>6 DEF DeviceStep

LEMMA BridgeStepInv ==
    ASSUME Placed, BridgeInv, [Next]_vars
    PROVE  /\ BridgeInv'
           /\ init_ /\ bphase' = "closed" =>
                 unknown' \/ (bridge' = "absent" /\ \A i \in Iface : master'[i] # "ours")
  <1> USE DEF BridgeInv, deviceVars, kernelVars, history, managerVars, processVars
  <1>0. master \in [Iface -> {"none", "ours", "other"}] /\ bridge \in {"absent", "down", "up"}
    BY DEF Placed, TypeOK
  <1>1. CASE InitSocket
    BY <1>1 DEF InitSocket
  <1>2. CASE CreateBridge
    BY <1>2 DEF CreateBridge
  <1>3. CASE BridgeUp
    BY <1>3 DEF BridgeUp
  <1>4. CASE UndoInit
    BY <1>0, <1>4 DEF UndoInit, Deletions, DeleteBridge
  <1>5. CASE Shutdown
    BY <1>5 DEF Shutdown
  <1>6. CASE BridgeDown
    BY <1>6 DEF BridgeDown
  <1>7. CASE ShutdownBridge
    BY <1>0, <1>7 DEF ShutdownBridge, Deletions, DeleteBridge, DeleteResult
  <1>8. CASE Meddle
    <2>1. CASE MeddleBridge
      BY <1>0, <1>8, <2>1 DEF Meddle, MeddleBridge
    <2>2. ASSUME NEW i \in Iface, MeddleLink(i)
          PROVE  UNCHANGED <<bridge, meddled>> /\ \A j \in Iface : master'[j] = "ours" => master[j] = "ours"
      BY <1>0, <2>2 DEF MeddleLink
    <2> QED BY <1>8, <2>1, <2>2 DEF Meddle
  <1>9. ASSUME NEW d \in Devices, DeviceStep(d) PROVE BridgeInv' /\ UNCHANGED <<init_, bphase>>
    <2>1. UNCHANGED <<bridge, managerVars, meddling, strange, meddled, found, unknown>>
      BY <1>9, DeviceFrame
    <2>2. bridge = "absent" => \A i \in Iface : master'[i] # "ours"
      BY <1>9, PortChanges
    <2> QED BY <2>1, <2>2
  <1>10. CASE UNCHANGED vars
    BY <1>10 DEF vars
  <1> QED BY <1>1, <1>2, <1>3, <1>4, <1>5, <1>6, <1>7, <1>8, <1>9, <1>10 DEF Next, BridgeStep

LEMMA BridgeInit == Init => BridgeInv
  BY DEF Init, BridgeInv

\* init() sets the bridge up or leaves nothing it has made behind, unless the
\* deletion of the bridge failed as well.
THEOREM BridgeComplete == Spec => []InitAllOrNothing
  <1>1. Init => Placed /\ BridgeInv
    BY PlacedInit, BridgeInit
  <1>2. Placed /\ BridgeInv /\ [Next]_vars => (Placed /\ BridgeInv)'
    BY PlacedDevice, PlacedOthers, BridgeStepInv DEF Next
  <1>3. Placed /\ BridgeInv => InitAllOrNothing
    BY DEF BridgeInv, InitAllOrNothing
  <1> QED BY <1>1, <1>2, <1>3, PTL DEF Spec

\* When shutdown() succeeds the bridge is gone and nothing is a port of it, unless
\* br_del_bridge failed with an error that deleteBridge takes for success.
THEOREM BridgeGone == Spec => ShutdownRemoves
  <1>1. Init => Placed /\ BridgeInv
    BY PlacedInit, BridgeInit
  <1>2. Placed /\ BridgeInv /\ [Next]_vars => (Placed /\ BridgeInv)'
    BY PlacedDevice, PlacedOthers, BridgeStepInv DEF Next
  <1>3. Placed /\ BridgeInv /\ [Next]_vars =>
            [init_ /\ bphase' = "closed" =>
                unknown' \/ (bridge' = "absent" /\ \A i \in Iface : master'[i] # "ours")]_vars
    BY BridgeStepInv
  <1> QED BY <1>1, <1>2, <1>3, PTL DEF Spec, ShutdownRemoves

-----------------------------------------------------------------------------
(* The devices.                                                            *)

\* A descriptor is open as long as this process has the interface, and an
\* interface that nobody else ever had is nobody's or this process's.
Kernel(d) ==
    \A i \in Both(d) :
        /\ fd[i] = "open" <=> link[i] = "ours"
        /\ link[i] = "none" => flags[i] = {}
        /\ i \notin strange => /\ i \notin persistent
                              /\ link[i] \in {"none", "ours"} /\ master[i] \in {"none", "ours"}

\* What start, stop and closeTAP have done so far.
Progress(d) ==
    /\ phase[d] = "new" => fd[<<d, "in">>] = "unset" /\ fd[<<d, "out">>] = "unset"
    /\ phase[d] = "starting" /\ todo[d] = StartCalls =>
           fd[<<d, "in">>] = "unset" /\ fd[<<d, "out">>] = "unset"
    /\ phase[d] = "starting" /\ todo[d] = S6 => fd[<<d, "in">>] # "unset" /\ fd[<<d, "out">>] = "unset"
    /\ phase[d] # "new" /\ todo[d] # StartCalls /\ todo[d] # S6 =>
           fd[<<d, "in">>] # "unset" /\ fd[<<d, "out">>] # "unset"
    /\ d \in thread => \/ phase[d] \in {"started", "placed", "deleting"}
                       \/ phase[d] = "stopping" /\ todo[d] = StopCalls
    /\ phase[d] \in {"failed", "stop failed"} =>
           d \in refused \/ fd[<<d, "in">>] = "bad" \/ fd[<<d, "out">>] = "bad"
    /\ phase[d] = "stopped" => fd[<<d, "in">>] = "bad" /\ fd[<<d, "out">>] = "bad"

\* The flags up() has set so far.
Running(d) == d \in thread /\ phase[d] \in {"started", "placed"}
Lit(d) ==
    /\ <<d, "in">> \notin strange =>
           /\ (phase[d] = "starting" /\ todo[d] \in {S4, S3, S2, S1}) \/ Running(d) =>
                  "promisc" \in flags[<<d, "in">>]
           /\ (phase[d] = "starting" /\ todo[d] \in {S3, S2, S1}) \/ Running(d) =>
                  "up" \in flags[<<d, "in">>]
    /\ <<d, "out">> \notin strange =>
           /\ (phase[d] = "starting" /\ todo[d] \in {S2, S1}) \/ Running(d) =>
                  "promisc" \in flags[<<d, "out">>]
           /\ (phase[d] = "starting" /\ todo[d] = S1) \/ Running(d) =>
                  "up" \in flags[<<d, "out">>]

Port(d) ==
    phase[d] = "placed" =>
        /\ bphase \in {"ready", "closing", "deleting", "closed", "close failed"}
        /\ <<d, "out">> \notin strange /\ bphase = "ready" /\ ~meddled => master[<<d, "out">>] = "ours"

Own(d) == Kernel(d) /\ Progress(d) /\ Lit(d) /\ Port(d)

HostInv == Placed /\ \A d \in Devices : Own(d)

Same(e) ==
    /\ phase'[e] = phase[e] /\ todo'[e] = todo[e] /\ (e \in thread') = (e \in thread)
    /\ (e \in refused') = (e \in refused)
    /\ \A i \in Both(e) : /\ fd'[i] = fd[i] /\ link'[i] = link[i] /\ flags'[i] = flags[i]
                          /\ master'[i] = master[i] /\ (i \in persistent') = (i \in persistent)

LEMMA SameKeeps ==
    ASSUME NEW e \in Devices, Own(e), Same(e), UNCHANGED <<bphase, meddled, strange>>
    PROVE  Own(e)'
  <1> USE DEF Same
  <1>0. <<e, "in">> \in Both(e) /\ <<e, "out">> \in Both(e)
    BY DEF Both
  <1>1. Kernel(e)'
    BY DEF Own, Kernel
  <1>2. Progress(e)'
    BY <1>0 DEF Own, Progress
  <1>3. Lit(e)'
    BY <1>0 DEF Own, Lit, Running
  <1>4. Port(e)'
    BY <1>0 DEF Own, Port
  <1> QED BY <1>1, <1>2, <1>3, <1>4 DEF Own

\* The steps of a device leave the other devices alone.
LEMMA Apart ==
    ASSUME Placed, NEW d \in Devices, NEW e \in Devices, e # d, DeviceStep(d)
    PROVE  Same(e)
  <1> USE DEF kernelVars, managerVars, history, processVars, Same
  <1>0. /\ \A i \in Both(e) : i \notin Both(d) /\ i # <<d, "in">> /\ i # <<d, "out">> /\ i \in Iface
        /\ \A side \in Sides : side = "in" \/ side = "out"
    BY DEF Both, Iface, Sides
  <1>20. /\ phase \in [Devices -> Phases] /\ todo \in [Devices -> Seq(Calls)]
         /\ link \in [Iface -> Links] /\ flags \in [Iface -> SUBSET {"up", "promisc"}]
         /\ master \in [Iface -> {"none", "ours", "other"}]
         /\ fd \in [Iface -> {"unset", "bad", "open"}]
    BY DEF Placed, TypeOK
  <1>1. CASE Start(d)
    BY <1>1, <1>20 DEF Start
  <1>2. CASE RunThread(d)
    BY <1>2, <1>20 DEF RunThread
  <1>3. CASE AddTAP(d)
    <2>1. \A i \in Both(e) : master'[i] = master[i]
      BY <1>0, <1>3, <1>20 DEF AddTAP
    <2>2. phase'[e] = phase[e]
      BY <1>3, <1>20 DEF AddTAP
    <2> QED BY <1>3, <2>1, <2>2 DEF AddTAP
  <1>4. CASE Stop(d)
    BY <1>4, <1>20 DEF Stop
  <1>5. CASE CancelThread(d)
    BY <1>5, <1>20 DEF CancelThread, Advance
  <1>6. ASSUME NEW side \in Sides, OpenTAP(d, side) PROVE Same(e)
    <2>1. \A i \in Both(e) : link'[i] = link[i] /\ fd'[i] = fd[i]
      BY <1>0, <1>6, <1>20 DEF OpenTAP
    <2> QED BY <1>6, <1>20, <2>1 DEF OpenTAP, Advance
  <1>7. ASSUME NEW side \in Sides, Down(d, side) PROVE Same(e)
    <2>1. \A i \in Both(e) : flags'[i] = flags[i]
      BY <1>0, <1>7, <1>20 DEF Down
    <2>2. phase'[e] = phase[e] /\ todo'[e] = todo[e]
      BY <1>7, <1>20 DEF Down, Advance, Closed
    <2>3. (e \in refused') = (e \in refused)
      <3>1. refused' = refused \/ refused' = refused \cup {d}
        BY <1>7 DEF Down
      <3> QED BY <3>1
    <2> QED BY <1>7, <2>1, <2>2, <2>3 DEF Down
  <1>8. ASSUME NEW side \in Sides, NEW flag \in {"up", "promisc"}, SetFlag(d, side, flag)
        PROVE  Same(e)
    <2>1. \A i \in Both(e) : flags'[i] = flags[i]
      BY <1>0, <1>8, <1>20 DEF SetFlag
    <2>2. phase'[e] = phase[e] /\ todo'[e] = todo[e]
      BY <1>8, <1>20 DEF SetFlag, Advance, UpFails, Goto
    <2> QED BY <1>8, <2>1, <2>2 DEF SetFlag
  <1>9. CASE Unpersist(d)
    <2>1. \A i \in Both(e) : (i \in persistent') = (i \in persistent)
      BY <1>0, <1>9 DEF Unpersist
    <2>2. Advance(d) \/ Closed(d, FALSE)
      BY <1>9, Zenon DEF Unpersist
    <2>3. phase'[e] = phase[e] /\ todo'[e] = todo[e]
      BY <2>2, <1>20 DEF Advance, Closed
    <2> QED BY <1>9, <2>1, <2>3 DEF Unpersist
  <1>10. CASE CloseBoth(d)
    <2>1. \A i \in Both(e) : /\ link'[i] = link[i] /\ flags'[i] = flags[i]
                            /\ master'[i] = master[i] /\ fd'[i] = fd[i]
      BY <1>0, <1>10 DEF CloseBoth
    <2>2. phase'[e] = phase[e] /\ todo'[e] = todo[e]
      BY <1>10, <1>20 DEF CloseBoth, Closed
    <2> QED BY <1>10, <2>1, <2>2 DEF CloseBoth
  <1>11. CASE Delete(d)
    BY <1>11, <1>20 DEF Delete
  <1>12. CASE DestroyThread(d)
    BY <1>12, <1>20 DEF DestroyThread
  <1> QED
    BY <1>1, <1>2, <1>3, <1>4, <1>5, <1>6, <1>7, <1>8, <1>9, <1>10, <1>11, <1>12
    DEF DeviceStep

LEMMA OwnTypes ==
    ASSUME Placed, NEW d \in Devices
    PROVE  /\ phase[d] \in Phases /\ d \in DOMAIN phase /\ d \in DOMAIN todo
           /\ Both(d) = {<<d, "in">>, <<d, "out">>} /\ <<d, "in">> # <<d, "out">>
           /\ \A i \in Both(d) : /\ i \in Iface /\ i \in DOMAIN fd /\ i \in DOMAIN link
                                 /\ i \in DOMAIN flags /\ i \in DOMAIN master
                                 /\ link[i] \in Links /\ flags[i] \in SUBSET {"up", "promisc"}
                                 /\ master[i] \in {"none", "ours", "other"}
                                 /\ fd[i] \in {"unset", "bad", "open"}
  BY DEF Placed, TypeOK, Both, Iface, Sides

\* A step of another method: the calls done and the interfaces stay as they were.
LEMMA Steady ==
    ASSUME Placed, NEW d \in Devices, Own(d),
           UNCHANGED <<fd, link, flags, master, persistent, strange, bphase, meddled>>
    PROVE  /\ Kernel(d)'
           /\ \A i \in Both(d) : fd'[i] = fd[i] /\ flags'[i] = flags[i] /\ master'[i] = master[i]
  BY DEF Own, Kernel

LEMMA OwnCalls ==
    ASSUME Placed, NEW d \in Devices, Own(d),
           Start(d) \/ RunThread(d) \/ AddTAP(d) \/ Stop(d) \/ CancelThread(d) \/ Delete(d)
             \/ DestroyThread(d)
    PROVE  Own(d)'
  <1> USE DEF kernelVars, managerVars, history, processVars
  <1>20. /\ phase[d] \in Phases /\ d \in DOMAIN phase /\ d \in DOMAIN todo
         /\ <<d, "in">> \in Both(d) /\ <<d, "out">> \in Both(d)
    BY OwnTypes
  <1>21. Shape(d)
    BY DEF Placed
  <1>1. CASE Start(d)
    <2>1. /\ phase[d] = "new" /\ phase'[d] = "starting" /\ todo'[d] = StartCalls /\ thread' = thread
          /\ UNCHANGED <<fd, link, flags, master, persistent, strange, bphase, meddled>>
      BY <1>1, <1>20 DEF Start
    <2>2. Kernel(d)' /\ Port(d)'
      BY <2>1, Steady DEF Port
    <2>3. Progress(d)'
      BY <2>1, Different DEF Own, Progress
    <2>4. Lit(d)'
      BY <2>1, Different DEF Own, Lit, Running, Raising
    <2> QED BY <2>2, <2>3, <2>4 DEF Own
  <1>2. CASE RunThread(d)
    <2>1. /\ phase[d] = "starting" /\ todo[d] = S1
      BY <1>2, <1>21, Where DEF RunThread
    <2>2. /\ phase'[d] = "started" /\ todo'[d] = << >> /\ d \in thread'
          /\ UNCHANGED <<fd, link, flags, master, persistent, strange, bphase, meddled>>
      BY <1>2, <1>20 DEF RunThread
    <2>3. Kernel(d)' /\ Port(d)'
      BY <2>2, Steady DEF Port
    <2>4. Progress(d)'
      BY <2>1, <2>2, Different DEF Own, Progress, Raising
    <2>5. Lit(d)'
      <3>1. todo[d] \in {S4, S3, S2, S1} /\ todo[d] \in {S3, S2, S1} /\ todo[d] \in {S2, S1}
        BY <2>1
      <3>2. /\ <<d, "in">> \notin strange => {"up", "promisc"} \subseteq flags[<<d, "in">>]
            /\ <<d, "out">> \notin strange => {"up", "promisc"} \subseteq flags[<<d, "out">>]
        BY <2>1, <3>1 DEF Own, Lit
      <3> QED BY <2>2, <3>2 DEF Lit
    <2> QED BY <2>3, <2>4, <2>5 DEF Own
  <1>3. CASE AddTAP(d)
    <2>1. /\ UNCHANGED <<fd, link, flags, persistent, strange, bphase, meddled, todo, thread, refused>>
          /\ phase[d] \in {"started", "failed"}
          /\ bphase \in {"ready", "closing", "deleting", "closed", "close failed"}
      BY <1>3 DEF AddTAP
    <2>2. \/ phase'[d] = phase[d] /\ master' = master
          \/ /\ phase'[d] = "placed" /\ link[<<d, "out">>] # "none"
             /\ master' = [master EXCEPT ![<<d, "out">>] =
                             IF @ = "none" /\ link[<<d, "out">>] # "none" THEN "ours" ELSE @]
      BY <1>3, <1>20 DEF AddTAP, AddTAPResult
    <2>3. Kernel(d)'
      BY <2>1, <2>2, OwnTypes DEF Own, Kernel
    <2>4. Progress(d)'
      BY <2>1, <2>2 DEF Own, Progress
    <2>5. Lit(d)'
      <3>1. phase'[d] # "starting" /\ (Running(d)' => Running(d))
        BY <2>1, <2>2 DEF Own, Progress, Running
      <3> QED BY <2>1, <3>1 DEF Own, Lit
    <2>6. Port(d)'
      BY <2>1, <2>2, OwnTypes DEF Own, Kernel, Port
    <2> QED BY <2>3, <2>4, <2>5, <2>6 DEF Own
  <1>4. CASE Stop(d)
    <2>1. /\ UNCHANGED <<fd, link, flags, master, persistent, strange, bphase, meddled, thread,
                         refused>>
          /\ phase[d] \in {"started", "failed"} /\ todo[d] = << >>
          /\ \/ phase'[d] = phase[d] /\ todo'[d] = todo[d]
             \/ phase'[d] = "stopping" /\ todo'[d] = StopCalls
      BY <1>4, <1>20, <1>21 DEF Stop, Shape, Busy
    <2>2. Kernel(d)' /\ Port(d)'
      BY <2>1, Steady DEF Own, Port
    <2>3. Progress(d)'
      BY <2>1, Different DEF Own, Progress
    <2>4. Lit(d)'
      BY <2>1 DEF Own, Lit, Running
    <2> QED BY <2>2, <2>3, <2>4 DEF Own
  <1>5. CASE CancelThread(d)
    <2>1. phase[d] = "stopping" /\ todo[d] = StopCalls /\ Tail(todo[d]) = T6
      BY <1>5, <1>21, Where DEF CancelThread
    <2>2. /\ UNCHANGED <<fd, link, flags, master, persistent, strange, bphase, meddled>>
          /\ phase'[d] = "stopping" /\ todo'[d] = T6 /\ d \notin thread'
      BY <1>5, <1>20, <2>1 DEF CancelThread, Advance
    <2>3. Kernel(d)' /\ Port(d)'
      BY <2>2, Steady DEF Port
    <2>4. Progress(d)'
      BY <2>1, <2>2, Different, HeadsTails DEF Own, Progress, Heads
    <2>5. Lit(d)'
      BY <2>2 DEF Lit, Running
    <2> QED BY <2>3, <2>4, <2>5 DEF Own
  <1>6. CASE Delete(d)
    <2>1. /\ phase[d] \in {"started", "failed", "placed", "stopped", "stop failed"} /\ todo[d] = << >>
          /\ phase'[d] = "deleting" /\ todo'[d] \in {CloseCalls, DestroyCalls}
          /\ UNCHANGED <<fd, link, flags, master, persistent, strange, bphase, meddled, thread>>
      BY <1>6, <1>20, <1>21 DEF Delete, Shape, Busy
    <2>2. Kernel(d)' /\ Port(d)'
      BY <2>1, Steady DEF Port
    <2>3. Progress(d)'
      BY <2>1, Different DEF Own, Progress
    <2>4. Lit(d)'
      BY <2>1 DEF Lit, Running
    <2> QED BY <2>2, <2>3, <2>4 DEF Own
  <1>7. CASE DestroyThread(d)
    <2>1. phase[d] = "deleting" /\ todo[d] = DestroyCalls
      BY <1>7, <1>21, Where DEF DestroyThread
    <2>2. /\ UNCHANGED <<fd, link, flags, master, persistent, strange, bphase, meddled, thread>>
          /\ \/ phase'[d] = phase[d] /\ todo'[d] = todo[d]
             \/ phase'[d] = "deleted" /\ todo'[d] = << >> /\ d \notin thread
      BY <1>7, <1>20 DEF DestroyThread
    <2>3. Kernel(d)' /\ Port(d)'
      BY <2>1, <2>2, Steady DEF Port
    <2>4. Progress(d)'
      BY <2>1, <2>2, Different, HeadsTails DEF Own, Progress, Heads
    <2>5. Lit(d)'
      BY <2>1, <2>2 DEF Lit, Running
    <2> QED BY <2>3, <2>4, <2>5 DEF Own
  <1> QED BY <1>1, <1>2, <1>3, <1>4, <1>5, <1>6, <1>7

\* openTAP, if_promsic and if_up, if_down.
LEMMA OwnOpens ==
    ASSUME Placed, NEW d \in Devices, Own(d), NEW side \in Sides, OpenTAP(d, side)
    PROVE  Own(d)'
  <1> USE DEF kernelVars, managerVars, history, processVars
  <1> DEFINE a == <<d, "in">>
             b == <<d, "out">>
  <1>20. /\ d \in DOMAIN todo /\ Both(d) = {a, b} /\ a # b
         /\ \A i \in Both(d) : i \in DOMAIN fd /\ i \in DOMAIN link
    BY OwnTypes
  <1>1. /\ UNCHANGED <<flags, master, persistent, strange, bphase, meddled, thread, phase>>
        /\ todo' = [todo EXCEPT ![d] = Tail(@)]
        /\ \/ /\ link[<<d, side>>] \in {"none", "free"}
              /\ link' = [link EXCEPT ![<<d, side>>] = "ours"]
              /\ fd' = [fd EXCEPT ![<<d, side>>] = "open"]
           \/ fd' = [fd EXCEPT ![<<d, side>>] = "bad"] /\ link' = link
    BY DEF OpenTAP, Advance
  <1>2. \/ side = "in" /\ phase[d] = "starting" /\ todo[d] = StartCalls /\ Tail(todo[d]) = S6
        \/ side = "out" /\ phase[d] = "starting" /\ todo[d] = S6 /\ Tail(todo[d]) = S5
    BY Where DEF OpenTAP, Sides, Placed
  <1>3. /\ side = "in" => fd[a] = "unset" /\ fd[b] = "unset"
        /\ side = "out" => fd[a] # "unset" /\ fd[b] = "unset"
    BY <1>2, Different DEF Own, Progress, Raising
  <1>4. fd[<<d, side>>] # "open" /\ link[<<d, side>>] # "ours" /\ <<d, side>> \in Both(d)
    BY <1>2, <1>3, <1>20 DEF Own, Kernel
  <1>5. Kernel(d)'
    BY <1>1, <1>4, <1>20 DEF Own, Kernel
  <1>6. phase'[d] = "starting" /\ todo'[d] = IF side = "in" THEN S6 ELSE S5
    BY <1>1, <1>2, <1>20
  <1>7. Progress(d)'
    <2>1. CASE side = "in"
      <3>1. fd'[a] \in {"open", "bad"} /\ fd'[b] = "unset" /\ todo'[d] = S6
        BY <1>1, <1>3, <1>6, <1>20, <2>1
      <3> QED BY <1>1, <1>2, <1>6, <2>1, <3>1, Different DEF Own, Progress
    <2>2. CASE side = "out"
      <3>1. fd'[b] \in {"open", "bad"} /\ fd'[a] # "unset" /\ todo'[d] = S5
        BY <1>1, <1>2, <1>3, <1>6, <1>20, <2>2
      <3> QED BY <1>1, <1>2, <1>6, <2>2, <3>1, Different DEF Own, Progress, Raising
    <2> QED BY <1>2, <2>1, <2>2
  <1>8. Lit(d)'
    <2>1. todo'[d] \notin {S4, S3, S2, S1}
      BY <1>6, Different DEF Raising
    <2> QED BY <1>6, <2>1 DEF Lit, Running
  <1>9. Port(d)'
    BY <1>6 DEF Port
  <1> QED BY <1>5, <1>7, <1>8, <1>9 DEF Own

LEMMA OwnFlags ==
    ASSUME Placed, NEW d \in Devices, Own(d), NEW side \in Sides, NEW flag \in {"up", "promisc"},
           SetFlag(d, side, flag)
    PROVE  Own(d)'
  <1> USE DEF kernelVars, managerVars, history, processVars
  <1> DEFINE a == <<d, "in">>
             b == <<d, "out">>
             i == <<d, side>>
  <1>20. /\ d \in DOMAIN todo /\ Both(d) = {a, b} /\ a # b
         /\ \A j \in Both(d) : j \in DOMAIN flags /\ j \in Iface
         /\ flags \in [Iface -> SUBSET {"up", "promisc"}]
    BY OwnTypes DEF Placed, TypeOK
  <1>1. /\ UNCHANGED <<link, master, persistent, strange, bphase, meddled, thread, phase, fd>>
        /\ \/ /\ link[i] # "none" /\ flags' = [flags EXCEPT ![i] = @ \cup {flag}]
              /\ todo' = [todo EXCEPT ![d] = Tail(@)]
           \/ flags' = flags /\ todo' = [todo EXCEPT ![d] = CloseCalls]
           \/ flags' = flags /\ todo' = todo
    BY DEF SetFlag, Advance, UpFails, Goto
  <1>2. /\ phase[d] = "starting"
        /\ \/ side = "in" /\ flag = "promisc" /\ todo[d] = S5 /\ Tail(todo[d]) = S4
           \/ side = "in" /\ flag = "up" /\ todo[d] = S4 /\ Tail(todo[d]) = S3
           \/ side = "out" /\ flag = "promisc" /\ todo[d] = S3 /\ Tail(todo[d]) = S2
           \/ side = "out" /\ flag = "up" /\ todo[d] = S2 /\ Tail(todo[d]) = S1
    BY Where DEF SetFlag, Sides, Placed
  <1>3. Kernel(d)'
    BY <1>1, <1>20 DEF Own, Kernel, Sides
  <1>4. todo[d] \in Raising /\ todo'[d] \in Raising \cup Closing
    BY <1>1, <1>2, <1>20 DEF Raising, Closing
  <1>5. Progress(d)'
    BY <1>1, <1>2, <1>4, Different DEF Own, Progress
  <1>6. Lit(d)'
    <2>1. CASE flags' = flags /\ todo' = [todo EXCEPT ![d] = CloseCalls]
      <3>1. todo'[d] \notin {S4, S3, S2, S1} /\ phase'[d] = "starting"
        BY <1>1, <1>2, <1>20, <2>1, Different DEF Raising, Closing
      <3> QED BY <3>1 DEF Lit, Running
    <2>2. CASE /\ flags' = [flags EXCEPT ![i] = @ \cup {flag}]
               /\ todo' = [todo EXCEPT ![d] = Tail(@)]
      <3>1. /\ todo'[d] = Tail(todo[d]) /\ phase'[d] = "starting"
            /\ \A j \in {a, b} : flags[j] \subseteq flags'[j] /\ (j = i => flag \in flags'[j])
        BY <1>1, <1>2, <1>20, <2>2
      <3>2. CASE todo[d] = S5
        BY <1>1, <1>2, <3>1, <3>2, Different DEF Lit, Running
      <3>3. CASE todo[d] = S4
        BY <1>1, <1>2, <3>1, <3>3, Different DEF Own, Lit, Running
      <3>4. CASE todo[d] = S3
        BY <1>1, <1>2, <3>1, <3>4, Different DEF Own, Lit, Running
      <3>5. CASE todo[d] = S2
        BY <1>1, <1>2, <3>1, <3>5, Different DEF Own, Lit, Running
      <3> QED BY <1>2, <3>2, <3>3, <3>4, <3>5
    <2>3. CASE flags' = flags /\ todo' = todo
      BY <1>1, <2>3 DEF Own, Lit, Running
    <2> QED BY <1>1, <2>1, <2>2, <2>3
  <1>7. Port(d)'
    BY <1>1, <1>2 DEF Port
  <1> QED BY <1>3, <1>5, <1>6, <1>7 DEF Own

\* closeTAP: the calls of start() are over, and what it does not close was not open.
LEMMA CloseKeeps ==
    ASSUME Placed, NEW d \in Devices, Own(d),
           UNCHANGED <<strange, bphase, meddled, thread>>,
           phase[d] \in Busy, todo[d] \in {T6, T5} \cup Closing,
           \A j \in Both(d) : fd'[j] = fd[j] \/ fd'[j] = "bad",
           \/ Advance(d) /\ Tail(todo[d]) \in {T5} \cup Closing
           \/ \E ok \in BOOLEAN :
                 /\ Closed(d, ok)
                 /\ d \in refused' \/ fd'[<<d, "in">>] = "bad" \/ fd'[<<d, "out">>] = "bad"
                 /\ ok => fd'[<<d, "in">>] = "bad" /\ fd'[<<d, "out">>] = "bad"
    PROVE  Progress(d)' /\ Lit(d)' /\ Port(d)'
  <1> DEFINE a == <<d, "in">>
             b == <<d, "out">>
  <1>1. d \in DOMAIN todo /\ d \in DOMAIN phase /\ Both(d) = {a, b}
    BY OwnTypes
  <1>2. /\ todo[d] # StartCalls /\ todo[d] # S6 /\ todo[d] # StopCalls /\ todo[d] \notin Raising
    BY Different
  <1>3. fd'[a] # "unset" /\ fd'[b] # "unset"
    <2>1. fd[a] # "unset" /\ fd[b] # "unset"
      BY <1>2 DEF Own, Progress, Busy
    <2> QED BY <1>1, <2>1
  <1>4. d \in thread' => phase[d] = "deleting"
    BY <1>2 DEF Own, Progress, Busy
  <1>5. CASE Advance(d) /\ Tail(todo[d]) \in {T5} \cup Closing
    <2>1. phase'[d] = phase[d] /\ todo'[d] \in {T5} \cup Closing
      BY <1>1, <1>5 DEF Advance
    <2>2. todo'[d] # StartCalls /\ todo'[d] # S6 /\ todo'[d] \notin Raising
      BY <2>1, Different
    <2> QED BY <1>3, <1>4, <2>1, <2>2 DEF Progress, Lit, Port, Running, Busy, Raising
  <1>6. ASSUME NEW ok \in BOOLEAN, Closed(d, ok),
               d \in refused' \/ fd'[a] = "bad" \/ fd'[b] = "bad",
               ok => fd'[a] = "bad" /\ fd'[b] = "bad"
        PROVE  Progress(d)' /\ Lit(d)' /\ Port(d)'
    <2>1. phase'[d] = Outcome(phase[d], ok) /\ todo'[d] \in {<< >>, DestroyCalls}
      BY <1>1, <1>6 DEF Closed
    <2>2. todo'[d] # StartCalls /\ todo'[d] # S6
      BY <2>1, Different
    <2>3. CASE phase[d] = "starting"
      <3>1. phase'[d] = "failed"
        BY <2>1, <2>3, Outcomes, Zenon
      <3> QED BY <1>3, <1>4, <1>6, <2>2, <2>3, <3>1 DEF Progress, Lit, Port, Running
    <2>4. CASE phase[d] = "stopping"
      <3>1. phase'[d] = IF ok THEN "stopped" ELSE "stop failed"
        BY <2>1, <2>4, Outcomes, Zenon
      <3> QED BY <1>3, <1>4, <1>6, <2>2, <2>4, <3>1 DEF Progress, Lit, Port, Running
    <2>5. CASE phase[d] = "deleting"
      <3>1. phase'[d] = "deleting"
        BY <2>1, <2>5, Outcomes, Zenon
      <3> QED BY <1>3, <1>4, <1>6, <2>2, <3>1 DEF Progress, Lit, Port, Running
    <2> QED BY <2>3, <2>4, <2>5 DEF Busy
  <1> QED BY <1>5, <1>6

LEMMA OwnCloses ==
    ASSUME Placed, NEW d \in Devices, Own(d),
           (\E side \in Sides : Down(d, side)) \/ Unpersist(d) \/ CloseBoth(d)
    PROVE  Own(d)'
  <1> USE DEF kernelVars, managerVars, history, processVars
  <1> DEFINE a == <<d, "in">>
             b == <<d, "out">>
  <1>20. /\ Both(d) = {a, b} /\ a # b
         /\ \A j \in Both(d) : /\ j \in DOMAIN flags /\ j \in DOMAIN link /\ j \in Iface
                               /\ fd[j] \in {"unset", "bad", "open"}
    BY OwnTypes
  <1>1. ASSUME NEW side \in Sides, Down(d, side) PROVE Own(d)'
    <2> DEFINE i == <<d, side>>
    <2>1. /\ UNCHANGED <<strange, bphase, meddled, thread, link, persistent, fd, master>>
          /\ \/ link[i] # "none" /\ flags' = [flags EXCEPT ![i] = @ \ {"up"}] /\ Advance(d)
             \/ flags' = flags /\ Closed(d, FALSE) /\ (link[i] = "none" \/ d \in refused')
      BY <1>1 DEF Down
    <2>2. /\ phase[d] \in Busy /\ i \in Both(d)
          /\ todo[d] \in {T6, T5} \cup Closing /\ Tail(todo[d]) \in {T5} \cup Closing
      BY <1>1, <1>20, Where DEF Down, Placed, Sides, Closing
    <2>3. Kernel(d)'
      BY <2>1, <2>2, <1>20 DEF Own, Kernel
    <2>4. fd[a] # "unset" /\ fd[b] # "unset"
      BY <2>2, Different DEF Own, Progress, Busy
    <2>5. link[i] = "none" => fd[i] = "bad"
      BY <1>20, <2>2, <2>4 DEF Own, Kernel
    <2>6. Progress(d)' /\ Lit(d)' /\ Port(d)'
      <3>1. CASE Advance(d)
        BY <2>1, <2>2, <3>1, CloseKeeps
      <3>2. CASE Closed(d, FALSE) /\ (link[i] = "none" \/ d \in refused')
        <4>1. d \in refused' \/ fd'[a] = "bad" \/ fd'[b] = "bad"
          BY <1>20, <2>1, <2>2, <2>5, <3>2
        <4> QED BY <2>1, <2>2, <3>2, <4>1, CloseKeeps
      <3> QED BY <2>1, <3>1, <3>2
    <2> QED BY <2>3, <2>6 DEF Own
  <1>2. CASE Unpersist(d)
    <2> DEFINE done == IF fd[a] # "open" THEN {} ELSE {i \in Both(d) : fd[i] = "open"}
    <2>1. /\ UNCHANGED <<strange, bphase, meddled, thread, link, flags, fd, master>>
          /\ persistent' = persistent \ done
          /\ \/ done = Both(d) /\ Advance(d)
             \/ done # Both(d) /\ Closed(d, FALSE)
      BY <1>2 DEF Unpersist
    <2>2. /\ phase[d] \in Busy /\ todo[d] \in Closing /\ Tail(todo[d]) \in Closing
      BY <1>2, Where DEF Unpersist, Placed, Closing
    <2>3. Kernel(d)'
      BY <2>1, <1>20 DEF Own, Kernel
    <2>4. fd[a] # "unset" /\ fd[b] # "unset"
      BY <2>2, Different DEF Own, Progress, Busy
    <2>5. done # Both(d) => fd[a] = "bad" \/ fd[b] = "bad"
      BY <1>20, <2>4
    <2> HIDE DEF done
    <2>6. Progress(d)' /\ Lit(d)' /\ Port(d)'
      <3>1. CASE Advance(d)
        BY <2>1, <2>2, <3>1, CloseKeeps
      <3>2. CASE Closed(d, FALSE) /\ done # Both(d)
        <4>1. fd'[a] = "bad" \/ fd'[b] = "bad"
          BY <2>1, <2>5, <3>2
        <4> QED BY <2>1, <2>2, <3>2, <4>1, CloseKeeps
      <3> QED BY <2>1, <3>1, <3>2
    <2> QED BY <2>3, <2>6 DEF Own
  <1>3. CASE CloseBoth(d)
    <2>1. UNCHANGED <<strange, bphase, meddled, thread, persistent>> /\ Closed(d, TRUE)
      BY <1>3 DEF CloseBoth
    <2>2. phase[d] \in Busy /\ todo[d] \in Closing
      BY <1>3, Where DEF CloseBoth, Placed, Closing
    <2>3. \A i \in Both(d) :
             /\ fd'[i] = "bad"
             /\ link'[i] = IF link[i] = "ours" THEN Left(i) ELSE link[i]
             /\ flags'[i] = IF link[i] = "ours" /\ Left(i) = "none" THEN {} ELSE flags[i]
             /\ master'[i] = IF link[i] = "ours" /\ Left(i) = "none" THEN "none" ELSE master[i]
      BY <1>3, <1>20 DEF CloseBoth
    <2>4. Kernel(d)'
      BY <2>1, <2>3 DEF Own, Kernel, Left
    <2>5. Progress(d)' /\ Lit(d)' /\ Port(d)'
      BY <1>20, <2>1, <2>2, <2>3, CloseKeeps
    <2> QED BY <2>4, <2>5 DEF Own
  <1> QED BY <1>1, <1>2, <1>3

LEMMA OwnDevice ==
    ASSUME HostInv, NEW d \in Devices, DeviceStep(d), NEW e \in Devices
    PROVE  Own(e)'
  <1>1. Placed /\ Own(e)
    BY DEF HostInv
  <1>2. CASE e # d
    <2>1. Same(e)
      BY <1>1, <1>2, Apart
    <2>2. UNCHANGED <<bphase, meddled, strange>>
      BY DeviceFrame DEF managerVars
    <2> QED BY <1>1, <2>1, <2>2, SameKeeps
  <1>3. CASE e = d
    <2>1. CASE \/ Start(d) \/ RunThread(d) \/ AddTAP(d) \/ Stop(d) \/ CancelThread(d) \/ Delete(d)
               \/ DestroyThread(d)
      BY <1>1, <1>3, <2>1, OwnCalls
    <2>2. CASE (\E side \in Sides : Down(d, side)) \/ Unpersist(d) \/ CloseBoth(d)
      BY <1>1, <1>3, <2>2, OwnCloses
    <2>3. CASE \E side \in Sides : OpenTAP(d, side)
      BY <1>1, <1>3, <2>3, OwnOpens
    <2>4. CASE \E side \in Sides : \E flag \in {"up", "promisc"} : SetFlag(d, side, flag)
      BY <1>1, <1>3, <2>4, OwnFlags
    <2> QED BY <2>1, <2>2, <2>3, <2>4, Zenon DEF DeviceStep
  <1> QED BY <1>2, <1>3

\* The bridge manager frees ports only when it takes the bridge down.
LEMMA OwnBridge ==
    ASSUME HostInv, BridgeStep, NEW d \in Devices
    PROVE  Own(d)'
  <1> USE DEF deviceVars, kernelVars, history, managerVars, processVars
  <1>0. Own(d) /\ <<d, "out">> \in Both(d) /\ (\A i \in Both(d) : i \in Iface)
    BY OwnTypes DEF HostInv
  <1>1. UNCHANGED <<deviceVars, link, persistent, flags, strange, refused>>
    BY DEF BridgeStep, InitSocket, CreateBridge, BridgeUp, UndoInit, Shutdown, BridgeDown,
           ShutdownBridge
  <1>2. \/ master' = master
        \/ master' = [i \in Iface |-> IF master[i] = "ours" THEN "none" ELSE master[i]]
    BY DEF BridgeStep, InitSocket, CreateBridge, BridgeUp, UndoInit, Shutdown, BridgeDown,
           ShutdownBridge, DeleteBridge
  <1>3. Kernel(d)'
    BY <1>0, <1>1, <1>2 DEF Own, Kernel
  <1>4. Progress(d)'
    BY <1>0, <1>1 DEF Own, Progress
  <1>5. Lit(d)'
    BY <1>0, <1>1 DEF Own, Lit, Running
  <1>6. Port(d)'
    <2>1. CASE InitSocket
      BY <1>0, <2>1 DEF InitSocket, Own, Port
    <2>2. CASE CreateBridge
      BY <1>0, <2>2 DEF CreateBridge, Own, Port
    <2>3. CASE BridgeUp
      BY <1>0, <2>3 DEF BridgeUp, Own, Port
    <2>4. CASE UndoInit
      BY <1>0, <2>4 DEF UndoInit, Own, Port
    <2>5. CASE Shutdown
      BY <1>0, <2>5 DEF Shutdown, Own, Port
    <2>6. CASE BridgeDown
      BY <1>0, <2>6 DEF BridgeDown, Own, Port
    <2>7. CASE ShutdownBridge
      BY <1>0, <2>7 DEF ShutdownBridge, Own, Port
    <2> QED BY <2>1, <2>2, <2>3, <2>4, <2>5, <2>6, <2>7 DEF BridgeStep
  <1> QED BY <1>3, <1>4, <1>5, <1>6 DEF Own

\* What others do to an interface marks it; what they do to the bridge marks the bridge.
LEMMA OwnMeddled ==
    ASSUME HostInv, Meddle, NEW d \in Devices
    PROVE  Own(d)'
  <1> USE DEF deviceVars, kernelVars, history, managerVars, processVars
  <1>0. /\ Own(d) /\ <<d, "out">> \in Both(d) /\ <<d, "in">> \in Both(d)
        /\ \A i \in Both(d) : i \in Iface
        /\ link \in [Iface -> Links] /\ flags \in [Iface -> SUBSET {"up", "promisc"}]
        /\ master \in [Iface -> {"none", "ours", "other"}]
    BY OwnTypes DEF HostInv, Placed, TypeOK
  <1>1. UNCHANGED <<fd, thread, phase, todo, bphase, refused>>
    BY DEF Meddle
  <1>2. CASE MeddleBridge
    <2>1. /\ UNCHANGED <<link, persistent, flags, strange>> /\ meddled'
          /\ \A i \in Iface : master'[i] \in {master[i], "none"}
      BY <1>0, <1>2 DEF MeddleBridge
    <2>2. Kernel(d)'
      BY <1>0, <1>1, <2>1 DEF Own, Kernel
    <2>3. Progress(d)'
      BY <1>0, <1>1 DEF Own, Progress
    <2>4. Lit(d)'
      BY <1>0, <1>1, <2>1 DEF Own, Lit, Running
    <2>5. Port(d)'
      BY <1>0, <1>1, <2>1 DEF Own, Port
    <2> QED BY <2>2, <2>3, <2>4, <2>5 DEF Own
  <1>3. ASSUME NEW j \in Iface, MeddleLink(j) PROVE Own(d)'
    <2>1. /\ UNCHANGED <<persistent, meddled>> /\ strange' = strange \cup {j}
          /\ \A i \in Iface \ {j} : link'[i] = link[i] /\ flags'[i] = flags[i] /\ master'[i] = master[i]
      BY <1>0, <1>3 DEF MeddleLink
    <2>2. /\ link'[j] = "ours" <=> link[j] = "ours"
          /\ link'[j] = "none" => flags'[j] = {}
      <3>1. link'[j] = "ours" <=> link[j] = "ours"
        BY <1>0, <1>3 DEF MeddleLink, Left
      <3>2. flags'[j] = IF link'[j] = "none" THEN {} ELSE flags[j]
        BY <1>0, <1>3 DEF MeddleLink
      <3> QED BY <3>1, <3>2
    <2>3. Kernel(d)'
      <3>1. ASSUME NEW i \in Both(d), i = j
            PROVE  (fd'[i] = "open" <=> link'[i] = "ours") /\ (link'[i] = "none" => flags'[i] = {})
        BY <1>0, <1>1, <2>2, <3>1 DEF Own, Kernel
      <3> QED BY <1>0, <1>1, <2>1, <3>1 DEF Own, Kernel
    <2>4. Progress(d)'
      BY <1>0, <1>1 DEF Own, Progress
    <2>5. Lit(d)'
      BY <1>0, <1>1, <2>1 DEF Own, Lit, Running
    <2>6. Port(d)'
      BY <1>0, <1>1, <2>1 DEF Own, Port
    <2> QED BY <2>3, <2>4, <2>5, <2>6 DEF Own
  <1> QED BY <1>2, <1>3 DEF Meddle

LEMMA HostInvInit == Init => HostInv
  <1> SUFFICES ASSUME Init, NEW d \in Devices PROVE Own(d)
    BY PlacedInit DEF HostInv
  <1>1. Both(d) \subseteq Iface /\ <<d, "in">> \in Iface /\ <<d, "out">> \in Iface
    BY DEF Both, Iface, Sides
  <1>2. Kernel(d)
    BY <1>1 DEF Init, Kernel
  <1>3. Progress(d) /\ Lit(d) /\ Port(d)
    BY <1>1 DEF Init, Progress, Lit, Port, Running
  <1> QED BY <1>2, <1>3 DEF Own

LEMMA HostInvStep == HostInv /\ [Next]_vars => HostInv'
  <1> SUFFICES ASSUME HostInv, [Next]_vars PROVE HostInv'
    OBVIOUS
  <1>1. Placed'
    BY PlacedDevice, PlacedOthers DEF HostInv, Next
  <1>2. ASSUME NEW e \in Devices PROVE Own(e)'
    <2>1. ASSUME NEW d \in Devices, DeviceStep(d) PROVE Own(e)'
      BY <2>1, OwnDevice
    <2>2. CASE BridgeStep
      BY <2>2, OwnBridge
    <2>3. CASE Meddle
      BY <2>3, OwnMeddled
    <2>4. CASE UNCHANGED vars
      <3>1. Same(e) /\ UNCHANGED <<bphase, meddled, strange>>
        BY <2>4 DEF vars, deviceVars, kernelVars, history, managerVars, processVars, Same
      <3> QED BY <3>1, SameKeeps DEF HostInv
    <2> QED BY <2>1, <2>2, <2>3, <2>4 DEF Next
  <1> QED BY <1>1, <1>2 DEF HostInv

\* A running device forwards between its own interfaces, up and promiscuous,
\* unless another process has had one of them.
THEOREM DevicesForward == Spec => []ForwardsUnlessTaken
  <1>1. HostInv => ForwardsUnlessTaken
    <2> SUFFICES ASSUME HostInv, NEW d \in thread, phase[d] \in {"started", "placed"},
                        NEW i \in Both(d) \ strange
                 PROVE  fd[i] = "open" /\ link[i] = "ours" /\ flags[i] = {"up", "promisc"}
      BY DEF ForwardsUnlessTaken
    <2>1. d \in Devices /\ Own(d)
      BY DEF HostInv, Placed, TypeOK
    <2>2. flags[i] \in SUBSET {"up", "promisc"} /\ i \in {<<d, "in">>, <<d, "out">>}
      BY <2>1, OwnTypes DEF HostInv
    <2>3. "up" \in flags[i] /\ "promisc" \in flags[i]
      BY <2>1, <2>2 DEF Own, Lit, Running
    <2>4. link[i] = "ours" /\ fd[i] = "open"
      BY <2>1, <2>3 DEF Own, Kernel
    <2> QED BY <2>2, <2>3, <2>4
  <1> QED BY <1>1, HostInvInit, HostInvStep, PTL DEF Spec

\* A start() or stop() that failed leaves no thread, and at most what the kernel
\* refused to take down; a stop() that succeeded leaves nothing.
THEOREM DevicesGiveBack == Spec => []GivesBack
  <1>1. HostInv => GivesBack
    <2> SUFFICES ASSUME HostInv, NEW d \in Devices
                 PROVE  /\ phase[d] \in {"failed", "stop failed"} =>
                              d \notin thread /\ (d \in refused \/ \E i \in Both(d) : fd[i] = "bad")
                        /\ phase[d] = "stopped" =>
                              /\ d \notin thread
                              /\ \A i \in Both(d) : fd[i] # "open" /\ (i \notin strange => link[i] = "none")
      BY DEF GivesBack
    <2>1. Own(d) /\ Both(d) = {<<d, "in">>, <<d, "out">>}
      BY OwnTypes DEF HostInv
    <2>2. ASSUME phase[d] \in {"failed", "stop failed"}
          PROVE  d \notin thread /\ (d \in refused \/ \E i \in Both(d) : fd[i] = "bad")
      BY <2>1, <2>2 DEF Own, Progress
    <2>3. ASSUME phase[d] = "stopped"
          PROVE  /\ d \notin thread
                 /\ \A i \in Both(d) : fd[i] # "open" /\ (i \notin strange => link[i] = "none")
      <3>1. d \notin thread /\ \A i \in Both(d) : fd[i] = "bad"
        BY <2>1, <2>3 DEF Own, Progress
      <3> QED BY <2>1, <3>1 DEF Own, Kernel
    <2> QED BY <2>2, <2>3
  <1> QED BY <1>1, HostInvInit, HostInvStep, PTL DEF Spec

\* A device that was placed is a port of the bridge while both are up.
THEOREM PortsStay == Spec => []PlacedIsPort
  <1>1. HostInv => PlacedIsPort
    BY DEF HostInv, Own, Port, PlacedIsPort
  <1> QED BY <1>1, HostInvInit, HostInvStep, PTL DEF Spec
=============================================================================
