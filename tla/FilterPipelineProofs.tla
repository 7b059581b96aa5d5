------------------------ MODULE FilterPipelineProofs ------------------------
(***************************************************************************)
(* What FilterPipeline promises about actions, freezing, verdicts and held *)
(* packets, for any machines, rules and number of packets.                 *)
(***************************************************************************)
EXTENDS FilterPipeline, FiniteSetTheorems, TLAPS

-----------------------------------------------------------------------------
(* Rules and actions.                                                      *)

Rule == [mark : Marks \cup {NoMark}, action : Action, arg : Params]
Answer == [action : Action, arg : Params]

\* addFilter lets no rule in that handleRequest could not carry out.
RulesOK ==
    /\ DOMAIN filter \subseteq DOMAIN Configured
    /\ \A i \in DOMAIN filter :
          /\ filter[i] \in Rule
          /\ filter[i].action # "UNKOWN"
          /\ filter[i].action \in {"RUNSCRIPT", "STARTVM"} => filter[i].arg # ""

LEMMA RulesInit == Init => RulesOK
  <1> SUFFICES ASSUME Init PROVE RulesOK
    OBVIOUS
  <1>1. CASE filter = << >>
    BY <1>1 DEF RulesOK
  <1>2. CASE filter \in AddFilters
    <2> DEFINE kept == {i \in DOMAIN Configured : Accepts(Configured[i])}
    <2>1. PICK m \in [kept -> Marks \cup {NoMark}] :
             filter = [i \in kept |-> [mark |-> m[i], action |-> StringToAction(Configured[i].action),
                                       arg |-> Configured[i].param]]
      BY <1>2, Zenon DEF AddFilters
    <2>2. ASSUME NEW i \in kept
          PROVE  /\ StringToAction(Configured[i].action) \in Action \ {"UNKOWN"}
                 /\ StringToAction(Configured[i].action) \in {"RUNSCRIPT", "STARTVM"} =>
                       Configured[i].param # ""
                 /\ Configured[i].param \in Params
      BY DEF Accepts, StringToAction, Action, Params
    <2> HIDE DEF kept
    <2>3. DOMAIN filter = kept /\ kept \subseteq DOMAIN Configured
      BY <2>1 DEF kept
    <2>4. ASSUME NEW i \in kept
          PROVE  filter[i] = [mark |-> m[i], action |-> StringToAction(Configured[i].action),
                              arg |-> Configured[i].param]
      BY <2>1
    <2> QED BY <2>1, <2>2, <2>3, <2>4 DEF RulesOK, Rule
  <1> QED BY <1>1, <1>2 DEF Init

LEMMA AnswerIs ==
    ASSUME NEW a \in Action, NEW p \in Params, NEW h, h = [action |-> a, arg |-> p]
    PROVE  h \in Answer /\ h.action = a /\ h.arg = p
  BY DEF Answer

\* The answer of handleFilter is a rule that was accepted, or "unknown".
LEMMA Answers ==
    ASSUME RulesOK, NEW mark
    PROVE  /\ HandleFilter(mark) \in Answer
           /\ HandleFilter(mark).action \in {"RUNSCRIPT", "STARTVM"} => HandleFilter(mark).arg # ""
  <1> DEFINE hits == {i \in DOMAIN filter : filter[i].mark = mark}
             first == {i \in hits : \A j \in hits : i <= j}
  <1>1. CASE first = {}
    <2>1. HandleFilter(mark) = [action |-> "UNKOWN", arg |-> ""]
      BY <1>1, Zenon DEF HandleFilter
    <2>2. "UNKOWN" \in Action /\ "" \in Params
      BY DEF Action, Params
    <2>3. HandleFilter(mark) \in Answer /\ HandleFilter(mark).action = "UNKOWN"
      BY <2>1, <2>2, AnswerIs, Zenon
    <2> QED BY <2>3
  <1>2. CASE first # {}
    <2> DEFINE i == CHOOSE i \in first : TRUE
    <2>1. i \in first
      BY <1>2
    <2>2. HandleFilter(mark) = [action |-> filter[i].action, arg |-> filter[i].arg]
      BY <1>2, Zenon DEF HandleFilter
    <2> HIDE DEF i
    <2>3. /\ filter[i].action \in Action /\ filter[i].arg \in Params
          /\ filter[i].action \in {"RUNSCRIPT", "STARTVM"} => filter[i].arg # ""
      BY <2>1 DEF RulesOK, Rule
    <2>4. /\ HandleFilter(mark) \in Answer /\ HandleFilter(mark).action = filter[i].action
          /\ HandleFilter(mark).arg = filter[i].arg
      <3> DEFINE a == filter[i].action
                 p == filter[i].arg
                 h == HandleFilter(mark)
      <3>1. a \in Action /\ p \in Params /\ h = [action |-> a, arg |-> p]
        BY <2>2, <2>3
      <3> HIDE DEF a, p, h
      <3>2. h \in Answer /\ h.action = a /\ h.arg = p
        BY <3>1, AnswerIs
      <3> QED BY <3>2 DEF a, p, h
    <2> QED BY <2>3, <2>4
  <1> QED BY <1>1, <1>2

\* A packet is held for an action of the core, or has its verdict.
LEMMA Decides ==
    ASSUME NEW mark
    PROVE  /\ Decide(mark) \in {"ACCEPT", "DROP", "HOLD"}
           /\ Decide(mark) = "HOLD" =>
                 HandleFilter(mark).action \notin {"DROP", "UNKOWN", "RUNSCRIPT"}
  <1>1. CASE mark = NoMark
    BY <1>1 DEF Decide
  <1>2. CASE mark # NoMark /\ HandleFilter(mark).action = "DROP"
    BY <1>2, Zenon DEF Decide
  <1>3. CASE /\ mark # NoMark
             /\ HandleFilter(mark).action \in {"UNKOWN", "RUNSCRIPT"}
    <2>1. HandleFilter(mark).action # "DROP"
      BY <1>3
    <2>2. Decide(mark) = "ACCEPT"
      BY <1>3, <2>1, Zenon DEF Decide
    <2> QED BY <2>2
  <1>4. CASE HandleFilter(mark).action \notin {"DROP", "UNKOWN", "RUNSCRIPT"} /\ mark # NoMark
    <2>1. HandleFilter(mark).action # "DROP" /\ HandleFilter(mark).action \notin {"UNKOWN", "RUNSCRIPT"}
      BY <1>4
    <2>2. Decide(mark) = "HOLD"
      BY <1>4, <2>1, Zenon DEF Decide
    <2> QED BY <1>4, <2>2
  <1> QED BY <1>1, <1>2, <1>3, <1>4

-----------------------------------------------------------------------------
(* Types.                                                                  *)

LEMMA NameFacts ==
    /\ DOMAIN Names = 1 .. Len(Names) /\ Len(Names) \in Nat /\ Len(Names) > 0
    /\ \A i \in DOMAIN Names : Names[i] \in Machine
    /\ Names[1] \in Machine
  <1>1. Names \in Seq(Machine) /\ Names # << >>
    BY FilterAssumption
  <1>2. DOMAIN Names = 1 .. Len(Names) /\ Len(Names) \in Nat /\ Len(Names) > 0
    BY <1>1
  <1>3. \A i \in DOMAIN Names : Names[i] \in Machine
    BY DEF Machine
  <1> QED BY <1>2, <1>3

LEMMA NoRequestType == NoRequest \in Request
  <1>1. Names[1] \in Machine
    BY NameFacts
  <1>2. "UNKOWN" \in Action /\ "" \in Params
    BY DEF Action, Params
  <1> QED BY <1>1, <1>2 DEF NoRequest, Request

LEMMA TypeInit == Init => TypeOK
  <1> SUFFICES ASSUME Init PROVE TypeOK
    OBVIOUS
  <1>1. /\ DOMAIN filter \subseteq DOMAIN Configured
        /\ \A i \in DOMAIN filter :
              filter[i] \in [mark : Marks \cup {NoMark}, action : Action, arg : Params]
    BY RulesInit DEF RulesOK, Rule
  <1>2. /\ next \in 1 .. (Len(Names) + 1) /\ sent \in 0 .. MaxPackets
        /\ mpc \in {"define", "filter", "boot", "record", "runtime"}
    BY NameFacts, FilterAssumption DEF Init
  <1>3. /\ domain \in [Machine -> {"none", "shut", "running", "paused"}]
        /\ nextId \in [Machine -> Nat]
        /\ open \in [Machine -> SUBSET Nat] /\ pushed \in [Machine -> SUBSET Nat]
        /\ released \in [Machine -> SUBSET Nat]
    BY DEF Init
  <1>4. fpc \in [Machine -> FilterPC]
    BY DEF Init, FilterPC
  <1>5. packet \in [Machine -> [mark : Marks \cup {NoMark}, verdict : Verdict]]
    BY DEF Init, Verdict
  <1>6. rqOf \in [Machine -> Request] /\ rq \in Request
    BY NoRequestType DEF Init
  <1>7. nfqueue \in [Machine -> Seq(Marks \cup {NoMark})]
    BY DEF Init
  <1>8. given \in [Machine -> Seq([mark : Marks \cup {NoMark}, verdict : Verdict])]
    BY DEF Init
  <1>9. queue \in Seq(Request) /\ wpc \in WorkerPC
    BY DEF Init, WorkerPC
  <1> QED BY <1>1, <1>2, <1>3, <1>4, <1>5, <1>6, <1>7, <1>8, <1>9 DEF Init, TypeOK

LEMMA TypeMain ==
    ASSUME TypeOK, MainStep, raced' \subseteq Machine
    PROVE  TypeOK'
  <1> USE DEF TypeOK, mainVars, threadVars, workerVars, history
  <1>0. \A i \in DOMAIN Names : Names[i] \in Machine
    BY NameFacts
  <1>1. CASE DefineVM
    BY <1>0, <1>1 DEF DefineVM, MainAt
  <1>2. CASE StartFilter
    <2>1. fpc' \in [Machine -> FilterPC]
      BY <1>0, <1>2 DEF StartFilter, MainAt, FilterPC
    <2> QED BY <1>2, <2>1 DEF StartFilter
  <1>3. CASE BootVM
    BY <1>0, <1>3 DEF BootVM, MainAt
  <1>4. CASE RecordVM
    <2>1. next' \in 1 .. (Len(Names) + 1) /\ vms' \subseteq Machine
      BY <1>0, <1>4, NameFacts DEF RecordVM, MainAt
    <2> QED BY <1>4, <2>1 DEF RecordVM
  <1> QED BY <1>1, <1>2, <1>3, <1>4 DEF MainStep

LEMMA TypeGuest ==
    ASSUME TypeOK, Guest, raced' \subseteq Machine
    PROVE  TypeOK'
  <1> USE DEF TypeOK, mainVars, threadVars, workerVars, history
  <1>1. ASSUME NEW m \in Machine, PowerOff(m) PROVE TypeOK'
    BY <1>1 DEF PowerOff
  <1>2. ASSUME NEW m \in Machine, NEW mark \in Marks \cup {NoMark}, Send(m, mark) PROVE TypeOK'
    <2>1. nfqueue' \in [Machine -> Seq(Marks \cup {NoMark})]
      BY <1>2 DEF Send
    <2>2. sent' \in 0 .. MaxPackets
      BY <1>2, FilterAssumption DEF Send
    <2> QED BY <1>2, <2>1, <2>2 DEF Send
  <1> QED BY <1>1, <1>2 DEF Guest

LEMMA TypeFilter ==
    ASSUME TypeOK, RulesOK, NEW m \in Machine, FilterStep(m), raced' \subseteq Machine
    PROVE  TypeOK'
  <1> USE DEF TypeOK, mainVars, threadVars, workerVars, history
  <1>1. CASE Receive(m)
    <2>1. Head(nfqueue[m]) \in Marks \cup {NoMark} /\ Tail(nfqueue[m]) \in Seq(Marks \cup {NoMark})
      BY <1>1 DEF Receive
    <2>2. nfqueue' \in [Machine -> Seq(Marks \cup {NoMark})]
      BY <1>1, <2>1 DEF Receive
    <2>3. packet' \in [Machine -> [mark : Marks \cup {NoMark}, verdict : Verdict]]
      BY <1>1, <2>1 DEF Receive, Verdict
    <2>4. fpc' \in [Machine -> FilterPC]
      BY <1>1 DEF Receive, FilterPC
    <2> QED BY <1>1, <2>2, <2>3, <2>4 DEF Receive
  <1>2. CASE ReceiveFails(m)
    <2>1. fpc' \in [Machine -> FilterPC]
      BY <1>2 DEF ReceiveFails, FilterPC
    <2> QED BY <1>2, <2>1 DEF ReceiveFails
  <1>3. CASE PushBegin(m)
    <2> DEFINE answer == HandleFilter(packet[m].mark)
    <2>1. answer.action \in Action /\ answer.arg \in Params
      BY Answers DEF Answer
    <2>2. PICK ip \in {"zero", "garbage"} :
             rqOf' = [rqOf EXCEPT ![m] = [caller |-> m, id |-> nextId[m], action |-> answer.action,
                                          arg |-> answer.arg, ip |-> ip]]
      BY <1>3, Zenon DEF PushBegin
    <2> HIDE DEF answer
    <2>3. rqOf' \in [Machine -> Request]
      BY <2>1, <2>2 DEF Request
    <2>4. fpc' \in [Machine -> FilterPC]
      BY <1>3 DEF PushBegin, FilterPC
    <2>5. nextId' \in [Machine -> Nat] /\ pushed' \in [Machine -> SUBSET Nat]
      BY <1>3 DEF PushBegin
    <2> QED BY <1>3, <2>3, <2>4, <2>5 DEF PushBegin
  <1>4. CASE PushEnd(m)
    <2>1. rqOf[m].id \in Nat
      BY DEF Request
    <2>2. open' \in [Machine -> SUBSET Nat] /\ fpc' \in [Machine -> FilterPC]
      BY <1>4, <2>1 DEF PushEnd, FilterPC
    <2> QED BY <1>4, <2>2 DEF PushEnd
  <1>5. CASE AddRequest(m)
    <2>1. queue' \in Seq(Request) /\ fpc' \in [Machine -> FilterPC]
      BY <1>5 DEF AddRequest, FilterPC
    <2> QED BY <1>5, <2>1 DEF AddRequest
  <1>6. CASE GiveVerdict(m)
    <2>1. fpc' \in [Machine -> FilterPC]
      BY <1>6 DEF GiveVerdict, FilterPC
    <2>2. packet' \in [Machine -> [mark : Marks \cup {NoMark}, verdict : Verdict]]
      <3>1. \/ UNCHANGED packet
            \/ packet' = [packet EXCEPT ![m] = [mark |-> NoMark, verdict |-> "ACCEPT"]]
        BY <1>6 DEF GiveVerdict
      <3> DEFINE T == [mark : Marks \cup {NoMark}, verdict : Verdict]
                 v == [mark |-> NoMark, verdict |-> "ACCEPT"]
      <3>2. v \in T /\ packet \in [Machine -> T]
        BY DEF Verdict
      <3>3. UNCHANGED packet \/ packet' = [packet EXCEPT ![m] = v]
        BY <3>1
      <3> HIDE DEF T, v, TypeOK
      <3>4. packet' \in [Machine -> T]
        BY <3>2, <3>3
      <3> QED BY <3>4 DEF T
    <2>3. given' \in [Machine -> Seq([mark : Marks \cup {NoMark}, verdict : Verdict])]
      <3>1. UNCHANGED given \/ given' = [given EXCEPT ![m] = Append(@, packet[m])]
        BY <1>6 DEF GiveVerdict, SendVerdict
      <3> DEFINE T == [mark : Marks \cup {NoMark}, verdict : Verdict]
      <3>2. packet \in [Machine -> T] /\ given \in [Machine -> Seq(T)]
        OBVIOUS
      <3> HIDE DEF T, TypeOK
      <3>3. Append(given[m], packet[m]) \in Seq(T)
        BY <3>2
      <3>4. given' \in [Machine -> Seq(T)]
        BY <3>1, <3>2, <3>3
      <3> QED BY <3>4 DEF T
    <2> QED BY <1>6, <2>1, <2>2, <2>3 DEF GiveVerdict
  <1> QED BY <1>1, <1>2, <1>3, <1>4, <1>5, <1>6 DEF FilterStep

LEMMA Services ==
    ASSUME PopRequest
    PROVE  /\ wpc' \in {"list", "find", "start", "callback"}
           /\ wpc' = "list" => rq'.action = "FREEZEALL"
           /\ wpc' = "find" => rq'.action = "FREEZESRC"
           /\ wpc' = "start" => rq'.action = "STARTVM"
  <1> DEFINE a == rq'.action
  <1>1. wpc' = CASE a = "FREEZEALL" -> "list" [] a = "FREEZESRC" -> "find"
                 [] a = "STARTVM" -> "start" [] OTHER -> "callback"
    BY DEF PopRequest
  <1> HIDE DEF a
  <1>2. CASE a = "FREEZEALL"
    <2>1. wpc' = "list" BY <1>1, <1>2, Zenon
    <2> QED BY <1>2, <2>1 DEF a
  <1>3. CASE a = "FREEZESRC"
    <2>1. wpc' = "find" BY <1>1, <1>3, Zenon
    <2> QED BY <1>3, <2>1 DEF a
  <1>4. CASE a = "STARTVM"
    <2>1. wpc' = "start" BY <1>1, <1>4, Zenon
    <2> QED BY <1>4, <2>1 DEF a
  <1>5. CASE a # "FREEZEALL" /\ a # "FREEZESRC" /\ a # "STARTVM"
    <2>1. wpc' = "callback" BY <1>1, <1>5, Zenon
    <2> QED BY <2>1
  <1> QED BY <1>2, <1>3, <1>4, <1>5

LEMMA TypeWorker ==
    ASSUME TypeOK, WorkerStep, raced' \subseteq Machine
    PROVE  TypeOK'
  <1> USE DEF TypeOK, mainVars, threadVars, workerVars, history
  <1>0. rq.caller \in Machine /\ rq.id \in Nat
    BY DEF Request
  <1>1. CASE PopRequest
    <2>1. wpc' \in WorkerPC
      BY <1>1, Services DEF WorkerPC
    <2>2. rq' \in Request /\ queue' \in Seq(Request)
      BY <1>1 DEF PopRequest
    <2> QED BY <1>1, <2>1, <2>2 DEF PopRequest
  <1>2. CASE ListAll
    BY <1>2 DEF ListAll, WorkerPC
  <1>3. CASE FindSource
    BY <1>0, <1>3 DEF FindSource, VMByCaller, WorkerPC
  <1>4. ASSUME NEW m \in Machine, Suspend(m) PROVE TypeOK'
    BY <1>4 DEF Suspend
  <1>5. CASE AllSuspended
    BY <1>0, <1>5 DEF AllSuspended, WorkerPC
  <1>6. CASE StartNamed
    BY <1>6 DEF StartNamed, WorkerPC
  <1>7. CASE ReleasePacket
    <2>1. \/ UNCHANGED released
          \/ released' = [released EXCEPT ![rq.caller] = @ \cup {rq.id}]
      BY <1>7 DEF ReleasePacket
    <2>2. released' \in [Machine -> SUBSET Nat]
      <3>1. released \in [Machine -> SUBSET Nat]
        OBVIOUS
      <3> HIDE DEF TypeOK
      <3>2. released[rq.caller] \cup {rq.id} \in SUBSET Nat
        BY <1>0, <3>1
      <3> QED BY <1>0, <2>1, <3>1, <3>2
    <2>3. wpc' \in WorkerPC
      BY <1>7 DEF ReleasePacket, WorkerPC
    <2> QED BY <1>7, <2>2, <2>3 DEF ReleasePacket
  <1>8. CASE EraseBegin
    BY <1>0, <1>8 DEF EraseBegin, WorkerPC
  <1>9. CASE EraseEnd
    BY <1>0, <1>9 DEF EraseEnd, WorkerPC
  <1> QED BY <1>1, <1>2, <1>3, <1>4, <1>5, <1>6, <1>7, <1>8, <1>9 DEF WorkerStep

LEMMA TypeStep == TypeOK /\ RulesOK /\ [Next]_vars => TypeOK' /\ RulesOK'
  <1> SUFFICES ASSUME TypeOK, RulesOK, [Next]_vars PROVE TypeOK' /\ RulesOK'
    OBVIOUS
  <1>1. RulesOK'
    <2>1. UNCHANGED filter
      BY DEF Next, MainStep, DefineVM, StartFilter, BootVM, RecordVM, WorkerStep, PopRequest, ListAll,
             FindSource, AllSuspended, StartNamed, ReleasePacket, EraseBegin, EraseEnd, Suspend,
             Guest, PowerOff, Send, Crash, FilterStep, Receive, ReceiveFails, PushBegin, PushEnd,
             AddRequest, GiveVerdict, vars
    <2> QED BY <2>1 DEF RulesOK
  <1>2. CASE UNCHANGED vars
    BY <1>1, <1>2 DEF TypeOK, vars, mainVars, threadVars, workerVars, history
  <1>3. CASE Next
    <2>1. raced' \subseteq Machine
      BY <1>3 DEF Next, Watch, TypeOK
    <2>2. CASE Crash
      BY <1>1, <2>1, <2>2 DEF TypeOK, Crash, mainVars, threadVars, workerVars, history
    <2> QED BY <1>1, <1>3, <2>1, <2>2, TypeMain, TypeGuest, TypeFilter, TypeWorker DEF Next
  <1> QED BY <1>1, <1>2, <1>3

\* Every variable keeps its type.
THEOREM FilterTypeCorrect == Spec => []TypeOK
  <1>1. Init => TypeOK /\ RulesOK
    BY TypeInit, RulesInit
  <1>2. TypeOK /\ RulesOK /\ [Next]_vars => (TypeOK /\ RulesOK)'
    BY TypeStep
  <1> QED BY <1>1, <1>2, PTL DEF Spec

-----------------------------------------------------------------------------
(* Actions and freezing.                                                   *)

\* A request the worker can carry out.
Known(r) ==
    /\ r.action \in {"FREEZEALL", "FREEZESRC", "STARTVM"}
    /\ r.action = "STARTVM" => r.arg # ""

ThreadInv(m) ==
    /\ fpc[m] = "push" => Decide(packet[m].mark) = "HOLD"
    /\ fpc[m] \in {"pushing", "add"} => Known(rqOf[m])

QueueInv == (\A i \in DOMAIN queue : Known(queue[i])) /\ (wpc # "pop" => Known(rq))

\* A domain is paused once and for all, and never defined again.
DomainInv ==
    /\ \A m \in Machine : domain[m] = "paused" <=> m \in frozen
    /\ \A i \in DOMAIN Names :
          i > next \/ (i = next /\ mpc = "define") => domain[Names[i]] = "none"

Stopped(m) == m \in frozen \/ m \in refused \/ m \in missed

\* From getVMByCaller to the answer the worker has the machine still to suspend, or
\* has tried.
FreezeInv ==
    /\ wpc = "list" => rq.action = "FREEZEALL"
    /\ wpc = "suspend" /\ rq.action = "FREEZESRC" => Stopped(rq.caller) \/ rq.caller \in targets
    /\ \A m \in froze : Stopped(m)

FilterInv ==
    /\ TypeOK /\ RulesOK
    /\ (\A m \in Machine : ThreadInv(m)) /\ QueueInv /\ DomainInv /\ FreezeInv

\* What is only added to: machines recorded, seen, frozen and refused.  The rules stay.
LEMMA Grows ==
    ASSUME [Next]_vars
    PROVE  /\ vms \subseteq vms' /\ missed \subseteq missed'
           /\ frozen \subseteq frozen' /\ refused \subseteq refused' /\ filter' = filter
  <1> USE DEF mainVars, threadVars, workerVars, history
  <1>1. CASE MainStep
    BY <1>1 DEF MainStep, DefineVM, StartFilter, BootVM, RecordVM
  <1>2. CASE WorkerStep
    BY <1>2 DEF WorkerStep, PopRequest, ListAll, FindSource, AllSuspended, StartNamed, ReleasePacket,
                EraseBegin, EraseEnd, Suspend
  <1>3. CASE Guest
    BY <1>3 DEF Guest, PowerOff, Send
  <1>4. CASE Crash
    BY <1>4 DEF Crash
  <1>5. ASSUME NEW m \in Machine, FilterStep(m)
        PROVE  /\ vms \subseteq vms' /\ missed \subseteq missed'
               /\ frozen \subseteq frozen' /\ refused \subseteq refused' /\ filter' = filter
    BY <1>5 DEF FilterStep, Receive, ReceiveFails, PushBegin, PushEnd, AddRequest, GiveVerdict
  <1>6. CASE UNCHANGED vars
    BY <1>6 DEF vars
  <1> QED BY <1>1, <1>2, <1>3, <1>4, <1>5, <1>6 DEF Next

LEMMA Stays ==
    ASSUME [Next]_vars
    PROVE  /\ \A m : Stopped(m) => Stopped(m)'
           /\ \A r : Known(r) => Known(r)'
           /\ \A mark : Decide(mark)' = Decide(mark)
           /\ \A mark : HandleFilter(mark)' = HandleFilter(mark)
  <1>2. \A m : Stopped(m) => Stopped(m)'
    BY Grows DEF Stopped
  <1>3. \A r : Known(r) => Known(r)'
    BY DEF Known
  <1>4. \A mark : HandleFilter(mark)' = HandleFilter(mark)
    BY Grows DEF HandleFilter
  <1>5. \A mark : Decide(mark)' = Decide(mark)
    BY <1>4 DEF Decide
  <1> QED BY <1>2, <1>3, <1>4, <1>5

\* The steps of the others as a filter's thread sees them.
LEMMA Around ==
    ASSUME TypeOK, MainStep \/ WorkerStep \/ Crash \/ Guest \/ UNCHANGED vars, NEW m \in Machine
    PROVE  packet' = packet /\ rqOf' = rqOf /\ (fpc'[m] = fpc[m] \/ fpc'[m] = "recv")
  <1> USE DEF mainVars, threadVars, workerVars, history
  <1>1. CASE DefineVM \/ BootVM \/ RecordVM \/ Crash \/ UNCHANGED vars
    BY <1>1 DEF DefineVM, BootVM, RecordVM, Crash, vars
  <1>2. CASE StartFilter
    BY <1>2 DEF StartFilter, TypeOK
  <1>3. CASE WorkerStep
    BY <1>3 DEF WorkerStep, PopRequest, ListAll, FindSource, AllSuspended, StartNamed, ReleasePacket,
                EraseBegin, EraseEnd, Suspend
  <1>4. CASE Guest
    BY <1>4 DEF Guest, PowerOff, Send
  <1> QED BY <1>1, <1>2, <1>3, <1>4 DEF MainStep

LEMMA ThreadStep ==
    ASSUME FilterInv, [Next]_vars, NEW m \in Machine
    PROVE  ThreadInv(m)'
  <1> USE DEF mainVars, threadVars, workerVars, history
  <1>20. TypeOK /\ RulesOK /\ ThreadInv(m)
    BY DEF FilterInv
  <1>1. CASE MainStep \/ WorkerStep \/ Crash \/ Guest \/ UNCHANGED vars
    <2>1. packet' = packet /\ rqOf' = rqOf /\ (fpc'[m] = fpc[m] \/ fpc'[m] = "recv")
      BY <1>1, <1>20, Around
    <2> QED BY <1>20, <2>1, Stays DEF ThreadInv
  <1>2. ASSUME NEW k \in Machine, FilterStep(k), k # m PROVE ThreadInv(m)'
    <2>1. packet'[m] = packet[m] /\ rqOf'[m] = rqOf[m] /\ fpc'[m] = fpc[m]
      BY <1>2, <1>20 DEF TypeOK, FilterStep, Receive, ReceiveFails, PushBegin, PushEnd, AddRequest,
                        GiveVerdict
    <2> QED BY <1>20, <2>1, Stays DEF ThreadInv
  <1>3. ASSUME FilterStep(m) PROVE ThreadInv(m)'
    <2> USE <1>20 DEF TypeOK
    <2>1. CASE Receive(m)
      <3>1. /\ fpc'[m] \in {"push", "verdict"} /\ rqOf'[m] = rqOf[m]
            /\ fpc'[m] = "push" => Decide(packet'[m].mark) = "HOLD"
        BY <2>1 DEF Receive
      <3> QED BY <3>1, Stays DEF ThreadInv
    <2>2. CASE ReceiveFails(m)
      <3>1. fpc'[m] = "ended"
        BY <2>2 DEF ReceiveFails
      <3> QED BY <3>1, Stays DEF ThreadInv
    <2>3. CASE PushBegin(m)
      <3> DEFINE answer == HandleFilter(packet[m].mark)
      <3>1. Decide(packet[m].mark) = "HOLD"
        BY <2>3 DEF PushBegin, ThreadInv
      <3>2. /\ answer.action \in {"FREEZEALL", "FREEZESRC", "STARTVM"}
            /\ answer.action = "STARTVM" => answer.arg # ""
        BY <3>1, Answers, Decides DEF Answer, Action
      <3>3. PICK ip \in {"zero", "garbage"} :
               rqOf' = [rqOf EXCEPT ![m] = [caller |-> m, id |-> nextId[m], action |-> answer.action,
                                            arg |-> answer.arg, ip |-> ip]]
        BY <2>3, Zenon DEF PushBegin
      <3> HIDE DEF answer
      <3>4. rqOf'[m].action = answer.action /\ rqOf'[m].arg = answer.arg
        BY <3>3
      <3>5. Known(rqOf'[m])
        BY <3>2, <3>4 DEF Known
      <3>6. fpc'[m] = "pushing"
        BY <2>3 DEF PushBegin
      <3> QED BY <3>5, <3>6, Stays DEF ThreadInv
    <2>4. CASE PushEnd(m)
      <3>1. fpc[m] = "pushing" /\ fpc'[m] = "add" /\ rqOf' = rqOf
        BY <2>4 DEF PushEnd
      <3> QED BY <3>1, Stays DEF ThreadInv
    <2>5. CASE AddRequest(m)
      <3>1. fpc[m] = "add" /\ fpc'[m] = "verdict"
        BY <2>5 DEF AddRequest
      <3> QED BY <3>1, Stays DEF ThreadInv
    <2>6. CASE GiveVerdict(m)
      <3>1. fpc'[m] \in {"recv", "ended"}
        BY <2>6 DEF GiveVerdict
      <3> QED BY <3>1, Stays DEF ThreadInv
    <2> QED BY <1>3, <2>1, <2>2, <2>3, <2>4, <2>5, <2>6 DEF FilterStep
  <1> QED BY <1>1, <1>2, <1>3 DEF Next

LEMMA QueueStep ==
    ASSUME FilterInv, [Next]_vars
    PROVE  QueueInv'
  <1> USE DEF mainVars, threadVars, workerVars, history
  <1>20. TypeOK /\ QueueInv
    BY DEF FilterInv
  <1>1. CASE PopRequest
    <2>1. /\ queue # << >> /\ queue \in Seq(Request)
          /\ rq' = Head(queue) /\ queue' = Tail(queue)
      BY <1>1, <1>20 DEF PopRequest, TypeOK
    <2>2. rq' = queue[1] /\ 1 \in DOMAIN queue
      BY <2>1
    <2>3. \A i \in DOMAIN queue' : \E j \in DOMAIN queue : queue'[i] = queue[j]
      <3> SUFFICES ASSUME NEW i \in DOMAIN queue' PROVE \E j \in DOMAIN queue : queue'[i] = queue[j]
        OBVIOUS
      <3>1. i + 1 \in DOMAIN queue /\ queue'[i] = queue[i + 1]
        BY <2>1
      <3> QED BY <3>1
    <2>4. Known(rq') /\ \A i \in DOMAIN queue' : Known(queue'[i])
      BY <1>20, <2>2, <2>3, Zenon DEF QueueInv
    <2> QED BY <2>4, Stays DEF QueueInv
  <1>2. ASSUME NEW m \in Machine, AddRequest(m) PROVE QueueInv'
    <2>1. Known(rqOf[m])
      BY <1>2 DEF AddRequest, FilterInv, ThreadInv
    <2>2. queue' = Append(queue, rqOf[m]) /\ queue \in Seq(Request) /\ UNCHANGED <<rq, wpc>>
      BY <1>2, <1>20 DEF AddRequest, TypeOK
    <2>3. \A i \in DOMAIN queue' : queue'[i] = rqOf[m] \/ (i \in DOMAIN queue /\ queue'[i] = queue[i])
      BY <2>2
    <2>4. (\A i \in DOMAIN queue' : Known(queue'[i])) /\ (wpc' # "pop" => Known(rq'))
      BY <1>20, <2>1, <2>2, <2>3 DEF QueueInv
    <2> QED BY <2>4, Stays DEF QueueInv
  <1>3. ASSUME UNCHANGED <<queue, rq>>, wpc' # "pop" => wpc # "pop"
        PROVE  QueueInv'
    BY <1>20, <1>3, Stays DEF QueueInv
  <1>4. CASE MainStep \/ Guest \/ Crash \/ UNCHANGED vars
    BY <1>3, <1>4 DEF MainStep, DefineVM, StartFilter, BootVM, RecordVM, Guest, PowerOff, Send, Crash,
                      vars
  <1>5. CASE \/ ListAll \/ FindSource \/ AllSuspended \/ StartNamed \/ ReleasePacket \/ EraseBegin
             \/ EraseEnd \/ \E m \in Machine : Suspend(m)
    BY <1>3, <1>5 DEF ListAll, FindSource, AllSuspended, StartNamed, ReleasePacket, EraseBegin, EraseEnd,
                      Suspend
  <1>6. ASSUME NEW m \in Machine, \/ Receive(m) \/ ReceiveFails(m) \/ PushBegin(m) \/ PushEnd(m)
                                  \/ GiveVerdict(m)
        PROVE  QueueInv'
    BY <1>3, <1>6 DEF Receive, ReceiveFails, PushBegin, PushEnd, GiveVerdict
  <1> QED BY <1>1, <1>2, <1>4, <1>5, <1>6 DEF Next, WorkerStep, FilterStep

LEMMA DomainStep ==
    ASSUME FilterInv, [Next]_vars
    PROVE  DomainInv'
  <1> USE DEF mainVars, threadVars, workerVars, history
  <1>20. /\ TypeOK /\ DomainInv /\ domain \in [Machine -> {"none", "shut", "running", "paused"}]
         /\ next \in Nat /\ frozen \subseteq Machine
    <2>1. TypeOK /\ DomainInv
      BY DEF FilterInv
    <2>2. next \in 1 .. (Len(Names) + 1)
      BY <2>1 DEF TypeOK
    <2>3. next \in Nat
      BY <2>2, NameFacts
    <2> QED BY <2>1, <2>3 DEF TypeOK
  <1>21. /\ \A i \in DOMAIN Names : Names[i] \in Machine /\ i \in Nat
         /\ \A i, j \in DOMAIN Names : i # j => Names[i] # Names[j]
    BY NameFacts, FilterAssumption
  <1>1. CASE DefineVM
    <2>1. CASE UNCHANGED <<domain, mpc>>
      BY <1>1, <1>20, <2>1 DEF DefineVM, DomainInv
    <2>2. CASE domain' = [domain EXCEPT ![Names[next]] = "shut"] /\ mpc' = "filter"
      <3>1. domain[Names[next]] = "none" /\ next \in DOMAIN Names /\ next' = next /\ frozen' = frozen
        BY <1>1, <1>20 DEF DefineVM, MainAt, DomainInv
      <3>2. \A m \in Machine : domain'[m] = "paused" <=> m \in frozen'
        BY <1>20, <2>2, <3>1 DEF DomainInv
      <3>3. ASSUME NEW i \in DOMAIN Names, i > next PROVE domain'[Names[i]] = "none"
        <4>1. Names[i] # Names[next] /\ Names[i] \in Machine /\ domain[Names[i]] = "none"
          BY <1>21, <1>20, <3>1, <3>3 DEF DomainInv
        <4> QED BY <1>20, <2>2, <4>1
      <3> QED BY <2>2, <3>1, <3>2, <3>3 DEF DomainInv
    <2> QED BY <1>1, <2>1, <2>2 DEF DefineVM
  <1>2. CASE StartFilter
    <2>1. UNCHANGED <<domain, frozen, next>> /\ mpc' # "define"
      BY <1>2 DEF StartFilter, MainAt
    <2> QED BY <1>20, <2>1 DEF DomainInv
  <1>3. CASE RecordVM
    <2>1. UNCHANGED <<domain, frozen>> /\ next' = next + 1
      BY <1>3 DEF RecordVM
    <2>2. \A i \in DOMAIN Names : i > next' \/ i = next' => i > next
      BY <1>21, <1>20, <2>1
    <2> QED BY <1>20, <2>1, <2>2 DEF DomainInv
  <1>4. ASSUME UNCHANGED next, mpc' = "define" => mpc = "define",
               \A m \in Machine : domain[m] = "none" => domain'[m] = "none",
               \A m \in Machine : domain'[m] = "paused" <=> m \in frozen'
        PROVE  DomainInv'
    BY <1>4, <1>21, <1>20 DEF DomainInv
  <1>5. CASE BootVM
    <2>1. /\ UNCHANGED <<next, frozen>> /\ mpc' # "define" /\ Names[next] \in Machine
          /\ \/ domain' = domain
             \/ domain[Names[next]] = "shut" /\ domain' = [domain EXCEPT ![Names[next]] = "running"]
      BY <1>5, <1>21 DEF BootVM, MainAt
    <2>2. \A m \in Machine : /\ domain[m] = "none" => domain'[m] = "none"
                             /\ domain'[m] = "paused" <=> domain[m] = "paused"
      BY <1>20, <2>1
    <2> QED BY <1>4, <1>20, <2>1, <2>2 DEF DomainInv
  <1>6. ASSUME NEW k \in Machine, PowerOff(k) PROVE DomainInv'
    <2>1. /\ UNCHANGED <<next, mpc, frozen>>
          /\ domain[k] = "running" /\ domain' = [domain EXCEPT ![k] = "shut"]
      BY <1>6 DEF PowerOff
    <2> QED BY <1>4, <1>20, <2>1 DEF DomainInv
  <1>7. CASE StartNamed
    <2>1. /\ UNCHANGED <<next, mpc, frozen>>
          /\ \/ domain' = domain
             \/ /\ rq.arg \in Machine /\ domain[rq.arg] = "shut"
                /\ domain' = [domain EXCEPT ![rq.arg] = "running"]
      BY <1>7 DEF StartNamed, Startable
    <2> QED BY <1>4, <1>20, <2>1 DEF DomainInv
  <1>8. ASSUME NEW k \in Machine, Suspend(k) PROVE DomainInv'
    <2>1. /\ UNCHANGED <<next, mpc>>
          /\ \/ domain' = domain /\ frozen' = frozen
             \/ /\ domain[k] = "running" /\ domain' = [domain EXCEPT ![k] = "paused"]
                /\ frozen' = frozen \cup {k}
      BY <1>8 DEF Suspend
    <2> QED BY <1>4, <1>20, <2>1 DEF DomainInv
  <1>9. ASSUME UNCHANGED <<domain, frozen, next, mpc>> PROVE DomainInv'
    BY <1>9, <1>20 DEF DomainInv
  <1>10. CASE \/ PopRequest \/ ListAll \/ FindSource \/ AllSuspended \/ ReleasePacket \/ EraseBegin
              \/ EraseEnd \/ Crash \/ UNCHANGED vars
    BY <1>9, <1>10 DEF PopRequest, ListAll, FindSource, AllSuspended, ReleasePacket, EraseBegin, EraseEnd,
                       Crash, vars
  <1>11. ASSUME NEW m \in Machine, NEW mark, Send(m, mark) PROVE DomainInv'
    BY <1>9, <1>11 DEF Send
  <1>12. ASSUME NEW m \in Machine, FilterStep(m) PROVE DomainInv'
    BY <1>9, <1>12 DEF FilterStep, Receive, ReceiveFails, PushBegin, PushEnd, AddRequest, GiveVerdict
  <1> QED BY <1>1, <1>2, <1>3, <1>5, <1>6, <1>7, <1>8, <1>10, <1>11, <1>12
          DEF Next, MainStep, WorkerStep, Guest

LEMMA FreezeStep ==
    ASSUME FilterInv, [Next]_vars
    PROVE  FreezeInv'
  <1> USE DEF mainVars, threadVars, workerVars, history
  <1>20. TypeOK /\ FreezeInv /\ DomainInv /\ rq.caller \in Machine
    BY DEF FilterInv, TypeOK, Request
  <1>1. CASE PopRequest
    <2>1. wpc' = "list" => rq'.action = "FREEZEALL"
      BY <1>1, Services
    <2>2. wpc' # "suspend" /\ froze' = froze
      BY <1>1, Services DEF PopRequest
    <2> QED BY <1>20, <2>1, <2>2, Stays DEF FreezeInv
  <1>2. CASE ListAll
    <2>1. rq.action = "FREEZEALL" /\ rq' = rq /\ wpc' = "suspend" /\ froze' = froze
      BY <1>2, <1>20 DEF ListAll, FreezeInv
    <2> QED BY <1>20, <2>1, Stays DEF FreezeInv
  <1>3. CASE FindSource
    <2>1. rq' = rq /\ wpc' = "suspend" /\ froze' = froze
      BY <1>3 DEF FindSource
    <2>2. rq.caller \in missed' \/ rq.caller \in targets'
      BY <1>3 DEF FindSource, VMByCaller
    <2>3. Stopped(rq.caller)' \/ rq.caller \in targets'
      BY <2>1, <2>2 DEF Stopped
    <2> QED BY <1>20, <2>1, <2>3, Stays DEF FreezeInv
  <1>4. ASSUME NEW k \in Machine, Suspend(k) PROVE FreezeInv'
    <2>1. rq' = rq /\ wpc' = "suspend" /\ wpc = "suspend" /\ froze' = froze /\ targets' = targets \ {k}
      BY <1>4 DEF Suspend
    <2>2. Stopped(k)'
      <3>1. CASE frozen' = frozen \cup {k}
        BY <3>1 DEF Stopped
      <3>2. CASE refused' = IF domain[k] = "paused" THEN refused ELSE refused \cup {k}
        <4>1. domain[k] = "paused" => k \in frozen
          BY <1>20 DEF DomainInv
        <4>2. CASE domain[k] = "paused"
          BY <4>1, <4>2, Stays DEF Stopped
        <4>3. CASE domain[k] # "paused"
          BY <3>2, <4>3 DEF Stopped
        <4> QED BY <4>2, <4>3
      <3> QED BY <1>4, <3>1, <3>2 DEF Suspend
    <2> QED BY <1>20, <2>1, <2>2, Stays DEF FreezeInv
  <1>5. CASE AllSuspended
    <2>1. /\ wpc = "suspend" /\ wpc' = "callback" /\ targets = {}
          /\ froze' = IF rq.action = "FREEZESRC" THEN froze \cup {rq.caller} ELSE froze
      BY <1>5 DEF AllSuspended
    <2>2. \A m \in froze' : Stopped(m)
      BY <1>20, <2>1 DEF FreezeInv
    <2> QED BY <2>1, <2>2, Stays DEF FreezeInv
  <1>6. CASE StartNamed \/ ReleasePacket \/ EraseBegin \/ EraseEnd
    <2>1. wpc' \in {"callback", "erase", "erasing", "pop"} /\ froze' = froze
      BY <1>6 DEF StartNamed, ReleasePacket, EraseBegin, EraseEnd
    <2> QED BY <1>20, <2>1, Stays DEF FreezeInv
  <1>7. ASSUME UNCHANGED <<wpc, rq, targets, froze>> PROVE FreezeInv'
    BY <1>7, <1>20, Stays DEF FreezeInv
  <1>8. CASE MainStep \/ Crash \/ UNCHANGED vars
    BY <1>7, <1>8 DEF MainStep, DefineVM, StartFilter, BootVM, RecordVM, Crash, vars
  <1>9. CASE Guest
    BY <1>7, <1>9 DEF Guest, PowerOff, Send
  <1>10. ASSUME NEW m \in Machine, FilterStep(m) PROVE FreezeInv'
    BY <1>7, <1>10 DEF FilterStep, Receive, ReceiveFails, PushBegin, PushEnd, AddRequest, GiveVerdict
  <1> QED BY <1>1, <1>2, <1>3, <1>4, <1>5, <1>6, <1>8, <1>9, <1>10 DEF Next, WorkerStep

LEMMA FilterInvInit == Init => FilterInv
  <1> SUFFICES ASSUME Init PROVE FilterInv
    OBVIOUS
  <1>1. TypeOK /\ RulesOK
    BY TypeInit, RulesInit
  <1>2. \A m \in Machine : ThreadInv(m)
    BY DEF Init, ThreadInv
  <1>3. QueueInv
    BY DEF Init, QueueInv
  <1>4. DomainInv
    BY NameFacts DEF Init, DomainInv
  <1>5. FreezeInv
    BY DEF Init, FreezeInv
  <1> QED BY <1>1, <1>2, <1>3, <1>4, <1>5 DEF FilterInv

LEMMA FilterInvStep == FilterInv /\ [Next]_vars => FilterInv'
  <1> SUFFICES ASSUME FilterInv, [Next]_vars PROVE FilterInv'
    OBVIOUS
  <1>1. TypeOK' /\ RulesOK'
    BY TypeStep DEF FilterInv
  <1>2. \A m \in Machine : ThreadInv(m)'
    BY ThreadStep
  <1>3. QueueInv' /\ DomainInv' /\ FreezeInv'
    BY QueueStep, DomainStep, FreezeStep
  <1> QED BY <1>1, <1>2, <1>3 DEF FilterInv

\* addFilter and checkPacket together keep from the worker what it cannot do.
THEOREM OnlyKnownActions == Spec => []WorkerKnowsAction
  <1>1. FilterInv => WorkerKnowsAction
    BY DEF FilterInv, QueueInv, Known, WorkerKnowsAction
  <1> QED BY <1>1, FilterInvInit, FilterInvStep, PTL DEF Spec

\* A suspended machine never runs again.
THEOREM FrozenForGood == Spec => []FrozenStays
  <1>1. FilterInv => FrozenStays
    BY DEF FilterInv, TypeOK, DomainInv, FrozenStays
  <1> QED BY <1>1, FilterInvInit, FilterInvStep, PTL DEF Spec

\* An answered FREEZESRC has suspended its machine, unless libvirt refused, or
\* the machine was looked up when it was not in virtual_machines_ or while the main
\* thread was inside the push_back of that vector.
THEOREM SourcesFreeze == Spec => []SourceFrozen
  <1>1. FilterInv => SourceFrozen
    BY DEF FilterInv, TypeOK, DomainInv, FreezeInv, Stopped, SourceFrozen
  <1> QED BY <1>1, FilterInvInit, FilterInvStep, PTL DEF Spec

-----------------------------------------------------------------------------
(* Verdicts.                                                               *)

\* A thread is started in its machine's turn, and once.
Waiting(i) == i > next \/ (i = next /\ mpc \in {"define", "filter"})
Unstarted == \A i \in DOMAIN Names : Waiting(i) => fpc[Names[i]] = "off"

\* A packet that is dropped for the time it takes to ask about it.
Withheld(p) == p.verdict = "DROP" /\ HandleFilter(p.mark).action # "DROP"
Held(m) == {i \in DOMAIN given[m] : Withheld(given[m][i])}
InHand(m) ==
    \/ fpc[m] \in {"pushing", "add"}
    \/ fpc[m] \in {"verdict", "ended"} /\ Withheld(packet[m])

\* From Receive to GiveVerdict a packet is withheld just when it makes a request.
ThreadVerdicts(m) ==
    /\ fpc[m] \in {"off", "recv"} => packet[m].verdict = "ACCEPT"
    /\ fpc[m] \in {"push", "pushing", "add"} => Withheld(packet[m])
    /\ nextId[m] = Cardinality(Held(m)) + (IF InHand(m) THEN 1 ELSE 0)

VerdictInv == Unstarted /\ \A m \in Machine : ThreadVerdicts(m)

LEMMA VerdictInit == Init => VerdictInv
  <1> SUFFICES ASSUME Init PROVE VerdictInv
    OBVIOUS
  <1>1. Unstarted
    BY NameFacts DEF Init, Unstarted
  <1>2. ASSUME NEW m \in Machine PROVE ThreadVerdicts(m)
    <2>1. Held(m) = {}
      BY DEF Init, Held
    <2>2. Cardinality(Held(m)) = 0
      BY <2>1, FS_EmptySet
    <2> QED BY <2>2 DEF Init, ThreadVerdicts, InHand
  <1> QED BY <1>1, <1>2 DEF VerdictInv

LEMMA UnstartedStep ==
    ASSUME TypeOK, Unstarted, [Next]_vars
    PROVE  Unstarted'
  <1> USE DEF mainVars, threadVars, workerVars, history
  <1>20. /\ \A i \in DOMAIN Names : Names[i] \in Machine /\ i \in Nat
         /\ \A i, j \in DOMAIN Names : i # j => Names[i] # Names[j]
         /\ next \in Nat /\ fpc \in [Machine -> FilterPC]
    <2>1. next \in 1 .. (Len(Names) + 1) /\ fpc \in [Machine -> FilterPC]
      BY DEF TypeOK
    <2> QED BY <2>1, NameFacts, FilterAssumption
  <1>1. ASSUME UNCHANGED fpc, \A i \in DOMAIN Names : Waiting(i)' => Waiting(i)
        PROVE  Unstarted'
    BY <1>1 DEF Unstarted
  <1>2. CASE DefineVM \/ BootVM \/ RecordVM
    <2>1. \A i \in DOMAIN Names : Waiting(i)' => Waiting(i)
      BY <1>2, <1>20 DEF DefineVM, BootVM, RecordVM, MainAt, Waiting
    <2>2. fpc' = fpc
      BY <1>2 DEF DefineVM, BootVM, RecordVM
    <2> QED BY <1>1, <2>1, <2>2
  <1>3. CASE StartFilter
    <2>1. CASE fpc' = fpc /\ mpc' \in {mpc, "boot"}
      <3>1. next' = next
        BY <1>3 DEF StartFilter
      <3> QED BY <1>1, <2>1, <3>1 DEF Waiting
    <2>2. CASE fpc' = [fpc EXCEPT ![Names[next]] = "recv"] /\ mpc' = "boot"
      <3>1. next' = next /\ next \in DOMAIN Names
        BY <1>3 DEF StartFilter, MainAt
      <3>2. ASSUME NEW i \in DOMAIN Names, Waiting(i)' PROVE fpc'[Names[i]] = "off"
        <4>1. Waiting(i) /\ i # next
          BY <1>20, <2>2, <3>1, <3>2 DEF Waiting
        <4> QED BY <1>20, <2>2, <3>1, <4>1 DEF Unstarted
      <3> QED BY <3>2 DEF Unstarted
    <2> QED BY <1>3, <2>1, <2>2 DEF StartFilter
  <1>4. CASE WorkerStep \/ Guest \/ Crash \/ UNCHANGED vars
    <2>1. UNCHANGED <<fpc, next, mpc>>
      BY <1>4 DEF WorkerStep, PopRequest, ListAll, FindSource, AllSuspended, StartNamed, ReleasePacket,
                  EraseBegin, EraseEnd, Suspend, Guest, PowerOff, Send, Crash, vars
    <2> QED BY <1>1, <2>1 DEF Waiting
  <1>5. ASSUME NEW k \in Machine, FilterStep(k) PROVE Unstarted'
    <2>1. /\ UNCHANGED <<next, mpc>> /\ fpc[k] # "off"
          /\ \A m \in Machine \ {k} : fpc'[m] = fpc[m]
      BY <1>5, <1>20 DEF FilterStep, Receive, ReceiveFails, PushBegin, PushEnd, AddRequest, GiveVerdict
    <2> QED BY <1>20, <2>1 DEF Unstarted, Waiting
  <1> QED BY <1>2, <1>3, <1>4, <1>5 DEF Next, MainStep

LEMMA VerdictsKept ==
    ASSUME [Next]_vars, NEW m \in Machine, ThreadVerdicts(m),
           UNCHANGED <<packet[m], nextId[m], given[m]>>,
           fpc'[m] = fpc[m] \/ (fpc[m] \in {"off", "recv"} /\ fpc'[m] \in {"recv", "ended"})
    PROVE  ThreadVerdicts(m)'
  <1>1. \A p : Withheld(p)' = Withheld(p)
    BY Stays DEF Withheld
  <1>2. Held(m)' = Held(m)
    BY <1>1 DEF Held
  <1>3. packet[m].verdict = "ACCEPT" => ~Withheld(packet[m])
    BY DEF Withheld
  <1>4. InHand(m)' = InHand(m)
    BY <1>1, <1>3 DEF InHand, ThreadVerdicts
  <1>5. Withheld(packet[m])' = Withheld(packet[m])
    BY <1>1 DEF Withheld
  <1> QED BY <1>2, <1>4, <1>5 DEF ThreadVerdicts

LEMMA HeldFinite ==
    ASSUME TypeOK, NEW m \in Machine
    PROVE  /\ Held(m) \in SUBSET (1 .. Len(given[m])) /\ Len(given[m]) \in Nat
           /\ IsFiniteSet(Held(m)) /\ Cardinality(Held(m)) \in Nat
  <1>1. given[m] \in Seq([mark : Marks \cup {NoMark}, verdict : Verdict])
    BY DEF TypeOK
  <1>2. Len(given[m]) \in Nat /\ Held(m) \in SUBSET (1 .. Len(given[m]))
    BY <1>1 DEF Held
  <1>3. 1 \in Int /\ Len(given[m]) \in Int
    BY <1>2
  <1>4. IsFiniteSet(1 .. Len(given[m]))
    BY <1>3, FS_Interval
  <1>5. IsFiniteSet(Held(m))
    BY <1>2, <1>4, FS_Subset
  <1> QED BY <1>2, <1>5, FS_CardinalityType

\* A verdict is one more packet withheld, or none.
LEMMA HeldAppend ==
    ASSUME TypeOK, NEW m \in Machine, [Next]_vars, SendVerdict(m)
    PROVE  /\ Cardinality(Held(m)) \in Nat
           /\ Cardinality(Held(m)') = Cardinality(Held(m)) + (IF Withheld(packet[m]) THEN 1 ELSE 0)
  <1>1. /\ given[m] \in Seq([mark : Marks \cup {NoMark}, verdict : Verdict])
        /\ given'[m] = Append(given[m], packet[m])
    BY DEF TypeOK, SendVerdict
  <1>2. /\ DOMAIN given[m] = 1 .. Len(given[m]) /\ Len(given[m]) \in Nat
        /\ DOMAIN given'[m] = 1 .. (Len(given[m]) + 1)
        /\ \A i \in DOMAIN given[m] : given'[m][i] = given[m][i]
        /\ given'[m][Len(given[m]) + 1] = packet[m]
    BY <1>1
  <1>3. \A p : Withheld(p)' = Withheld(p)
    BY Stays DEF Withheld
  <1>4. /\ Len(given[m]) + 1 \notin Held(m)
        /\ Held(m)' = IF Withheld(packet[m]) THEN Held(m) \cup {Len(given[m]) + 1} ELSE Held(m)
    BY <1>2, <1>3 DEF Held
  <1>5. IsFiniteSet(Held(m)) /\ Cardinality(Held(m)) \in Nat
    BY HeldFinite
  <1>6. Cardinality(Held(m) \cup {Len(given[m]) + 1}) = Cardinality(Held(m)) + 1
    BY <1>4, <1>5, FS_AddElement
  <1> QED BY <1>4, <1>5, <1>6

LEMMA VerdictThread ==
    ASSUME TypeOK, [Next]_vars, NEW m \in Machine, ThreadVerdicts(m), FilterStep(m)
    PROVE  ThreadVerdicts(m)'
  <1> USE DEF TypeOK
  <1>1. \A p : Withheld(p)' = Withheld(p)
    BY Stays DEF Withheld
  <1>2. ASSUME UNCHANGED given PROVE Held(m)' = Held(m)
    BY <1>1, <1>2 DEF Held
  <1>3. packet[m].verdict = "ACCEPT" => ~Withheld(packet[m])
    BY DEF Withheld
  <1>4. CASE Receive(m)
    <2> DEFINE mark == Head(nfqueue[m])
    <2>1. /\ packet'[m] = [mark |-> mark, verdict |-> IF Decide(mark) = "ACCEPT" THEN "ACCEPT" ELSE "DROP"]
          /\ fpc[m] = "recv" /\ fpc'[m] = IF Decide(mark) = "HOLD" THEN "push" ELSE "verdict"
          /\ nextId' = nextId
      BY <1>4 DEF Receive
    <2>2. given' = given
      BY <1>4 DEF Receive, history
    <2> HIDE DEF mark
    <2>3. Withheld(packet'[m]) <=> Decide(mark) = "HOLD"
      BY <2>1 DEF Withheld, Decide
    <2>4. ~InHand(m) /\ ~InHand(m)'
      BY <1>1, <2>1, <2>3 DEF InHand
    <2> QED BY <1>1, <1>2, <2>1, <2>2, <2>3, <2>4 DEF ThreadVerdicts
  <1>5. CASE ReceiveFails(m)
    <2>1. UNCHANGED <<packet, nextId, given>> /\ fpc[m] = "recv" /\ fpc'[m] = "ended"
      BY <1>5 DEF ReceiveFails, history
    <2> QED BY <2>1, VerdictsKept
  <1>6. CASE PushBegin(m)
    <2>1. /\ UNCHANGED <<packet, given>> /\ nextId'[m] = nextId[m] + 1
          /\ fpc[m] = "push" /\ fpc'[m] = "pushing"
      BY <1>6 DEF PushBegin, history
    <2>2. Cardinality(Held(m)) = nextId[m]
      <3>1. Cardinality(Held(m)) \in Nat
        BY HeldFinite
      <3>2. ~InHand(m)
        BY <2>1 DEF InHand
      <3> QED BY <3>1, <3>2 DEF ThreadVerdicts
    <2>3. InHand(m)'
      BY <2>1 DEF InHand
    <2> QED BY <1>1, <1>2, <2>1, <2>2, <2>3 DEF ThreadVerdicts
  <1>7. CASE PushEnd(m) \/ AddRequest(m)
    <2>1. /\ UNCHANGED <<packet, nextId, given>>
          /\ fpc[m] \in {"pushing", "add"} /\ fpc'[m] \in {"add", "verdict"}
      BY <1>7 DEF PushEnd, AddRequest, history
    <2>2. InHand(m) /\ InHand(m)'
      BY <1>1, <2>1 DEF InHand, ThreadVerdicts
    <2> QED BY <1>1, <1>2, <2>1, <2>2 DEF ThreadVerdicts
  <1>8. CASE GiveVerdict(m)
    <2>1. nextId' = nextId /\ fpc[m] = "verdict"
      BY <1>8 DEF GiveVerdict
    <2>2. CASE fpc' = [fpc EXCEPT ![m] = "ended"] /\ UNCHANGED <<given, packet>>
      <3>1. fpc'[m] = "ended" /\ InHand(m)' = InHand(m)
        BY <1>1, <2>1, <2>2 DEF InHand
      <3> QED BY <1>1, <1>2, <2>1, <2>2, <3>1 DEF ThreadVerdicts
    <2>3. CASE /\ SendVerdict(m)
               /\ packet' = [packet EXCEPT ![m] = [mark |-> NoMark, verdict |-> "ACCEPT"]]
               /\ fpc' = [fpc EXCEPT ![m] = "recv"]
      <3>1. packet'[m].verdict = "ACCEPT" /\ fpc'[m] = "recv"
        BY <2>3
      <3>2. ~InHand(m)' /\ (InHand(m) <=> Withheld(packet[m]))
        BY <2>1, <3>1 DEF InHand
      <3>3. /\ Cardinality(Held(m)) \in Nat
            /\ Cardinality(Held(m)') = Cardinality(Held(m)) + (IF Withheld(packet[m]) THEN 1 ELSE 0)
        BY <2>3, HeldAppend
      <3>4. nextId'[m] = Cardinality(Held(m)')
        BY <2>1, <3>2, <3>3 DEF ThreadVerdicts
      <3>5. Cardinality(Held(m))' = Cardinality(Held(m)')
        OBVIOUS
      <3>6. Cardinality(Held(m)') + 0 = Cardinality(Held(m)')
        BY <3>3
      <3> QED BY <3>1, <3>2, <3>4, <3>5, <3>6 DEF ThreadVerdicts
    <2> QED BY <1>8, <2>2, <2>3 DEF GiveVerdict
  <1> QED BY <1>4, <1>5, <1>6, <1>7, <1>8 DEF FilterStep

LEMMA VerdictStep ==
    ASSUME TypeOK, VerdictInv, [Next]_vars
    PROVE  VerdictInv'
  <1> USE DEF mainVars, threadVars, workerVars, history
  <1>1. Unstarted'
    BY UnstartedStep DEF VerdictInv
  <1>2. ASSUME NEW m \in Machine PROVE ThreadVerdicts(m)'
    <2>20. ThreadVerdicts(m) /\ fpc \in [Machine -> FilterPC]
      BY DEF VerdictInv, TypeOK
    <2>1. CASE StartFilter
      <3>1. /\ fpc' \in {fpc, [fpc EXCEPT ![Names[next]] = "recv"]} /\ UNCHANGED <<packet, nextId, given>>
            /\ next \in DOMAIN Names /\ mpc = "filter"
        BY <2>1 DEF StartFilter, MainAt
      <3>2. fpc[Names[next]] = "off"
        BY <3>1 DEF VerdictInv, Unstarted, Waiting
      <3>3. fpc'[m] = fpc[m] \/ (fpc[m] = "off" /\ fpc'[m] = "recv")
        BY <2>20, <3>1, <3>2
      <3> QED BY <2>20, <3>1, <3>3, VerdictsKept
    <2>2. CASE DefineVM \/ BootVM \/ RecordVM \/ WorkerStep \/ Guest \/ Crash \/ UNCHANGED vars
      <3>1. UNCHANGED <<packet, nextId, given, fpc>>
        BY <2>2 DEF DefineVM, BootVM, RecordVM, WorkerStep, PopRequest, ListAll, FindSource, AllSuspended,
                    StartNamed, ReleasePacket, EraseBegin, EraseEnd, Suspend, Guest, PowerOff, Send, Crash,
                    vars
      <3> QED BY <2>20, <3>1, VerdictsKept
    <2>3. ASSUME NEW k \in Machine, FilterStep(k), k # m PROVE ThreadVerdicts(m)'
      <3>1. UNCHANGED <<packet[m], nextId[m], given[m], fpc[m]>>
        BY <2>3 DEF TypeOK, FilterStep, Receive, ReceiveFails, PushBegin, PushEnd, AddRequest, GiveVerdict,
                    SendVerdict
      <3> QED BY <2>20, <3>1, VerdictsKept
    <2>4. CASE FilterStep(m)
      BY <2>4, <2>20, VerdictThread
    <2> QED BY <2>1, <2>2, <2>3, <2>4 DEF Next, MainStep
  <1> QED BY <1>1, <1>2 DEF VerdictInv

\* Requests and verdicts add up: a packet without a DROP rule gets a DROP verdict just
\* when it has made a request, also when the thread ends between the two.
THEOREM VerdictsCount == Spec => []VerdictsAddUp
  <1>1. Init => TypeOK /\ RulesOK /\ VerdictInv
    BY TypeInit, RulesInit, VerdictInit
  <1>2. TypeOK /\ RulesOK /\ VerdictInv /\ [Next]_vars => (TypeOK /\ RulesOK /\ VerdictInv)'
    BY TypeStep, VerdictStep
  <1>3. VerdictInv => VerdictsAddUp
    BY DEF VerdictInv, ThreadVerdicts, Held, InHand, Withheld, VerdictsAddUp
  <1> QED BY <1>1, <1>2, <1>3, PTL DEF Spec

-----------------------------------------------------------------------------
(* The order of requests: every number is in one place.                    *)

Creating(m) == fpc[m] \in {"pushing", "add"}
NumberedBy(r, ids, pcs, rqs) ==
    /\ r.id < ids[r.caller]
    /\ pcs[r.caller] \in {"pushing", "add"} => r.id # rqs[r.caller].id
Numbered(r) == NumberedBy(r, nextId, fpc, rqOf)
Same(r, s) == r.caller = s.caller /\ r.id = s.id

LineInv ==
    /\ \A m \in Machine : Creating(m) => rqOf[m].caller = m /\ rqOf[m].id = nextId[m] - 1
    /\ \A i \in DOMAIN queue : Numbered(queue[i])
    /\ \A i, j \in DOMAIN queue : i # j => ~Same(queue[i], queue[j])
    /\ wpc # "pop" => Numbered(rq) /\ \A i \in DOMAIN queue : ~Same(queue[i], rq)

LEMMA LineInit == Init => LineInv
  BY DEF Init, LineInv, Creating

LEMMA PushNumbers ==
    ASSUME TypeOK, NEW k \in Machine, PushBegin(k)
    PROVE  /\ nextId[k] \in Nat /\ nextId'[k] = nextId[k] + 1
           /\ rqOf'[k].id = nextId[k] /\ rqOf'[k].caller = k
           /\ \A m \in Machine \ {k} : nextId'[m] = nextId[m] /\ rqOf'[m] = rqOf[m]
  <1> DEFINE answer == HandleFilter(packet[k].mark)
  <1>1. nextId \in [Machine -> Nat] /\ rqOf \in [Machine -> Request]
    BY DEF TypeOK
  <1>2. PICK ip \in {"zero", "garbage"} :
           rqOf' = [rqOf EXCEPT ![k] = [caller |-> k, id |-> nextId[k], action |-> answer.action,
                                        arg |-> answer.arg, ip |-> ip]]
    BY Zenon DEF PushBegin
  <1> HIDE DEF answer
  <1>3. nextId' = [nextId EXCEPT ![k] = @ + 1]
    BY DEF PushBegin
  <1> QED BY <1>1, <1>2, <1>3

\* What a filter's thread does to its numbers, and the rest of the program does not.
LEMMA NumberSteps ==
    ASSUME TypeOK, [Next]_vars, NEW m \in Machine
    PROVE  \/ UNCHANGED <<nextId[m], rqOf[m]>> /\ (Creating(m)' => Creating(m))
           \/ PushBegin(m)
  <1> USE DEF mainVars, threadVars, workerVars, history
  <1>1. fpc \in [Machine -> FilterPC] /\ nextId \in [Machine -> Nat] /\ rqOf \in [Machine -> Request]
    BY DEF TypeOK
  <1>2. CASE StartFilter
    <2>1. /\ fpc' \in {fpc, [fpc EXCEPT ![Names[next]] = "recv"]} /\ UNCHANGED <<nextId, rqOf>>
      BY <1>2 DEF StartFilter
    <2>2. fpc'[m] = fpc[m] \/ fpc'[m] = "recv"
      BY <1>1, <2>1
    <2> QED BY <2>1, <2>2 DEF Creating
  <1>3. CASE DefineVM \/ BootVM \/ RecordVM \/ WorkerStep \/ Guest \/ Crash \/ UNCHANGED vars
    <2>1. UNCHANGED <<nextId, rqOf, fpc>>
      BY <1>3 DEF DefineVM, BootVM, RecordVM, WorkerStep, PopRequest, ListAll, FindSource, AllSuspended,
                  StartNamed, ReleasePacket, EraseBegin, EraseEnd, Suspend, Guest, PowerOff, Send, Crash,
                  vars
    <2> QED BY <2>1 DEF Creating
  <1>4. ASSUME NEW k \in Machine, FilterStep(k), k # m
        PROVE  UNCHANGED <<nextId[m], rqOf[m], fpc[m]>>
    BY <1>1, <1>4 DEF FilterStep, Receive, ReceiveFails, PushBegin, PushEnd, AddRequest, GiveVerdict
  <1>5. ASSUME NEW k \in Machine, FilterStep(k), k # m
        PROVE  UNCHANGED <<nextId[m], rqOf[m]>> /\ (Creating(m)' => Creating(m))
    BY <1>4, <1>5 DEF Creating
  <1>6. CASE FilterStep(m) /\ ~PushBegin(m)
    <2>1. UNCHANGED <<nextId, rqOf>> /\ (fpc'[m] \in {"pushing", "add"} => fpc[m] \in {"pushing", "add"})
      BY <1>1, <1>6 DEF FilterStep, Receive, ReceiveFails, PushEnd, AddRequest, GiveVerdict
    <2> QED BY <2>1 DEF Creating
  <1> QED BY <1>2, <1>3, <1>5, <1>6 DEF Next, MainStep

LEMMA NumberedStays ==
    ASSUME TypeOK, [Next]_vars, NEW r \in Request, Numbered(r)
    PROVE  Numbered(r)'
  <1>1. r.caller \in Machine /\ r.id \in Nat /\ nextId[r.caller] \in Nat
    BY DEF Request, TypeOK
  <1> DEFINE m == r.caller
  <1>2. CASE UNCHANGED <<nextId[m], rqOf[m]>> /\ (Creating(m)' => Creating(m))
    BY <1>2 DEF Numbered, NumberedBy, Creating
  <1>3. CASE PushBegin(m)
    <2>1. nextId'[m] = nextId[m] + 1 /\ rqOf'[m].id = nextId[m]
      BY <1>1, <1>3, PushNumbers
    <2> QED BY <1>1, <2>1 DEF Numbered, NumberedBy, Creating
  <1> QED BY <1>1, <1>2, <1>3, NumberSteps

LEMMA LineStep ==
    ASSUME TypeOK, LineInv, [Next]_vars
    PROVE  LineInv'
  <1> USE DEF mainVars, threadVars, workerVars, history
  <1>1. /\ queue \in Seq(Request) /\ rq \in Request /\ rqOf \in [Machine -> Request]
        /\ \A i \in DOMAIN queue : queue[i] \in Request
    <2>1. queue \in Seq(Request) /\ rq \in Request /\ rqOf \in [Machine -> Request]
      BY DEF TypeOK
    <2> QED BY <2>1
  <1>2. ASSUME NEW m \in Machine, Creating(m)' PROVE (rqOf[m].caller = m /\ rqOf[m].id = nextId[m] - 1)'
    <2>1. CASE UNCHANGED <<nextId[m], rqOf[m]>> /\ (Creating(m)' => Creating(m))
      BY <1>2, <2>1 DEF LineInv
    <2>2. CASE PushBegin(m)
      <3>1. /\ nextId[m] \in Nat /\ nextId'[m] = nextId[m] + 1
            /\ rqOf'[m].id = nextId[m] /\ rqOf'[m].caller = m
        BY <2>2, PushNumbers
      <3> QED BY <3>1
    <2> QED BY <2>1, <2>2, NumberSteps
  <1> DEFINE Fits(r) == NumberedBy(r, nextId', fpc', rqOf')
  <1>3. \A r \in Request : Numbered(r) => Fits(r)
    <2> SUFFICES ASSUME NEW r \in Request, Numbered(r) PROVE Fits(r)
      OBVIOUS
    <2>1. Numbered(r)'
      BY NumberedStays
    <2> QED BY <2>1 DEF Numbered
  <1>10. (\A i \in DOMAIN queue' : Fits(queue'[i])) => \A i \in DOMAIN queue' : Numbered(queue[i])'
    BY DEF Numbered
  <1>11. Fits(rq') => Numbered(rq)'
    BY DEF Numbered
  <1> HIDE DEF Fits
  <1>4. CASE PopRequest
    <2>1. queue # << >> /\ rq' = Head(queue) /\ queue' = Tail(queue)
      BY <1>4 DEF PopRequest
    <2>2. /\ rq' = queue[1] /\ 1 \in DOMAIN queue
          /\ \A i \in DOMAIN queue' : /\ i \in Nat /\ i > 0 /\ i + 1 \in DOMAIN queue
                                       /\ queue'[i] = queue[i + 1]
      BY <1>1, <2>1
    <2>3. \A i \in DOMAIN queue' : Fits(queue'[i])
      BY <1>1, <1>3, <2>2 DEF LineInv
    <2>4. \A i, j \in DOMAIN queue' : i # j => ~Same(queue'[i], queue'[j])
      BY <2>2 DEF LineInv
    <2>5. Fits(rq')
      BY <1>1, <1>3, <2>2 DEF LineInv
    <2>6. \A i \in DOMAIN queue' : ~Same(queue'[i], rq')
      BY <2>2 DEF LineInv
    <2>7. /\ \A i \in DOMAIN queue' : Numbered(queue[i])'
          /\ Numbered(rq)'
      BY <1>10, <1>11, <2>3, <2>5
    <2> QED BY <1>2, <2>4, <2>6, <2>7 DEF LineInv, Same
  <1>5. ASSUME NEW k \in Machine, AddRequest(k) PROVE LineInv'
    <2> DEFINE r == rqOf[k]
    <2>1. /\ queue' = Append(queue, r) /\ r \in Request /\ UNCHANGED <<rq, wpc, nextId, rqOf>>
          /\ Creating(k) /\ ~Creating(k)'
      <3>1. fpc[k] = "add" /\ fpc'[k] = "verdict"
        BY <1>5 DEF AddRequest, TypeOK
      <3> QED BY <1>1, <1>5, <3>1 DEF AddRequest, Creating
    <2>2. r.caller = k /\ r.id = nextId[k] - 1 /\ nextId[k] \in Nat
      BY <2>1 DEF LineInv, TypeOK
    <2>3. Fits(r)
      BY <2>1, <2>2 DEF Fits, NumberedBy, Creating
    <2>4. ASSUME NEW q \in Request, Numbered(q) PROVE ~Same(q, r)
      BY <2>1, <2>2, <2>4 DEF Numbered, NumberedBy, Creating, Same
    <2> HIDE DEF r
    <2>5. /\ \A i \in DOMAIN queue' : IF i \in DOMAIN queue THEN queue'[i] = queue[i] ELSE queue'[i] = r
          /\ \A i, j \in DOMAIN queue' : i \notin DOMAIN queue /\ j \notin DOMAIN queue => i = j
      BY <1>1, <2>1
    <2>6. \A i \in DOMAIN queue : Fits(queue[i]) /\ ~Same(queue[i], r)
      BY <1>1, <1>3, <2>4 DEF LineInv
    <2>7. \A i \in DOMAIN queue' : Fits(queue'[i])
      BY <2>3, <2>5, <2>6
    <2>8. \A i, j \in DOMAIN queue' : i # j => ~Same(queue'[i], queue'[j])
      BY <2>5, <2>6 DEF LineInv, Same
    <2>9. wpc # "pop" => Fits(rq) /\ ~Same(r, rq) /\ \A i \in DOMAIN queue : ~Same(queue[i], rq)
      BY <1>1, <1>3, <2>4 DEF LineInv, Same
    <2>10. wpc' # "pop" => Fits(rq') /\ \A i \in DOMAIN queue' : ~Same(queue'[i], rq')
      BY <2>1, <2>5, <2>9
    <2> QED BY <1>2, <1>10, <1>11, <2>7, <2>8, <2>10 DEF LineInv, Same
  <1>6. ASSUME UNCHANGED <<queue, rq>>, wpc' # "pop" => wpc # "pop" PROVE LineInv'
    <2>1. \A i \in DOMAIN queue' : Numbered(queue[i])'
      BY <1>1, <1>3, <1>6, <1>10 DEF LineInv
    <2>2. wpc # "pop" => Numbered(rq)'
      BY <1>1, <1>3, <1>6, <1>11 DEF LineInv
    <2> QED BY <1>2, <1>6, <2>1, <2>2 DEF LineInv, Same
  <1>7. CASE MainStep \/ Guest \/ Crash \/ UNCHANGED vars
    BY <1>6, <1>7 DEF MainStep, DefineVM, StartFilter, BootVM, RecordVM, Guest, PowerOff, Send, Crash,
                      vars
  <1>8. CASE \/ ListAll \/ FindSource \/ AllSuspended \/ StartNamed \/ ReleasePacket \/ EraseBegin
             \/ EraseEnd \/ \E m \in Machine : Suspend(m)
    BY <1>6, <1>8 DEF ListAll, FindSource, AllSuspended, StartNamed, ReleasePacket, EraseBegin, EraseEnd,
                      Suspend
  <1>9. ASSUME NEW m \in Machine, \/ Receive(m) \/ ReceiveFails(m) \/ PushBegin(m) \/ PushEnd(m)
                                  \/ GiveVerdict(m)
        PROVE  LineInv'
    BY <1>6, <1>9 DEF Receive, ReceiveFails, PushBegin, PushEnd, GiveVerdict
  <1> QED BY <1>4, <1>5, <1>7, <1>8, <1>9 DEF Next, WorkerStep, FilterStep

-----------------------------------------------------------------------------
(* Held packets.                                                           *)

LEMMA IdsInAppend ==
    ASSUME NEW q \in Seq(Request), NEW r \in Request, NEW m \in Machine
    PROVE  IdsIn(Append(q, r), m) = IdsIn(q, m) \cup (IF r.caller = m THEN {r.id} ELSE {})
  <1>1. DOMAIN Append(q, r) = 1 .. (Len(q) + 1) /\ DOMAIN q = 1 .. Len(q) /\ Len(q) \in Nat
    OBVIOUS
  <1>2. /\ \A i \in 1 .. Len(q) : Append(q, r)[i] = q[i]
        /\ Append(q, r)[Len(q) + 1] = r
    OBVIOUS
  <1> QED BY <1>1, <1>2 DEF IdsIn

LEMMA IdsInOther ==
    ASSUME NEW q \in Seq(Request), NEW r \in Request, NEW m \in Machine, r.caller # m
    PROVE  IdsIn(Append(q, r), m) = IdsIn(q, m)
  <1>1. IdsIn(Append(q, r), m) = IdsIn(q, m) \cup (IF r.caller = m THEN {r.id} ELSE {})
    BY IdsInAppend
  <1>2. (IF r.caller = m THEN {r.id} ELSE {}) = {}
    OBVIOUS
  <1> QED BY <1>1, <1>2

LEMMA IdsInTail ==
    ASSUME NEW q \in Seq(Request), q # << >>, NEW m \in Machine
    PROVE  IdsIn(q, m) = IdsIn(Tail(q), m) \cup (IF Head(q).caller = m THEN {Head(q).id} ELSE {})
  <1>1. /\ DOMAIN Tail(q) = 1 .. (Len(q) - 1) /\ DOMAIN q = 1 .. Len(q)
        /\ Len(q) \in Nat \ {0} /\ Head(q) = q[1]
        /\ \A i \in 1 .. (Len(q) - 1) : Tail(q)[i] = q[i + 1]
    OBVIOUS
  <1>2. ASSUME NEW i \in 1 .. Len(q), q[i].caller = m
        PROVE  q[i].id \in IdsIn(Tail(q), m) \cup (IF Head(q).caller = m THEN {Head(q).id} ELSE {})
    <2>1. CASE i # 1
      <3>1. i - 1 \in 1 .. (Len(q) - 1) /\ Tail(q)[i - 1] = q[i]
        BY <1>1, <2>1
      <3> QED BY <1>1, <1>2, <3>1 DEF IdsIn
    <2> QED BY <1>1, <1>2, <2>1
  <1>3. ASSUME NEW i \in 1 .. (Len(q) - 1), Tail(q)[i].caller = m PROVE Tail(q)[i].id \in IdsIn(q, m)
    BY <1>1, <1>3 DEF IdsIn
  <1>4. Head(q).caller = m => Head(q).id \in IdsIn(q, m)
    BY <1>1 DEF IdsIn
  <1> QED BY <1>1, <1>2, <1>3, <1>4 DEF IdsIn

Adding(m) == IF fpc[m] = "add" THEN {rqOf[m].id} ELSE {}
Storing(m) == IF fpc[m] = "pushing" THEN {rqOf[m].id} ELSE {}
Erasing(m) == IF wpc \in {"erase", "erasing"} /\ rq.caller = m THEN {rq.id} ELSE {}

\* Neither thread's copy of the vector is stale.
Undisturbed(m) ==
    /\ ~VectorRace(m)
    /\ fpc[m] = "pushing" => pushed[m] = open[m]
    /\ wpc = "erasing" /\ rq.caller = m => snap = open[m]

Exact(m) ==
    /\ open[m] = Outstanding(m) \cup Adding(m) \cup Erasing(m)
    /\ released[m] = (0 .. (nextId[m] - 1)) \ (Outstanding(m) \cup Adding(m) \cup Storing(m))

BookInv == \A m \in Machine \ raced : Undisturbed(m) /\ Exact(m)

LEMMA BookInit == Init => BookInv
  <1> SUFFICES ASSUME Init, NEW m \in Machine PROVE Undisturbed(m) /\ Exact(m)
    BY DEF BookInv
  <1>1. Outstanding(m) = {} /\ Adding(m) = {} /\ Storing(m) = {} /\ Erasing(m) = {}
    BY DEF Init, Outstanding, IdsIn, InService, Adding, Storing, Erasing
  <1>2. nextId[m] = 0 /\ 0 .. (0 - 1) = {} /\ open[m] = {} /\ released[m] = {} /\ fpc[m] = "off" /\ wpc = "pop"
    BY DEF Init
  <1> QED BY <1>1, <1>2 DEF Undisturbed, Exact, VectorRace

\* What the order of requests says of one filter's numbers.
LEMMA Places ==
    ASSUME TypeOK, LineInv, NEW m \in Machine
    PROVE  /\ nextId[m] \in Nat /\ rq.id \in Nat
           /\ \A k \in IdsIn(queue, m) : k \in Nat /\ k < nextId[m]
           /\ \A k \in Outstanding(m) : k \in Nat /\ k < nextId[m]
           /\ \A k \in Outstanding(m) : Creating(m) => k # rqOf[m].id
           /\ wpc # "pop" /\ rq.caller = m => rq.id \notin IdsIn(queue, m) /\ rq.id < nextId[m]
           /\ wpc # "pop" /\ rq.caller = m /\ Creating(m) => rq.id # rqOf[m].id
           /\ Creating(m) => rqOf[m].caller = m /\ rqOf[m].id = nextId[m] - 1
  <1>1. /\ nextId[m] \in Nat /\ rq.id \in Nat
        /\ \A i \in DOMAIN queue : queue[i].id \in Nat
    <2>1. queue \in Seq(Request) /\ rq \in Request /\ nextId[m] \in Nat
      BY DEF TypeOK
    <2>2. \A i \in DOMAIN queue : queue[i] \in Request
      BY <2>1
    <2> QED BY <2>1, <2>2 DEF Request
  <1>2. \A k \in IdsIn(queue, m) : k \in Nat /\ k < nextId[m] /\ (Creating(m) => k # rqOf[m].id)
    BY <1>1 DEF IdsIn, LineInv, Numbered, NumberedBy, Creating
  <1>3. /\ wpc # "pop" /\ rq.caller = m => rq.id \notin IdsIn(queue, m) /\ rq.id < nextId[m]
        /\ wpc # "pop" /\ rq.caller = m /\ Creating(m) => rq.id # rqOf[m].id
    BY DEF IdsIn, LineInv, Numbered, NumberedBy, Creating, Same
  <1>4. Creating(m) => rqOf[m].caller = m /\ rqOf[m].id = nextId[m] - 1
    BY DEF LineInv
  <1> QED BY <1>1, <1>2, <1>3, <1>4 DEF Outstanding, InService

\* A step that leaves a filter's vector, numbers and requests alone.
LEMMA BookKept ==
    ASSUME NEW m \in Machine, Undisturbed(m), Exact(m), ~VectorRace(m)',
           UNCHANGED <<open[m], released[m], nextId[m], pushed[m], Outstanding(m), Erasing(m)>>,
           UNCHANGED <<Adding(m), Storing(m)>>,
           fpc'[m] = "pushing" => fpc[m] = "pushing",
           wpc' = "erasing" /\ rq'.caller = m => snap' = open[m]
    PROVE  Undisturbed(m)' /\ Exact(m)'
  <1>1. Undisturbed(m)'
    BY DEF Undisturbed
  <1>2. Exact(m)'
    BY DEF Exact
  <1> QED BY <1>1, <1>2

LEMMA BookThread ==
    ASSUME TypeOK, LineInv, NEW k \in Machine, FilterStep(k), NEW m \in Machine, Undisturbed(m), Exact(m),
           ~VectorRace(m)'
    PROVE  Undisturbed(m)' /\ Exact(m)'
  <1> USE DEF mainVars, threadVars, workerVars, history
  <1>0. /\ fpc \in [Machine -> FilterPC] /\ nextId \in [Machine -> Nat] /\ rqOf \in [Machine -> Request]
        /\ open \in [Machine -> SUBSET Nat] /\ pushed \in [Machine -> SUBSET Nat]
        /\ queue \in Seq(Request)
    BY DEF TypeOK
  <1>1. UNCHANGED <<wpc, rq, snap, released>>
    BY DEF FilterStep, Receive, ReceiveFails, PushBegin, PushEnd, AddRequest, GiveVerdict
  <1>2. Erasing(m)' = Erasing(m)
    BY <1>1 DEF Erasing
  <1>3. ASSUME UNCHANGED queue PROVE Outstanding(m)' = Outstanding(m)
    BY <1>1, <1>3 DEF Outstanding, InService
  <1>4. CASE k # m
    <2>1. /\ UNCHANGED <<fpc[m], nextId[m], rqOf[m], open[m], pushed[m]>>
          /\ queue' = queue \/ (AddRequest(k) /\ queue' = Append(queue, rqOf[k]))
      BY <1>0, <1>4 DEF FilterStep, Receive, ReceiveFails, PushBegin, PushEnd, AddRequest, GiveVerdict
    <2>2. ASSUME AddRequest(k), queue' = Append(queue, rqOf[k]) PROVE Outstanding(m)' = Outstanding(m)
      <3>1. rqOf[k].caller = k /\ rqOf[k] \in Request
        BY <1>0, <2>2 DEF AddRequest, LineInv, Creating
      <3> DEFINE r == rqOf[k]
      <3>2. queue' = Append(queue, r) /\ r \in Request /\ r.caller # m
        BY <1>4, <2>2, <3>1
      <3> HIDE DEF r
      <3>3. IdsIn(Append(queue, r), m) = IdsIn(queue, m)
        BY <1>0, <3>2, IdsInOther
      <3>4. IdsIn(queue', m) = IdsIn(queue, m)
        BY <3>2, <3>3
      <3> QED BY <1>1, <3>4 DEF Outstanding, InService
    <2>3. Outstanding(m)' = Outstanding(m)
      BY <1>3, <2>1, <2>2
    <2>4. UNCHANGED <<Adding(m), Storing(m)>>
      BY <2>1 DEF Adding, Storing
    <2>5. wpc' = "erasing" /\ rq'.caller = m => snap' = open[m]
      BY <1>1 DEF Undisturbed
    <2> QED BY <1>1, <1>2, <2>1, <2>3, <2>4, <2>5, BookKept
  <1>5. CASE Receive(m) \/ ReceiveFails(m) \/ GiveVerdict(m)
    <2>1. UNCHANGED <<nextId, rqOf, open, pushed, queue>>
      BY <1>5 DEF Receive, ReceiveFails, GiveVerdict
    <2>2. fpc[m] \notin {"pushing", "add"} /\ fpc'[m] \notin {"pushing", "add"}
      BY <1>0, <1>5 DEF Receive, ReceiveFails, GiveVerdict
    <2>3. UNCHANGED <<Adding(m), Storing(m)>>
      BY <2>2 DEF Adding, Storing
    <2>4. wpc' = "erasing" /\ rq'.caller = m => snap' = open[m]
      BY <1>1 DEF Undisturbed
    <2>5. Outstanding(m)' = Outstanding(m)
      BY <1>3, <2>1
    <2> QED BY <1>1, <1>2, <2>1, <2>2, <2>3, <2>4, <2>5, BookKept
  <1>6. CASE PushBegin(m)
    <2>1. /\ UNCHANGED <<open, queue>> /\ pushed'[m] = open[m]
          /\ fpc[m] = "push" /\ fpc'[m] = "pushing"
      BY <1>0, <1>6 DEF PushBegin
    <2>2. nextId[m] \in Nat /\ nextId'[m] = nextId[m] + 1 /\ rqOf'[m].id = nextId[m]
      BY <1>6, PushNumbers
    <2>3. Adding(m) = {} /\ Storing(m) = {} /\ Adding(m)' = {} /\ Storing(m)' = {nextId[m]}
      BY <2>1, <2>2 DEF Adding, Storing
    <2>4. Outstanding(m)' = Outstanding(m)
      BY <1>3, <2>1
    <2>5. 0 .. (nextId'[m] - 1) = (0 .. (nextId[m] - 1)) \cup {nextId[m]}
      BY <2>2
    <2>6. nextId[m] \notin 0 .. (nextId[m] - 1)
      BY <2>2
    <2>7. released'[m] = (0 .. (nextId'[m] - 1)) \ (Outstanding(m)' \cup Adding(m)' \cup Storing(m)')
      BY <1>1, <2>3, <2>4, <2>5, <2>6 DEF Exact
    <2>8. Exact(m)'
      BY <1>2, <2>1, <2>3, <2>4, <2>7 DEF Exact
    <2>9. Undisturbed(m)'
      BY <1>1, <2>1 DEF Undisturbed
    <2> QED BY <2>8, <2>9
  <1>7. CASE PushEnd(m)
    <2>1. /\ UNCHANGED <<nextId, rqOf, pushed, queue>> /\ open'[m] = pushed[m] \cup {rqOf[m].id}
          /\ fpc[m] = "pushing" /\ fpc'[m] = "add"
      BY <1>0, <1>7 DEF PushEnd
    <2>2. /\ Adding(m) = {} /\ Storing(m) = {rqOf[m].id}
          /\ Adding(m)' = {rqOf[m].id} /\ Storing(m)' = {}
      BY <2>1 DEF Adding, Storing
    <2>3. open'[m] = open[m] \cup {rqOf[m].id}
      BY <2>1 DEF Undisturbed
    <2>4. Outstanding(m)' = Outstanding(m)
      BY <1>3, <2>1
    <2>5. Exact(m)'
      BY <1>1, <1>2, <2>1, <2>2, <2>3, <2>4 DEF Exact
    <2>6. ~(wpc' = "erasing" /\ rq'.caller = m)
      BY <1>1, <2>1 DEF Undisturbed, VectorRace
    <2> QED BY <2>1, <2>5, <2>6 DEF Undisturbed
  <1>8. CASE AddRequest(m)
    <2>1. /\ UNCHANGED <<nextId, rqOf, open, pushed>> /\ queue' = Append(queue, rqOf[m])
          /\ fpc[m] = "add" /\ fpc'[m] = "verdict"
      BY <1>0, <1>8 DEF AddRequest
    <2>2. /\ Adding(m) = {rqOf[m].id} /\ Storing(m) = {}
          /\ Adding(m)' = {} /\ Storing(m)' = {}
      BY <2>1 DEF Adding, Storing
    <2>3. rqOf[m].caller = m /\ rqOf[m] \in Request
      BY <1>0, <2>1 DEF LineInv, Creating
    <2>4. IdsIn(queue', m) = IdsIn(queue, m) \cup {rqOf[m].id}
      BY <1>0, <2>1, <2>3, IdsInAppend
    <2>5. Outstanding(m)' = Outstanding(m) \cup {rqOf[m].id}
      BY <1>1, <2>4 DEF Outstanding, InService
    <2>6. Exact(m)'
      BY <1>1, <1>2, <2>1, <2>2, <2>5 DEF Exact
    <2> QED BY <1>1, <2>1, <2>6 DEF Undisturbed
  <1> QED BY <1>4, <1>5, <1>6, <1>7, <1>8 DEF FilterStep

LEMMA BookWorker ==
    ASSUME TypeOK, LineInv, WorkerStep, NEW m \in Machine, Undisturbed(m), Exact(m), ~VectorRace(m)'
    PROVE  Undisturbed(m)' /\ Exact(m)'
  <1> USE DEF mainVars, threadVars, workerVars, history
  <1>0. /\ open \in [Machine -> SUBSET Nat] /\ released \in [Machine -> SUBSET Nat]
        /\ rq.caller \in Machine /\ rq.id \in Nat /\ queue \in Seq(Request)
    BY DEF TypeOK, Request
  <1>1. /\ UNCHANGED <<fpc, nextId, rqOf, pushed>>
        /\ UNCHANGED <<Adding(m), Storing(m)>>
    <2>1. UNCHANGED <<fpc, nextId, rqOf, pushed>>
      BY DEF WorkerStep, PopRequest, ListAll, FindSource, AllSuspended, StartNamed, ReleasePacket,
             EraseBegin, EraseEnd, Suspend
    <2> QED BY <2>1 DEF Adding, Storing
  <1>n. /\ nextId[m] \in Nat
        /\ (wpc # "pop" /\ rq.caller = m) => (rq.id \notin IdsIn(queue, m) /\ rq.id < nextId[m])
        /\ (wpc # "pop" /\ rq.caller = m /\ Creating(m)) => rq.id # rqOf[m].id
    BY Places
  <1>2. CASE PopRequest
    <2>1. /\ UNCHANGED <<open, released, snap>> /\ wpc = "pop" /\ queue # << >>
          /\ rq' = Head(queue) /\ queue' = Tail(queue)
          /\ wpc' \in {"list", "find", "start", "callback"}
      BY <1>2, Services DEF PopRequest
    <2>2. Outstanding(m) = IdsIn(queue, m)
      BY <2>1 DEF Outstanding, InService
    <2>3. Outstanding(m)' = IdsIn(queue', m) \cup (IF rq'.caller = m THEN {rq'.id} ELSE {})
      BY <2>1 DEF Outstanding, InService
    <2>4. IdsIn(queue, m) = IdsIn(Tail(queue), m) \cup (IF Head(queue).caller = m THEN {Head(queue).id} ELSE {})
      BY <1>0, <2>1, IdsInTail
    <2>5. Outstanding(m)' = Outstanding(m)
      BY <2>1, <2>2, <2>3, <2>4
    <2>6. Erasing(m)' = Erasing(m)
      BY <2>1 DEF Erasing
    <2> QED BY <1>1, <2>1, <2>5, <2>6, BookKept
  <1>3. CASE ListAll \/ FindSource \/ AllSuspended \/ StartNamed \/ \E k \in Machine : Suspend(k)
    <2>1. /\ UNCHANGED <<open, released, queue, rq, snap>>
          /\ InService /\ InService'
          /\ wpc \notin {"erase", "erasing"} /\ wpc' \notin {"erase", "erasing"}
      BY <1>3 DEF ListAll, FindSource, AllSuspended, StartNamed, Suspend, InService
    <2>2. Outstanding(m)' = Outstanding(m)
      BY <2>1 DEF Outstanding
    <2>3. Erasing(m)' = Erasing(m)
      BY <2>1 DEF Erasing
    <2> QED BY <1>1, <2>1, <2>2, <2>3, BookKept
  <1>4. CASE ReleasePacket
    <2>1. /\ UNCHANGED <<open, queue, rq, snap>> /\ wpc = "callback"
          /\ IF rq.id \in open[rq.caller]
             THEN released' = [released EXCEPT ![rq.caller] = @ \cup {rq.id}] /\ wpc' = "erase"
             ELSE wpc' = "pop" /\ UNCHANGED released
      BY <1>4 DEF ReleasePacket, Kept
    <2>2. Outstanding(m) = IdsIn(queue, m) \cup (IF rq.caller = m THEN {rq.id} ELSE {})
      BY <2>1 DEF Outstanding, InService
    <2>3. Outstanding(m)' = IdsIn(queue, m)
      BY <2>1 DEF Outstanding, InService
    <2>4. CASE rq.caller = m
      <3>1. rq.id \in open[m]
        BY <2>2, <2>4 DEF Exact
      <3>2. released'[m] = released[m] \cup {rq.id} /\ wpc' = "erase"
        BY <1>0, <2>1, <2>4, <3>1
      <3>3. /\ rq.id \notin IdsIn(queue, m) /\ rq.id \in 0 .. (nextId[m] - 1)
            /\ rq.id \notin Adding(m) \cup Storing(m)
        BY <1>0, <1>n, <2>1, <2>4 DEF Adding, Storing, Creating
      <3>4. released'[m] = (0 .. (nextId[m] - 1)) \ (Outstanding(m)' \cup Adding(m) \cup Storing(m))
        BY <2>2, <2>3, <2>4, <3>2, <3>3 DEF Exact
      <3>5. Erasing(m) = {} /\ Erasing(m)' = {rq.id}
        BY <2>1, <2>4, <3>2 DEF Erasing
      <3>6. open[m] = Outstanding(m)' \cup Adding(m) \cup Erasing(m)'
        BY <2>2, <2>3, <2>4, <3>5 DEF Exact
      <3>7. Exact(m)'
        BY <1>1, <2>1, <3>4, <3>6 DEF Exact
      <3> QED BY <1>1, <2>1, <3>2, <3>7 DEF Undisturbed
    <2>5. CASE rq.caller # m
      <3>1. released'[m] = released[m]
        BY <1>0, <2>1, <2>5
      <3>2. Outstanding(m)' = Outstanding(m)
        BY <2>2, <2>3, <2>5
      <3>3. Erasing(m)' = Erasing(m)
        BY <2>1, <2>5 DEF Erasing
      <3> QED BY <1>1, <2>1, <2>5, <3>1, <3>2, <3>3, BookKept
    <2> QED BY <2>4, <2>5
  <1>5. CASE EraseBegin
    <2>1. /\ UNCHANGED <<open, released, queue, rq>>
          /\ wpc = "erase" /\ wpc' = "erasing" /\ snap' = open[rq.caller]
      BY <1>5 DEF EraseBegin
    <2>2. Outstanding(m)' = Outstanding(m)
      BY <2>1 DEF Outstanding, InService
    <2>3. Erasing(m)' = Erasing(m)
      BY <2>1 DEF Erasing
    <2> QED BY <1>1, <2>1, <2>2, <2>3, BookKept
  <1>6. CASE EraseEnd
    <2>1. /\ UNCHANGED <<released, queue, rq, snap>> /\ wpc = "erasing" /\ wpc' = "pop"
          /\ open' = [open EXCEPT ![rq.caller] = snap \ {rq.id}]
      BY <1>6 DEF EraseEnd
    <2>2. Outstanding(m)' = Outstanding(m) /\ Outstanding(m) = IdsIn(queue, m)
      BY <2>1 DEF Outstanding, InService
    <2>3. Erasing(m)' = {}
      BY <2>1 DEF Erasing
    <2>4. CASE rq.caller = m
      <3>1. open'[m] = open[m] \ {rq.id} /\ Erasing(m) = {rq.id}
        BY <1>0, <2>1, <2>4 DEF Undisturbed, Erasing
      <3>2. rq.id \notin Outstanding(m) /\ rq.id \notin Adding(m)
        BY <1>n, <2>1, <2>2, <2>4 DEF Adding, Creating
      <3>3. Exact(m)'
        BY <1>1, <2>1, <2>2, <2>3, <3>1, <3>2 DEF Exact
      <3>4. fpc[m] # "pushing"
        BY <2>1, <2>4 DEF Undisturbed, VectorRace
      <3> QED BY <1>1, <2>1, <3>3, <3>4 DEF Undisturbed
    <2>5. CASE rq.caller # m
      <3>1. open'[m] = open[m] /\ Erasing(m) = {}
        BY <1>0, <2>1, <2>5 DEF Erasing
      <3> QED BY <1>1, <2>1, <2>2, <2>3, <2>5, <3>1, BookKept
    <2> QED BY <2>4, <2>5
  <1> QED BY <1>2, <1>3, <1>4, <1>5, <1>6 DEF WorkerStep

LEMMA BookStep ==
    ASSUME TypeOK, LineInv, VerdictInv, BookInv, [Next]_vars
    PROVE  BookInv'
  <1> USE DEF mainVars, threadVars, workerVars, history
  <1> SUFFICES ASSUME NEW m \in Machine, m \notin raced' PROVE Undisturbed(m)' /\ Exact(m)'
    BY DEF BookInv
  <1>1. CASE UNCHANGED vars
    BY <1>1 DEF BookInv, vars, Undisturbed, Exact, VectorRace, Outstanding, InService, Adding, Storing,
                Erasing
  <1>2. CASE Next
    <2>1. m \notin raced /\ ~VectorRace(m)'
      BY <1>2 DEF Next, Watch
    <2>2. Undisturbed(m) /\ Exact(m)
      BY <2>1 DEF BookInv
    <2>3. CASE WorkerStep
      BY <2>1, <2>2, <2>3, BookWorker
    <2>4. ASSUME NEW k \in Machine, FilterStep(k) PROVE Undisturbed(m)' /\ Exact(m)'
      BY <2>1, <2>2, <2>4, BookThread
    <2>5. ASSUME UNCHANGED <<rqOf, nextId, open, pushed, queue, wpc, rq, snap, released>>,
                 fpc'[m] = fpc[m] \/ (fpc[m] = "off" /\ fpc'[m] = "recv")
          PROVE  Undisturbed(m)' /\ Exact(m)'
      <3>1. Outstanding(m)' = Outstanding(m) /\ Erasing(m)' = Erasing(m)
        BY <2>5 DEF Outstanding, InService, Erasing
      <3>2. UNCHANGED <<Adding(m), Storing(m)>>
        BY <2>5 DEF Adding, Storing
      <3>3. wpc' = "erasing" /\ rq'.caller = m => snap' = open[m]
        BY <2>2, <2>5 DEF Undisturbed
      <3> QED BY <2>1, <2>2, <2>5, <3>1, <3>2, <3>3, BookKept
    <2>6. CASE StartFilter
      <3>1. /\ UNCHANGED <<rqOf, nextId, open, pushed, queue, wpc, rq, snap, released>>
            /\ fpc' \in {fpc, [fpc EXCEPT ![Names[next]] = "recv"]}
            /\ next \in DOMAIN Names /\ mpc = "filter"
        BY <2>6 DEF StartFilter, MainAt
      <3>2. fpc[Names[next]] = "off" /\ fpc \in [Machine -> FilterPC]
        BY <3>1 DEF VerdictInv, Unstarted, Waiting, TypeOK
      <3>3. fpc'[m] = fpc[m] \/ (fpc[m] = "off" /\ fpc'[m] = "recv")
        BY <3>1, <3>2
      <3> QED BY <2>5, <3>1, <3>3
    <2>7. CASE DefineVM \/ BootVM \/ RecordVM \/ Guest \/ Crash
      <3>1. UNCHANGED <<fpc, rqOf, nextId, open, pushed, queue, wpc, rq, snap, released>>
        BY <2>7 DEF DefineVM, BootVM, RecordVM, Guest, PowerOff, Send, Crash
      <3> QED BY <2>5, <3>1
    <2> QED BY <1>2, <2>3, <2>4, <2>6, <2>7 DEF Next, MainStep
  <1> QED BY <1>1, <1>2

\* A filter whose thread and whose callback never met in its vector holds exactly the
\* packets nobody has answered for, and has released all others.
THEOREM NoPacketLostWithoutRace == Spec => []HeldExactly
  <1> DEFINE Inv == TypeOK /\ RulesOK /\ VerdictInv /\ LineInv /\ BookInv
  <1>1. Init => Inv
    BY TypeInit, RulesInit, VerdictInit, LineInit, BookInit
  <1>2. Inv /\ [Next]_vars => Inv'
    <2> SUFFICES ASSUME Inv, [Next]_vars PROVE Inv'
      OBVIOUS
    <2>1. TypeOK' /\ RulesOK'
      BY TypeStep
    <2>2. VerdictInv' /\ LineInv' /\ BookInv'
      BY VerdictStep, LineStep, BookStep
    <2> QED BY <2>1, <2>2
  <1>3. Inv => HeldExactly
    BY DEF BookInv, Exact, Adding, Storing, Erasing, HeldExactly
  <1> HIDE DEF Inv
  <1> QED BY <1>1, <1>2, <1>3, PTL DEF Spec

-----------------------------------------------------------------------------
(* The abstract gate.                                                      *)

\* The requests of a machine are queued in the order of its packets.
OrderInv ==
    \A i, j \in DOMAIN queue :
        i < j /\ queue[i].caller = queue[j].caller => queue[i].id < queue[j].id

\* The step the worker is at belongs to the action of the request in hand.
ServiceInv ==
    /\ wpc = "list" => rq.action = "FREEZEALL"
    /\ wpc = "find" => rq.action = "FREEZESRC"
    /\ wpc = "start" => rq.action = "STARTVM"
    /\ wpc = "suspend" => \/ rq.action = "FREEZEALL"
                          \/ rq.action = "FREEZESRC" /\ targets \subseteq {rq.caller}

LEMMA OrderStep ==
    ASSUME TypeOK, LineInv, OrderInv, [Next]_vars
    PROVE  OrderInv'
  <1> USE DEF mainVars, threadVars, workerVars, history
  <1>1. /\ queue \in Seq(Request) /\ rqOf \in [Machine -> Request] /\ nextId \in [Machine -> Nat]
        /\ fpc \in [Machine -> FilterPC]
    BY DEF TypeOK
  <1>2. CASE PopRequest
    <2>1. queue # << >> /\ queue' = Tail(queue)
      BY <1>2 DEF PopRequest
    <2>2. \A i \in DOMAIN queue' : i \in Nat /\ i + 1 \in DOMAIN queue /\ queue'[i] = queue[i + 1]
      BY <1>1, <2>1
    <2> QED BY <2>2 DEF OrderInv
  <1>3. ASSUME NEW k \in Machine, AddRequest(k) PROVE OrderInv'
    <2> DEFINE r == rqOf[k]
    <2>1. /\ queue' = Append(queue, r) /\ r \in Request
          /\ r.caller = k /\ r.id = nextId[k] - 1 /\ Creating(k) /\ nextId[k] \in Nat
      BY <1>1, <1>3 DEF AddRequest, LineInv, Creating
    <2>2. ASSUME NEW i \in DOMAIN queue, queue[i].caller = k PROVE queue[i].id < r.id
      <3>1. queue[i].id \in Nat
        <4>1. queue[i] \in Request
          BY <1>1
        <4> QED BY <4>1 DEF Request
      <3>2. queue[i].id < nextId[k] /\ queue[i].id # r.id
        BY <2>1, <2>2 DEF LineInv, Numbered, NumberedBy, Creating
      <3> HIDE DEF r
      <3> QED BY <2>1, <3>1, <3>2
    <2> HIDE DEF r
    <2>3. /\ \A i \in DOMAIN queue' : i \in DOMAIN queue \/ i = Len(queue) + 1
          /\ \A i \in DOMAIN queue : queue'[i] = queue[i] /\ i < Len(queue) + 1
          /\ queue'[Len(queue) + 1] = r
          /\ \A i \in DOMAIN queue : ~(Len(queue) + 1 < i)
          /\ ~(Len(queue) + 1 < Len(queue) + 1)
      BY <1>1, <2>1
    <2> QED BY <2>1, <2>2, <2>3 DEF OrderInv
  <1>4. ASSUME UNCHANGED queue PROVE OrderInv'
    BY <1>4 DEF OrderInv
  <1>5. CASE \/ MainStep \/ Guest \/ Crash \/ UNCHANGED vars
             \/ ListAll \/ FindSource \/ AllSuspended \/ StartNamed \/ ReleasePacket \/ EraseBegin
             \/ EraseEnd \/ \E m \in Machine : Suspend(m)
    BY <1>4, <1>5 DEF MainStep, DefineVM, StartFilter, BootVM, RecordVM, Guest, PowerOff, Send, Crash,
                      vars, ListAll, FindSource, AllSuspended, StartNamed, ReleasePacket, EraseBegin,
                      EraseEnd, Suspend
  <1>6. ASSUME NEW m \in Machine, FilterStep(m), ~AddRequest(m) PROVE OrderInv'
    BY <1>4, <1>6 DEF FilterStep, Receive, ReceiveFails, PushBegin, PushEnd, GiveVerdict
  <1> QED BY <1>2, <1>3, <1>5, <1>6 DEF Next, WorkerStep

LEMMA ServiceStep ==
    ASSUME ServiceInv, [Next]_vars
    PROVE  ServiceInv'
  <1> USE DEF mainVars, threadVars, workerVars, history
  <1>1. CASE PopRequest
    <2>1. /\ wpc' = "list" => rq'.action = "FREEZEALL"
          /\ wpc' = "find" => rq'.action = "FREEZESRC"
          /\ wpc' = "start" => rq'.action = "STARTVM"
          /\ wpc' # "suspend"
      BY <1>1, Services
    <2> QED BY <2>1 DEF ServiceInv
  <1>2. CASE ListAll
    <2>1. rq' = rq /\ wpc' = "suspend" /\ rq.action = "FREEZEALL"
      BY <1>2 DEF ListAll, ServiceInv
    <2> QED BY <2>1 DEF ServiceInv
  <1>3. CASE FindSource
    <2>1. /\ rq' = rq /\ wpc' = "suspend" /\ rq.action = "FREEZESRC"
          /\ targets' \subseteq {rq.caller}
      BY <1>3 DEF FindSource, VMByCaller, ServiceInv
    <2> QED BY <2>1 DEF ServiceInv
  <1>4. ASSUME NEW m \in Machine, Suspend(m) PROVE ServiceInv'
    <2>1. rq' = rq /\ wpc' = "suspend" /\ wpc = "suspend" /\ targets' \subseteq targets
      BY <1>4 DEF Suspend
    <2> QED BY <2>1 DEF ServiceInv
  <1>5. CASE AllSuspended \/ StartNamed \/ ReleasePacket \/ EraseBegin \/ EraseEnd
    <2>1. wpc' \in {"callback", "erase", "erasing", "pop"}
      BY <1>5 DEF AllSuspended, StartNamed, ReleasePacket, EraseBegin, EraseEnd
    <2> QED BY <2>1 DEF ServiceInv
  <1>6. ASSUME UNCHANGED <<wpc, rq, targets>> PROVE ServiceInv'
    BY <1>6 DEF ServiceInv
  <1>7. CASE MainStep \/ Guest \/ Crash \/ UNCHANGED vars
    BY <1>6, <1>7 DEF MainStep, DefineVM, StartFilter, BootVM, RecordVM, Guest, PowerOff, Send, Crash,
                      vars
  <1>8. ASSUME NEW m \in Machine, FilterStep(m) PROVE ServiceInv'
    BY <1>6, <1>8 DEF FilterStep, Receive, ReceiveFails, PushBegin, PushEnd, AddRequest, GiveVerdict
  <1> QED BY <1>1, <1>2, <1>3, <1>4, <1>5, <1>7, <1>8 DEF Next, WorkerStep

LEMMA HeldBackIs ==
    ASSUME NEW p
    PROVE  p \in HeldBack <=> \/ \E i \in DOMAIN queue : p = Asked(queue[i])
                             \/ \E m \in Machine : Creating(m) /\ p = Asked(rqOf[m])
  BY DEF HeldBack, Creating

LEMMA AskedFields ==
    ASSUME NEW r
    PROVE  /\ Asked(r).guest = r.caller /\ Asked(r).number = r.id
           /\ Asked(r).action = r.action /\ Asked(r).whom = r.arg
  BY DEF Asked

\* The gate looks at the threads through the requests they create and the queue only.
LEMMA HeldBackKept ==
    ASSUME UNCHANGED <<queue, rqOf>>, \A m \in Machine : Creating(m)' <=> Creating(m)
    PROVE  HeldBack' = HeldBack
  BY DEF HeldBack, Creating

GateInv == TypeOK /\ LineInv /\ OrderInv /\ ServiceInv /\ BookInv

\* Defining and booting are steps of the gate's guests; the rest it does not see.
LEMMA MainImplementsGate ==
    ASSUME FilterInv, VerdictInv, MainStep, raced \subseteq raced'
    PROVE  [Gate!PacketNext]_(Gate!packetVars)
  <1> USE DEF mainVars, threadVars, workerVars, history, Gate!gatePart, Gate!guestPart
  <1>1. /\ domain \in [Machine -> {"none", "shut", "running", "paused"}] /\ fpc \in [Machine -> FilterPC]
        /\ next \in Nat /\ DomainInv
    <2>1. TypeOK /\ DomainInv
      BY DEF FilterInv
    <2>2. next \in 1 .. (Len(Names) + 1)
      BY <2>1 DEF TypeOK
    <2>3. next \in Nat
      BY <2>2, NameFacts
    <2> QED BY <2>1, <2>3 DEF TypeOK
  <1>2. /\ \A i \in DOMAIN Names : Names[i] \in Machine /\ i \in Nat
        /\ \A i, j \in DOMAIN Names : i # j => Names[i] # Names[j]
    BY NameFacts, FilterAssumption
  <1>3. UNCHANGED <<nextId, queue, rqOf, wpc, rq, released>>
    BY DEF MainStep, DefineVM, StartFilter, BootVM, RecordVM
  <1>4. (IF InService THEN {Asked(rq)} ELSE {})' = IF InService THEN {Asked(rq)} ELSE {}
    BY <1>3 DEF InService, Asked
  <1>5. next \in DOMAIN Names
    BY DEF MainStep, DefineVM, StartFilter, BootVM, RecordVM, MainAt
  <1>6. \A m \in Machine : Creating(m)' <=> Creating(m)
    <2>1. CASE StartFilter
      <3>1. fpc' \in {fpc, [fpc EXCEPT ![Names[next]] = "recv"]} /\ mpc = "filter"
        BY <2>1 DEF StartFilter, MainAt
      <3>2. fpc[Names[next]] = "off"
        BY <1>5, <3>1 DEF VerdictInv, Unstarted, Waiting
      <3> QED BY <1>1, <1>2, <1>5, <3>1, <3>2 DEF Creating
    <2>2. CASE DefineVM \/ BootVM \/ RecordVM
      BY <2>2 DEF DefineVM, BootVM, RecordVM, Creating
    <2> QED BY <2>1, <2>2 DEF MainStep
  <1>7. HeldBack' = HeldBack
    BY <1>3, <1>6, HeldBackKept
  <1>8. \A m : m \in Booted <=> \E i \in DOMAIN Names : m = Names[i] /\ (i < next \/ (i = next /\ mpc = "record"))
    BY DEF Booted
  <1>9. \A m : m \in Booted' <=> \E i \in DOMAIN Names : m = Names[i] /\ (i < next' \/ (i = next' /\ mpc' = "record"))
    BY DEF Booted
  <1>10. ASSUME UNCHANGED domain, Booted' = Booted PROVE Gate!PacketNext
    BY <1>3, <1>4, <1>7, <1>10 DEF Gate!PacketNext
  <1>11. CASE DefineVM
    <2>1. mpc = "define" /\ mpc' # "record" /\ next' = next
      BY <1>11 DEF DefineVM, MainAt
    <2>2. Booted' = Booted
      BY <1>8, <1>9, <2>1
    <2>3. CASE domain' = [domain EXCEPT ![Names[next]] = "shut"]
      <3>1. domain[Names[next]] = "none" /\ Names[next] \in Machine
        BY <1>1, <1>2, <1>5, <2>1 DEF DomainInv
      <3>2. Gate!Define(Names[next])
        BY <1>3, <1>4, <1>7, <2>2, <2>3, <3>1 DEF Gate!Define
      <3> QED BY <3>1, <3>2 DEF Gate!PacketNext
    <2>4. CASE UNCHANGED domain
      BY <1>10, <2>2, <2>4
    <2> QED BY <1>11, <2>3, <2>4 DEF DefineVM
  <1>12. CASE StartFilter
    <2>1. mpc = "filter" /\ mpc' # "record" /\ next' = next /\ UNCHANGED domain
      BY <1>12 DEF StartFilter, MainAt
    <2>2. Booted' = Booted
      BY <1>8, <1>9, <2>1
    <2> QED BY <1>10, <2>1, <2>2
  <1>13. CASE BootVM
    <2>1. /\ mpc = "boot" /\ next' = next
          /\ \/ /\ mpc' = "record"
                /\ \/ domain[Names[next]] = "shut" /\ domain' = [domain EXCEPT ![Names[next]] = "running"]
                   \/ UNCHANGED domain
             \/ UNCHANGED <<domain, mpc>>
      BY <1>13 DEF BootVM, MainAt
    <2>2. CASE mpc' = "record"
      <3>1. Names[next] \notin Booted /\ Names[next] \in Machine
        BY <1>1, <1>2, <1>5, <1>8, <2>1
      <3>2. \A i \in DOMAIN Names : (i < next' \/ (i = next' /\ mpc' = "record"))
                                       <=> (i < next \/ (i = next /\ mpc = "record") \/ i = next)
        BY <2>1, <2>2
      <3>3. Booted' = Booted \cup {Names[next]}
        BY <1>5, <1>8, <1>9, <3>2
      <3>4. Gate!Boot(Names[next])
        BY <1>3, <1>4, <1>7, <2>1, <2>2, <3>1, <3>3 DEF Gate!Boot
      <3> QED BY <3>1, <3>4 DEF Gate!PacketNext
    <2>3. CASE UNCHANGED <<domain, mpc>>
      <3>1. Booted' = Booted
        BY <1>8, <1>9, <2>1, <2>3
      <3> QED BY <1>10, <2>3, <3>1
    <2> QED BY <2>1, <2>2, <2>3
  <1>14. CASE RecordVM
    <2>1. mpc = "record" /\ mpc' # "record" /\ next' = next + 1 /\ UNCHANGED domain
      BY <1>14 DEF RecordVM, MainAt
    <2>2. \A i \in DOMAIN Names : (i < next' \/ (i = next' /\ mpc' = "record"))
                                     <=> (i < next \/ (i = next /\ mpc = "record"))
      BY <1>1, <1>2, <2>1
    <2>3. Booted' = Booted
      BY <1>8, <1>9, <2>2
    <2> QED BY <1>10, <2>1, <2>3
  <1> QED BY <1>11, <1>12, <1>13, <1>14 DEF MainStep

\* The worker takes up the first packet of a machine that waits: those behind it in the
\* queue and the one being stored came later.
LEMMA PopImplementsGate ==
    ASSUME GateInv, PopRequest, raced \subseteq raced', Booted' = Booted
    PROVE  [Gate!PacketNext]_(Gate!packetVars)
  <1> USE DEF mainVars, threadVars, workerVars, history, Gate!gatePart, Gate!guestPart
  <1>1. /\ queue \in Seq(Request) /\ rqOf \in [Machine -> Request]
        /\ nextId \in [Machine -> Nat] /\ LineInv /\ OrderInv
    BY DEF GateInv, TypeOK
  <1>2. /\ UNCHANGED <<fpc, rqOf, nextId, released, domain>> /\ wpc = "pop" /\ queue # << >>
        /\ rq' = Head(queue) /\ queue' = Tail(queue)
        /\ wpc' \in {"list", "find", "start", "callback"}
    BY Services DEF PopRequest
  <1>3. /\ rq' = queue[1] /\ 1 \in DOMAIN queue /\ queue[1] \in Request
        /\ \A i \in DOMAIN queue' : /\ i \in Nat /\ i + 1 \in DOMAIN queue /\ i + 1 # 1
                                     /\ queue'[i] = queue[i + 1]
        /\ \A i \in DOMAIN queue : i = 1 \/ (i \in Nat /\ 1 < i /\ i - 1 \in DOMAIN queue'
                                             /\ queue'[i - 1] = queue[i])
        /\ \A i \in DOMAIN queue : queue[i] \in Request
    BY <1>1, <1>2
  <1> DEFINE first == queue[1]
             p == Asked(first)
  <1>4. \A m \in Machine : Creating(m)' <=> Creating(m)
    BY <1>2 DEF Creating
  <1>5. \A q : q \in HeldBack' <=> \/ \E i \in DOMAIN queue' : q = Asked(queue'[i])
                                   \/ \E m \in Machine : Creating(m) /\ q = Asked(rqOf[m])
    BY <1>2 DEF HeldBack, Creating
  <1>6. p \in HeldBack
    BY <1>3, HeldBackIs
  <1>7. first.id \in Nat /\ first.caller \in Machine
    BY <1>3 DEF Request
  <1>8. ASSUME NEW m \in Machine, Creating(m), rqOf[m].caller = first.caller
        PROVE  first.id < rqOf[m].id
    <2>1. rqOf[m].caller = m /\ rqOf[m].id = nextId[m] - 1 /\ nextId[m] \in Nat
      BY <1>1, <1>8 DEF LineInv
    <2>2. first.id < nextId[m] /\ first.id # rqOf[m].id
      <3>1. Numbered(first)
        BY <1>1, <1>3 DEF LineInv
      <3>2. first.caller = m
        BY <1>8, <2>1
      <3> HIDE DEF first
      <3> QED BY <1>8, <3>1, <3>2 DEF Numbered, NumberedBy, Creating
    <2> HIDE DEF first
    <2> QED BY <1>7, <2>1, <2>2
  <1>9. ASSUME NEW i \in DOMAIN queue, i # 1, queue[i].caller = first.caller
        PROVE  first.id < queue[i].id
    BY <1>1, <1>3, <1>9 DEF OrderInv
  <1>10. ASSUME NEW q \in HeldBack, q # p, q.guest = p.guest PROVE p.number < q.number
    <2>1. CASE \E i \in DOMAIN queue : q = Asked(queue[i])
      BY <1>9, <1>10, <2>1, AskedFields
    <2>2. CASE \E m \in Machine : Creating(m) /\ q = Asked(rqOf[m])
      BY <1>8, <1>10, <2>2, AskedFields
    <2> QED BY <1>10, <2>1, <2>2, HeldBackIs
  <1>11. p \notin HeldBack'
    <2>1. ASSUME NEW i \in DOMAIN queue, i # 1 PROVE Asked(queue[i]) # p
      <3>1. queue[i].id \in Nat
        BY <1>3 DEF Request
      <3>2. queue[i].caller # first.caller \/ first.id < queue[i].id
        BY <1>9, <2>1
      <3>3. queue[i].caller # first.caller \/ first.id # queue[i].id
        <4> HIDE DEF first
        <4> QED BY <1>7, <3>1, <3>2
      <3> QED BY <3>3, AskedFields
    <2>2. ASSUME NEW m \in Machine, Creating(m) PROVE Asked(rqOf[m]) # p
      <3>1. rqOf[m].id \in Nat
        BY <1>1 DEF Request
      <3>2. rqOf[m].caller # first.caller \/ first.id < rqOf[m].id
        BY <1>8, <2>2
      <3>3. rqOf[m].caller # first.caller \/ first.id # rqOf[m].id
        <4> HIDE DEF first
        <4> QED BY <1>7, <3>1, <3>2
      <3> QED BY <3>3, AskedFields
    <2> QED BY <1>3, <1>5, <2>1, <2>2
  <1>12. \A q : q \in HeldBack <=> q = p \/ q \in HeldBack'
    BY <1>3, <1>5, HeldBackIs
  <1>13. HeldBack' = HeldBack \ {p}
    BY <1>11, <1>12
  <1>14. \A q \in HeldBack : q.guest = p.guest => p.number <= q.number
    <2>1. p.number = first.id
      BY AskedFields
    <2>2. ASSUME NEW q \in HeldBack PROVE q.number \in Int
      <3>1. \A m \in Machine : rqOf[m].id \in Nat
        BY <1>1 DEF Request
      <3>2. \A i \in DOMAIN queue : queue[i].id \in Nat
        BY <1>3 DEF Request
      <3> QED BY <3>1, <3>2, HeldBackIs, AskedFields
    <2> HIDE DEF p, first
    <2> QED BY <1>7, <1>10, <2>1, <2>2
  <1>15. /\ (IF InService THEN {Asked(rq)} ELSE {}) = {}
         /\ (IF InService THEN {Asked(rq)} ELSE {})' = {p}
    BY <1>2, <1>3 DEF InService, Asked
  <1> HIDE DEF p
  <1>16. Gate!TakeUp(p)
    BY <1>2, <1>13, <1>14, <1>15 DEF Gate!TakeUp
  <1> QED BY <1>6, <1>16 DEF Gate!PacketNext

\* The worker suspends, starts and releases for the packet in hand.
LEMMA WorkerImplementsGate ==
    ASSUME GateInv, WorkerStep, raced \subseteq raced', Booted' = Booted
    PROVE  [Gate!PacketNext]_(Gate!packetVars)
  <1> USE DEF mainVars, threadVars, workerVars, history, Gate!gatePart, Gate!guestPart
  <1> DEFINE hand == IF InService THEN {Asked(rq)} ELSE {}
  <1>1. domain \in [Machine -> {"none", "shut", "running", "paused"}] /\ ServiceInv /\ BookInv
        /\ rq.caller \in Machine
    BY DEF GateInv, TypeOK, Request
  <1>2. CASE PopRequest
    BY <1>2, PopImplementsGate
  <1>3. ASSUME UNCHANGED <<queue, rqOf, fpc>> PROVE HeldBack' = HeldBack
    BY <1>3, HeldBackKept DEF Creating
  <1>4. CASE ListAll \/ FindSource \/ AllSuspended \/ EraseBegin \/ EraseEnd
    <2>1. /\ UNCHANGED <<queue, rqOf, fpc, rq, nextId, released, domain>>
          /\ InService' <=> InService
      BY <1>4 DEF ListAll, FindSource, AllSuspended, EraseBegin, EraseEnd, InService
    <2>2. hand' = hand
      BY <2>1 DEF Asked
    <2> QED BY <1>3, <2>1, <2>2 DEF Gate!PacketNext
  <1>5. ASSUME NEW m \in Machine, Suspend(m) PROVE Gate!PacketNext
    <2>1. /\ UNCHANGED <<queue, rqOf, fpc, rq, nextId, released, wpc>>
          /\ wpc = "suspend" /\ m \in targets
          /\ \/ domain[m] = "running" /\ domain' = [domain EXCEPT ![m] = "paused"]
             \/ UNCHANGED domain
      BY <1>5 DEF Suspend
    <2>2. hand' = hand /\ hand = {Asked(rq)}
      BY <2>1 DEF Asked, InService
    <2>3. CASE domain[m] = "running" /\ domain' = [domain EXCEPT ![m] = "paused"]
      <3>1. \/ Asked(rq).action = "FREEZEALL"
            \/ Asked(rq).action = "FREEZESRC" /\ Asked(rq).guest = m
        BY <1>1, <2>1, AskedFields DEF ServiceInv
      <3>2. Gate!Freeze(m)
        BY <1>3, <2>1, <2>2, <2>3, <3>1 DEF Gate!Freeze
      <3> QED BY <3>2 DEF Gate!PacketNext
    <2>4. CASE UNCHANGED domain
      BY <1>3, <2>1, <2>2, <2>4 DEF Gate!PacketNext
    <2> QED BY <2>1, <2>3, <2>4
  <1>6. CASE StartNamed
    <2>1. /\ UNCHANGED <<queue, rqOf, fpc, rq, nextId, released>>
          /\ wpc = "start" /\ wpc' = "callback"
          /\ \/ /\ rq.arg \in Machine /\ domain[rq.arg] = "shut"
                /\ domain' = [domain EXCEPT ![rq.arg] = "running"]
             \/ UNCHANGED domain
      BY <1>6 DEF StartNamed, Startable
    <2>2. hand' = hand /\ hand = {Asked(rq)}
      BY <2>1 DEF Asked, InService
    <2>3. CASE /\ rq.arg \in Machine /\ domain[rq.arg] = "shut"
               /\ domain' = [domain EXCEPT ![rq.arg] = "running"]
      <3>1. Asked(rq).action = "STARTVM" /\ Asked(rq).whom = rq.arg
        BY <1>1, <2>1, AskedFields DEF ServiceInv
      <3>2. Gate!Start(rq.arg)
        BY <1>3, <2>1, <2>2, <2>3, <3>1 DEF Gate!Start
      <3> QED BY <2>3, <3>2 DEF Gate!PacketNext
    <2>4. CASE UNCHANGED domain
      BY <1>3, <2>1, <2>2, <2>4 DEF Gate!PacketNext
    <2> QED BY <2>1, <2>3, <2>4
  <1>7. CASE ReleasePacket
    <2>1. /\ UNCHANGED <<queue, rqOf, fpc, rq, nextId, domain>>
          /\ wpc = "callback" /\ wpc' \in {"erase", "pop"}
          /\ \/ released' = [released EXCEPT ![rq.caller] = @ \cup {rq.id}]
             \/ rq.id \notin open[rq.caller] /\ UNCHANGED released
      BY <1>7 DEF ReleasePacket, Kept
    <2>2. hand' = {} /\ hand = {Asked(rq)}
      BY <2>1 DEF Asked, InService
    <2>3. rq.id \notin open[rq.caller] => rq.caller \in raced
      <3>1. rq.id \in Outstanding(rq.caller)
        BY <2>1 DEF Outstanding, InService
      <3> QED BY <1>1, <3>1 DEF BookInv, Exact
    <2>4. Asked(rq).guest = rq.caller /\ Asked(rq).number = rq.id
      BY AskedFields
    <2>5. Gate!LetThrough(Asked(rq))
      BY <1>3, <2>1, <2>2, <2>3, <2>4 DEF Gate!LetThrough
    <2> QED BY <2>2, <2>5 DEF Gate!PacketNext
  <1> QED BY <1>2, <1>4, <1>5, <1>6, <1>7 DEF WorkerStep

\* A filter's thread makes packets wait; that a request moves from the thread into the
\* queue is no step of the gate.
LEMMA ThreadImplementsGate ==
    ASSUME FilterInv, FilterInv', LineInv, NEW m \in Machine, FilterStep(m),
           raced \subseteq raced', Booted' = Booted
    PROVE  [Gate!PacketNext]_(Gate!packetVars)
  <1> USE DEF mainVars, threadVars, workerVars, history, Gate!gatePart, Gate!guestPart
  <1> DEFINE hand == IF InService THEN {Asked(rq)} ELSE {}
  <1>1. /\ queue \in Seq(Request) /\ rqOf \in [Machine -> Request] /\ fpc \in [Machine -> FilterPC]
        /\ nextId \in [Machine -> Nat]
    BY DEF FilterInv, TypeOK
  <1>2. UNCHANGED <<wpc, rq, released, domain>>
    BY DEF FilterStep, Receive, ReceiveFails, PushBegin, PushEnd, AddRequest, GiveVerdict
  <1>3. hand' = hand
    BY <1>2 DEF InService, Asked
  <1>4. ASSUME UNCHANGED nextId, HeldBack' = HeldBack PROVE Gate!PacketNext
    BY <1>2, <1>3, <1>4 DEF Gate!PacketNext
  <1>5. CASE Receive(m) \/ ReceiveFails(m) \/ PushEnd(m) \/ GiveVerdict(m)
    <2>1. UNCHANGED <<queue, rqOf, nextId>>
      BY <1>5 DEF Receive, ReceiveFails, PushEnd, GiveVerdict
    <2>2. \A k \in Machine : Creating(k)' <=> Creating(k)
      BY <1>1, <1>5 DEF Receive, ReceiveFails, PushEnd, GiveVerdict, Creating
    <2> QED BY <1>4, <2>1, <2>2, HeldBackKept
  <1>6. CASE PushBegin(m)
    <2> DEFINE p == Asked(rqOf'[m])
    <2>1. /\ nextId' = [nextId EXCEPT ![m] = @ + 1] /\ queue' = queue
          /\ fpc[m] = "push" /\ fpc' = [fpc EXCEPT ![m] = "pushing"]
      BY <1>6 DEF PushBegin
    <2>2. /\ rqOf'[m].id = nextId[m] /\ rqOf'[m].caller = m
          /\ \A k \in Machine \ {m} : rqOf'[k] = rqOf[k]
      BY <1>6, PushNumbers DEF FilterInv
    <2>3. rqOf'[m].action \in {"FREEZEALL", "FREEZESRC", "STARTVM"} /\ rqOf'[m].arg \in Params
      <3>1. fpc'[m] = "pushing"
        BY <1>1, <2>1
      <3>2. rqOf'[m].action \in {"FREEZEALL", "FREEZESRC", "STARTVM"}
        BY <3>1 DEF FilterInv, ThreadInv, Known
      <3>3. rqOf' \in [Machine -> Request]
        BY DEF FilterInv, TypeOK
      <3> QED BY <3>2, <3>3 DEF Request
    <2>4. Creating(m)' /\ ~Creating(m) /\ \A k \in Machine \ {m} : Creating(k)' <=> Creating(k)
      BY <1>1, <2>1 DEF Creating
    <2>5. \A q : q \in HeldBack' <=> \/ \E i \in DOMAIN queue : q = Asked(queue[i])
                                     \/ \E k \in Machine : Creating(k)' /\ q = Asked(rqOf'[k])
      BY <2>1 DEF HeldBack, Creating
    <2>6. \A q : q \in HeldBack' <=> q \in HeldBack \/ q = p
      BY <2>2, <2>4, <2>5, HeldBackIs
    <2>7. HeldBack' = HeldBack \cup {p}
      BY <2>6
    <2>8. p = [guest |-> m, number |-> nextId[m], action |-> rqOf'[m].action, whom |-> rqOf'[m].arg]
      BY <2>2 DEF Asked
    <2>9. Gate!Hold(m, rqOf'[m].action, rqOf'[m].arg)
      BY <1>2, <1>3, <2>1, <2>7, <2>8 DEF Gate!Hold
    <2> QED BY <2>3, <2>9 DEF Gate!PacketNext
  <1>7. CASE AddRequest(m)
    <2> DEFINE r == rqOf[m]
    <2>1. /\ UNCHANGED <<rqOf, nextId>> /\ queue' = Append(queue, r) /\ r \in Request
          /\ fpc[m] = "add" /\ fpc' = [fpc EXCEPT ![m] = "verdict"]
      BY <1>1, <1>7 DEF AddRequest
    <2>2. ~Creating(m)' /\ Creating(m) /\ \A k \in Machine \ {m} : Creating(k)' <=> Creating(k)
      BY <1>1, <2>1 DEF Creating
    <2>3. \A q : q \in HeldBack' <=> \/ \E i \in DOMAIN queue' : q = Asked(queue'[i])
                                     \/ \E k \in Machine : Creating(k)' /\ q = Asked(rqOf[k])
      BY <2>1 DEF HeldBack, Creating
    <2> HIDE DEF r
    <2>4. \A q : (\E i \in DOMAIN queue' : q = Asked(queue'[i]))
                 <=> (\E i \in DOMAIN queue : q = Asked(queue[i])) \/ q = Asked(r)
      <3>1. /\ \A i \in DOMAIN queue' : queue'[i] = r \/ (i \in DOMAIN queue /\ queue'[i] = queue[i])
            /\ \A i \in DOMAIN queue : i \in DOMAIN queue' /\ queue'[i] = queue[i]
            /\ \E i \in DOMAIN queue' : queue'[i] = r
        <4>1. /\ DOMAIN queue' = 1 .. (Len(queue) + 1) /\ DOMAIN queue = 1 .. Len(queue)
              /\ Len(queue) \in Nat /\ queue'[Len(queue) + 1] = r
              /\ \A i \in 1 .. Len(queue) : queue'[i] = queue[i]
          BY <1>1, <2>1
        <4> QED BY <4>1
      <3> QED BY <3>1
    <2>5. \A q : q \in HeldBack' <=> q \in HeldBack
      BY <2>2, <2>3, <2>4, HeldBackIs DEF r
    <2>6. HeldBack' = HeldBack
      BY <2>5
    <2> QED BY <1>4, <2>1, <2>6
  <1> QED BY <1>5, <1>6, <1>7 DEF FilterStep

LEMMA GuestImplementsGate ==
    ASSUME TypeOK, Guest \/ Crash, raced \subseteq raced', Booted' = Booted
    PROVE  [Gate!PacketNext]_(Gate!packetVars)
  <1> USE DEF mainVars, threadVars, workerVars, history, Gate!gatePart, Gate!guestPart
  <1> DEFINE hand == IF InService THEN {Asked(rq)} ELSE {}
  <1>1. UNCHANGED <<queue, rqOf, fpc, nextId, wpc, rq, released>>
    BY DEF Guest, PowerOff, Send, Crash
  <1>2. hand' = hand /\ HeldBack' = HeldBack
    BY <1>1, HeldBackKept DEF InService, Asked, Creating
  <1>3. ASSUME NEW m \in Machine, PowerOff(m) PROVE Gate!PacketNext
    <2>1. domain[m] = "running" /\ domain' = [domain EXCEPT ![m] = "shut"]
      BY <1>3 DEF PowerOff
    <2>2. Gate!SwitchOff(m)
      BY <1>1, <1>2, <2>1 DEF Gate!SwitchOff
    <2> QED BY <2>2 DEF Gate!PacketNext
  <1>4. ASSUME UNCHANGED domain PROVE Gate!PacketNext
    BY <1>1, <1>2, <1>4 DEF Gate!PacketNext
  <1>5. CASE Crash
    BY <1>4, <1>5 DEF Crash
  <1>6. ASSUME NEW m \in Machine, NEW mark, Send(m, mark) PROVE Gate!PacketNext
    BY <1>4, <1>6 DEF Send
  <1> QED BY <1>3, <1>5, <1>6 DEF Guest

LEMMA InitImplementsGate == Init => Gate!PacketInit
  <1> SUFFICES ASSUME Init PROVE Gate!PacketInit
    OBVIOUS
  <1>1. HeldBack = {} /\ ~InService
    BY DEF Init, HeldBack, InService
  <1>2. Booted = {}
    BY NameFacts DEF Init, Booted
  <1> QED BY <1>1, <1>2 DEF Init, Gate!PacketInit

LEMMA StepImplementsGate ==
    ASSUME FilterInv, FilterInv', VerdictInv, GateInv, [Next]_vars
    PROVE  [Gate!PacketNext]_(Gate!packetVars)
  <1> USE DEF mainVars, threadVars, workerVars, history
  <1>1. CASE UNCHANGED vars
    <2>1. UNCHANGED <<queue, rqOf, fpc, nextId, wpc, rq, released, domain, raced, next, mpc>>
      BY <1>1 DEF vars
    <2>2. HeldBack' = HeldBack /\ Booted' = Booted
      BY <2>1, HeldBackKept DEF Creating, Booted
    <2>3. (IF InService THEN {Asked(rq)} ELSE {})' = IF InService THEN {Asked(rq)} ELSE {}
      BY <2>1 DEF InService, Asked
    <2> QED BY <2>1, <2>2, <2>3 DEF Gate!packetVars, Gate!gatePart, Gate!guestPart
  <1>2. ASSUME Next PROVE raced \subseteq raced'
    BY <1>2 DEF Next, Watch
  <1>3. ASSUME UNCHANGED <<next, mpc>> PROVE Booted' = Booted
    BY <1>3 DEF Booted
  <1>4. CASE Next /\ MainStep
    BY <1>2, <1>4, MainImplementsGate
  <1>5. CASE Next /\ WorkerStep
    <2>1. UNCHANGED <<next, mpc>>
      BY <1>5 DEF WorkerStep, PopRequest, ListAll, FindSource, AllSuspended, StartNamed, ReleasePacket,
                  EraseBegin, EraseEnd, Suspend
    <2> QED BY <1>2, <1>3, <1>5, <2>1, WorkerImplementsGate
  <1>6. CASE Next /\ (Guest \/ Crash)
    <2>1. UNCHANGED <<next, mpc>>
      BY <1>6 DEF Guest, PowerOff, Send, Crash
    <2>2. TypeOK
      BY DEF GateInv
    <2> QED BY <1>2, <1>3, <1>6, <2>1, <2>2, GuestImplementsGate
  <1>7. ASSUME Next, NEW m \in Machine, FilterStep(m) PROVE [Gate!PacketNext]_(Gate!packetVars)
    <2>1. UNCHANGED <<next, mpc>>
      BY <1>7 DEF FilterStep, Receive, ReceiveFails, PushBegin, PushEnd, AddRequest, GiveVerdict
    <2>2. LineInv
      BY DEF GateInv
    <2> QED BY <1>2, <1>3, <1>7, <2>1, <2>2, ThreadImplementsGate
  <1> QED BY <1>1, <1>4, <1>5, <1>6, <1>7 DEF Next

\* The filters' threads, the queue and the worker do what the gate promises.
THEOREM ImplementsPacketGate == Spec => PacketGateSpec
  <1> DEFINE Inv == FilterInv /\ VerdictInv /\ GateInv
  <1>1. Init => Inv
    <2>1. Init => OrderInv /\ ServiceInv
      BY DEF Init, OrderInv, ServiceInv
    <2> QED BY <2>1, FilterInvInit, VerdictInit, TypeInit, LineInit, BookInit DEF GateInv
  <1>2. Inv /\ [Next]_vars => Inv'
    <2> SUFFICES ASSUME Inv, [Next]_vars PROVE Inv'
      OBVIOUS
    <2>1. FilterInv'
      BY FilterInvStep
    <2>2. VerdictInv' /\ LineInv' /\ BookInv' /\ OrderInv' /\ ServiceInv'
      BY VerdictStep, LineStep, BookStep, OrderStep, ServiceStep DEF GateInv
    <2> QED BY <2>1, <2>2 DEF FilterInv, GateInv
  <1>3. Inv /\ Inv' /\ [Next]_vars => [Gate!PacketNext]_(Gate!packetVars)
    BY StepImplementsGate
  <1> HIDE DEF Inv
  <1> QED BY <1>1, <1>2, <1>3, InitImplementsGate, PTL DEF Spec, PacketGateSpec, Gate!PacketSpec
=============================================================================
