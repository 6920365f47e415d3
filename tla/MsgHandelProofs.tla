---------------------------- MODULE MsgHandelProofs ----------------------------
(* What TLAPS proves of MsgHandel, for every value of its constants.       *)
EXTENDS MsgHandelProperties, TLAPS

-----------------------------------------------------------------------------
(* The invariant the others rest on: the message being handled is at the   *)
(* head of the inbox, a running tool is the head of todo and holds the     *)
(* gate, and a write is only ever on the list of a setDev request.         *)
BusyHasMessage == pc # "idle" => inbox # <<>>
ToolIsHead == pc = "tool" => todo # <<>> /\ Head(todo).op \in ATOps
WritesPlanned ==
    \A i \in 1..Len(todo) : todo[i].op = "write" =>
        /\ reqMsg.svc = "setDev" /\ reqMsg.params.act \in Positions
        /\ todo[i].mac = reqMsg.params.mac
Planned == pc \notin {"run", "tool"} => todo = <<>>

GateMatchesTool == REQ_MSG_HANDELING = 0 /\ (BLE_CTL_CMD_RUNING = 1 <=> pc = "tool")

Control == BusyHasMessage /\ ToolIsHead /\ WritesPlanned /\ Planned /\ GateMatchesTool

BaseInv == TypeOK /\ Control

-----------------------------------------------------------------------------
(* Lemmas about sequences.                                                 *)
LEMMA TailFacts ==
    ASSUME NEW S, NEW s \in Seq(S), s # <<>>
    PROVE  /\ Tail(s) \in Seq(S)
           /\ Head(s) \in S
           /\ Head(s) = s[1]
           /\ Len(Tail(s)) = Len(s) - 1
           /\ \A i \in 1..Len(Tail(s)) : Tail(s)[i] = s[i + 1]
  OBVIOUS

LEMMA AppendFacts ==
    ASSUME NEW S, NEW s \in Seq(S), NEW e \in S
    PROVE  /\ Append(s, e) \in Seq(S)
           /\ Append(s, e) # <<>>
           /\ Len(Append(s, e)) = Len(s) + 1
           /\ \A i \in 1..Len(s) : Append(s, e)[i] = s[i]
           /\ Append(s, e)[Len(s) + 1] = e
  OBVIOUS

LEMMA FirstOnly ==
    ASSUME NEW S, NEW s \in Seq(S), s # <<>>
    PROVE  /\ SubSeq(s, 1, 1) \in Seq(S)
           /\ SubSeq(s, 1, 1) # <<>>
           /\ Len(SubSeq(s, 1, 1)) = 1
           /\ Head(SubSeq(s, 1, 1)) = Head(s)
  OBVIOUS

-----------------------------------------------------------------------------
LEMMA BaseInit == Init => BaseInv
<1> SUFFICES ASSUME Init PROVE BaseInv
  OBVIOUS
<1>1. BleTypeOK
  BY MacsAssumption, AckConventionAssumption
     DEF Init, BleInit, BleTypeOK, PositionCode, Positions, Acks
<1>2. reqMsg \in ReqMsgs
  <2>1. AnyMac \in Macs
    BY MacsAssumption DEF AnyMac
  <2> QED
    BY <2>1, MaxMsgsAssumption DEF Init, NoReqMsg, ReqMsgs, Params, Actions
<1>3. TypeOK
  BY <1>1, <1>2, MaxMsgsAssumption DEF Init, TypeOK, PcValues, Acks
<1>4. Control
  BY DEF Init, Control, BusyHasMessage, ToolIsHead, WritesPlanned, Planned, GateMatchesTool
<1> QED
  BY <1>3, <1>4 DEF BaseInv

(* While a message is being handled it is there to be looked at.           *)
LEMMA CurrentType ==
    ASSUME BaseInv, pc # "idle"
    PROVE  Current \in Messages /\ inbox # <<>>
<1>1. inbox # <<>> /\ inbox \in Seq(Messages)
  BY DEF BaseInv, Control, BusyHasMessage, TypeOK
<1> QED
  BY <1>1, TailFacts DEF Current

(* The devices' own steps keep their types, for every history they have.   *)
LEMMA DeviceTypes ==
    ASSUME BleTypeOK, NEW m \in Macs,
           ConnectSettles(m) \/ WriteSettles(m) \/ ConnectionDrops(m)
    PROVE  BleTypeOK'
<1>1. pending[m] \in Seq(Writes)
  BY DEF BleTypeOK
<1>2. ASSUME pending[m] # <<>>
      PROVE  Tail(pending[m]) \in Seq(Writes) /\ Head(pending[m]) \in Writes
  BY <1>1, <1>2, TailFacts
<1>3. CASE ConnectSettles(m)
  BY <1>3 DEF ConnectSettles, BleTypeOK
<1>4. CASE WriteExecutes(m)
  <2>1. Head(pending[m]).value \in Positions /\ Head(pending[m]).tid \in 1..MaxMsgs
    BY <1>2, <1>4 DEF WriteExecutes, Writes
  <2>2. StatusAfter(Head(pending[m]).value) \in Acks
    BY DEF StatusAfter, PositionCode, Acks
  <2> QED
    BY <1>2, <1>4, <2>1, <2>2 DEF WriteExecutes, BleTypeOK
<1>5. CASE WriteRefused(m)
  <2>1. StatusRefused(m) \in Acks
    BY DEF StatusRefused, BleTypeOK, Acks
  <2> QED
    BY <1>2, <1>5, <2>1 DEF WriteRefused, BleTypeOK
<1>6. CASE WriteLost(m)
  BY <1>2, <1>6 DEF WriteLost, BleTypeOK
<1>7. CASE ConnectionDrops(m)
  BY <1>7 DEF ConnectionDrops, BleTypeOK
<1> QED
  BY <1>3, <1>4, <1>5, <1>6, <1>7 DEF WriteSettles

(* What a running command does to the devices keeps their types.           *)
LEMMA ToolTypes ==
    ASSUME BaseInv, pc = "tool", ToolEffect(Head(todo))
    PROVE  /\ BleTypeOK'
           /\ ack' \in Acks /\ macList' \subseteq Macs
           /\ reported' \in [Macs -> Positions \union {"none"}]
<1> DEFINE c == Head(todo)
<1>1. c \in Steps /\ c = todo[1] /\ 1 \in 1..Len(todo)
  BY TailFacts DEF BaseInv, Control, ToolIsHead, TypeOK
<1>2. c.mac \in Macs
  BY <1>1 DEF Steps
<1>3. BleTypeOK'
  <2>1. CASE c.op = "write"
    <3>1. reqMsg.params.act \in Positions
      BY <1>1, <2>1 DEF BaseInv, Control, WritesPlanned
    <3>2. Current.tid \in 1..MaxMsgs
      BY CurrentType DEF Messages
    <3>3. WriteCmd(c.mac, Current.tid, reqMsg.params.act)
      BY <2>1 DEF ToolEffect
    <3>4. [tid |-> Current.tid, value |-> reqMsg.params.act] \in Writes
      BY <3>1, <3>2 DEF Writes
    <3>5. Append(pending[c.mac], [tid |-> Current.tid, value |-> reqMsg.params.act]) \in Seq(Writes)
      BY <1>2, <3>4, AppendFacts DEF BaseInv, TypeOK, BleTypeOK
    <3> HIDE DEF c
    <3> QED
      BY <1>2, <3>3, <3>5 DEF WriteCmd, BaseInv, TypeOK, BleTypeOK
  <2>2. CASE c.op = "connect"
    <3>1. ConnectCmd(c.mac)
      BY <2>2 DEF ToolEffect
    <3> HIDE DEF c
    <3> QED
      BY <1>2, <3>1 DEF ConnectCmd, BaseInv, TypeOK, BleTypeOK
  <2>3. CASE c.op = "disconnect"
    <3>1. DisconnectCmd(c.mac)
      BY <2>3 DEF ToolEffect
    <3>2. <<>> \in Seq(Writes)
      OBVIOUS
    <3> HIDE DEF c
    <3> QED
      BY <1>2, <3>1, <3>2 DEF DisconnectCmd, BaseInv, TypeOK, BleTypeOK
  <2>4. CASE c.op \notin {"write", "connect", "disconnect"}
    <3>1. UNCHANGED bleVars
      BY <2>4 DEF ToolEffect
    <3> QED
      BY <3>1 DEF bleVars, BaseInv, TypeOK, BleTypeOK
  <2> QED
    BY <2>1, <2>2, <2>3, <2>4
<1>4. ack' \in Acks
  BY <1>2 DEF ToolEffect, ReadStatus, BaseInv, TypeOK, BleTypeOK, Acks
<1>5. macList' \subseteq Macs
  BY DEF ToolEffect, BaseInv, TypeOK, BleTypeOK
<1>6. reported' \in [Macs -> Positions \union {"none"}]
  BY <1>2 DEF ToolEffect, BaseInv, TypeOK
<1> QED
  BY <1>3, <1>4, <1>5, <1>6

-----------------------------------------------------------------------------
LEMMA BaseStep == BaseInv /\ [Next]_vars => BaseInv'
<1> SUFFICES ASSUME BaseInv, [Next]_vars PROVE BaseInv'
  OBVIOUS
<1> USE DEF BaseInv
<1>1. CASE Receive
  <2>a. inbox \in Seq(Messages) /\ inbox # <<>>
    BY <1>1 DEF Receive, TypeOK
  <2>b. Head(inbox) \in Messages
    BY <2>a, TailFacts
  <2>0. Current.tid \in 1..MaxMsgs
    BY <2>b DEF Current, Messages
  <2>1. TypeOK'
    BY <1>1, <2>0 DEF Receive, TypeOK, BleTypeOK, handlerVars, bleVars, PcValues, Trees
  <2>2. Control'
    BY <1>1 DEF Receive, Control, BusyHasMessage, ToolIsHead, WritesPlanned, Planned, GateMatchesTool, handlerVars, bleVars
  <2> QED
    BY <2>1, <2>2
<1>2. CASE ParseReqMsg
  <2>0. Current.tid \in 1..MaxMsgs /\ Current.in \in InputRecords
    BY <1>2, CurrentType, InputsAssumption DEF ParseReqMsg, Messages
  <2>a. reqMsg' \in ReqMsgs
    <3>1. CASE Parsed
      <4>1. [tree |-> IF Current.in.form \in {"request", "noArg"} THEN Current.tid ELSE 0,
             mac |-> Current.in.mac, act |-> Current.in.act,
             full |-> Current.in.form = "request"] \in Params
        BY <2>0, MaxMsgsAssumption DEF Params, InputRecords
      <4> QED
        BY <2>0, <3>1, <4>1, MaxMsgsAssumption DEF Parsed, TransID, ReqMsgs, InputRecords
    <3>2. CASE Unparsed
      <4>1. reqMsg.params \in Params /\ reqMsg \in ReqMsgs
        BY DEF TypeOK, ReqMsgs
      <4>2. [reqMsg.params EXCEPT !.tree = 0] \in Params
        BY <4>1, MaxMsgsAssumption DEF Params
      <4>3. [reqMsg EXCEPT !.params.tree = 0] \in ReqMsgs
        BY <4>1, <4>2 DEF ReqMsgs
      <4>4. [reqMsg EXCEPT !.svc = Current.in.svc] \in ReqMsgs
        BY <2>0, <4>1 DEF ReqMsgs, InputRecords
      <4> QED
        BY <3>2, <4>1, <4>3, <4>4 DEF Unparsed
    <3>3. Parsed \/ Unparsed
      BY <1>2, Zenon DEF ParseReqMsg
    <3> QED
      BY <3>1, <3>2, <3>3
  <2>b. heap' \subseteq Trees /\ pc' \in {"dispatch", "done"}
    BY <1>2, <2>0 DEF ParseReqMsg, TypeOK, Trees
  <2>1. TypeOK'
    BY <1>2, <2>a, <2>b DEF ParseReqMsg, TypeOK, BleTypeOK, bleVars, PcValues
  <2>2. Control'
    BY <1>2 DEF ParseReqMsg, Control, BusyHasMessage, ToolIsHead, WritesPlanned, Planned, GateMatchesTool, TypeOK
  <2> QED
    BY <2>1, <2>2
<1>3. CASE ParseCrashes
  <2>1. TypeOK'
    BY <1>3 DEF ParseCrashes, TypeOK, BleTypeOK, handlerVars, bleVars, PcValues
  <2>2. Control'
    BY <1>3 DEF ParseCrashes, Control, BusyHasMessage, ToolIsHead, WritesPlanned, Planned, GateMatchesTool, handlerVars, bleVars
  <2> QED
    BY <2>1, <2>2
<1>4. CASE ReqMsgHandel
  <2>a. /\ reqMsg.params.mac \in Macs
        /\ \A op \in ATOps \union ShellOps \union {"sleep"}, m \in Macs : Step(op, m) \in Steps
    BY DEF TypeOK, ReqMsgs, Params, Steps, Step
  <2>b. todo' \in Seq(Steps)
    BY <1>4, <2>a DEF ReqMsgHandel, ClearBuffers, Handled, ControlMoto, Program, ATOps, ShellOps
  <2>1. TypeOK'
    BY <1>4, <2>b DEF ReqMsgHandel, ClearBuffers, Handled, ControlMoto, TypeOK, BleTypeOK, bleVars, PcValues, Acks
  <2>2. Control'
    BY <1>4 DEF ReqMsgHandel, ClearBuffers, Handled, ControlMoto, Control, BusyHasMessage, ToolIsHead, WritesPlanned, Planned, GateMatchesTool, Program, Step, Services, Positions, PcValues
  <2> QED
    BY <2>1, <2>2
<1>5. CASE DispatchCrashes
  <2>1. TypeOK'
    BY <1>5 DEF DispatchCrashes, TypeOK, BleTypeOK, handlerVars, bleVars, PcValues
  <2>2. Control'
    BY <1>5 DEF DispatchCrashes, Control, BusyHasMessage, ToolIsHead, WritesPlanned, Planned, GateMatchesTool, handlerVars, bleVars
  <2> QED
    BY <2>1, <2>2
<1>6. CASE StartTool
  <2>1. TypeOK'
    BY <1>6 DEF StartTool, TypeOK, BleTypeOK, bleVars, PcValues
  <2>2. Control'
    BY <1>6 DEF StartTool, Control, BusyHasMessage, ToolIsHead, WritesPlanned, Planned, GateMatchesTool, bleVars
  <2> QED
    BY <2>1, <2>2
<1>7. CASE EndTool
  <2>0. /\ todo # <<>> /\ todo \in Seq(Steps) /\ pc = "tool"
        /\ Tail(todo) \in Seq(Steps) /\ Len(Tail(todo)) = Len(todo) - 1 /\ Len(todo) \in Nat
        /\ \A i \in 1..Len(Tail(todo)) : Tail(todo)[i] = todo[i + 1] /\ i + 1 \in 1..Len(todo)
    BY <1>7, TailFacts DEF EndTool, OpenGate, TypeOK, Control, ToolIsHead
  <2>a. held' \subseteq Acks
    <3>1. Head(todo).mac \in Macs
      <4>1. Head(todo) \in Steps
        BY <2>0
      <4> QED
        BY <4>1 DEF Steps
    <3> QED
      BY <1>7, <3>1 DEF EndTool, TypeOK, BleTypeOK
  <2>1. TypeOK'
    <3>1. CASE ToolEffect(Head(todo))
      BY <1>7, <2>0, <2>a, <3>1, ToolTypes DEF EndTool, OpenGate, TypeOK, PcValues
    <3>2. CASE ToolFails
      BY <1>7, <2>0, <2>a, <3>2 DEF EndTool, OpenGate, ToolFails, TypeOK, BleTypeOK, bleVars, PcValues
    <3> QED
      BY <1>7, <3>1, <3>2 DEF EndTool, OpenGate
  <2>2. Control'
    BY <1>7, <2>0 DEF EndTool, OpenGate, Control, BusyHasMessage, ToolIsHead, WritesPlanned, Planned,
                      GateMatchesTool
  <2> QED
    BY <2>1, <2>2
<1>8. CASE Sleep
  <2>0. /\ todo # <<>> /\ todo \in Seq(Steps) /\ pc = "run"
        /\ Tail(todo) \in Seq(Steps) /\ Len(Tail(todo)) = Len(todo) - 1 /\ Len(todo) \in Nat
        /\ \A i \in 1..Len(Tail(todo)) : Tail(todo)[i] = todo[i + 1] /\ i + 1 \in 1..Len(todo)
    BY <1>8, TailFacts DEF Sleep, TypeOK
  <2>1. TypeOK'
    BY <1>8, <2>0 DEF Sleep, TypeOK, BleTypeOK, bleVars
  <2>2. Control'
    BY <1>8, <2>0 DEF Sleep, Control, BusyHasMessage, ToolIsHead, WritesPlanned, Planned, GateMatchesTool
  <2> QED
    BY <2>1, <2>2
<1>9. CASE RunScript
  <2>0. /\ todo # <<>> /\ todo \in Seq(Steps) /\ pc = "run"
        /\ Tail(todo) \in Seq(Steps) /\ Len(Tail(todo)) = Len(todo) - 1 /\ Len(todo) \in Nat
        /\ \A i \in 1..Len(Tail(todo)) : Tail(todo)[i] = todo[i + 1] /\ i + 1 \in 1..Len(todo)
    BY <1>9, TailFacts DEF RunScript, TypeOK
  <2>1. TypeOK'
    BY <1>9, <2>0 DEF RunScript, TypeOK, BleTypeOK, bleVars
  <2>2. Control'
    BY <1>9, <2>0 DEF RunScript, Control, BusyHasMessage, ToolIsHead, WritesPlanned, Planned, GateMatchesTool
  <2> QED
    BY <2>1, <2>2
<1>10. CASE ListDevice
  <2>0. /\ \A m \in Macs : <<Step("devName", m), Step("readSN", m), Step("readModel", m)>> \in Seq(Steps)
        /\ \A m \in Macs, i \in 1..3 :
              <<Step("devName", m), Step("readSN", m), Step("readModel", m)>>[i].op # "write"
    BY DEF Steps, Step, ATOps, ShellOps
  <2>a. PICK m \in macList : todo' = <<Step("devName", m), Step("readSN", m), Step("readModel", m)>>
                            /\ macList' = macList \ {m} /\ listed' = listed \union {m}
    BY <1>10 DEF ListDevice
  <2>b. m \in Macs
    BY DEF TypeOK
  <2>1. TypeOK'
    BY <1>10, <2>0, <2>a, <2>b DEF ListDevice, TypeOK, BleTypeOK, bleVars
  <2>2. Control'
    BY <1>10, <2>0, <2>a, <2>b DEF ListDevice, Control, BusyHasMessage, ToolIsHead, WritesPlanned, Planned, GateMatchesTool
  <2> QED
    BY <2>1, <2>2
<1>11. CASE Publish
  <2>0. Current.tid \in 1..MaxMsgs /\ Current.in \in InputRecords
    BY <1>11, CurrentType, InputsAssumption DEF Publish, ReadyToReply, Messages
  <2>a. published' \in Seq(Replies)
    <3>1. ASSUME NEW d \in ResultData PROVE Reply(d) \in Replies
      BY DEF Reply, Replies, AnswerRecords, ResultData, Code, TypeOK, ReqMsgs, Params
    <3>2. \E d \in ResultData : published' = Append(published, Reply(d)) \/ published' = published
      BY <1>11 DEF Publish
    <3>3. published \in Seq(Replies)
      BY DEF TypeOK
    <3> QED
      BY <3>1, <3>2, <3>3, AppendFacts
  <2>b. reported' \in [Macs -> Positions \union {"none"}]
    BY <1>11 DEF Publish, Code, Succeeded, TypeOK, ReqMsgs, Params
  <2>c. heap' \subseteq Trees
    BY <1>11, <2>0 DEF Publish, Trees, TypeOK
  <2>1. TypeOK'
    BY <1>11, <2>a, <2>b, <2>c DEF Publish, TypeOK, BleTypeOK, handlerVars, bleVars, PcValues
  <2>2. Control'
    BY <1>11 DEF Publish, Control, BusyHasMessage, ToolIsHead, WritesPlanned, Planned, GateMatchesTool, handlerVars, bleVars, ReadyToReply
  <2> QED
    BY <2>1, <2>2
<1>12. CASE PublishCrashes
  <2>1. TypeOK'
    BY <1>12 DEF PublishCrashes, TypeOK, BleTypeOK, handlerVars, bleVars, PcValues
  <2>2. Control'
    BY <1>12 DEF PublishCrashes, Control, BusyHasMessage, ToolIsHead, WritesPlanned, Planned, GateMatchesTool, handlerVars, bleVars, ReadyToReply
  <2> QED
    BY <2>1, <2>2
<1>13. CASE Return
  <2>0. Tail(inbox) \in Seq(Messages)
    BY <1>13, TailFacts DEF Return, FreedByCallback, TypeOK, Control, BusyHasMessage
  <2>1. TypeOK'
    BY <1>13, <2>0 DEF Return, FreedByCallback, TypeOK, BleTypeOK, handlerVars, bleVars, PcValues
  <2>2. Control'
    BY <1>13 DEF Return, FreedByCallback, Control, BusyHasMessage, ToolIsHead, WritesPlanned, Planned, GateMatchesTool, handlerVars, bleVars
  <2> QED
    BY <2>1, <2>2
<1>14. CASE Arrive
  <2>0. PICK in \in Inputs : inbox' = Append(inbox, [tid |-> arrivals + 1, in |-> in])
    BY <1>14 DEF Arrive
  <2>a. arrivals + 1 \in 1..MaxMsgs /\ arrivals' = arrivals + 1
    BY <1>14, MaxMsgsAssumption DEF Arrive, TypeOK
  <2>b. inbox' \in Seq(Messages) /\ inbox' # <<>>
    BY <2>0, <2>a, AppendFacts DEF TypeOK, Messages
  <2>1. TypeOK'
    BY <1>14, <2>a, <2>b DEF Arrive, TypeOK, BleTypeOK, handlerVars, bleVars
  <2>2. Control'
    BY <1>14, <2>b DEF Arrive, Control, BusyHasMessage, ToolIsHead, WritesPlanned, Planned, GateMatchesTool, handlerVars, bleVars
  <2> QED
    BY <2>1, <2>2
<1>15. CASE LinkDown
  <2>0. inbox' \in Seq(Messages) /\ (pc # "idle" => inbox' # <<>>)
    BY <1>15, FirstOnly DEF LinkDown, TypeOK, Control, BusyHasMessage
  <2>1. TypeOK'
    BY <1>15, <2>0 DEF LinkDown, TypeOK, BleTypeOK, handlerVars, bleVars
  <2>2. Control'
    BY <1>15, <2>0 DEF LinkDown, Control, BusyHasMessage, ToolIsHead, WritesPlanned, Planned, GateMatchesTool, handlerVars, bleVars
  <2> QED
    BY <2>1, <2>2
<1>16. CASE LinkUp
  <2>1. TypeOK'
    BY <1>16 DEF LinkUp, TypeOK, BleTypeOK, handlerVars, bleVars
  <2>2. Control'
    BY <1>16 DEF LinkUp, Control, BusyHasMessage, ToolIsHead, WritesPlanned, Planned, GateMatchesTool, handlerVars, bleVars
  <2> QED
    BY <2>1, <2>2
<1>17. CASE DeviceStep
  <2>0. BleTypeOK'
    BY <1>17, DeviceTypes DEF DeviceStep, BleNext, TypeOK
  <2>a. held' \subseteq Acks
    <3>1. reqMsg.params.mac \in Macs
      BY DEF TypeOK, ReqMsgs, Params
    <3> QED
      BY <1>17, <2>0, <3>1 DEF DeviceStep, TypeOK, BleTypeOK
  <2>1. TypeOK'
    BY <1>17, <2>0, <2>a DEF DeviceStep, TypeOK, BleTypeOK, handlerVars
  <2>2. Control'
    BY <1>17 DEF DeviceStep, Control, BusyHasMessage, ToolIsHead, WritesPlanned, Planned, GateMatchesTool, handlerVars
  <2> QED
    BY <2>1, <2>2
<1>18. CASE UNCHANGED vars
  BY <1>18 DEF vars, handlerVars, bleVars, TypeOK, BleTypeOK, Control, BusyHasMessage, ToolIsHead,
               WritesPlanned, Planned, GateMatchesTool
<1> QED
  BY <1>1, <1>2, <1>3, <1>4, <1>5, <1>6, <1>7, <1>8, <1>9, <1>10, <1>11, <1>12, <1>13,
     <1>14, <1>15, <1>16, <1>17, <1>18 DEF Next, CallbackStep

(* MsgHandel keeps its types, for every set of devices and of messages and *)
(* whatever uninitialised locals hold.                                     *)
THEOREM TypeCorrect == Spec => []TypeOK
<1>1. BaseInv => TypeOK
  BY DEF BaseInv
<1> QED
  BY <1>1, BaseInit, BaseStep, PTL DEF Spec

(* The callback thread never finds a gate closed that only it could open   *)
(* (msgHandel.c:34-36, 267-269).                                           *)
THEOREM GateIsFree == Spec => []NeverLockedOut
<1>1. BaseInv => NeverLockedOut
  BY DEF BaseInv, TypeOK, Control, GateMatchesTool, NeverLockedOut
<1> QED
  BY <1>1, BaseInit, BaseStep, PTL DEF Spec

-----------------------------------------------------------------------------
(* Memory.  Every pointer to Params leads into a tree of parseReqMsg, and  *)
(* the only callback tree alive belongs to the message being handled.      *)
ParamsTree ==
    /\ reqMsg.params.tree # 0 => <<"request", reqMsg.params.tree>> \in heap
    /\ pc \in {"dispatch", "run", "tool"} => reqMsg.params.tree # 0
CallbackTree ==
    \A t \in 1..MaxMsgs : <<"callback", t>> \in heap => pc # "idle" /\ t = Current.tid

MemoryInv == ParamsTree /\ CallbackTree

LEMMA MemoryInit == Init => MemoryInv
  BY DEF Init, MemoryInv, ParamsTree, CallbackTree, NoReqMsg

LEMMA MemoryStep == BaseInv /\ MemoryInv /\ [Next]_vars => MemoryInv'
<1> SUFFICES ASSUME BaseInv, MemoryInv, [Next]_vars PROVE MemoryInv'
  OBVIOUS
<1> USE DEF MemoryInv
<1>1. CASE Receive
  BY <1>1 DEF Receive, handlerVars, ParamsTree, CallbackTree, Current
<1>2. CASE ParseReqMsg
  <2>0. Current.tid \in 1..MaxMsgs
    BY <1>2, CurrentType DEF ParseReqMsg, Messages
  <2>1. ParamsTree'
    <3>1. CASE Parsed
      BY <1>2, <2>0, <3>1 DEF ParseReqMsg, Parsed, TransID, ParamsTree
    <3>2. CASE Unparsed
      <4>1. reqMsg'.params.tree = 0 \/ reqMsg'.params.tree = reqMsg.params.tree
        BY SMTT(30), <3>2 DEF Unparsed, BaseInv, TypeOK, ReqMsgs, Params
      <4> QED
        BY <1>2, <4>1 DEF ParseReqMsg, ParamsTree
    <3>3. Parsed \/ Unparsed
      BY <1>2, Zenon DEF ParseReqMsg
    <3> QED
      BY <3>1, <3>2, <3>3
  <2>2. CallbackTree'
    BY <1>2 DEF ParseReqMsg, CallbackTree, Current
  <2> QED
    BY <2>1, <2>2
<1>3. CASE ParseCrashes
  BY <1>3 DEF ParseCrashes, handlerVars, ParamsTree, CallbackTree, Current
<1>4. CASE ReqMsgHandel
  BY <1>4 DEF ReqMsgHandel, ClearBuffers, Handled, ControlMoto, ParamsTree, CallbackTree, Current
<1>5. CASE DispatchCrashes
  BY <1>5 DEF DispatchCrashes, handlerVars, ParamsTree, CallbackTree, Current
<1>6. CASE StartTool
  BY <1>6 DEF StartTool, ParamsTree, CallbackTree, Current
<1>7. CASE EndTool
  BY <1>7 DEF EndTool, OpenGate, ParamsTree, CallbackTree, Current
<1>8. CASE Sleep
  BY <1>8 DEF Sleep, ParamsTree, CallbackTree, Current
<1>9. CASE RunScript
  BY <1>9 DEF RunScript, ParamsTree, CallbackTree, Current
<1>10. CASE ListDevice
  BY <1>10 DEF ListDevice, ParamsTree, CallbackTree, Current
<1>11. CASE Publish
  BY <1>11 DEF Publish, handlerVars, ReadyToReply, ParamsTree, CallbackTree, Current
<1>12. CASE PublishCrashes
  BY <1>12 DEF PublishCrashes, handlerVars, ReadyToReply, ParamsTree, CallbackTree, Current
<1>13. CASE Return
  BY <1>13 DEF Return, FreedByCallback, handlerVars, ParamsTree, CallbackTree, Current
<1>14. CASE Arrive
  <2>1. PICK in \in Inputs : inbox' = Append(inbox, [tid |-> arrivals + 1, in |-> in])
    BY <1>14 DEF Arrive
  <2>2. pc # "idle" => Head(inbox') = Head(inbox)
    BY <1>14, <2>1 DEF Arrive, BaseInv, TypeOK, Control, BusyHasMessage
  <2> QED
    BY <1>14, <2>2 DEF Arrive, handlerVars, ParamsTree, CallbackTree, Current
<1>15. CASE LinkDown
  <2>1. pc # "idle" => Head(inbox') = Head(inbox)
    BY <1>15, FirstOnly DEF LinkDown, BaseInv, TypeOK, Control, BusyHasMessage
  <2> QED
    BY <1>15, <2>1 DEF LinkDown, handlerVars, ParamsTree, CallbackTree, Current
<1>16. CASE LinkUp
  BY <1>16 DEF LinkUp, handlerVars, ParamsTree, CallbackTree, Current
<1>17. CASE DeviceStep
  BY <1>17 DEF DeviceStep, handlerVars, ParamsTree, CallbackTree, Current
<1>18. CASE UNCHANGED vars
  BY <1>18 DEF vars, handlerVars, ParamsTree, CallbackTree, Current
<1> QED
  BY <1>1, <1>2, <1>3, <1>4, <1>5, <1>6, <1>7, <1>8, <1>9, <1>10, <1>11, <1>12, <1>13,
     <1>14, <1>15, <1>16, <1>17, <1>18 DEF Next, CallbackStep

(* The strings a running API function reads are never freed under it       *)
(* (msgHandel.c:38, 574-575, 604, 631).                                    *)
THEOREM ParamsStayAlive == Spec => []ParamsNotDangling
<1>1. MemoryInv => ParamsNotDangling
  BY DEF MemoryInv, ParamsTree, ParamsNotDangling
<1> QED
  BY <1>1, BaseInit, BaseStep, MemoryInit, MemoryStep, PTL DEF Spec

(* The callback's own tree is freed on every path (main.c:96-125).         *)
THEOREM CallbackFrees == Spec => []CallbackTreeFreed
<1>1. MemoryInv => CallbackTreeFreed
  BY DEF MemoryInv, CallbackTree, CallbackTreeFreed
<1> QED
  BY <1>1, BaseInit, BaseStep, MemoryInit, MemoryStep, PTL DEF Spec

-----------------------------------------------------------------------------
(* Refinement.  When uninitialised locals hold nothing left over, the      *)
(* handler works on what its own message says.                             *)
IsOwn ==
    /\ Current.in.form \in {"request", "noArg"}
    /\ reqMsg.tid = Current.tid /\ reqMsg.svc = Current.in.svc
    /\ reqMsg.params.mac = Current.in.mac /\ reqMsg.params.act = Current.in.act
    /\ reqMsg.params.full = (Current.in.form = "request")
OwnRequest == pc \in {"dispatch", "run", "tool"} => IsOwn
Running ==
    pc \in {"run", "tool"} =>
        /\ reqMsg.svc \in Services
        /\ ReadsArguments(reqMsg.svc) => reqMsg.params.full
        /\ listed = {} \/ reqMsg.svc = "getConnectedList"

OwnInv == OwnRequest /\ Running

LEMMA OwnInit == Init => OwnInv
  BY DEF Init, OwnInv, OwnRequest, Running

LEMMA OwnStep == NoStale /\ BaseInv /\ OwnInv /\ [Next]_vars => OwnInv'
<1> SUFFICES ASSUME NoStale, BaseInv, OwnInv, [Next]_vars PROVE OwnInv'
  OBVIOUS
<1> USE DEF OwnInv
<1>1. CASE Receive
  BY <1>1 DEF Receive, handlerVars, OwnRequest, Running, IsOwn, Current
<1>2. CASE ParseReqMsg
  <2>0. Current.in \in InputRecords /\ Current.tid \in 1..MaxMsgs
    BY <1>2, CurrentType, InputsAssumption DEF ParseReqMsg, Messages
  <2>1. CASE Parsed
    BY <1>2, <2>0, <2>1, InputsAssumption DEF ParseReqMsg, Parsed, TransID, OwnRequest, Running, IsOwn, Current
  <2>2. CASE Unparsed
    <3>1. reqMsg'.params.tree = 0
      BY <2>2 DEF Unparsed, NoStale, BaseInv, TypeOK, ReqMsgs, Params
    <3> QED
      BY <1>2, <3>1 DEF ParseReqMsg, OwnRequest, Running, IsOwn, Current
  <2>3. Parsed \/ Unparsed
    BY <1>2, Zenon DEF ParseReqMsg
  <2> QED
    BY <2>1, <2>2, <2>3
<1>3. CASE ParseCrashes
  BY <1>3 DEF ParseCrashes, handlerVars, OwnRequest, Running, IsOwn, Current
<1>4. CASE ReqMsgHandel
  BY <1>4 DEF ReqMsgHandel, ClearBuffers, Handled, ControlMoto, OwnRequest, Running, IsOwn, Current
<1>5. CASE DispatchCrashes
  BY <1>5 DEF DispatchCrashes, handlerVars, OwnRequest, Running, IsOwn, Current
<1>6. CASE StartTool
  BY <1>6 DEF StartTool, OwnRequest, Running, IsOwn, Current
<1>7. CASE EndTool
  BY <1>7 DEF EndTool, OpenGate, OwnRequest, Running, IsOwn, Current
<1>8. CASE Sleep
  BY <1>8 DEF Sleep, OwnRequest, Running, IsOwn, Current
<1>9. CASE RunScript
  BY <1>9 DEF RunScript, OwnRequest, Running, IsOwn, Current
<1>10. CASE ListDevice
  BY <1>10 DEF ListDevice, OwnRequest, Running, IsOwn, Current
<1>11. CASE Publish
  BY <1>11 DEF Publish, handlerVars, ReadyToReply, OwnRequest, Running, IsOwn, Current
<1>12. CASE PublishCrashes
  BY <1>12 DEF PublishCrashes, handlerVars, ReadyToReply, OwnRequest, Running, IsOwn, Current
<1>13. CASE Return
  BY <1>13 DEF Return, FreedByCallback, handlerVars, OwnRequest, Running, IsOwn, Current
<1>14. CASE Arrive
  <2>1. PICK in \in Inputs : inbox' = Append(inbox, [tid |-> arrivals + 1, in |-> in])
    BY <1>14 DEF Arrive
  <2>2. pc # "idle" => Head(inbox') = Head(inbox)
    BY <1>14, <2>1 DEF Arrive, BaseInv, TypeOK, Control, BusyHasMessage
  <2> QED
    BY <1>14, <2>2 DEF Arrive, handlerVars, OwnRequest, Running, IsOwn, Current
<1>15. CASE LinkDown
  <2>1. pc # "idle" => Head(inbox') = Head(inbox)
    BY <1>15, FirstOnly DEF LinkDown, BaseInv, TypeOK, Control, BusyHasMessage
  <2> QED
    BY <1>15, <2>1 DEF LinkDown, handlerVars, OwnRequest, Running, IsOwn, Current
<1>16. CASE LinkUp
  BY <1>16 DEF LinkUp, handlerVars, OwnRequest, Running, IsOwn, Current
<1>17. CASE DeviceStep
  BY <1>17 DEF DeviceStep, handlerVars, OwnRequest, Running, IsOwn, Current
<1>18. CASE UNCHANGED vars
  BY <1>18 DEF vars, handlerVars, OwnRequest, Running, IsOwn, Current
<1> QED
  BY <1>1, <1>2, <1>3, <1>4, <1>5, <1>6, <1>7, <1>8, <1>9, <1>10, <1>11, <1>12, <1>13,
     <1>14, <1>15, <1>16, <1>17, <1>18 DEF Next, CallbackStep

(* What Publish sends fits the message it answers.                         *)
LEMMA ReplyFits ==
    ASSUME NoStale, BaseInv, OwnInv, ReadyToReply, NEW d \in ResultData
    PROVE  /\ Reply(d) = [tid |-> Head(inbox).tid, answer |-> Reply(d).answer]
           /\ Reply(d).answer \in FittingAnswers[Head(inbox).in]
<1>1. pc = "run" /\ IsOwn /\ reqMsg.svc \in Services
  BY DEF ReadyToReply, OwnInv, OwnRequest, Running
<1>2. Head(inbox).in \in Inputs
  BY <1>1, CurrentType DEF Current, Messages
<1>3. Reply(d) \in Replies
  BY DEF Reply, Replies, AnswerRecords, ResultData, Code, BaseInv, TypeOK, ReqMsgs, Params
<1> DEFINE in == Head(inbox).in
           a == Reply(d).answer
<1>4. a \in AnswerRecords
  BY <1>3 DEF Replies
<1>5. /\ in.form \in {"request", "noArg"} /\ in.svc \in Services
      /\ a.svc = in.svc /\ a.mac = in.mac /\ a.act = in.act
  BY <1>1 DEF IsOwn, Current, Reply
<1>6. a.code = 0 \/ in.svc \in {"setDev", "connectDev"}
  BY <1>1 DEF IsOwn, Current, Reply, Code, Succeeded
<1>7. a.data = (IF in.svc \in ListServices THEN "own" ELSE "none")
  BY <1>1 DEF IsOwn, Current, Reply, ResultData, NoStale
<1>8. a.macs = {} \/ in.svc = "getConnectedList"
  BY <1>1 DEF IsOwn, Current, Reply, OwnInv, Running
<1>9. a \in FittingAnswers[in]
  <2> HIDE DEF a, in
  <2> QED
    BY <1>2, <1>4, <1>5, <1>6, <1>7, <1>8 DEF FittingAnswers, in
<1> QED
  BY <1>1, <1>9 DEF IsOwn, Current, Reply

LEMMA RefinementInit == Init => RR!Init
  BY DEF Init, RR!Init, queueBar

LEMMA RefinementStep ==
    NoStale /\ BaseInv /\ OwnInv /\ [Next]_vars => [RR!Next]_RR!vars
<1> SUFFICES ASSUME NoStale, BaseInv, OwnInv, [Next]_vars PROVE [RR!Next]_RR!vars
  OBVIOUS
<1>0. inbox \in Seq(Messages) /\ (pc # "idle" => inbox # <<>>)
  BY DEF BaseInv, TypeOK, Control, BusyHasMessage
<1>1. CASE Receive
  <2>1. CASE pc' = "done"
    <3>1. queueBar = inbox /\ queueBar' = Tail(inbox) /\ published' = published /\ arrivals' = arrivals /\ inbox # <<>>
      BY <1>1, <2>1 DEF Receive, queueBar
    <3> QED
      BY <3>1 DEF RR!Next, RR!Ignore
  <2>2. CASE pc' = "parse"
    BY <1>1, <2>2 DEF Receive, RR!vars, queueBar
  <2> QED
    BY <1>1, <2>1, <2>2 DEF Receive
<1>2. CASE ParseReqMsg
  <2>0. /\ queueBar = inbox /\ inbox' = inbox /\ published' = published /\ arrivals' = arrivals
        /\ inbox # <<>>
    BY <1>2, <1>0 DEF ParseReqMsg, queueBar
  <2>1. CASE pc' = "done"
    BY <2>0, <2>1 DEF RR!Next, RR!Ignore, queueBar
  <2>2. CASE pc' # "done"
    BY <2>0, <2>2 DEF RR!vars, queueBar
  <2> QED
    BY <2>1, <2>2
<1>3. CASE ParseCrashes
  BY <1>3 DEF ParseCrashes, RR!vars, queueBar
<1>4. CASE ReqMsgHandel
  <2>0. /\ queueBar = inbox /\ inbox' = inbox /\ published' = published /\ arrivals' = arrivals
        /\ inbox # <<>>
    BY <1>4, <1>0 DEF ReqMsgHandel, ClearBuffers, Handled, ControlMoto, queueBar
  <2>1. CASE pc' = "done"
    BY <2>0, <2>1 DEF RR!Next, RR!Ignore, queueBar
  <2>2. CASE pc' # "done"
    BY <2>0, <2>2 DEF RR!vars, queueBar
  <2> QED
    BY <2>1, <2>2
<1>5. CASE DispatchCrashes
  BY <1>5 DEF DispatchCrashes, RR!vars, queueBar
<1>6. CASE StartTool
  BY <1>6 DEF StartTool, RR!vars, queueBar
<1>7. CASE EndTool
  BY <1>7 DEF EndTool, OpenGate, RR!vars, queueBar
<1>8. CASE Sleep
  BY <1>8 DEF Sleep, RR!vars, queueBar
<1>9. CASE RunScript
  BY <1>9 DEF RunScript, RR!vars, queueBar
<1>10. CASE ListDevice
  BY <1>10 DEF ListDevice, RR!vars, queueBar
<1>11. CASE Publish
  <2>1. queueBar = inbox /\ queueBar' = Tail(inbox) /\ arrivals' = arrivals /\ inbox # <<>>
    BY <1>11, <1>0 DEF Publish, ReadyToReply, queueBar
  <2>2. CASE published' = published
    BY <2>1, <2>2 DEF RR!Next, RR!Ignore
  <2>3. CASE published' # published
    <3>1. PICK d \in ResultData : published' = Append(published, Reply(d))
      BY <1>11, <2>3 DEF Publish
    <3>2. /\ Reply(d) = [tid |-> Head(inbox).tid, answer |-> Reply(d).answer]
          /\ Reply(d).answer \in FittingAnswers[Head(inbox).in]
      BY <1>11, ReplyFits DEF Publish
    <3> QED
      BY <2>1, <3>1, <3>2 DEF RR!Next, RR!Answer
  <2> QED
    BY <2>2, <2>3
<1>12. CASE PublishCrashes
  BY <1>12 DEF PublishCrashes, ReadyToReply, RR!vars, queueBar
<1>13. CASE Return
  BY <1>13 DEF Return, FreedByCallback, RR!vars, queueBar
<1>14. CASE Arrive
  <2>1. PICK in \in Inputs : inbox' = Append(inbox, [tid |-> arrivals + 1, in |-> in])
    BY <1>14 DEF Arrive
  <2> DEFINE m == [tid |-> arrivals + 1, in |-> in]
  <2>2. m \in Messages
    BY <1>14, MaxMsgsAssumption DEF Arrive, BaseInv, TypeOK, Messages
  <2>3. queueBar' = Append(queueBar, m)
    <3> HIDE DEF m
    <3>1. inbox' = Append(inbox, m)
      BY <2>1 DEF m
    <3>2. inbox # <<>> => Tail(Append(inbox, m)) = Append(Tail(inbox), m)
      BY <1>0, <2>2
    <3> QED
      BY <1>14, <1>0, <3>1, <3>2 DEF Arrive, queueBar
  <2> QED
    BY <1>14, <2>3 DEF Arrive, RR!Next, RR!Arrive
<1>15. CASE LinkDown
  <2>0. published' = published /\ arrivals' = arrivals /\ pc' = pc
    BY <1>15 DEF LinkDown
  <2>1. CASE pc = "idle"
    <3>1. queueBar' = SubSeq(queueBar, 1, 0) /\ 0 \in 0..Len(queueBar)
      BY <1>15, <1>0, <2>1 DEF LinkDown, queueBar
    <3> QED
      BY <2>0, <3>1 DEF RR!Next, RR!Lose
  <2>2. CASE pc = "done"
    <3>1. Tail(inbox) \in Seq(Messages)
      BY <1>0, <2>2, TailFacts
    <3>2. Tail(SubSeq(inbox, 1, 1)) = <<>> /\ SubSeq(Tail(inbox), 1, 0) = <<>>
      BY <1>0, <2>2, <3>1, FirstOnly
    <3>3. queueBar' = SubSeq(queueBar, 1, 0) /\ 0 \in 0..Len(queueBar)
      BY <1>15, <2>2, <3>1, <3>2 DEF LinkDown, queueBar
    <3> QED
      BY <2>0, <3>3 DEF RR!Next, RR!Lose
  <2>3. CASE pc \notin {"idle", "done"}
    <3>1. queueBar' = SubSeq(queueBar, 1, 1) /\ 1 \in 0..Len(queueBar)
      BY <1>15, <1>0, <2>3 DEF LinkDown, queueBar
    <3> QED
      BY <2>0, <3>1 DEF RR!Next, RR!Lose
  <2> QED
    BY <2>1, <2>2, <2>3
<1>16. CASE LinkUp
  BY <1>16 DEF LinkUp, RR!vars, queueBar
<1>17. CASE DeviceStep
  BY <1>17 DEF DeviceStep, RR!vars, queueBar
<1>18. CASE UNCHANGED vars
  BY <1>18 DEF vars, RR!vars, queueBar
<1> QED
  BY <1>1, <1>2, <1>3, <1>4, <1>5, <1>6, <1>7, <1>8, <1>9, <1>10, <1>11, <1>12, <1>13,
     <1>14, <1>15, <1>16, <1>17, <1>18 DEF Next, CallbackStep

(* MsgHandel implements RequestReply, whatever messages clients send, as   *)
(* long as no uninitialised local holds a leftover pointer.                *)
THEOREM Refinement == ASSUME NoStale PROVE Spec => RefinesRequestReply
<1>1. NoStale
  OBVIOUS
<1> QED
  BY <1>1, BaseInit, BaseStep, OwnInit, OwnStep, RefinementInit, RefinementStep, PTL
     DEF Spec, RefinesRequestReply, RR!Spec

(* Under the same condition no message is answered twice and answers leave *)
(* in arrival order (main.c:91-126): inherited from the abstract service.  *)
THEOREM InOrderOnceHolds == ASSUME NoStale PROVE Spec => []RepliesInOrderOnce
<1>1. RR!ConstantsFit
  BY MaxMsgsAssumption DEF RR!ConstantsFit, FittingAnswers
<1>2. RR!Spec => []RR!InOrderOnce
  BY <1>1, RR!AbstractInOrder
<1> QED
  BY <1>2, Refinement, PTL DEF RefinesRequestReply, RepliesInOrderOnce

-----------------------------------------------------------------------------
(* Writes.  Devices only take queued writes away; a tool adds one, and it  *)
(* is the one the current message asks for.                                *)
QueuesOnlyAsked ==
    \A m \in Macs :
        Len(pending'[m]) > Len(pending[m])
            => \E v \in Positions :
                  /\ AsksFor(Current.in, m, v)
                  /\ pending'[m] = Append(pending[m], [tid |-> Current.tid, value |-> v])

LEMMA NothingQueued ==
    ASSUME BleTypeOK, \A m \in Macs : Len(pending'[m]) <= Len(pending[m])
    PROVE  QueuesOnlyAsked
<1>1. \A m \in Macs : Len(pending'[m]) <= Len(pending[m]) /\ Len(pending[m]) \in Nat
  BY DEF BleTypeOK
<1> SUFFICES ASSUME NEW m \in Macs, Len(pending'[m]) > Len(pending[m]) PROVE FALSE
  BY DEF QueuesOnlyAsked
<1> QED
  BY <1>1

LEMMA DevicesQueueNothing ==
    ASSUME BleTypeOK, NEW m \in Macs,
           ConnectSettles(m) \/ WriteSettles(m) \/ ConnectionDrops(m)
    PROVE  QueuesOnlyAsked
<1>1. pending[m] \in Seq(Writes) /\ Len(<<>>) = 0
  BY DEF BleTypeOK
<1>2. pending[m] # <<>> => Len(Tail(pending[m])) <= Len(pending[m])
  BY <1>1
<1>3. ASSUME NEW n \in Macs PROVE Len(pending'[n]) <= Len(pending[n])
  <2>1. pending[n] \in Seq(Writes)
    BY DEF BleTypeOK
  <2>2. Len(pending[n]) \in Nat
    BY <2>1
  <2>3. pending'[n] \in {pending[n], <<>>}
          \/ (n = m /\ pending[m] # <<>> /\ pending'[n] = Tail(pending[m]))
    BY DEF ConnectSettles, WriteSettles, WriteExecutes, WriteRefused, WriteLost,
           ConnectionDrops, BleTypeOK
  <2>4. CASE pending'[n] \in {pending[n], <<>>}
    BY <1>1, <2>2, <2>4
  <2>5. CASE n = m /\ pending[m] # <<>> /\ pending'[n] = Tail(pending[m])
    BY <1>2, <2>5
  <2> QED
    BY <2>3, <2>4, <2>5
<1> QED
  BY <1>3, NothingQueued

LEMMA ToolQueuesOwn ==
    ASSUME BaseInv, OwnInv, pc = "tool", ToolEffect(Head(todo))
    PROVE  QueuesOnlyAsked
<1> DEFINE c == Head(todo)
<1>1. c \in Steps /\ c = todo[1] /\ 1 \in 1..Len(todo)
  BY TailFacts DEF BaseInv, Control, ToolIsHead, TypeOK
<1>2. BleTypeOK /\ c.mac \in Macs
  BY <1>1 DEF Steps, BaseInv, TypeOK
<1>3. CASE c.op = "write"
  <2>1. /\ reqMsg.svc = "setDev" /\ reqMsg.params.act \in Positions
        /\ c.mac = reqMsg.params.mac
    BY <1>1, <1>3 DEF BaseInv, Control, WritesPlanned
  <2>2. AsksFor(Current.in, c.mac, reqMsg.params.act)
    BY <2>1 DEF OwnInv, OwnRequest, Running, IsOwn, ReadsArguments, AsksFor
  <2>3. WriteCmd(c.mac, Current.tid, reqMsg.params.act)
    BY <1>3 DEF ToolEffect
  <2> HIDE DEF c
  <2>4. ASSUME NEW m \in Macs, Len(pending'[m]) > Len(pending[m])
        PROVE  \E v \in Positions :
                  /\ AsksFor(Current.in, m, v)
                  /\ pending'[m] = Append(pending[m], [tid |-> Current.tid, value |-> v])
    <3>1. pending'[m] # pending[m]
      <4>1. Len(pending[m]) \in Nat
        BY <1>2 DEF BleTypeOK
      <4> QED
        BY <2>4, <4>1
    <3>2. /\ m = c.mac
          /\ pending'[m] = Append(pending[m], [tid |-> Current.tid, value |-> reqMsg.params.act])
      BY <1>2, <2>3, <3>1 DEF WriteCmd, BleTypeOK
    <3> QED
      BY <2>1, <2>2, <3>2
  <2> QED
    BY <2>4 DEF QueuesOnlyAsked
<1>4. CASE c.op # "write"
  <2>1. DisconnectCmd(c.mac) \/ pending' = pending
    BY <1>4 DEF ToolEffect, ConnectCmd, bleVars
  <2> HIDE DEF c
  <2>2. ASSUME NEW m \in Macs PROVE Len(pending'[m]) <= Len(pending[m])
    <3>1. Len(pending[m]) \in Nat /\ Len(<<>>) = 0
      BY <1>2 DEF BleTypeOK
    <3>2. pending'[m] \in {pending[m], <<>>}
      BY <1>2, <2>1 DEF DisconnectCmd, BleTypeOK
    <3> QED
      BY <3>1, <3>2
  <2> QED
    BY <1>2, <2>2, NothingQueued
<1> QED
  BY <1>3, <1>4

LEMMA StepQueuesOwn == BaseInv /\ OwnInv /\ [Next]_vars => QueuesOnlyAsked
<1> SUFFICES ASSUME BaseInv, OwnInv, [Next]_vars PROVE QueuesOnlyAsked
  OBVIOUS
<1>1. BleTypeOK /\ \A m \in Macs : Len(pending[m]) \in Nat
  BY DEF BaseInv, TypeOK, BleTypeOK
<1>2. CASE pending' = pending
  BY <1>1, <1>2, NothingQueued
<1>3. CASE EndTool
  <2>1. pc = "tool" /\ (ToolEffect(Head(todo)) \/ pending' = pending)
    BY <1>3 DEF EndTool, ToolFails, bleVars
  <2> QED
    BY <1>2, <2>1, ToolQueuesOwn
<1>4. CASE DeviceStep
  BY <1>1, <1>4, DevicesQueueNothing DEF DeviceStep, BleNext
<1>5. EndTool \/ DeviceStep \/ pending' = pending
  <2>1. CASE UNCHANGED vars
    BY <2>1 DEF vars, bleVars
  <2>2. ASSUME Receive \/ ParseCrashes \/ DispatchCrashes \/ Publish \/ PublishCrashes \/ Return
               \/ Arrive \/ LinkDown \/ LinkUp
        PROVE  pending' = pending
    BY <2>2 DEF Receive, ParseCrashes, DispatchCrashes, Publish, PublishCrashes, Return,
                Arrive, LinkDown, LinkUp, bleVars
  <2>3. ASSUME ParseReqMsg \/ ReqMsgHandel \/ StartTool \/ Sleep \/ RunScript \/ ListDevice
        PROVE  pending' = pending
    BY <2>3 DEF ParseReqMsg, ReqMsgHandel, StartTool, Sleep, RunScript, ListDevice, bleVars
  <2> QED
    BY <2>1, <2>2, <2>3 DEF Next, CallbackStep
<1> QED
  BY <1>2, <1>3, <1>4, <1>5

(* Without leftovers in the struct of parseReqMsg, a device is written to  *)
(* only as the message being handled asks (msgHandel.c:65).                *)
THEOREM WritesAreAsked == ASSUME NoStale PROVE Spec => WritesOnlyAsked
<1>1. NoStale
  OBVIOUS
<1>2. QueuesOnlyAsked =>
        \A m \in Macs :
           Len(pending'[m]) > Len(pending[m])
             => \E v \in Positions :
                   /\ AsksFor(Current.in, m, v)
                   /\ pending'[m] = Append(pending[m], [tid |-> Current.tid, value |-> v])
  BY DEF QueuesOnlyAsked
<1> QED
  BY <1>1, <1>2, BaseInit, BaseStep, OwnInit, OwnStep, StepQueuesOwn, PTL
     DEF Spec, WritesOnlyAsked

-----------------------------------------------------------------------------
(* Freshness.  While an API function runs, whatever is connected, or is    *)
(* kept in its buffers, was connected since its request was dispatched.    *)
FreshInv == pc \in {"run", "tool"} => connected \union macList \union listed \subseteq seen

LEMMA FreshStep == FreshInv /\ [Next]_vars => FreshInv'
<1> SUFFICES ASSUME FreshInv, [Next]_vars PROVE FreshInv'
  OBVIOUS
<1>1. ASSUME Receive \/ ParseReqMsg \/ ParseCrashes \/ DispatchCrashes \/ Publish
             \/ PublishCrashes \/ Return
      PROVE  pc' \notin {"run", "tool"}
  BY <1>1 DEF Receive, ParseReqMsg, ParseCrashes, DispatchCrashes, Publish, PublishCrashes, Return
<1>2. CASE ReqMsgHandel
  BY <1>2 DEF ReqMsgHandel, ClearBuffers, bleVars, FreshInv
<1>3. ASSUME StartTool \/ Sleep \/ RunScript
      PROVE  pc \in {"run", "tool"} /\ UNCHANGED <<connected, macList, listed, seen>>
  BY <1>3 DEF StartTool, Sleep, RunScript, bleVars
<1>4. CASE EndTool
  <2>1. pc = "tool" /\ listed' = listed /\ seen' = seen
    BY <1>4 DEF EndTool
  <2>2. connected' \subseteq connected /\ macList' \subseteq macList \union connected
    BY <1>4 DEF EndTool, ToolEffect, ToolFails, WriteCmd, ConnectCmd, DisconnectCmd, bleVars
  <2> QED
    BY <2>1, <2>2 DEF FreshInv
<1>5. CASE ListDevice
  BY <1>5 DEF ListDevice, bleVars, FreshInv
<1>6. ASSUME Arrive \/ LinkDown \/ LinkUp \/ UNCHANGED vars
      PROVE  UNCHANGED <<pc, connected, macList, listed, seen>>
  BY <1>6 DEF Arrive, LinkDown, LinkUp, vars, bleVars, handlerVars
<1>7. CASE DeviceStep
  BY <1>7 DEF DeviceStep, handlerVars, FreshInv
<1> QED
  BY <1>1, <1>2, <1>3, <1>4, <1>5, <1>6, <1>7 DEF Next, CallbackStep, FreshInv

(* connectDev and genGetConnectedListResp (msgHandel.c:200-231, 330-399)   *)
(* never report a device of a list an earlier request asked for.           *)
THEOREM ListsAreFresh == Spec => []ListIsFresh
<1>1. Init => FreshInv
  BY DEF Init, FreshInv
<1>2. FreshInv => ListIsFresh
  BY DEF FreshInv, ListIsFresh, Code, Succeeded
<1> QED
  BY <1>1, <1>2, FreshStep, PTL DEF Spec

-----------------------------------------------------------------------------
(* setDev.  Where its handler is in its program, and what that says of the *)
(* acknowledge buffer: empty until handle 40 is read, and read only after  *)
(* this request's own write command.                                       *)
Write == Step("write", reqMsg.params.mac)
Wait == Step("sleep", reqMsg.params.mac)
Read == Step("readAck", reqMsg.params.mac)
Commanding == pc \in {"run", "tool"} /\ reqMsg.svc = "setDev" /\ reqMsg.params.act \in Positions
AckInv ==
    Commanding =>
        /\ todo \in {<<Write, Wait, Read>>, <<Wait, Read>>, <<Read>>, <<>>}
        /\ todo # <<Write, Wait, Read>> => status[reqMsg.params.mac] \in held
        /\ IF todo # <<>> THEN ack = "none" ELSE ack \in held \union {"none"}

\* The rests of a setDev program.
LEMMA Rests ==
    ASSUME NEW w, NEW s, NEW r
    PROVE  /\ Tail(<<w, s, r>>) = <<s, r>> /\ Head(<<w, s, r>>) = w /\ <<w, s, r>> # <<>>
           /\ Tail(<<s, r>>) = <<r>> /\ Head(<<s, r>>) = s /\ <<s, r>> # <<>>
           /\ Tail(<<r>>) = <<>> /\ Head(<<r>>) = r /\ <<r>> # <<>>
           /\ <<w, s, r>> # <<s, r>> /\ <<w, s, r>> # <<r>> /\ <<s, r>> # <<r>>
  OBVIOUS

\* They start with the operation they are named for.
LEMMA StepOps ==
    /\ Write.op = "write" /\ Wait.op = "sleep" /\ Read.op = "readAck"
    /\ Write.mac = reqMsg.params.mac /\ Read.mac = reqMsg.params.mac
  BY DEF Write, Wait, Read, Step

\* Only devices change handle 40, never a command of the tool.
LEMMA ToolKeepsStatus ==
    ASSUME NEW c, ToolEffect(c) \/ ToolFails PROVE status' = status
  BY DEF ToolEffect, ToolFails, WriteCmd, ConnectCmd, DisconnectCmd, bleVars

\* A tool that ends takes the handler one command further.
LEMMA ToolKeepsAck == BaseInv /\ AckInv /\ EndTool => AckInv'
<1> SUFFICES ASSUME BaseInv, AckInv, EndTool, Commanding' PROVE AckInv'
  BY DEF AckInv
<1>1. /\ pc = "tool" /\ todo # <<>> /\ Head(todo).op \in ATOps
      /\ reqMsg' = reqMsg /\ todo' = Tail(todo) /\ Commanding
  BY DEF EndTool, Commanding, BaseInv, Control, ToolIsHead
<1>2. /\ status' = status
      /\ held' = IF Head(todo).op = "write" THEN {status[Head(todo).mac]} ELSE held
  BY ToolKeepsStatus DEF EndTool
<1>3. \/ ack' = ack
      \/ Head(todo).op = "readAck" /\ ack' = ReadStatus(Head(todo).mac)
  BY DEF EndTool, ToolEffect, ToolFails
<1>4. UNCHANGED <<Write, Wait, Read>>
  BY <1>1 DEF Write, Wait, Read
<1>5. CASE todo = <<Write, Wait, Read>>
  <2>1. Head(todo).op = "write" /\ Head(todo).mac = reqMsg.params.mac /\ todo' = <<Wait, Read>>
    BY <1>1, <1>5, Rests, StepOps
  <2>2. ack' = "none"
    BY <1>1, <1>3, <2>1 DEF AckInv
  <2>3. status[reqMsg.params.mac] \in held'
    BY <1>2, <2>1
  <2> QED
    BY <1>1, <1>2, <1>4, <2>1, <2>2, <2>3, Rests DEF AckInv
<1>6. CASE todo = <<Read>>
  <2>1. Head(todo).op = "readAck" /\ Head(todo).mac = reqMsg.params.mac /\ todo' = <<>>
    BY <1>1, <1>6, Rests, StepOps
  <2>2. held' = held /\ status[reqMsg.params.mac] \in held /\ ack = "none"
    BY <1>1, <1>2, <1>6, <2>1, Rests DEF AckInv
  <2>3. ack' \in held' \union {"none"}
    BY <1>3, <2>1, <2>2 DEF ReadStatus
  <2> QED
    BY <1>1, <1>2, <1>4, <2>1, <2>2, <2>3, Rests DEF AckInv
<1>7. todo \in {<<Write, Wait, Read>>, <<Read>>}
  BY <1>1, Rests, StepOps DEF AckInv, ATOps
<1> QED
  BY <1>5, <1>6, <1>7

LEMMA AckStep == BaseInv /\ AckInv /\ [Next]_vars => AckInv'
<1> SUFFICES ASSUME BaseInv, AckInv, [Next]_vars PROVE AckInv'
  OBVIOUS
<1>1. ASSUME Receive \/ ParseReqMsg \/ ParseCrashes \/ DispatchCrashes \/ Publish
             \/ PublishCrashes \/ Return
      PROVE  AckInv'
  <2>1. pc' \notin {"run", "tool"}
    BY <1>1 DEF Receive, ParseReqMsg, ParseCrashes, DispatchCrashes, Publish, PublishCrashes, Return
  <2> QED
    BY <2>1 DEF AckInv, Commanding
<1>2. CASE ReqMsgHandel
  <2> SUFFICES ASSUME Commanding' PROVE AckInv'
    BY DEF AckInv
  <2>1. reqMsg' = reqMsg /\ ack' = "none" /\ reqMsg.svc = "setDev" /\ reqMsg.params.act \in Positions
    BY <1>2 DEF ReqMsgHandel, ClearBuffers, Commanding
  <2>2. todo' = <<Write, Wait, Read>>
    BY <1>2, <2>1 DEF ReqMsgHandel, Program, ControlMoto, Write, Wait, Read
  <2>3. UNCHANGED <<Write, Wait, Read>>
    BY <2>1 DEF Write, Wait, Read
  <2> QED
    BY <2>1, <2>2, <2>3, Rests DEF AckInv
<1>3. CASE StartTool
  BY <1>3 DEF StartTool, bleVars, AckInv, Commanding, Write, Wait, Read
<1>4. CASE EndTool
  BY <1>4, ToolKeepsAck
<1>5. CASE Sleep
  <2> SUFFICES ASSUME Commanding' PROVE AckInv'
    BY DEF AckInv
  <2>1. /\ UNCHANGED <<reqMsg, ack, status, held>> /\ Commanding
        /\ todo # <<>> /\ Head(todo).op = "sleep" /\ todo' = Tail(todo)
    BY <1>5 DEF Sleep, bleVars, Commanding
  <2>2. UNCHANGED <<Write, Wait, Read>>
    BY <2>1 DEF Write, Wait, Read
  <2>3. todo = <<Wait, Read>>
    BY <2>1, Rests, StepOps DEF AckInv
  <2>4. todo' = <<Read>>
    BY <2>1, <2>3, Rests
  <2> QED
    BY <2>1, <2>2, <2>3, <2>4, Rests DEF AckInv
<1>6. CASE RunScript
  <2>1. ~Commanding
    BY <1>6, Rests, StepOps DEF RunScript, ShellOps, AckInv
  <2> QED
    BY <1>6, <2>1 DEF RunScript, AckInv, Commanding
<1>7. CASE ListDevice
  BY <1>7 DEF ListDevice, AckInv, Commanding
<1>8. CASE DeviceStep
  <2> SUFFICES ASSUME Commanding' PROVE AckInv'
    BY DEF AckInv
  <2>1. UNCHANGED <<pc, todo, reqMsg, ack>> /\ Commanding
    BY <1>8 DEF DeviceStep, handlerVars, Commanding
  <2>2. held' = held \union {status'[reqMsg.params.mac]}
    BY <1>8, <2>1 DEF DeviceStep, Commanding
  <2>3. UNCHANGED <<Write, Wait, Read>>
    BY <2>1 DEF Write, Wait, Read
  <2> QED
    BY <2>1, <2>2, <2>3 DEF AckInv
<1>9. CASE Arrive \/ LinkDown \/ LinkUp \/ UNCHANGED vars
  <2>1. UNCHANGED <<pc, todo, reqMsg, ack, status, held>>
    BY <1>9 DEF Arrive, LinkDown, LinkUp, vars, bleVars, handlerVars
  <2>2. UNCHANGED <<Write, Wait, Read>>
    BY <2>1 DEF Write, Wait, Read
  <2> QED
    BY <2>1, <2>2 DEF AckInv, Commanding
<1> QED
  BY <1>1, <1>2, <1>3, <1>4, <1>5, <1>6, <1>7, <1>8, <1>9 DEF Next, CallbackStep

(* controlMoto's verdict (msgHandel.c:158-187), whatever handle 40 means   *)
(* and however slow the device is: a setDev is answered with 0 only on a   *)
(* value handle 40 of its device held after this request's own write.      *)
THEOREM StatusesAreFresh == Spec => []StatusIsFresh
<1>1. Init => AckInv
  BY DEF Init, AckInv, Commanding
<1>2. AckInv => StatusIsFresh
  BY DEF AckInv, Commanding, StatusIsFresh, Code, Succeeded, PositionCode
<1> QED
  BY <1>1, <1>2, BaseInit, BaseStep, AckStep, PTL DEF Spec

=============================================================================
