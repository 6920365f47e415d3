------------------------------ MODULE MsgHandel ------------------------------
(***************************************************************************)
(* The message handling of openwrt-package-template: one message after the *)
(* other is handed by the MQTT client thread to recv_handlel_bk (main.c),  *)
(* parsed (parseReqMsg), dispatched by service code (reqMsgHandel), turned *)
(* into AT commands that the Bluetooth tool runs, and answered on the      *)
(* transmit topic (genRespMsg, mqttPublishMsg).                            *)
(*                                                                         *)
(* The control state of the one callback thread is pc; what the running    *)
(* handler still has to do is todo.  Devices move between any two steps    *)
(* (BleDevices) and the MQTT link comes and goes.                          *)
(*                                                                         *)
(* transactionID is the number of the message; clients choose fresh ones.  *)
(***************************************************************************)
EXTENDS BleDevices

CONSTANTS
    Inputs,     \* the messages clients send, a subset of InputRecords
    Residue,    \* what an uninitialised local may hold, see ParseReqMsg
    Timely      \* TRUE: writes settle within the 100 ms of controlMoto

Services == {"setDev", "connectDev", "disConnectDev", "getScanResult", "getConnectedList"}
ListServices == {"getScanResult", "getConnectedList"}

(***************************************************************************)
(* The forms of a payload that the code tells apart:                       *)
(*   notJson  cJSON_Parse refuses it                                       *)
(*   noHead   MsgHead, MsgBody or a ServiceCode string is missing          *)
(*   noTrans  transactionID is there but is no string                      *)
(*   broken   ServiceCode or transactionID is not there at all             *)
(*   ack      no Params, but Result                                        *)
(*   bare     neither Params nor Result                                    *)
(*   noArg    a request whose Params lacks the item its service reads      *)
(*   request  a request with everything its service reads                  *)
(***************************************************************************)
Forms == {"notJson", "noHead", "noTrans", "broken", "ack", "bare", "noArg", "request"}
Actions == {"on", "off", "other"}
InputRecords == [form : Forms, svc : Services \union {"unknown"}, mac : Macs, act : Actions]
Messages == [tid : 1..MaxMsgs, in : Inputs]

ASSUME InputsAssumption == Inputs \subseteq InputRecords
ASSUME ResidueAssumption == Residue \subseteq {"null", "stale", "wild"}
ASSUME TimelyAssumption == Timely \in BOOLEAN

(* struct REQ_MSG.  params.tree is the message whose tree Params points    *)
(* into, 0 when Params is NULL.  MsgHead and MsgBody are read only while   *)
(* parsing; Result only decides a log line.                                *)
Params == [tree : 0..MaxMsgs, mac : Macs, act : Actions, full : BOOLEAN]
ReqMsgs == [svc : Services \union {"unknown"}, tid : 0..MaxMsgs, params : Params]

(* What a reply says, and, as history, which device it was about.          *)
(* data: where ResultData comes from: this request, another one, nowhere.  *)
AnswerRecords == [svc : Services \union {"unknown"}, mac : Macs, act : Actions, code : {0, -1},
                  data : {"none", "own", "stale"}, macs : SUBSET Macs]
Replies == [tid : 0..MaxMsgs, answer : AnswerRecords]

ATOps == {"write", "readAck", "connect", "disconnect", "scan", "list", "readSN", "readModel"}
ShellOps == {"scanScript", "devName"}
Steps == [op : ATOps \union ShellOps \union {"sleep"}, mac : Macs]

PcValues == {"idle", "parse", "dispatch", "run", "tool", "done", "dead"}
Trees == {"callback", "request", "data", "reply"} \X (1..MaxMsgs)

VARIABLES
    link,               \* the MQTT connection is up
    arrivals,           \* messages received so far
    inbox,              \* messages in the MQTT client; the head is being handled
    pc,                 \* where the callback thread is
    reqMsg,             \* the struct REQ_MSG of recvMsgHandel
    todo,               \* steps the running API function still has to take
    BLE_CTL_CMD_RUNING, \* the AT gate
    REQ_MSG_HANDELING,  \* the request gate, which no code ever closes
    ack,                \* controlMoto: the ack buffer
    macList,            \* the lines of the connected-device list not looked at yet
    listed,             \* genGetConnectedListResp: the devices put into the reply
    published,          \* replies mqtt_publish sent
    heap,               \* live cJSON trees
    seen,               \* history: devices connected at some time since dispatch
    held,               \* history: what handle 40 held since the running request's write
    reported            \* history: per device, the position last reported as reached

handlerVars == <<reqMsg, todo, BLE_CTL_CMD_RUNING, REQ_MSG_HANDELING, ack, macList, listed>>
vars == <<bleVars, handlerVars, link, arrivals, inbox, pc, published, heap, seen, held, reported>>

Current == Head(inbox)
Step(op, m) == [op |-> op, mac |-> m]
AnyMac == CHOOSE m \in Macs : TRUE
NoReqMsg == [svc |-> "unknown", tid |-> 0,
             params |-> [tree |-> 0, mac |-> AnyMac, act |-> "other", full |-> FALSE]]

-----------------------------------------------------------------------------
TypeOK ==
    /\ BleTypeOK
    /\ link \in BOOLEAN
    /\ arrivals \in 0..MaxMsgs
    /\ inbox \in Seq(Messages)
    /\ pc \in PcValues
    /\ reqMsg \in ReqMsgs
    /\ todo \in Seq(Steps)
    /\ BLE_CTL_CMD_RUNING \in {0, 1}
    /\ REQ_MSG_HANDELING \in {0, 1}
    /\ ack \in Acks
    /\ macList \subseteq Macs
    /\ listed \subseteq Macs
    /\ published \in Seq(Replies)
    /\ heap \subseteq Trees
    /\ seen \subseteq Macs
    /\ held \subseteq Acks
    /\ reported \in [Macs -> Positions \union {"none"}]

Init ==
    /\ BleInit
    /\ link = TRUE
    /\ arrivals = 0
    /\ inbox = <<>>
    /\ pc = "idle"
    /\ reqMsg = NoReqMsg
    /\ todo = <<>>
    /\ BLE_CTL_CMD_RUNING = 0
    /\ REQ_MSG_HANDELING = 0
    /\ ack = "none"
    /\ macList = {}
    /\ listed = {}
    /\ published = <<>>
    /\ heap = {}
    /\ seen = {}
    /\ held = {}
    /\ reported = [m \in Macs |-> "none"]

-----------------------------------------------------------------------------
(* The MQTT client (external): one thread reads packets, calls the         *)
(* callback, and reconnects.  The session is clean (main.c:147), so what   *)
(* waits when the connection breaks is gone; the message being handled     *)
(* stays in the read buffer.                                               *)

Arrive ==
    /\ pc # "dead" /\ link /\ arrivals < MaxMsgs
    /\ arrivals' = arrivals + 1
    /\ \E in \in Inputs : inbox' = Append(inbox, [tid |-> arrivals + 1, in |-> in])
    /\ UNCHANGED <<bleVars, handlerVars, link, pc, published, heap, seen, held, reported>>

LinkDown ==
    /\ pc # "dead" /\ link
    /\ link' = FALSE
    /\ inbox' = IF pc = "idle" THEN <<>> ELSE SubSeq(inbox, 1, 1)
    /\ UNCHANGED <<bleVars, handlerVars, arrivals, pc, published, heap, seen, held, reported>>

LinkUp ==
    /\ pc = "idle" /\ ~link
    /\ link' = TRUE
    /\ UNCHANGED <<bleVars, handlerVars, arrivals, inbox, pc, published, heap, seen, held, reported>>

DeviceStep ==
    /\ BleNext
    /\ seen' = seen \union connected'
    /\ held' = IF pc \in {"run", "tool"} THEN held \union {status'[reqMsg.params.mac]} ELSE held
    /\ UNCHANGED <<handlerVars, link, arrivals, inbox, pc, published, heap, reported>>

-----------------------------------------------------------------------------
(* recv_handlel_bk: parse once to see whether the payload is JSON.         *)
Receive ==
    /\ pc = "idle" /\ inbox # <<>>
    /\ \/ /\ Current.in.form = "notJson"
          /\ pc' = "done"
          /\ UNCHANGED heap
       \/ /\ Current.in.form # "notJson"
          /\ pc' = "parse"
          /\ heap' = heap \union {<<"callback", Current.tid>>}
    /\ UNCHANGED <<bleVars, handlerVars, link, arrivals, inbox, published, seen, held, reported>>

\* Mutant: NULL is nowhere written, the slot keeps what it held.
UnparsedKept == UNCHANGED reqMsg

(* What parseReqMsg leaves in the struct it returns, one disjunct per      *)
(* outcome of its early returns.  The struct is an uninitialised local:    *)
(* a field no statement wrote is NULL, holds what the previous call left   *)
(* in that stack slot, or points nowhere ("wild": a crash at first use).   *)
Unparsed ==
    \/ /\ "null" \in Residue
       /\ reqMsg' = [reqMsg EXCEPT !.params.tree = 0]
    \/ /\ "stale" \in Residue
       /\ reqMsg' = IF Current.in.form = "noTrans"
                    THEN [reqMsg EXCEPT !.svc = Current.in.svc] ELSE reqMsg

\* Mutant: the transactionID buffer is filled once and kept.
TransIDKept == IF reqMsg.tid = 0 THEN Current.tid ELSE reqMsg.tid
TransID == Current.tid

Parsed ==
    reqMsg' = [svc |-> Current.in.svc, tid |-> TransID,
               params |-> [tree |-> IF Current.in.form \in {"request", "noArg"}
                                    THEN Current.tid ELSE 0,
                           mac |-> Current.in.mac, act |-> Current.in.act,
                           full |-> Current.in.form = "request"]]

(* parseReqMsg, and the choice recvMsgHandel makes on its result.          *)
ParseReqMsg ==
    /\ pc = "parse" /\ REQ_MSG_HANDELING = 0
    /\ \/ /\ Current.in.form \in {"noHead", "noTrans"}
          /\ Unparsed
       \/ /\ Current.in.form \in {"ack", "bare", "noArg", "request"}
          /\ Parsed
    /\ pc' = IF reqMsg'.params.tree # 0 THEN "dispatch" ELSE "done"
    /\ heap' = heap \union {<<"request", Current.tid>>}
    /\ UNCHANGED <<bleVars, todo, BLE_CTL_CMD_RUNING, REQ_MSG_HANDELING, ack, macList, listed,
                   link, arrivals, inbox, published, seen, held, reported>>

\* cJSON_GetObjectItem(...)->valuestring on an absent item, or a wild pointer.
ParseCrashes ==
    /\ pc = "parse" /\ REQ_MSG_HANDELING = 0
    /\ \/ Current.in.form = "broken"
       \/ Current.in.form \in {"noHead", "noTrans"} /\ "wild" \in Residue
    /\ pc' = "dead"
    /\ UNCHANGED <<bleVars, handlerVars, link, arrivals, inbox, published, heap, seen, held, reported>>

ControlMoto(m) == <<Step("write", m), Step("sleep", m), Step("readAck", m)>>

(* The AT commands, waits and scripts of each API function.                *)
Program(svc, m, act) ==
    CASE svc = "setDev" /\ act \in Positions -> ControlMoto(m)
      [] svc = "connectDev" -> <<Step("connect", m), Step("sleep", m), Step("list", m)>>
      [] svc = "disConnectDev" -> <<Step("disconnect", m)>>
      [] svc = "getScanResult" -> <<Step("scan", m), Step("scanScript", m)>>
      [] svc = "getConnectedList" ->
            <<Step("scan", m), Step("scanScript", m), Step("list", m)>>
      [] OTHER -> <<>>

ReadsArguments(svc) == svc \in {"setDev", "connectDev", "disConnectDev"}

\* Mutant: the buffers are static and nobody clears them.
BuffersKept == UNCHANGED <<ack, macList, listed>>
\* The buffers of an API function are locals it zeroes.
ClearBuffers == ack' = "none" /\ macList' = {} /\ listed' = {}

\* Mutant: a service code without its branch in reqMsgHandel.
HandledButOne(svc) == svc \in Services \ {"disConnectDev"}
Handled(svc) == svc \in Services

(* reqMsgHandel and the first lines of the API function it calls.          *)
ReqMsgHandel ==
    /\ pc = "dispatch"
    /\ ~(ReadsArguments(reqMsg.svc) /\ ~reqMsg.params.full)
    /\ pc' = IF Handled(reqMsg.svc) THEN "run" ELSE "done"
    /\ todo' = Program(reqMsg.svc, reqMsg.params.mac, reqMsg.params.act)
    /\ ClearBuffers
    /\ seen' = connected
    /\ held' = {}
    /\ UNCHANGED <<bleVars, reqMsg, BLE_CTL_CMD_RUNING, REQ_MSG_HANDELING,
                   link, arrivals, inbox, published, heap, reported>>

DispatchCrashes ==
    /\ pc = "dispatch"
    /\ ReadsArguments(reqMsg.svc) /\ ~reqMsg.params.full
    /\ pc' = "dead"
    /\ UNCHANGED <<bleVars, handlerVars, link, arrivals, inbox, published, heap, seen, held, reported>>

-----------------------------------------------------------------------------
\* Mutant: the gate stays closed after a command.
GateForgotten == UNCHANGED BLE_CTL_CMD_RUNING
OpenGate == BLE_CTL_CMD_RUNING' = 0

(* getBLEATCMDResult: wait for the gate, close it, run the tool.           *)
StartTool ==
    /\ pc = "run" /\ todo # <<>> /\ Head(todo).op \in ATOps
    /\ BLE_CTL_CMD_RUNING = 0
    /\ BLE_CTL_CMD_RUNING' = 1
    /\ pc' = "tool"
    /\ UNCHANGED <<bleVars, reqMsg, todo, REQ_MSG_HANDELING, ack, macList, listed,
                   link, arrivals, inbox, published, heap, seen, held, reported>>

\* Effect on the devices, and on the buffer the command's output goes to.
ToolEffect(c) ==
    /\ CASE c.op = "write" -> WriteCmd(c.mac, Current.tid, reqMsg.params.act)
         [] c.op = "connect" -> ConnectCmd(c.mac)
         [] c.op = "disconnect" -> DisconnectCmd(c.mac)
         [] OTHER -> UNCHANGED bleVars
    /\ ack' = IF c.op = "readAck" THEN ReadStatus(c.mac) ELSE ack
    /\ macList' = IF c.op = "list" THEN connected ELSE macList
    /\ reported' = IF c.op = "write" THEN [reported EXCEPT ![c.mac] = "none"] ELSE reported

\* popen failed, or the tool did nothing and printed nothing: only a log line.
ToolFails == UNCHANGED <<bleVars, ack, macList, reported>>

EndTool ==
    /\ pc = "tool"
    /\ ToolEffect(Head(todo)) \/ ToolFails
    /\ OpenGate
    /\ todo' = Tail(todo)
    /\ pc' = "run"
    /\ held' = IF Head(todo).op = "write" THEN {status[Head(todo).mac]} ELSE held
    /\ UNCHANGED <<reqMsg, REQ_MSG_HANDELING, listed, link, arrivals, inbox, published, heap, seen>>

\* mqtt_sleep_ms: 100 ms before the acknowledge is read, 500 ms before the list.
Sleep ==
    /\ pc = "run" /\ todo # <<>> /\ Head(todo).op = "sleep"
    /\ Timely => pending[Head(todo).mac] = <<>>
    /\ todo' = Tail(todo)
    /\ UNCHANGED <<bleVars, reqMsg, BLE_CTL_CMD_RUNING, REQ_MSG_HANDELING, ack, macList, listed,
                   link, arrivals, inbox, pc, published, heap, seen, held, reported>>

\* system(SHELL_GET_BLE_INFO) and getDevNameByMAC do not go through the gate.
RunScript ==
    /\ pc = "run" /\ todo # <<>> /\ Head(todo).op \in ShellOps
    /\ todo' = Tail(todo)
    /\ UNCHANGED <<bleVars, reqMsg, BLE_CTL_CMD_RUNING, REQ_MSG_HANDELING, ack, macList, listed,
                   link, arrivals, inbox, pc, published, heap, seen, held, reported>>

(* One turn of genGetConnectedListResp's loop: a name, a serial number and *)
(* a model number per listed device.                                       *)
ListDevice ==
    /\ pc = "run" /\ todo = <<>> /\ reqMsg.svc = "getConnectedList"
    /\ \E m \in macList :
          /\ macList' = macList \ {m}
          /\ listed' = listed \union {m}
          /\ todo' = <<Step("devName", m), Step("readSN", m), Step("readModel", m)>>
    /\ UNCHANGED <<bleVars, reqMsg, BLE_CTL_CMD_RUNING, REQ_MSG_HANDELING, ack,
                   link, arrivals, inbox, pc, published, heap, seen, held, reported>>

-----------------------------------------------------------------------------
(* What the API functions make of the outputs: controlMoto compares the    *)
(* acknowledge with "01" for on and "02" for off, connectDev looks for the *)
(* MAC in the list, the others always report 0.                            *)
Succeeded ==
    CASE reqMsg.svc = "setDev" ->
            reqMsg.params.act \in Positions /\ ack = PositionCode(reqMsg.params.act)
      [] reqMsg.svc = "connectDev" -> reqMsg.params.mac \in macList
      [] OTHER -> TRUE

\* Mutant: failure is 1.
CodePositive == IF Succeeded THEN 0 ELSE 1
Code == IF Succeeded THEN 0 ELSE -1

(* ResultData: a fresh tree for the list services; for the three others an *)
(* uninitialised pointer, NULL (then the item is left out), left over from *)
(* an earlier request, or wild.                                            *)
ResultData ==
    IF reqMsg.svc \in ListServices THEN {"own"}
    ELSE {d \in {"none", "stale"} :
            \/ d = "none" /\ "null" \in Residue
            \/ d = "stale" /\ "stale" \in Residue /\ \E t \in 1..MaxMsgs : <<"data", t>> \in heap}

Reply(d) == [tid |-> reqMsg.tid,
             answer |-> [svc |-> reqMsg.svc, mac |-> reqMsg.params.mac, act |-> reqMsg.params.act,
                         code |-> Code, data |-> d, macs |-> listed]]

ReadyToReply ==
    /\ pc = "run" /\ todo = <<>>
    /\ reqMsg.svc = "getConnectedList" => macList = {}

(* genRespMsg, cJSON_PrintUnformatted, mqttPublishMsg: QoS 0, the result   *)
(* of mqtt_publish is not looked at.  It fails when the link is down, and  *)
(* when a long list makes the message exceed the 4096-byte write buffer.   *)
Publish ==
    /\ ReadyToReply
    /\ \E d \in ResultData :
          \/ link /\ published' = Append(published, Reply(d))
          \/ (~link \/ reqMsg.svc \in ListServices) /\ UNCHANGED published
    /\ heap' = heap \union {<<"reply", Current.tid>>}
                    \union (IF reqMsg.svc \in ListServices THEN {<<"data", Current.tid>>} ELSE {})
    /\ reported' = IF reqMsg.svc = "setDev" /\ Code = 0
                   THEN [reported EXCEPT ![reqMsg.params.mac] = reqMsg.params.act] ELSE reported
    /\ held' = {}
    /\ pc' = "done"
    /\ UNCHANGED <<bleVars, handlerVars, link, arrivals, inbox, seen>>

PublishCrashes ==
    /\ ReadyToReply
    /\ reqMsg.svc \notin ListServices /\ "wild" \in Residue
    /\ pc' = "dead"
    /\ UNCHANGED <<bleVars, handlerVars, link, arrivals, inbox, published, heap, seen, held, reported>>

\* Mutants: the callback frees nothing, or the tree of parseReqMsg as well.
FreesNothing == {}
FreesRequest == {"callback", "request"} \X {Current.tid}
FreedByCallback == {<<"callback", Current.tid>>}

(* The end of recv_handlel_bk; the client takes the next packet.           *)
Return ==
    /\ pc = "done"
    /\ heap' = heap \ FreedByCallback
    /\ inbox' = Tail(inbox)
    /\ pc' = "idle"
    /\ UNCHANGED <<bleVars, handlerVars, link, arrivals, published, seen, held, reported>>

-----------------------------------------------------------------------------
CallbackStep ==
    \/ Receive \/ ParseReqMsg \/ ParseCrashes \/ ReqMsgHandel \/ DispatchCrashes
    \/ StartTool \/ EndTool \/ Sleep \/ RunScript \/ ListDevice
    \/ Publish \/ PublishCrashes \/ Return

Next == CallbackStep \/ Arrive \/ LinkDown \/ LinkUp \/ DeviceStep

Spec == Init /\ [][Next]_vars

(* The callback thread is scheduled and the tools it starts end; a queued  *)
(* write is eventually executed, refused or lost.                          *)
Fairness ==
    /\ WF_vars(CallbackStep)
    /\ \A m \in Macs : WF_vars(DeviceStep /\ WriteSettles(m))

FairSpec == Spec /\ Fairness
=============================================================================
