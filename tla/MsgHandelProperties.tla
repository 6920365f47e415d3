-------------------------- MODULE MsgHandelProperties --------------------------
(* What must be true of MsgHandel, and how it implements RequestReply.     *)
EXTENDS MsgHandel

(* parseReqMsg's early returns leave no pointer of an earlier request.     *)
NoStale == "stale" \notin Residue

-----------------------------------------------------------------------------
(* The MAC and action strings an API function works with belong to the     *)
(* tree parseReqMsg built: as long as the function runs, that tree must    *)
(* not have been freed.  It holds whatever the struct was filled with,     *)
(* only because that tree is never freed (msgHandel.c:38).                 *)
ParamsNotDangling ==
    pc \in {"dispatch", "run", "tool"} => <<"request", reqMsg.params.tree>> \in heap

(* The tree recv_handlel_bk parses (main.c:96) is gone whenever it has     *)
(* returned, on each path through the handler.                             *)
CallbackTreeFreed == pc = "idle" => \A t \in 1..MaxMsgs : <<"callback", t>> \notin heap

(* A setDev is answered with 0 only if handle 40 of its device held the    *)
(* code of the position asked for at some instant after this request's own *)
(* write command: never on what an earlier request, another device or a    *)
(* read before the write left in the buffer (msgHandel.c:158-187).  It is  *)
(* all that can be said of the code whatever handle 40 means; what it does *)
(* not give is MotorAsReported below.                                      *)
StatusIsFresh ==
    pc = "run" /\ reqMsg.svc = "setDev" /\ todo = <<>> /\ Code = 0
        => PositionCode(reqMsg.params.act) \in held

(* connectDev and getConnectedList report no device that was not connected *)
(* at some instant since their own request was dispatched: the list is the *)
(* one this request asked for, never one left by an earlier request.       *)
ListIsFresh ==
    /\ pc \in {"run", "tool"} => macList \union listed \subseteq seen
    /\ pc = "run" /\ reqMsg.svc = "connectDev" /\ todo = <<>> /\ Code = 0
          => reqMsg.params.mac \in seen

(* A device is written to only on behalf of a message that is a complete   *)
(* setDev request for that device and position (msgHandel.c:65: Params     *)
(* decides what a request is).                                             *)
AsksFor(in, m, v) == in.form = "request" /\ in.svc = "setDev" /\ in.mac = m /\ in.act = v

WritesOnlyAsked ==
    [][\A m \in Macs :
          Len(pending'[m]) > Len(pending[m])
             => \E v \in Positions :
                   /\ AsksFor(Current.in, m, v)
                   /\ pending'[m] = Append(pending[m], [tid |-> Current.tid, value |-> v])]_vars

(* The one callback thread waits at the AT gate (msgHandel.c:267-269) for  *)
(* nobody but itself: unless a tool runs, it must find the gate open, or   *)
(* it sleeps there for ever.                                               *)
NeverLockedOut == pc # "tool" => BLE_CTL_CMD_RUNING = 0 /\ REQ_MSG_HANDELING = 0

-----------------------------------------------------------------------------
(* A message the client has taken in is settled: handled, lost with the    *)
(* connection, or the process died.                                        *)
Waiting(t) == \E i \in 1..Len(inbox) : inbox[i].tid = t
MessagesSettle == \A t \in 1..MaxMsgs : Waiting(t) ~> (~Waiting(t) \/ pc = "dead")

(* A complete request whose turn has come on a connection that stays up is *)
(* answered, unless its answer is a list too long to send.                 *)
Answered(t) == \E i \in 1..Len(published) : published[i].tid = t
OneAnswerServices == Services \ ListServices
RequestsAnswered ==
    \A t \in 1..MaxMsgs :
        (/\ Waiting(t) /\ link
         /\ \E i \in 1..Len(inbox) : /\ inbox[i].tid = t /\ inbox[i].in.form = "request"
                                     /\ inbox[i].in.svc \in OneAnswerServices)
           ~> (Answered(t) \/ ~link \/ pc = "dead")

-----------------------------------------------------------------------------
(* The refinement.  A message is settled for the abstract queue as soon as *)
(* its reply has left (pc = "done"); the read buffer keeps it until the    *)
(* callback returns.                                                       *)
queueBar == IF pc = "done" THEN Tail(inbox) ELSE inbox

FittingAnswers ==
    [in \in Inputs |->
        {a \in AnswerRecords :
            /\ in.form \in {"request", "noArg"} /\ in.svc \in Services
            /\ a.svc = in.svc /\ a.mac = in.mac /\ a.act = in.act
            /\ a.code = 0 \/ in.svc \in {"setDev", "connectDev"}
            /\ a.data = (IF in.svc \in ListServices THEN "own" ELSE "none")
            /\ a.macs = {} \/ in.svc = "getConnectedList"}]

RR == INSTANCE RequestReply WITH
        queue <- queueBar, replies <- published,
        Answers <- AnswerRecords, AnswersTo <- FittingAnswers

(* Each message is answered at most once, in arrival order, with its own   *)
(* transactionID and ServiceCode, its own ResultData, and no code its      *)
(* service never gives.                                                    *)
RefinesRequestReply == RR!Spec
RepliesInOrderOnce == RR!InOrderOnce

-----------------------------------------------------------------------------
(* A statement of the repository the code does not keep.                   *)

(* Comment at msgHandel.c:158-159 (0 is success) read at rest: a device    *)
(* whose last command was reported as carried out, and for which nothing   *)
(* is under way, has its motor where the report says.                      *)
MotorAsReported ==
    \A m \in Macs :
        reported[m] # "none" /\ pending[m] = <<>> => motor[m] = reported[m]
=============================================================================
