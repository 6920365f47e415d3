------------------------------ MODULE BleDevices ------------------------------
(***************************************************************************)
(* The Bluetooth side, seen through the command-line tool                  *)
(* /root/ams_led_soil_info (BLE_CTL_BIN_PATH, msgHandel.h:40).  Neither    *)
(* the tool nor the devices are in the repository: this module is modelled *)
(* from how msgHandel.c uses them and from the sample outputs quoted in    *)
(* its comments.                                                           *)
(*                                                                         *)
(* "gatt write command" is a write without response: the tool returns      *)
(* when the write is queued, and the device executes it, refuses it or     *)
(* never receives it at some later time.  "connect" likewise only starts   *)
(* a connection.  That is why controlMoto and connectDev sleep and then    *)
(* ask again (msgHandel.c:165, 177, 208).                                  *)
(***************************************************************************)
EXTENDS Integers, Sequences

CONSTANTS
    Macs,           \* the devices in radio range
    MaxMsgs,        \* bound: messages the client ever receives, numbered 1..MaxMsgs
    AckConvention   \* what handle 40 holds, see StatusAfter

ASSUME MacsAssumption == Macs # {}
ASSUME MaxMsgsAssumption == MaxMsgs \in Nat
ASSUME AckConventionAssumption == AckConvention \in {"position", "outcome"}

VARIABLES
    connected,      \* devices the radio is connected to
    connecting,     \* devices a started connection has not settled for
    pending,        \* per device, the queued writes to handle 37
    motor,          \* per device, where its motor really is
    status          \* per device, the content of handle 40

bleVars == <<connected, connecting, pending, motor, status>>

Positions == {"on", "off"}
Acks == {"none", "01", "02"}
Writes == [tid : 1..MaxMsgs, value : Positions]

BleTypeOK ==
    /\ connected \subseteq Macs
    /\ connecting \subseteq Macs
    /\ pending \in [Macs -> Seq(Writes)]
    /\ motor \in [Macs -> Positions]
    /\ status \in [Macs -> Acks]

(***************************************************************************)
(* Handle 40 after a write of value v.  controlMoto reads it as a position *)
(* ("01" is on, "02" is off); the comment at msgHandel.c:130 says it is an *)
(* outcome ("01" success, "02" failure).  Both readings are modelled.      *)
(***************************************************************************)
PositionCode(v) == IF v = "on" THEN "01" ELSE "02"
StatusAfter(v) == IF AckConvention = "position" THEN PositionCode(v) ELSE "01"
StatusRefused(m) == IF AckConvention = "position" THEN status[m] ELSE "02"

BleInit ==
    /\ connected \in SUBSET Macs
    /\ connecting = {}
    /\ pending = [m \in Macs |-> <<>>]
    /\ motor \in [Macs -> Positions]
    /\ status = [m \in Macs |->
                   IF AckConvention = "position" THEN PositionCode(motor[m]) ELSE "none"]

-----------------------------------------------------------------------------
(* What the AT commands do when the tool runs them.                        *)

WriteCmd(m, t, v) ==
    /\ pending' = IF m \in connected
                  THEN [pending EXCEPT ![m] = Append(@, [tid |-> t, value |-> v])]
                  ELSE pending
    /\ UNCHANGED <<connected, connecting, motor, status>>

\* The filter after "gatt read ... 40" leaves the fifth field, or nothing.
ReadStatus(m) == IF m \in connected THEN status[m] ELSE "none"

ConnectCmd(m) ==
    /\ connecting' = connecting \union ({m} \ connected)
    /\ UNCHANGED <<connected, pending, motor, status>>

DisconnectCmd(m) ==
    /\ connected' = connected \ {m}
    /\ connecting' = connecting \ {m}
    /\ pending' = [pending EXCEPT ![m] = <<>>]
    /\ UNCHANGED <<motor, status>>

-----------------------------------------------------------------------------
(* What devices and radio do on their own.                                 *)

ConnectSettles(m) ==
    /\ m \in connecting
    /\ connecting' = connecting \ {m}
    /\ connected' \in {connected, connected \union {m}}
    /\ UNCHANGED <<pending, motor, status>>

WriteExecutes(m) ==
    /\ pending[m] # <<>>
    /\ pending' = [pending EXCEPT ![m] = Tail(@)]
    /\ motor' = [motor EXCEPT ![m] = Head(pending[m]).value]
    /\ status' = [status EXCEPT ![m] = StatusAfter(Head(pending[m]).value)]
    /\ UNCHANGED <<connected, connecting>>

\* The device receives the write and its motor does not move.
WriteRefused(m) ==
    /\ pending[m] # <<>>
    /\ pending' = [pending EXCEPT ![m] = Tail(@)]
    /\ status' = [status EXCEPT ![m] = StatusRefused(m)]
    /\ UNCHANGED <<connected, connecting, motor>>

\* The write never reaches the device.
WriteLost(m) ==
    /\ pending[m] # <<>>
    /\ pending' = [pending EXCEPT ![m] = Tail(@)]
    /\ UNCHANGED <<connected, connecting, motor, status>>

ConnectionDrops(m) ==
    /\ m \in connected
    /\ connected' = connected \ {m}
    /\ pending' = [pending EXCEPT ![m] = <<>>]
    /\ UNCHANGED <<connecting, motor, status>>

WriteSettles(m) == WriteExecutes(m) \/ WriteRefused(m) \/ WriteLost(m)

BleNext == \E m \in Macs : ConnectSettles(m) \/ WriteSettles(m) \/ ConnectionDrops(m)
=============================================================================
