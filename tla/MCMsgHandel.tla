------------------------------ MODULE MCMsgHandel ------------------------------
(* Small instances of MsgHandel for TLC.                                   *)
EXTENDS MsgHandelProperties, TLC

In(form, svc, mac, act) == [form |-> form, svc |-> svc, mac |-> mac, act |-> act]

\* Well-formed requests for one device, one of each kind.
RequestInputs ==
    {In("request", "setDev", AnyMac, a) : a \in {"on", "off", "other"}}
        \union {In("request", s, AnyMac, "other") : s \in Services \ {"setDev"}}

\* Motor commands only, for every device.
MotorInputs == {In("request", "setDev", m, a) : m \in Macs, a \in {"on", "off"}}

\* Connection handling for every device.
ConnectInputs ==
    {In("request", s, m, "other") : s \in {"connectDev", "disConnectDev"}, m \in Macs}
        \union {In("request", "getConnectedList", AnyMac, "other")}

\* Every form of payload, with a service that acts and one that lists.
AllFormInputs ==
    {In(f, "setDev", AnyMac, "on") : f \in Forms}
        \union {In(f, "getScanResult", AnyMac, "other") : f \in {"noArg", "request", "noTrans"}}
        \union {In("request", "unknown", AnyMac, "other")}

\* Every form, every request, and motors and connections of every device.
EveryInput == AllFormInputs \union RequestInputs \union MotorInputs \union ConnectInputs

\* Requests that write, that ask for a list once, that do neither, that ask
\* each device, and for no service; a payload that is no request, and those
\* that may end the process early and late.
FewInputs ==
    {In("request", s, AnyMac, "on") :
        s \in {"setDev", "connectDev", "disConnectDev", "getConnectedList", "unknown"}}
        \union {In(f, "setDev", AnyMac, "on") : f \in {"noTrans", "noArg", "notJson"}}
=============================================================================
