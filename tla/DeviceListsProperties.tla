------------------------- MODULE DeviceListsProperties -------------------------
(* What must be true of the lists and numbers the handlers send,           *)
(* against what the tool printed.                                          *)
EXTENDS DeviceLists

Garbage == Residue \union {[i \in 1..64 |-> 0]}
ScanTotal == Total([i \in DOMAIN found |-> ScanLength(found[i])])

(* The reply to getScanResult has one item per line of the scan, in order, *)
(* whichever way lines end; a scan that is too long loses whole lines at   *)
(* its end (executeCMD, msgHandel.c:110), one that fits loses none.        *)
ScanListsFound ==
    \A b \in Garbage :
        LET items == genScanResultResp(b)
        IN  /\ Len(items) = Len(found) \/ (Len(items) < Len(found) /\ ScanTotal > Cap)
            /\ \A i \in DOMAIN items : items[i].mac = found[i].mac

(* An item of that reply carries the name of its own line or, if that is   *)
(* three characters or less, the name its MAC stands for: never a piece of *)
(* another device's name, although one array serves all lines.             *)
ScanNamesOwn ==
    \A b \in Garbage :
        LET items == genScanResultResp(b)
        IN  \A i \in DOMAIN items : items[i].name = NameOr(found[i].name, found[i].mac)

(* The reply has one item per connected device the tool listed, in order.  *)
(* Its MAC and its name begin with the device's own.  The MAC is just that *)
(* unless the struct held something behind it before the first device; the *)
(* name unless the struct did, or an earlier device had a longer one: what *)
(* strncpy without a terminator (msgHandel.c:354, 361, 364) leaves of it   *)
(* is at most a tail.                                                      *)
ConnectedNamesBegin ==
    \A a, b \in Garbage :
        LET items == genGetConnectedListResp([DeviceMAC |-> a, BroadcastName |-> b], <<>>)
            own(i) == NameOr(getDevNameByMAC(connected[i]), connected[i])
        IN  /\ Len(items) = Len(getConnectedDevices)
            /\ \A i \in DOMAIN items :
                /\ IsPrefix(connected[i], items[i].DeviceMAC)
                /\ \/ items[i].DeviceMAC = connected[i]
                   \/ \E k \in DOMAIN a : k > Len(connected[i]) /\ a[k] # 0
                /\ IsPrefix(own(i), items[i].BroadcastName)
                /\ \/ items[i].BroadcastName = own(i)
                   \/ \E j \in 1..(i - 1) : Len(own(j)) > Len(own(i))
                   \/ \E k \in DOMAIN b : k > Len(own(i)) /\ b[k] # 0

(* A serial or model number in a reply is the whole one the device holds,  *)
(* or "unknow"; never a part of it, with the end of line counted into the  *)
(* digits or not (common.c:58-66, msgHandel.c:305).                        *)
NumbersTrueOrUnknown ==
    \A v \in Serials :
        LET numbers == getGeeTouchSN_ModelNo(v, v)
        IN  {numbers.SN, numbers.ModelNo} \subseteq ({v} \ {<<>>}) \union {Unknow}
=============================================================================
