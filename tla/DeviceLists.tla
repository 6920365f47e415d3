------------------------------ MODULE DeviceLists ------------------------------
(***************************************************************************)
(* What the handlers of msgHandel.c read out of the text the AT tool       *)
(* prints: the lists of found and of connected devices, and a device's     *)
(* serial and model number.                                                *)
(*                                                                         *)
(* A string is a sequence of byte values without 0.  A char array is a     *)
(* sequence of bytes in which the string ends before the first 0; arrays   *)
(* that the code does not initialise start with a member of Residue.  The  *)
(* grep behind the commands that list devices lets only lines through that *)
(* have the tool's format, so that a line here is its MAC and its name:    *)
(*      1,01,<MAC>,<name>     of a scan (line 282), with the end of line   *)
(*                            the tool printed: ".+" matches a CR          *)
(*      <MAC>                 of the connected devices (line 193): "-o"    *)
(*                            ends each match with one LF, always          *)
(* Behind "gatt read" (lines 304, 315) there is only a cut: the model      *)
(* takes the one line with the answer, and no other output of the tool.    *)
(***************************************************************************)
EXTENDS Sums, SequencesExt

CONSTANTS
    Macs,       \* MACs as the greps let them through, all of one length
    Vendor,     \* the beginning of a MAC that gives a device its default name
    Names,      \* names a device may advertise, none included
    Serials,    \* what a device may hold under handles 20 and 22
    DefaultName, Unknow, \* the two names the code puts in place of a missing one
    Cap,        \* characters after which executeCMD reads no further
    Residue,    \* contents of an uninitialised array
    MaxLines    \* bound: lines one command prints

Chars == 1..255
Strings == Seq(Chars)

ASSUME MacsAssumption ==
    Macs \subseteq Strings /\ \A m, n \in Macs : Len(m) = Len(n) /\ m # <<>>
ASSUME NamesAssumption == Names \union Serials \union {Vendor, DefaultName, Unknow} \subseteq Strings
\* Its digits and an end of line fit char ret[128].
ASSUME SerialsAssumption == \A v \in Serials : 2 * Len(v) + 2 < 128
ASSUME CapAssumption == Cap \in Nat
ASSUME ResidueAssumption == Residue \subseteq Seq(0..255) /\ \A b \in Residue : Contains(b, 0)
ASSUME MaxLinesAssumption == MaxLines \in Nat

VARIABLES
    found,      \* lines of the last scan, also kept in /etc/scan.result
    connected,  \* MACs in the order the tool lists them
    eol         \* how the tool ends a line: "\n", or "\r\n"

vars == <<found, connected, eol>>

LF == <<10>>
CRLF == <<13, 10>>

-----------------------------------------------------------------------------
(* Strings in arrays.                                                      *)

Least(S) == CHOOSE i \in S : \A j \in S : i <= j

\* The string in an array.
StrOf(b) ==
    LET zeros == {i \in DOMAIN b : b[i] = 0}
    IN  IF zeros = {} THEN b ELSE SubSeq(b, 1, Least(zeros) - 1)

\* Mutant: the name is put behind what the array holds.
Appended(b, s) == StrOf(b) \o s \o <<0>>
\* strncpy(b, s, strlen(s)): no terminator is written.
Copied(b, s) == s \o SubSeq(b, Len(s) + 1, Len(b))
\* Mutant: the array is not cleared first.
CopiedOver(b, s) == Copied(b, s)
\* strncpy into an array of zeroes.
CopiedClean(b, s) == s \o [i \in 1..Len(b) |-> 0]

\* "strlen(name) > 3": shorter ones are taken for none.
NameOr(name, mac) ==
    IF Len(name) > 3 THEN name ELSE IF IsPrefix(Vendor, mac) THEN DefaultName ELSE Unknow

-----------------------------------------------------------------------------
\* fgets and strcat until more than Cap characters are there: lines taken.
executeCMD(lens) ==
    LET full == {k \in DOMAIN lens : Sums(lens)[k] > Cap}
    IN  IF full = {} THEN Len(lens) ELSE Least(full)

ScanLength(line) == 5 + Len(line.mac) + 1 + Len(line.name) + Len(eol)
getScanResult == SubSeq(found, 1, executeCMD([i \in DOMAIN found |-> ScanLength(found[i])]))
getConnectedDevices ==
    SubSeq(connected, 1, executeCMD([i \in DOMAIN connected |-> Len(connected[i]) + 1]))

\* Mutant: the index into the line is not set back, so the second character
\* of an end of line ends the same line again.
LineKept(lines, nothing) ==
    [i \in 1..Len(lines) * Len(eol) |-> lines[(i - 1) \div Len(eol) + 1]]
\* The lines the loops over the text see: each character of an end of line
\* ends one, so that the second character of two ends an empty line.
LinesSeen(lines, nothing) ==
    [i \in 1..Len(lines) * Len(eol) |->
        IF (i - 1) % Len(eol) = 0 THEN lines[(i - 1) \div Len(eol) + 1] ELSE nothing]

-----------------------------------------------------------------------------
\* result is cleared before each line; lines too short for a MAC are skipped.
ScanItem(b, line) ==
    LET array == CopiedClean(b, NameOr(line.name, line.mac))
    IN  [mac |-> line.mac, name |-> StrOf(array), array |-> array]

NoLine == [mac |-> <<>>, name |-> <<>>]
ScanLine(done, line) ==
    IF line = NoLine THEN done
    ELSE LET item == ScanItem(done.array, line)
         IN  [items |-> Append(done.items, [mac |-> item.mac, name |-> item.name]),
              array |-> item.array]
ScanItems(array) ==
    LET lines == LinesSeen(getScanResult, NoLine)
        done[i \in 0..Len(lines)] ==
            IF i = 0 THEN [items |-> <<>>, array |-> array] ELSE ScanLine(done[i - 1], lines[i])
    IN  done
genScanResultResp(array) == ScanItems(array)[Len(LinesSeen(getScanResult, NoLine))].items

-----------------------------------------------------------------------------
(* The serial and model number, which the tool prints as hexadecimal       *)
(* digits.                                                                 *)

\* toupper(c) - 0x30, less 7 above 9, in an unsigned char.
Nibble(c) ==
    LET upper == IF c \in 97..122 THEN c - 32 ELSE c
        d == (upper - 48) % 256
    IN  IF d > 9 THEN (d - 7) % 256 ELSE d
StrToHex(hex, nLen) == [i \in 1..nLen |-> (16 * Nibble(hex[2 * i - 1]) + Nibble(hex[2 * i])) % 256]

\* The last pair of digits is decoded and then overwritten by the terminator.
hexStrtoAsciiStr(hex) ==
    LET n == Len(hex) \div 2
    IN  StrOf(Append(SubSeq(StrToHex(hex, n % 256), 1, n - 1), 0))

\* Mutant: an odd text is decoded as well.
DecodedAlways(ret) == IF Len(ret) > 2 THEN hexStrtoAsciiStr(ret) ELSE Unknow
Decoded(ret) == IF Len(ret) > 2 /\ Len(ret) % 2 = 0 THEN hexStrtoAsciiStr(ret) ELSE Unknow

\* What "gatt read" and cut leave of a device's answer.
Digit(d) == IF d < 10 THEN 48 + d ELSE 55 + d
gatt_read(v) ==
    [i \in 1..2 * Len(v) |-> LET c == v[(i + 1) \div 2]
                            IN  Digit(IF i % 2 = 1 THEN c \div 16 ELSE c % 16)] \o eol
getGeeTouchSN_ModelNo(sn, modelNo) ==
    [SN |-> Decoded(gatt_read(sn)), ModelNo |-> Decoded(gatt_read(modelNo))]

-----------------------------------------------------------------------------
\* grep MAC | cut of /etc/scan.result: each name with its end of line.
getDevNameByMAC(mac) ==
    LET name[i \in 0..Len(found)] ==
            IF i = 0 THEN <<>>
            ELSE IF found[i].mac = mac THEN name[i - 1] \o found[i].name \o eol
            ELSE name[i - 1]
    IN  name[Len(found)]

(* One device of the list.  dev_info is an uninitialised local, and nothing *)
(* clears it between devices; each line holds a MAC, so that "strlen(mac) > *)
(* 16" lets all pass.  v is what handles 20 and 22 hold.                    *)
ConnectedLine(done, mac, v) ==
    LET dev_info == [DeviceMAC |-> Copied(done.dev_info.DeviceMAC, mac),
                     BroadcastName |-> Copied(done.dev_info.BroadcastName,
                                              NameOr(getDevNameByMAC(mac), mac))]
        numbers == getGeeTouchSN_ModelNo(v, v)
    IN  [items |-> Append(done.items,
                          [DeviceMAC |-> StrOf(dev_info.DeviceMAC),
                           BroadcastName |-> StrOf(dev_info.BroadcastName),
                           SN |-> numbers.SN, ModelNo |-> numbers.ModelNo]),
         dev_info |-> dev_info]
ConnectedItems(dev_info, v) ==
    LET macs == getConnectedDevices
        done[i \in 0..Len(macs)] ==
            IF i = 0 THEN [items |-> <<>>, dev_info |-> dev_info]
            ELSE ConnectedLine(done[i - 1], macs[i], v)
    IN  done
genGetConnectedListResp(dev_info, v) == ConnectedItems(dev_info, v)[Len(getConnectedDevices)].items

-----------------------------------------------------------------------------
Init == found = <<>> /\ connected = <<>> /\ eol \in {LF, CRLF}

\* The tool prints one more line of a scan.
Find(mac, name) ==
    /\ Len(found) < MaxLines
    /\ found' = Append(found, [mac |-> mac, name |-> name])
    /\ UNCHANGED <<connected, eol>>

Connect(mac) ==
    /\ ~Contains(connected, mac)
    /\ connected' = Append(connected, mac)
    /\ UNCHANGED <<found, eol>>

Drop(mac) ==
    /\ \E i \in DOMAIN connected : connected[i] = mac /\ connected' = RemoveAt(connected, i)
    /\ UNCHANGED <<found, eol>>

Next ==
    \E mac \in Macs :
        \/ \E name \in Names : Find(mac, name)
        \/ Connect(mac) \/ Drop(mac)

Spec == Init /\ [][Next]_vars
=============================================================================
