# A TLA+ model of openwrt-package-template

The repository holds four OpenWrt packages. The one with a core of its own is
`openwrt-package-template`: a daemon that takes requests from an MQTT topic,
turns them into AT commands for Bluetooth devices (a command-line tool it
starts with `popen`), and answers on another topic. This directory holds TLA+
modules of that daemon, the TLC configurations that check them on small
instances, and theorems that the TLA+ proof system checks for all instances.

Paths below are relative to `src/openwrt-package-template/`.

## Inventory

| component | source | state | operations |
|---|---|---|---|
| callback and start-up | `src/main.c` | client, topics | `main` connects, subscribes, sleeps for ever; `recv_handlel_bk` handles one message |
| message handling | `src/msgHandel.c`, `inc/msgHandel.h` | two gate flags (lines 20-25), one `struct REQ_MSG` per message, local output buffers, cJSON trees | `parseReqMsg`, `reqMsgHandel`, five API functions, `genRespMsg`, `mqttPublishMsg` |
| Bluetooth tool and devices | not in the repository; used by `msgHandel.c` | connections, queued writes, motor position, status handle 40 | `connect`, `disconnect`, `scan`, `connected_devices`, `gatt read`, `gatt write command` |
| service life cycle | `files/openwrt-package-template.init` | pid file, daemon process, AT tool process | `start_service`, `stop_service`, `reload_service` |
| device lists and numbers | `src/msgHandel.c` (lines 80-126, 196-520) | none between calls; arrays that are not initialised | `executeCMD`, `genScanResultResp`, `genGetConnectedListResp`, `getGeeTouchSN_ModelNo` |
| hexadecimal codec | `src/common.c` | none | `StrToHex`, `hexStrtoAsciiStr` |
| logging | `src/log.c`, `inc/log.h` | switches, size limit, path, log file | `log_init`, `LOG`, `DEL_OUT_SIZE_FILE` |
| cJSON trees | `src/cJSON.c` (vendored) | items on the heap | create, add, reference, detach, insert, replace, duplicate, delete |
| cJSON texts | `src/cJSON.c` (vendored) | error pointer, print buffer | parse, print, print buffered |
| MQTT client | `lib/*.so` and headers (vendored) | connection, read and write buffers | `mqtt_connect`, `mqtt_subscribe`, `mqtt_publish`, callbacks |
| hello, hello_cmake | `../hello`, `../hello_cmake` | none | read UCI options, wait a random time, run one `wget` |
| gethostbyaddr | `../gethostbyaddr` | none | resolve the addresses on the command line |

How they interact. The MQTT client owns one thread: it reads a packet, calls
`recv_handlel_bk`, and reads the next packet when that returns. The callback
parses the payload once to see whether it is JSON, then `recvMsgHandel` parses
it again into a `struct REQ_MSG` and branches on its `Params` pointer. The API
function of the service code runs AT commands one after the other, each behind
the flag `BLE_CTL_CMD_RUNING`, with fixed waits between a command and the
question whether it worked, and sends one reply. Meanwhile devices connect, drop
and execute writes on their own, the link to the broker breaks, and the init
script may kill the process.

What is hard about it, and which properties make each part correct:

- the struct `parseReqMsg` returns is uninitialised on early returns: a device
  must be written to only on behalf of the message being handled
  (`WritesOnlyAsked`);
- the device answers asynchronously: what a reply claims must rest on what the device
  said after the request (`StatusIsFresh`, `ListIsFresh`), and should be what it does
  (`MotorAsReported`);
- the gate is a plain flag waited for by the only thread that opens it
  (`NeverLockedOut`, `MessagesSettle`);
- each message has two parse trees with different lifetimes, one never freed
  (`ParamsNotDangling`, `CallbackTreeFreed`);
- replies are matched by `transactionID` on the cloud side: each at most once,
  in order, fitting (`RefinesRequestReply`, `RepliesInOrderOnce`,
  `RequestsAnswered`);
- a kill leaves the tool running, the pid file is written after the start
  (`OneDaemon`, `DaemonIsStoppable`, `OneCommand`, `EventuallyOneCommand`);
- the tool's text is cut, split into lines by characters and copied into arrays that
  serve several lines or are not initialised: lists must be complete up to the cut,
  names must not mix (`ScanListsFound`, `ScanNamesOwn`, `ConnectedNamesBegin`),
  and numbers must be whole (`NumbersTrueOrUnknown`);
- the log is cut in place by a daemon that may be killed at any time, through a buffer
  half of the file need not fit and that is not cleared (`FileBounded`, `KeptFits`,
  `NewestKept`);
- each edit of a cJSON tree rewires up to four pointers, with the head of a list a case
  of its own, while references share children and strings (`WellLinked`, `NoDangling`,
  `WalksEnd`, `NoneLost`, `NamesOwned`, `LiteralsKept`, `RefinesForest`);
- the parser stops in the middle of a tree, the printer computes beforehand the room it
  needs, strings change their length both ways, two passes over a string must agree where
  it ends (`AcceptsGrammar`, `CutOffRefused`, `NothingLostParsing`, `ErrorPointer`,
  `PrintFits`, `BufferedFits`, `PrintParses`, `StringsSurvive`,
  `RoomSuffices`, `UnitsDecoded`, `PassesAgree`, `RoomForAnyText`).

## Modules

| module | what it is |
|---|---|
| `RequestReply` | abstract specification: a queue of messages, each settled by an answer that fits it, by silence, or by a lost connection; its theorem that answers are in order and unique |
| `BleDevices` | devices and radio, and the effect of each AT command (external) |
| `MsgHandel` | the callback thread, from packet to reply, composed with `BleDevices` and the MQTT link |
| `MsgHandelProperties` | the properties, and the refinement mapping to `RequestReply` |
| `MsgHandelProofs` | the theorems about `MsgHandel` |
| `MCMsgHandel` | the sets of payloads TLC runs with |
| `Service` | the init script, the daemons and the tools they leave |
| `ServiceProofs` | the theorems about `Service` |
| `DeviceLists`, `DeviceListsProperties`, `MCDeviceLists` | what the handlers read out of the tool's text, with the hexadecimal codec |
| `DeviceListsProofs` | the theorems about `DeviceLists` |
| `LogFile`, `MCLogFile` | the log file, its cuts, and kills and restarts between their steps |
| `LogFileProofs` | the theorems about `LogFile` |
| `Sums`, `Prefixes` | the sums of a sequence's prefixes, and lemmas about what is computed along a sequence |
| `Forest` | abstract specification of cJSON's tree calls: sequences of children, no pointers |
| `CJson`, `CJsonProperties`, `MCCJson` | the same calls on `next`, `prev` and `child`; the refinement mapping to `Forest` |
| `CJsonProofs` | the shape of a heap, that each way of editing pointers keeps it, and the theorems about `CJson` |
| `JsonText`, `JsonTextProperties` | parser, printer and print buffer over texts of tokens |
| `JsonString`, `JsonStringProperties` | strings, escapes and UTF-8 inside one token |
| `JsonScan` | the two passes of `parse_string` over any characters, with its properties |
| `JsonProofs` | the theorems about `JsonText` and `JsonString` |
| `MCJson` | instances of `JsonText`, `JsonString` and `JsonScan` for TLC |

### MsgHandel and the code

`pc` is where the one callback thread is: `idle` (between packets), `parse` (in
`recvMsgHandel`, before `parseReqMsg`), `dispatch` (in `reqMsgHandel`), `run`
(in an API function), `tool` (inside `executeCMD`), `done` (reply sent, about to
return), `dead` (the process ended). `todo` is the list of AT commands, waits and
scripts the API function still has to take; the commands of each service are
`Program`. `reqMsg` keeps of the struct what later code reads; a message's tree
is named by its number.

| action | code |
|---|---|
| `Receive`, `Return` | `recv_handlel_bk` up to the call of `recvMsgHandel`, and from it on |
| `ParseReqMsg`, `ParseCrashes` | `parseReqMsg` and the branch of `recvMsgHandel`; the dereferences at lines 50 and 58 |
| `ReqMsgHandel`, `DispatchCrashes` | `reqMsgHandel` and the first lines of the API functions |
| `StartTool`, `EndTool` | `getBLEATCMDResult` before and after the tool runs: wait for the gate, close it, run, open it |
| `Sleep`, `RunScript` | `mqtt_sleep_ms`, and the commands that do not pass the gate |
| `ListDevice` | one turn of the loop in `genGetConnectedListResp` |
| `Publish`, `PublishCrashes` | `genRespMsg` and `mqttPublishMsg` |
| `Arrive`, `LinkDown`, `LinkUp` | the MQTT client (external) |
| `DeviceStep` | devices and radio (`BleDevices`) |

Payloads are abstracted to the eight forms the code tells apart (`Forms`), device
lists to sets, replies to what they claim. Three constants stand for what the
code does not determine:

- `Residue`: what an unwritten pointer of the uninitialised struct (or the
  uninitialised `ResultData` at lines 570, 610, 637) holds: NULL, the value of an
  earlier call (`stale`), or garbage whose first use ends the process (`wild`);
- `Timely`: whether a write settles within the 100 ms of `controlMoto`;
- `AckConvention`: whether handle 40 holds the position, as `controlMoto`
  compares it, or the outcome, as the comments at lines 130 and 167 say. `devices` runs with
  the outcome and with writes that settle whenever they do, which is the harder case of each;
  no invariant checked with the position depends on it.

Motors start anywhere, the status handle with what they hold (nothing yet, when it is an
outcome). `seen`, `held` and `reported` are history variables: no guard reads them. `held` is what
handle 40 of the device held since the running request's own write.

### Service and the code

`script` holds the lines of the running init function. `Spawn` and `Record` are
the two halves of line 18, `Kill` is `stop_service`. A killed daemon's tool stays
in `tools`: the kill reaches the shell's child only. `Crash` is a handler that
dereferences a missing item; nothing restarts the daemon, since procd is given no
instance. `Disciplined` says that `start` is called on a stopped service only;
without it a second daemon is possible at once.

### DeviceLists and the code

The state is what the tool would print: the lines of the last scan, the connected
devices in its order, and how it ends a line, which the repository does not say. The
handlers are operators over it, one per function, so that each reachable state asks
what every reply would be. `executeCMD` is its reading loop: pieces are appended until
more than `Cap` (1024 in the code) characters are there. `LinesSeen` is the loop over
characters in which `\r` and `\n` each end a line. Arrays are sequences of bytes with
what an uninitialised array may hold (`Residue`); `CopiedClean` and `Copied` are the
copies into a cleared array and into one that is not. `ScanLine` and `ConnectedLine` are what
the two loops do with one line, from the items and the array as the line before left them; the
struct `dev_info` of the second has two such arrays, the MAC's and the name's. The greps behind the
lists let only lines through that hold a MAC; the one of the connected devices ends each with a single `\n`.
Whether a connect is reported as done (`connectDev`) is in `MsgHandel`, over whole MACs. `Nibble` and `StrToHex` keep
`unsigned char` arithmetic (`% 256`).

### LogFile and the code

`file` is the sequence of pieces `fgets` would make of the log, each with its place
in all that was logged. `LOG` appends a record of one or more pieces; `Cut`, `Empty` and
`Write` are the reading, truncating and rewriting halves of `DEL_OUT_SIZE_FILE`, and
`Restart` is a kill between any two of them followed by a daemon whose `log_init` may find
another limit. `Leftover` is what the buffer of a cut may start with: any text, since it comes from
`malloc` and is appended to uncleared. `torn` records that a kill fell into the rewriting,
`longest_record` and `longest_left` how long records and leftovers have been; the operator `Roomy`
says that the limits are large for both. Nothing in the code makes it true.

### CJson and the code

Items are addresses of `Node`; `next`, `prev`, `child`, `valuestring` and the storage
of a name are pointers of `struct cJSON`, so that aliasing, dangling and leaks can happen.
Each API call that changes a tree is one action. `Deleted` is what `cJSON_Delete`'s
recursion frees. `roots` are the items the program holds. Calls the library cannot
survive are excluded by guards named for the caller's obligation: an item is added once
and not below itself (`Loose`), a list is edited through its owner and not through
a reference (`Editable`), what a reference still shows is not deleted (`Unpinned`). Adding an
item under another name is not excluded, whatever its name is: `cJSON.h` says nothing against it.
`freed` shows the literals that the last call gave to `cJSON_free`. `Forest` says
what the calls do to sequences of children; `kidsBar` reads them off the pointers.

### JsonText, JsonString and the code

A text is a sequence of tokens, a string inside it one token; `JsonString` opens that
token. Literals and numbers are three tokens, and three types of item: `"v"`, and `"big"` and `"-big"`
for numbers no double holds, which `parse_number` makes an infinity or a nan of and
`print_number` prints as `inf`, `nan` or with a minus in front. Which literal or number a `"v"`
is, is not told apart, so the digits that `%f` and `%e` cut off are not seen. `parse(text)` is the recursive descent as one recursive function: it gives for each place
what `parse_value` (`Value`) and the loops of `parse_array` and `parse_object` (`Members`) make of
the text from there on: the place they stop at, the error pointer, and what has been built and
allocated when they give up. Trees have as many levels as the text has tokens, and what is
computed along a tree is a recursive function on such trees (`Items`). `Written` is the length of
what is printed, `Form` its tokens, `Allocated` what `print_array` and `print_object` ask for;
`Prints` is the same through `ensure` and `update` of the print buffer. `ValueLen`, `ValueRoom` and
`StringLen` are the lengths of a value and of a string and the room asked for a value, the same for
all of a text. A parsed string prints in the room it asks for whatever its length; that is
`RoomSuffices` of `JsonString`. `pow2gt` is the power of two that its shifts find; the powers an `int` holds
end at 2^30, and what the code does with more is not modelled.
`valuestring` and `print_string_ptr` are the two directions of a string, `RoomOf` and
`RoomToPrint` the lengths both count beforehand. The pieces between two quotes are bytes,
escapes and `\u` units; a backslash before `u` always begins a unit. `Decode` is one turn of
`parse_string`'s loop, `done.high` the first half of a surrogate pair whose second half the
code looks for in the same turn, and `Decoded` the result after each prefix. Texts grow a token at a time, so the
runs look at each text and at each way of cutting it short.

`JsonScan` is about the texts `JsonString` leaves out: it has the characters between the quotes, as far as
`parse_string` tells them apart, and both its passes over them, each with its own way of finding the end.
An escape may break off; where a pass leaves the text is seen, what it finds behind it is not.

## Runs

| run | module, cfg | checks | bounds |
|---|---|---|---|
| devices | MCMsgHandel, MsgHandel_devices | `TypeOK`, `NeverLockedOut`, `ParamsNotDangling`, `CallbackTreeFreed`, `StatusIsFresh`, `ListIsFresh` | 2 devices, 2 messages: every form of payload, every service, motor and connection requests of each device, any residue; writes settle early or late, handle 40 is an outcome |
| refines | MCMsgHandel, MsgHandel_refines | `RepliesInOrderOnce`, `RefinesRequestReply`, `WritesOnlyAsked`, `MessagesSettle`, `RequestsAnswered` | 3 messages, 1 device, eight payloads (`FewInputs`), NULL and wild residue |
| lists | MCDeviceLists, DeviceLists | `ScanListsFound`, `ScanNamesOwn`, `ConnectedNamesBegin`, `NumbersTrueOrUnknown` | 3 MACs of 3 characters, scans of 3 lines, names of 0, 3, 4 and 6 characters, `Cap` 32 |
| trees | MCCJson, CJson | `TypeOK`, `WellLinked`, `NoDangling`, `WalksEnd`, `NoneLost`, `NamesOwned`, `LiteralsKept`, `RefinesForest` | 4 items, 1 name, arrays of up to 2, 1 reference, 1 literal name |
| json | MCJson, Json | `AcceptsGrammar`, `CutOffRefused`, `NothingLostParsing`, `ErrorPointer`, `PrintFits`, `BufferedFits`, `PrintParses`, `StringsSurvive`, `RoomSuffices`, `UnitsDecoded`, `PassesAgree` | texts of 9 tokens, a blank counted as three, values of 4 characters in room for 21, strings of 3, first buffers of 1, 8 and 256; strings of 3 pieces over 8 bytes and 15 units, and of 5 chunks: single characters, whole units, runs of four |
| logfile | MCLogFile, LogFile | `FileBounded`, `KeptFits`, `NewestKept` | 14 pieces of 1 and 2 characters logged, records of 1 to 3 pieces, leftovers of none, 1 and 6 characters, limits 10 and 11 |
| service | Service, Service | `OneDaemon`, `DaemonIsStoppable`, `EventuallyOneCommand` | 3 pids, 4 calls of the script |
| late | MCMsgHandel, MsgHandel_late | `MotorAsReported` violated | handle 40 is a position, writes may settle late |
| outcome | MCMsgHandel, MsgHandel_outcome | `MotorAsReported` violated | handle 40 is an outcome, writes settle in time |
| residue | MCMsgHandel, MsgHandel_residue | `WritesOnlyAsked` violated | stale residue |
| service_overlap | Service, Service_overlap | `OneCommand` violated | |
| scan_any | JsonScan, JsonScan_any | `RoomForAnyText` violated | |

Why the bounds are enough. Handling is sequential, so what one message can do to
another passes through what outlives a message: the struct's stack slot, the
gates, the heap, the devices. Two messages show every such influence of one on the
next; the third in `refines` lets an influence skip a message, and two wait while one is handled.
Its payloads are one of each way through the handlers; the theorems about what it checks are for all. `MaxMsgs`
is also the number of messages that ever arrive, and is a parameter of the theorems.
Two devices are enough for one to be mistaken for another. Three pids allow two
generations of daemons and one more.

`MaxTokens` 9 allows an object in an array with a neighbour, a member, or an object of
two members; a text that the parser has refused before its end does not
grow, since nothing it reads would change, nor does one with an open quote. Four items
are a list of three with an owner, or an owner over two levels, or two lists; the head,
the middle and the end of a list are all edited. At most one reference and one literal
name exist at a time, and items with a reference below them are not duplicated. `Cap` is
scaled so that the third line of a scan may or may not be read. The limits of the log are
the smallest that are roomy for the shorter records and leftovers, and let the file be cut several
times; with the longest record or leftover they are not. Five chunks are
a unit or an escape with something before and behind it, or the halves of a pair in any order.

`devices`, `refines` and `residue` switch the deadlock check off: a payload without
an expected item ends the process and nothing happens afterwards; that the thread does not come to a
stop otherwise is `NeverLockedOut` and `MessagesSettle`. `Service`, `json`, `scan_any` and
`logfile` switch it off because calls, texts and records are bounded, `trees` because an
empty heap may be the last thing a program wants. In the other runs a deadlock
is reported as an error.

### What the violated statements show

- `late`: the wait of `controlMoto` (line 165, 177) is fixed. The status is read before the
  device carries the write out, it is the one asked for already, success is reported, and the
  write is then refused or carried out behind an earlier one.
- `outcome`: comments read handle 40 as the outcome of a command (line 130: 01 success, 02
  failure; 167: 0x01 fail), the comparison at line 169 as a position. If it is an outcome, an `off`
  the device refused is answered with code 0, its motor still on, and one carried out with -1. Only the
  device could tell; `StatusIsFresh` is what holds of the code under either reading.
- `residue`: whether the struct's slot really keeps the previous call's value depends
  on the build; the model has both outcomes, and `refines` shows that all is well
  if it never does.
- `service_overlap`: the promise of lines 23-24 holds within a process only.
  `EventuallyOneCommand` shows that the overlap ends when the old tool does.
- `scan_any`: four characters behind `\u` are skipped whatever they are, so that the second pass of
  `parse_string` can go past the closing quote the first one counted up to.

## Fairness

`FairSpec` of `MsgHandel` assumes weak fairness of the callback thread's step
(the client's thread is scheduled; a tool it started ends, since `fgets` reads
until the pipe closes) and of each device's queued write (executed, refused or
lost). Nothing is assumed of the link, of arrivals, or of connections. A thread at a closed
gate has no step, so fairness does not hide a gate left closed. `RequestsAnswered`
is claimed only while the link stays up, because a reply lost with the link is not
sent again (QoS 0, result ignored), and not for the two list services, whose reply may
exceed the write buffer. `Service` assumes that the shell runs its script to the end and
that started tools end; starts, stops and crashes are never forced.

## What is proved

For every set of devices, number of messages and set of payload forms, for every
heap of cJSON items, for all names, numbers and lists of devices, for all logs and limits, and
for JSON texts and strings of any length:

| theorem | states | assumes |
|---|---|---|
| `TypeCorrect` | `Spec => []TypeOK` | |
| `GateIsFree` | `Spec => []NeverLockedOut` | |
| `ParamsStayAlive` | `Spec => []ParamsNotDangling` | |
| `CallbackFrees` | `Spec => []CallbackTreeFreed` | |
| `Refinement` | `Spec => RefinesRequestReply` | `NoStale` |
| `InOrderOnceHolds` | `Spec => []RepliesInOrderOnce` | `NoStale` |
| `WritesAreAsked` | `Spec => WritesOnlyAsked` | `NoStale` |
| `ListsAreFresh` | `Spec => []ListIsFresh` | |
| `StatusesAreFresh` | `Spec => []StatusIsFresh` | |
| `AbstractInOrder` (`RequestReply`) | `Spec => []InOrderOnce` | `ConstantsFit`, which `InOrderOnceHolds` establishes |
| `ServiceTypes` (`ServiceProofs`) | `Spec => []TypeOK` | |
| `OnlyOneDaemon` (`ServiceProofs`) | `Spec => []OneDaemon` | `Disciplined` |
| `PidFileNamesDaemon` (`ServiceProofs`) | `Spec => []DaemonIsStoppable` | `Disciplined` |
| `ScanListsAllFound` (`DeviceListsProofs`) | `Spec => []ScanListsFound` | |
| `ScanNamesAreOwn` (`DeviceListsProofs`) | `Spec => []ScanNamesOwn` | |
| `ConnectedNamesAreOwnFirst` (`DeviceListsProofs`) | `Spec => []ConnectedNamesBegin` | |
| `NumbersAreTrue` (`DeviceListsProofs`) | `Spec => []NumbersTrueOrUnknown` | `SerialsAssumption` |
| `FileStaysBounded` (`LogFileProofs`) | `Spec => []FileBounded` | |
| `WhatIsKeptFits` (`LogFileProofs`) | `Spec => []KeptFits` | |
| `NewestIsKept` (`LogFileProofs`) | `Spec => []NewestKept` | |
| `WhatIsPrintedIsRead` (`JsonProofs`) | `SpecPieces => []StringsSurvive` | |
| `RoomIsEnough` (`JsonProofs`) | `SpecPieces => []RoomSuffices` | |
| `UnitsAreDecoded` (`JsonProofs`) | `SpecPieces => []UnitsDecoded` | |
| `GrammarTheorem` (`JsonProofs`) | `Spec => []AcceptsGrammar` | |
| `CutOffTheorem` (`JsonProofs`) | `Spec => []CutOffRefused` | |
| `NothingLostTheorem` (`JsonProofs`) | `Spec => []NothingLostParsing` | |
| `ErrorPointerTheorem` (`JsonProofs`) | `Spec => []ErrorPointer` | |
| `PrintFitsTheorem` (`JsonProofs`) | `Spec => []PrintFits` | `LeafAssumption` |
| `BufferedFitsTheorem` (`JsonProofs`) | `Spec => []BufferedFits` | `LeafAssumption`, `PrebufferAssumption` |
| `PrintParsesTheorem` (`JsonProofs`) | `Spec => []PrintParses` | |
| `HeapTypes` (`CJsonProofs`) | `Spec => []TypeOK` | |
| `ListsWellLinked` (`CJsonProofs`) | `Spec => []WellLinked` | |
| `NothingDangles` (`CJsonProofs`) | `Spec => []NoDangling` | |
| `NoCycles` (`CJsonProofs`) | `Spec => []WalksEnd` | |
| `NothingLost` (`CJsonProofs`) | `Spec => []NoneLost` | |
| `NamesHaveOneOwner` (`CJsonProofs`) | `Spec => []NamesOwned` | |
| `LiteralsAreKept` (`CJsonProofs`) | `Spec => LiteralsKept` | |
| `TreesAreSequences` (`CJsonProofs`) | `Spec => RefinesForest` | |

The inductive invariants:

- `BaseInv` adds to the types what `pc` says: there is a message being handled
  unless the thread is idle, the gate is closed exactly in `tool`, the head of `todo` is an
  AT command there. Without it the gate's value at `StartTool` is unknown.
- `MemoryInv` adds that the tree `reqMsg.params` points into is one `parseReqMsg`
  built, and that those are never removed; the stale case needs that for messages
  long gone. It also says that callback trees belong to the current message only.
- `OwnInv` says that in `dispatch`, `run` and `tool` the struct is the one of the current
  message. It is inductive only without stale residue, which is where `NoStale`
  enters; with stale residue it fails, as the run `residue` shows. `WritesAreAsked`
  needs it too: the write a tool queues is the one the current message asks for.
- `FreshInv` says that while an API function runs, `connected` and its buffers are
  within `seen`. `connected` is what makes it inductive, since lists are read from it.
- `ScriptInv` (of `Service`) says for each rest of the running script which pid names
  the live daemon: the file's, `$!` between the two halves of line 18, or none.
- `AckInv` says which commands of a `setDev` are still to come, and that `ack` holds nothing or
  something in `held` until the reply is sent, whichever step the devices take between.
- `StructInv` (of `CJson`) is the shape of the heap. Beside what `WellLinked` says it
  has that everything allocated is held, follows an item or is owned by one (`Held`), and
  that any set of items has one that neither follows nor is owned by another of them
  (`Sourced`): no cycle. The second is stated with sets since `Node` may be infinite,
  and is what a walk needs: it shows that the container of an item is not below it,
  and that a root's tree and the list it is added to are apart. The guard
  `a \notin Tree(x)` is used there; without it `Sourced` is lost at once. `Shares` bounds
  what a reference may point to. A call that edits a list twice is taken through the shape
  between: `ReplaceItem` is an insertion, a detachment and a freeing. `NoCycles` adds that
  finitely many items are allocated; a cycle along `next` and `child` would have as many
  places to lead to as items, and `Sourced` takes one away.
- `NameInv` (of `CJson`) is `NamesOwned` of all addresses, free ones included, because an
  address is given out again with the name it has. It holds although the call of
  `cJSON.c:672` frees literals: the item gets a name of its own with it. `LiteralsKept` follows from
  it a step at a time: an item without the flag has no literal for its name (`UnflaggedFree`).

- `Inv` (of `LogFile`) has two parts beside the types. `Sizes` says where the bytes are in each
  step of a cut, as long as records and leftovers were short (`Roomy`, which once lost stays lost):
  in the file, within the largest limit and one record; in the file and the
  buffer, which are together below that limit once the file is emptied. `Order` says that
  the file, or after it is emptied the file and the buffer behind it, is an unbroken end of
  all pieces logged, behind leftovers, unless torn. `KeptFits` and `NewestKept` look at one
  step only and are not inductive. Why a cut makes room: either the earlier half has at
  least as many pieces, hence characters, as the last record and the leftover, and with
  them the excess is gone; or the later half has so few pieces that even full ones
  stay below the limit (`CutFits`).
- `DeviceLists` needs the types only: a reply is a function of what the tool prints. The
  argument is by induction over the lines within one reply. After the first i lines seen, `Count(i)` of
  them not empty, the items are those of the first `Count(i)` devices, and, for the connected
  ones, what the arrays hold beyond 0 stood there first or is within the length
  of one of these names (`Left`) or MACs. The loops are recursive functions, so that they must first be
  shown to exist.
- `JsonString` too needs the types only, for any text of pieces; the arguments go along one text. For
  `RoomSuffices`, the bytes written for the first i pieces fit what was counted for them
  (`DecodeTyped`: one piece never writes more than its share, a pair of units four bytes out of
  ten). For `StringsSurvive`, the first i printed pieces decode to the first i bytes. For
  `UnitsDecoded`, after i units the bytes written, read back, are the code points so far, but
  for a first half that waits for its second (`Meets`); `ReadEncoded` says that the one to four
  bytes of a code point are read as that code point, a step of six bits at a time. The
  reader (`ReadBack`) refuses what is no UTF-8, forms that are too long included, and knows nothing of
  the way the bytes were made. `SpecPieces` is the strings' half of `MCJson`'s `TextOrString`.
- `JsonText` needs no more of its state than that it is a sequence of at most `MaxTokens` tokens;
  the arguments are about the one text, and go down its recursion. A recursive function has first to be
  shown to exist: the parse is one because each query asks for places with less of the text left
  (`QueriesBehind`), a function on trees because kids have a level less (`TreeRecursion`,
  `ItemRecursion`), the grammar because less is left too (`GrammarExists`). Induction is along the
  same measures, with sets in place of operators.
  - `NothingLostParsing`: what a query has made is the size of what it has built (`ParseGrown`),
    refused or not; the levels of what it has built are bounded by the tokens left, which is why
    `Items` holds every tree that is parsed.
  - `AcceptsGrammar`: at each place the parser ends where the grammar says one may end,
    but for white space and an open string, and refuses where there is no such place
    (`ParserIsGrammar`). The grammar gives a set of ends, for white space
    may or may not be taken into a value; the parser's one end and `skip` stand for all of them.
  - `CutOffRefused`: a result that ends within a beginning of the text is the result on that
    beginning (`CutEnds`), so that a beginning that is accepted too ends at the same place.
  - `PrintFits`: for the same kids, what is allocated exceeds what is written (`AllocatedMore`): each
    member's share covers its tabs, name, colon, tab, comma and end of line. Every item inside a tree is one of
    `Items` at a depth (`InsideType`), so the lengths of the kids exist (`WrittenIs`).
  - `BufferedFits`: in front of an item the buffer is `Ready` (all of the text so far is final, nothing was
    written past the end), behind one it is `Ended` (what the item wrote last still has to be counted). Each `Put` keeps this because
    `ensure` counts the offset (`PutReady`, `PutLastEnds`); the kids' loop is
    an induction over the kids done (`KidsReady`), the tree another (`AllPrint`).
  - `PrintParses`: `StandsAt` says that a printed form is in a text at a place, `Reads` that parsing
    there gives the tree back and ends behind it. Since the parser asks for what is behind, kids
    are read from the last one on (`KidsRead`), inside an induction on trees (`AllRead`). A tree
    is in `Readable` when its leaves are strings and numbers a double holds; the theorem is false
    without that.

Some assumptions on constants matter. `LeafAssumption` of `JsonText` says that the room asked for a
value exceeds its length, as 21 bytes do for an int and 5 for `null`. `LogFile` has none on records and leftovers; the
condition is in the properties (`Roomy`): the limits are above as many full pieces as the longest record and
leftover have characters. With pieces of 127 and the default of 1,024,000 bytes these are together
8000. A record with a payload of 4096 (`main.c:148`) is shorter, the logs of long lists
(`msgHandel.c:395`, `:540`) and an earlier cut's half in the buffer are not. `SerialsAssumption` of
`DeviceLists` says that a number's digits and its end of line fit `char ret[128]`
(`msgHandel.c:303`).

`Prefixes` states induction and recursion along a sequence with sets of numbers and with
functions in place of operators (`LeastNumber`, `UpTo`, `Recursion`), and derives what the sums of
prefixes do. `LeastNumber` is where well-foundedness enters.

The refinement maps the abstract queue to the inbox, less its head once the reply has left;
the abstract replies are the published ones. Each action is an abstract step or a
stutter: `Publish` is `Answer` or `Ignore`, a handled message without reply is `Ignore`,
`LinkDown` is `Lose`. `InOrderOnceHolds` follows from `Refinement` and
`AbstractInOrder`.

The refinement of `Forest` by `CJson` rests on `StructInv` and on there being finitely many items.
Together they say that the walk along `next` from any first child ends, so that it meets exactly
one sequence (`ListUnique`, `ListExists`), and `kidsBar` is the one family of such
sequences (`KidsUnique`). A call is then taken in two halves. One says what its edit of the pointers does to the
lists: `AppendKids`, `InsertKids`, `DetachKids`, `ReplaceKids`, `EmptiedKids` and `CopiedList` name
the new sequences and show that the new pointers walk them. The other says that what is
above and below is the same on both sides: `SubtreeIsTree` for what may be added where and
what is freed, `DeletedIsTree` for `cJSON_Delete`. Two items never share a child, so an edit of
one list is an edit of no other. The bound `MaxCount` on arrays made in one call is a
constant of `Forest` too.

Only model-checked: the liveness properties (`MessagesSettle`, `RequestsAnswered`,
`EventuallyOneCommand`), which are out of the prover's reach, and `PassesAgree`. Every invariant and every other action or
temporal property that a run checks is a theorem.

## Divergences without a run

Met while modelling; each is visible in a line or two, or turns on something the
repository does not say.

- Nothing frees the tree that line 38 of `msgHandel.c` parses, nor the reply trees, although `cJSON.h:67` says to
  call `cJSON_Delete`. `ParamsNotDangling` shows why the obvious repair needs care: the API
  functions work on strings of that tree, and the mutant that frees it together with the
  callback's tree is caught.
- An item named with `cJSON_AddItemToObjectCS`, detached, and added to an object
  by `cJSON_AddItemToObject` has its literal freed: `cJSON.c:672` does not look at the flag
  that `cJSON_Delete` looks at, and `cJSON.h:107` promises that the literal survives. The model has the call;
  `LiteralsKept` says that it is the only one. The daemon names no item by a literal.
- `1e999` is read as an infinity and printed as `inf`, which the parser refuses (`cJSON.c:109`, `:170`), although
  `cJSON.h:69` speaks of text for transfer and storage. With a minus in front the parser takes the `-` for a
  number, and a caller that does not ask for the terminator gets a zero. The model has such numbers;
  `PrintParses` leaves the trees with one out.
- The buffer of a cut is appended to uncleared (`log.h:42`, `:54`). What stands in it, such as the half an
  earlier cut kept, goes into the file at each cut, which then need not get below the limit of
  line 30. The model has such leftovers; `FileBounded` and `KeptFits` hold while they are short (`Roomy`).
- `log.c:21` documents a switch for writing to the file; `WRITE_TO_FILE=OFF` is parsed and
  has no effect. The comment at `log.c:16` and the value beside it give different default
  limits. `LOG_PATH` copies as many characters as a pointer has bytes.
- With lines that end in `\n` only, `hexStrtoAsciiStr` is given an odd number of characters
  and every serial number is reported as `unknow`; with `\r\n` it is whole.
  `NumbersTrueOrUnknown` holds in both cases.
- A connect request with only the beginning of a MAC is reported as done when any
  device with that beginning is connected (`msgHandel.c:223`). The model has whole MACs only.
- The commands behind `gatt read` (`msgHandel.c:304`, `:315`) are followed by `cut` without a `grep`:
  anything else the tool prints would be taken into the number. `DeviceLists` takes the one line.
- `ReplaceItemInObject` loses the name its new item had (`cJSON.c:689`), and a duplicate of an item
  with a literal name copies it into storage marked as literal (`cJSON.c:719`). `NoneLost` follows items, not names.
- Lowering `LOG_LIMIT_SIZE_M` between two daemons can leave a file half of which does not
  fit the buffer of the next cut: `KeptFits` is stated for a limit that was never lowered.

## Not modelled, and plan

The greater part of the repository is not its own code: some 34,600 of its 40,700 lines
are headers of mbedtls and further ones belong to the MQTT client and its logging and
socket layers, whose implementation is a prebuilt shared object. There is no control in
them to translate; what `src/main.c` and `src/msgHandel.c` rely on is in the external
definitions. `hello`, `hello_cmake` and `gethostbyaddr` are straight lines of library calls.

Of the modelled parts these are left out: the reuse of pids; `main`'s start-up beyond
`log_init`, whose results are all ignored; QoS and reconnection inside the client library;
the 128-byte buffers of `getGeeTouchSN_ModelNo` and lines longer than one `fgets`; names that
do not fit `struct DEV_INFO`; log levels and the other keys of the configuration; the values of
numbers that a double holds and the digits their formats cut off; failing allocations; and what
`parse_string` reads and writes behind the end of a text whose escapes break off. `genTransID`, `cJSON_Minify` and the printing helpers of `main.c` are
never called.

Next, in this order:

1. `DeviceLists` over bounded lines read in two pieces, with the 128-byte buffers.
2. Failing allocations in `JsonText` and `CJson`, and lengths of their own for each value and string.
