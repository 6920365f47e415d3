-------------------------------- MODULE Service --------------------------------
(***************************************************************************)
(* The life of the daemon under its init script                            *)
(* (files/openwrt-package-template.init): start_service puts the program   *)
(* in the background and writes its pid to a file, stop_service kills that *)
(* pid with -9, reload_service does one after the other.  procd is given   *)
(* no instance, so nobody restarts a daemon that died, and the pid file is *)
(* never removed.                                                          *)
(*                                                                         *)
(* A daemon runs AT commands one at a time behind BLE_CTL_CMD_RUNING,      *)
(* which is memory of that process; the tool it started with popen is a    *)
(* process of its own and survives a kill of the daemon.                   *)
(***************************************************************************)
EXTENDS Integers, Sequences, FiniteSets

CONSTANTS
    Pids,       \* process numbers; a number is not given out twice
    MaxCalls,   \* bound: calls of the init script
    Disciplined \* TRUE: start is called only when no daemon runs

ASSUME PidsAssumption == 0 \notin Pids
ASSUME MaxCallsAssumption == MaxCalls \in Nat
ASSUME DisciplinedAssumption == Disciplined \in BOOLEAN

VARIABLES
    used,               \* pids given out
    daemons,            \* pids of live daemons
    gate,               \* per pid, that process's BLE_CTL_CMD_RUNING
    tools,              \* pids whose popen'd AT tool runs
    pidfile,            \* content of /var/run/...pid, 0 when there is none
    script,             \* lines the running init script still has to take
    child,              \* the script's $!
    calls               \* init script calls so far

vars == <<used, daemons, gate, tools, pidfile, script, child, calls>>

Lines == {"spawn", "record", "kill"}
Calls == {"start", "stop", "reload"}

\* Mutant: the pid is not written down.
StartUnrecorded == <<"spawn">>
start_service == <<"spawn", "record">>
stop_service == <<"kill">>
\* Mutants: start before stop, start without stop.
ReloadReversed == start_service \o stop_service
ReloadOnlyStarts == start_service
reload_service == stop_service \o start_service

LinesOf(call) ==
    CASE call = "start" -> start_service
      [] call = "stop" -> stop_service
      [] call = "reload" -> reload_service

TypeOK ==
    /\ used \subseteq Pids
    /\ daemons \subseteq used
    /\ gate \in [Pids -> {0, 1}]
    /\ tools \subseteq used
    /\ pidfile \in Pids \union {0}
    /\ script \in Seq(Lines)
    /\ child \in Pids \union {0}
    /\ calls \in 0..MaxCalls

Init ==
    /\ used = {} /\ daemons = {} /\ tools = {}
    /\ gate = [p \in Pids |-> 0]
    /\ pidfile = 0 /\ script = <<>> /\ child = 0 /\ calls = 0

-----------------------------------------------------------------------------
\* rc.common holds a lock: one call of the script at a time.
Call(call) ==
    /\ script = <<>> /\ calls < MaxCalls
    /\ Disciplined /\ call = "start" => daemons = {}
    /\ calls' = calls + 1
    /\ script' = LinesOf(call)
    /\ UNCHANGED <<used, daemons, gate, tools, pidfile, child>>

At(line) == script # <<>> /\ Head(script) = line

\* ${PROG} &
Spawn(p) ==
    /\ At("spawn") /\ p \in Pids \ used
    /\ used' = used \union {p}
    /\ daemons' = daemons \union {p}
    /\ child' = p
    /\ script' = Tail(script)
    /\ UNCHANGED <<gate, tools, pidfile, calls>>

\* echo $! > /var/run/${BIN_NAME}.pid
Record ==
    /\ At("record")
    /\ pidfile' = child
    /\ script' = Tail(script)
    /\ UNCHANGED <<used, daemons, gate, tools, child, calls>>

\* kill -9 ${pid}: the daemon goes, the tool it waits for does not.
Kill ==
    /\ At("kill")
    /\ daemons' = daemons \ {pidfile}
    /\ script' = Tail(script)
    /\ UNCHANGED <<used, gate, tools, pidfile, child, calls>>

-----------------------------------------------------------------------------
\* getBLEATCMDResult up to popen, and from the end of the tool on.
StartCommand(p) ==
    /\ p \in daemons /\ p \notin tools /\ gate[p] = 0
    /\ gate' = [gate EXCEPT ![p] = 1]
    /\ tools' = tools \union {p}
    /\ UNCHANGED <<used, daemons, pidfile, script, child, calls>>

EndCommand(p) ==
    /\ p \in tools
    /\ tools' = tools \ {p}
    /\ gate' = IF p \in daemons THEN [gate EXCEPT ![p] = 0] ELSE gate
    /\ UNCHANGED <<used, daemons, pidfile, script, child, calls>>

\* The handler dereferences a missing item (msgHandel.c:50, 58, 573, 604, 631).
Crash(p) ==
    /\ p \in daemons /\ p \notin tools
    /\ daemons' = daemons \ {p}
    /\ UNCHANGED <<used, gate, tools, pidfile, script, child, calls>>

Next ==
    \/ \E call \in Calls : Call(call)
    \/ Record \/ Kill
    \/ \E p \in Pids : Spawn(p) \/ StartCommand(p) \/ EndCommand(p) \/ Crash(p)

Spec == Init /\ [][Next]_vars

(* The shell runs its script to the end, and a started tool ends.          *)
Fairness ==
    /\ WF_vars(Record \/ Kill \/ \E p \in Pids : Spawn(p))
    /\ \A p \in Pids : WF_vars(EndCommand(p))

FairSpec == Spec /\ Fairness

-----------------------------------------------------------------------------
(* However starts, stops, reloads and crashes follow each other, there is  *)
(* never a second daemon handling the same messages, provided start is not *)
(* called on a running service.                                            *)
OneDaemon == \A p, q \in daemons : p = q

(* Between two calls every live daemon is the one the pid file names, so   *)
(* the next stop reaches it.                                               *)
DaemonIsStoppable == script = <<>> => daemons \subseteq {pidfile}

(* Leftover tools go away: from some point on the comment at               *)
(* msgHandel.c:23-24 is kept.                                              *)
OneCommand == \A p, q \in tools : p = q
EventuallyOneCommand == <>[]OneCommand
=============================================================================
