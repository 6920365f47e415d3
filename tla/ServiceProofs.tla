------------------------------ MODULE ServiceProofs ------------------------------
(* Theorems about Service, for any number of processes and calls, provided *)
(* start is called on a stopped service only.                              *)
EXTENDS Service, SequenceTheorems, TLAPS

(* What each point of the running script says about the live daemons: the  *)
(* pid file names the only one, except between the two halves of line 18,  *)
(* where $! does; when a daemon is about to be started there is none.      *)
ScriptInv ==
    /\ script \in {<<>>, <<"kill">>, <<"kill", "spawn", "record">>,
                   <<"spawn", "record">>, <<"record">>}
    /\ script \in {<<>>, <<"kill">>, <<"kill", "spawn", "record">>} => daemons \subseteq {pidfile}
    /\ script = <<"spawn", "record">> => daemons = {}
    /\ script = <<"record">> => daemons \subseteq {child}

LEMMA ServiceInit == Init => ScriptInv
  BY DEF Init, ScriptInv

\* The lines of each call, and what is left of them line by line.
LEMMA ScriptLines ==
    /\ LinesOf("start") = <<"spawn", "record">>
    /\ LinesOf("stop") = <<"kill">>
    /\ LinesOf("reload") = <<"kill", "spawn", "record">>
<1>1. reload_service = <<"kill", "spawn", "record">>
  <2>1. stop_service \in Seq(Lines) /\ start_service \in Seq(Lines)
    BY DEF stop_service, start_service, Lines
  <2>2. /\ Len(stop_service) = 1 /\ stop_service[1] = "kill"
        /\ Len(start_service) = 2 /\ start_service[1] = "spawn" /\ start_service[2] = "record"
    BY DEF stop_service, start_service
  <2>3. /\ reload_service \in Seq(Lines)
        /\ Len(reload_service) = 3
        /\ reload_service[1] = "kill" /\ reload_service[2] = "spawn"
        /\ reload_service[3] = "record"
    <3>1. /\ stop_service \o start_service \in Seq(Lines)
          /\ Len(stop_service \o start_service) = 3
          /\ \A i \in 1..3 : (stop_service \o start_service)[i]
                = IF i <= 1 THEN stop_service[i] ELSE start_service[i - 1]
      <4> DEFINE a == stop_service
                 b == start_service
      <4>1. /\ a \o b \in Seq(Lines)
            /\ Len(a \o b) = Len(a) + Len(b)
            /\ \A i \in 1..Len(a) + Len(b) :
                  (a \o b)[i] = IF i <= Len(a) THEN a[i] ELSE b[i - Len(a)]
        BY <2>1, ConcatProperties
      <4> QED
        BY <2>2, <4>1
    <3> QED
      BY <2>2, <3>1 DEF reload_service
  <2>4. <<"kill", "spawn", "record">> \in Seq(Lines) /\ Len(<<"kill", "spawn", "record">>) = 3
    BY DEF Lines
  <2>5. \A i \in 1..3 : reload_service[i] = <<"kill", "spawn", "record">>[i]
    BY <2>3
  <2> QED
    BY <2>3, <2>4, <2>5, SeqEqual
<1> QED
  BY <1>1 DEF LinesOf, start_service, stop_service

LEMMA ScriptRests ==
    /\ Head(<<"kill">>) = "kill" /\ Tail(<<"kill">>) = <<>>
    /\ Head(<<"kill", "spawn", "record">>) = "kill"
    /\ Tail(<<"kill", "spawn", "record">>) = <<"spawn", "record">>
    /\ Head(<<"spawn", "record">>) = "spawn" /\ Tail(<<"spawn", "record">>) = <<"record">>
    /\ Head(<<"record">>) = "record" /\ Tail(<<"record">>) = <<>>
  OBVIOUS

LEMMA ServiceStep == Disciplined /\ ScriptInv /\ [Next]_vars => ScriptInv'
<1> SUFFICES ASSUME Disciplined, ScriptInv, [Next]_vars PROVE ScriptInv'
  OBVIOUS
<1>1. ASSUME NEW call \in Calls, Call(call) PROVE ScriptInv'
  <2>1. daemons \subseteq {pidfile} /\ (call = "start" => daemons = {})
    BY <1>1 DEF Call, ScriptInv
  <2>2. /\ daemons' = daemons /\ pidfile' = pidfile
        /\ script' \in {<<"spawn", "record">>, <<"kill">>, <<"kill", "spawn", "record">>}
        /\ script' = <<"spawn", "record">> => call = "start"
    BY <1>1, ScriptLines DEF Call, Calls
  <2> QED
    BY <2>1, <2>2 DEF ScriptInv
<1>2. CASE Record
  <2>1. script = <<"record">> /\ script' = <<>>
    BY <1>2, ScriptRests DEF Record, At, ScriptInv
  <2> QED
    BY <1>2, <2>1 DEF Record, ScriptInv
<1>3. CASE Kill
  <2>1. script' \in {<<>>, <<"spawn", "record">>} /\ daemons \subseteq {pidfile}
    BY <1>3, ScriptRests DEF Kill, At, ScriptInv
  <2>2. daemons' = {}
    BY <1>3, <2>1 DEF Kill
  <2> QED
    BY <2>1, <2>2 DEF ScriptInv
<1>4. ASSUME NEW p \in Pids, Spawn(p) PROVE ScriptInv'
  <2>1. script = <<"spawn", "record">> /\ script' = <<"record">>
    BY <1>4, ScriptRests DEF Spawn, At, ScriptInv
  <2>2. daemons' = {p} /\ child' = p
    BY <1>4, <2>1 DEF Spawn, ScriptInv
  <2> QED
    BY <2>1, <2>2 DEF ScriptInv
<1>5. ASSUME NEW p \in Pids, StartCommand(p) \/ EndCommand(p) \/ Crash(p) PROVE ScriptInv'
  BY <1>5 DEF StartCommand, EndCommand, Crash, ScriptInv
<1>6. CASE UNCHANGED vars
  BY <1>6 DEF vars, ScriptInv
<1> QED
  BY <1>1, <1>2, <1>3, <1>4, <1>5, <1>6 DEF Next

(* No order of starts, stops, reloads and crashes of the handler           *)
(* (init script, lines 16-31) leads to a second daemon.                    *)
THEOREM OnlyOneDaemon == ASSUME Disciplined PROVE Spec => []OneDaemon
<1>1. ScriptInv => OneDaemon
  BY DEF ScriptInv, OneDaemon
<1> QED
  BY <1>1, ServiceInit, ServiceStep, PTL DEF Spec

(* Between two calls the pid file (line 18) names every live daemon.       *)
THEOREM PidFileNamesDaemon == ASSUME Disciplined PROVE Spec => []DaemonIsStoppable
<1>1. ScriptInv => DaemonIsStoppable
  BY DEF ScriptInv, DaemonIsStoppable
<1> QED
  BY <1>1, ServiceInit, ServiceStep, PTL DEF Spec

-----------------------------------------------------------------------------
LEMMA TypesKept == TypeOK /\ [Next]_vars => TypeOK'
<1> SUFFICES ASSUME TypeOK, [Next]_vars PROVE TypeOK'
  OBVIOUS
<1>1. ASSUME NEW call \in Calls, Call(call) PROVE TypeOK'
  <2>1. script' \in Seq(Lines)
    <3>1. script' \in {<<"spawn", "record">>, <<"kill">>, <<"kill", "spawn", "record">>}
      BY <1>1, ScriptLines DEF Call, Calls
    <3>2. /\ <<"spawn", "record">> \in Seq(Lines)
          /\ <<"kill">> \in Seq(Lines)
          /\ <<"kill", "spawn", "record">> \in Seq(Lines)
      BY DEF Lines
    <3> QED
      BY <3>1, <3>2
  <2>2. calls' \in 0..MaxCalls
    BY <1>1, MaxCallsAssumption DEF Call, TypeOK
  <2> QED
    BY <1>1, <2>1, <2>2 DEF Call, TypeOK
<1> DEFINE Shortened == script # <<>> /\ script' = Tail(script)
<1>2. Shortened => script' \in Seq(Lines)
  BY DEF TypeOK
<1>3. CASE Record
  BY <1>2, <1>3 DEF Record, At, TypeOK
<1>4. CASE Kill
  BY <1>2, <1>4 DEF Kill, At, TypeOK
<1>5. ASSUME NEW p \in Pids, Spawn(p) PROVE TypeOK'
  BY <1>2, <1>5 DEF Spawn, At, TypeOK
<1>6. ASSUME NEW p \in Pids, StartCommand(p) PROVE TypeOK'
  BY <1>6 DEF StartCommand, TypeOK
<1>7. ASSUME NEW p \in Pids, EndCommand(p) PROVE TypeOK'
  BY <1>7 DEF EndCommand, TypeOK
<1>8. ASSUME NEW p \in Pids, Crash(p) PROVE TypeOK'
  BY <1>8 DEF Crash, TypeOK
<1>9. CASE UNCHANGED vars
  BY <1>9 DEF vars, TypeOK
<1> QED
  BY <1>1, <1>3, <1>4, <1>5, <1>6, <1>7, <1>8, <1>9 DEF Next

(* The init script gives out pids, writes one of them down and runs its    *)
(* lines one by one, whether or not start is called on a running service.  *)
THEOREM ServiceTypes == Spec => []TypeOK
<1>1. Init => TypeOK
  BY MaxCallsAssumption DEF Init, TypeOK
<1> QED
  BY <1>1, TypesKept, PTL DEF Spec
=============================================================================
