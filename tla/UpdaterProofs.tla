--------------------------- MODULE UpdaterProofs ---------------------------
(***************************************************************************)
(* Proofs about Updater, for any versions and any number and kinds of      *)
(* faults.                                                                 *)
(***************************************************************************)
EXTENDS Updater, FiniteSetTheorems, TLAPS

FaultInv ==
  /\ IsFiniteSet(faults) /\ faults \in SUBSET FaultKinds
  /\ Cardinality(faults) <= MaxFaults

StateTypes ==
  /\ svc \in {"up", "failed", "stopped"} /\ running \in Versions /\ online \in BOOLEAN
  /\ runtime \in BOOLEAN /\ trigger \in Targets \cup {None} /\ aged \in BOOLEAN
  /\ result \in Reports \cup {NoResult, Half}
  /\ wake \in BOOLEAN
  /\ pc \in Swapping \cup Writing \cup
             {"off", "look", "take", "check", "clear", "stop", "drop", "last"}
  /\ req \in Targets \cup {None} /\ outcome \in {"failed", "success"}
  /\ install \in Dirs /\ old \in Dirs /\ before \in Dirs
  /\ units \in Dirs /\ unitsThen \in Dirs /\ dropped \in SUBSET Targets
  /\ asked \in [Targets -> {"no", "accepted", "rejected"}] /\ told \in SUBSET Reports

LEMMA TypeParts == FaultInv /\ StateTypes => TypeOK
BY DEF TypeOK, FaultInv, StateTypes

\* A bridge that is down is in no session and has no request to take; a script
\* at work has taken one.
RequestInv ==
  /\ svc # "up" => trigger = None /\ ~online
  /\ pc \in Taken => req \in Targets

\* As long as one fault at most has happened: until the swap the installed
\* version is the one found; during the swap that one is in old; the way back
\* is taken only after the fault, so that nothing else fails on it.  A script
\* that ends inside the swap leaves the bridge down, so that no request comes
\* whose script would remove old.
SwapInv ==
  AtMostOneFault =>
    /\ install \notin Versions =>
         pc \in {"off", "look", "place", "placing", "rollback"} /\ old \in Versions
    /\ install \notin Versions /\ pc \in {"off", "look"} => svc # "up"
    /\ pc \in {"backup", "place", "placing"} /\ faults = {} => svc = "stopped"
    /\ pc \in {"rollback", "undo"} => faults # {}
    /\ pc \in {"look", "take", "check", "clear", "stop", "backup", "write backup_failed",
               "close backup_failed", "restart"} => install = before
    /\ pc \in {"place", "placing", "rollback", "units", "start", "undo"}
         => old = before /\ old \in Versions
    /\ pc \in {"write", "close"} /\ outcome = "failed" => install = before

\* Until the new unit files the old ones lie there, and to the end of a failed
\* run whose fault is not the start.
UnitsInv ==
  AtMostOneFault =>
    /\ pc \in {"look", "take", "check", "clear", "stop", "backup", "place", "placing", "units",
               "rollback", "restart", "write backup_failed", "close backup_failed"}
         => units = unitsThen
    /\ pc = "undo" => "start" \in faults
    /\ pc \in {"write", "close"} /\ outcome = "failed" => units = unitsThen \/ "start" \in faults

IInv == FaultInv /\ StateTypes /\ RequestInv /\ SwapInv

-----------------------------------------------------------------------------

LEMMA DirFacts ==
  /\ None \notin Versions /\ Partial \notin Versions /\ Targets \subseteq Versions
  /\ None \notin Targets /\ Base \in Versions
BY UpdaterAssumption DEF Versions

\* A fault is counted: if there is at most one afterwards, there was none before.
LEMMA FaultFacts ==
  ASSUME FaultInv, NEW kind, Fault(kind)
  PROVE  FaultInv' /\ faults' # {} /\ (AtMostOneFault' => faults = {} /\ AtMostOneFault)
<1>1. kind \notin faults /\ kind \in FaultKinds /\ faults' = faults \cup {kind} /\ Cardinality(faults) < MaxFaults
  BY DEF Fault
<1>2. IsFiniteSet(faults') /\ Cardinality(faults') = Cardinality(faults) + 1
  BY <1>1, FS_AddElement DEF FaultInv
<1>3. Cardinality(faults) \in Nat /\ (Cardinality(faults) = 0 <=> faults = {})
  BY FS_CardinalityType, FS_EmptySet DEF FaultInv
<1>4. FaultInv'
  BY <1>1, <1>2, <1>3, UpdaterAssumption DEF FaultInv
<1>5. AtMostOneFault' => faults = {} /\ AtMostOneFault
  BY <1>2, <1>3 DEF AtMostOneFault
<1> QED
  BY <1>1, <1>4, <1>5

LEMMA NoFaultFacts ==
  ASSUME FaultInv, NoFault
  PROVE  FaultInv' /\ (AtMostOneFault' <=> AtMostOneFault) /\ faults' = faults
BY DEF NoFault, FaultInv, AtMostOneFault

LEMMA InitOK == Init => IInv
<1> SUFFICES ASSUME Init PROVE IInv
  OBVIOUS
<1>1. FaultInv
  BY FS_EmptySet, UpdaterAssumption DEF Init, FaultInv
<1>2. StateTypes
  BY DEF Init, StateTypes, Versions, Dirs
<1>3. RequestInv /\ SwapInv
  BY DirFacts DEF Init, RequestInv, SwapInv, Swapping, Writing, Taken
<1> QED
  BY <1>1, <1>2, <1>3 DEF IInv

LEMMA FaultsKept == FaultInv /\ [Next]_vars => FaultInv'
<1> SUFFICES ASSUME FaultInv, [Next]_vars PROVE FaultInv'
  OBVIOUS
<1>1. (\E kind : Fault(kind)) => FaultInv'
  BY FaultFacts
<1>2. NoFault => FaultInv'
  BY NoFaultFacts
<1> USE DEF NoFault
<1>3. ASSUME NEW t \in Targets, RequestUpdate(t) PROVE FaultInv'
  BY <1>2, <1>3 DEF RequestUpdate
<1>4. CASE Tick
  BY <1>1, <1>2, <1>4 DEF Tick, Report
<1>5. CASE Age \/ AutoRestart \/ Connect \/ Disconnect
  BY <1>2, <1>5 DEF Age, AutoRestart, Connect, Disconnect
<1>6. CASE Crash \/ Kill \/ PowerFailure
  BY <1>1, <1>6 DEF Crash, Kill, PowerFailure
<1>7. CASE ScriptStep
  <2>1. CASE Begin \/ Look \/ Take \/ Check \/ Clear \/ Stop \/ Backup \/ Place \/ Placed
    BY <1>1, <1>2, <2>1 DEF Begin, Look, Take, Check, Clear, Stop, Backup, Place, Placed
  <2>2. CASE Rollback \/ Units \/ StartNew \/ Undo \/ Drop
    BY <1>1, <1>2, <2>2 DEF Rollback, Units, StartNew, Undo, Drop, Restore
  <2>3. ASSUME NEW l, NEW n, RestartOld(l, n) \/ OpenResult(l, n) \/ CloseResult(l, n) PROVE FaultInv'
    BY <1>1, <1>2, <2>3 DEF RestartOld, OpenResult, CloseResult
  <2> QED
    BY <1>7, <2>1, <2>2, <2>3 DEF ScriptStep
<1>8. CASE UNCHANGED vars
  BY <1>2, <1>8 DEF vars
<1> QED
  BY <1>3, <1>4, <1>5, <1>6, <1>7, <1>8 DEF Next

-----------------------------------------------------------------------------
(* The bridge, systemd and the faults that come from outside.              *)

LEMMA StartFacts ==
  ASSUME StateTypes, StartBridge
  PROVE  /\ svc' \in {"up", "failed"} /\ running' \in Versions /\ runtime' \in BOOLEAN
         /\ UNCHANGED <<online, trigger, aged, result>> /\ (svc' # "up" => svc # "up")
BY DEF StateTypes, StartBridge

LEMMA UnitsTypes ==
  ASSUME StateTypes, RequestInv, UnitsCutOff PROVE units' \in Dirs /\ unitsThen' \in Dirs
BY DirFacts DEF StateTypes, RequestInv, Taken, Swapping, UnitsCutOff, Dirs

\* What the ticker removes unread was a request.
LEMMA TickDrops ==
  ASSUME StateTypes, RequestInv, Tick
  PROVE  dropped' = dropped \/ \E t \in Targets : dropped' = dropped \cup {t}
<1>1. CASE Stale
  <2>1. trigger \in Targets
    BY <1>1 DEF Stale, StateTypes
  <2>2. result = NoResult
    BY <1>1 DEF Stale
  <2> QED
    BY <2>1, <2>2 DEF Tick
<1>2. CASE ~Stale
  <2>1. Closing => req \in Targets
    BY DEF Closing, RequestInv, Taken, Writing
  <2> QED
    BY <1>2, <2>1 DEF Tick
<1> QED
  BY <1>1, <1>2

LEMMA BridgeKept ==
  ASSUME IInv, \/ \E t \in Targets : RequestUpdate(t)
               \/ Connect \/ Disconnect \/ Tick \/ Age \/ Connect \/ Disconnect \/ Crash \/ AutoRestart \/ Kill \/ PowerFailure
  PROVE  StateTypes' /\ RequestInv' /\ SwapInv'
<1>0. FaultInv /\ StateTypes /\ RequestInv /\ SwapInv
  BY DEF IInv
<1>f. \A k : Fault(k) => faults' # {} /\ (AtMostOneFault' => faults = {} /\ AtMostOneFault)
  BY <1>0, FaultFacts
<1>n. NoFault => (AtMostOneFault' <=> AtMostOneFault) /\ faults' = faults
  BY <1>0, NoFaultFacts
<1> USE DirFacts DEF PathChanged, RemoveRuntime, scriptVars, fileVars
<1>1. ASSUME NEW t \in Targets, RequestUpdate(t) PROVE StateTypes' /\ RequestInv' /\ SwapInv'
  <2>a. [status |-> "failed", target |-> t] \in Reports
    BY DEF Reports
  <2>b. /\ trigger' \in Targets \cup {None} /\ told' \in SUBSET Reports
        /\ asked' \in [Targets -> {"no", "accepted", "rejected"}]
    BY <1>0, <1>1, <2>a DEF RequestUpdate, StateTypes
  <2>c. runtime' \in BOOLEAN /\ aged' \in BOOLEAN /\ wake' \in BOOLEAN
    BY <1>0, <1>1, Zenon DEF RequestUpdate, StateTypes
  <2>d. UNCHANGED <<svc, running, online, result, pc, req, outcome, install, old, before, units, unitsThen, dropped>>
    BY <1>1 DEF RequestUpdate
  <2>e. online
    BY <1>1 DEF RequestUpdate
  <2>1. StateTypes'
    BY <1>0, <2>b, <2>c, <2>d DEF StateTypes
  <2>2. RequestInv' /\ SwapInv'
    BY <1>0, <1>1, <1>n, <2>d, <2>e DEF RequestUpdate, RequestInv, SwapInv
  <2> QED
    BY <2>1, <2>2
<1>2. CASE Tick
  <2>a. WatchdogReport \in Reports
    BY DEF WatchdogReport, Reports
  <2>b. told' \in SUBSET Reports
    BY <1>0, <1>2, <2>a DEF Tick, Report, StateTypes
  <2>c. trigger' \in Targets \cup {None} /\ result' \in Reports \cup {NoResult, Half}
    BY <1>0, <1>2 DEF Tick, StateTypes
  <2>d. aged' \in BOOLEAN /\ wake' \in BOOLEAN
    BY <1>0, <1>2, Zenon DEF Tick, StateTypes
  <2>e. UNCHANGED <<svc, running, online, runtime, pc, req, outcome, install, old, before, units, unitsThen, asked>>
    BY <1>2 DEF Tick
  <2>f. dropped' \in SUBSET Targets
    BY <1>0, <1>2, TickDrops DEF StateTypes
  <2>1. StateTypes'
    BY <1>0, <2>b, <2>c, <2>d, <2>e, <2>f DEF StateTypes
  <2>2. UNCHANGED <<svc, online, pc, req, outcome, install, old, before>> /\ trigger' \in {trigger, None}
    BY <1>2 DEF Tick
  <2>3. NoFault \/ Fault("send")
    BY <1>2 DEF Tick, Report
  <2>4. RequestInv' /\ SwapInv'
    BY <1>0, <1>f, <1>n, <2>2, <2>3 DEF RequestInv, SwapInv
  <2> QED
    BY <2>1, <2>4
<1>3. CASE Age
  <2>1. StateTypes' /\ NoFault
    BY <1>0, <1>3 DEF Age, StateTypes, NoFault
  <2>2. RequestInv' /\ SwapInv'
    BY <1>0, <1>3, <1>n, <2>1 DEF Age, RequestInv, SwapInv
  <2> QED
    BY <2>1, <2>2
<1>4. CASE Crash
  <2>1. StateTypes'
    BY <1>0, <1>4 DEF Crash, StateTypes
  <2>2. RequestInv' /\ SwapInv'
    BY <1>0, <1>4, <1>f DEF Crash, RequestInv, SwapInv
  <2> QED
    BY <2>1, <2>2
<1>c. CASE Connect \/ Disconnect
  <2>1. StateTypes' /\ NoFault
    BY <1>0, <1>c DEF Connect, Disconnect, StateTypes, NoFault
  <2>2. RequestInv' /\ SwapInv'
    BY <1>0, <1>c, <1>n, <2>1 DEF Connect, Disconnect, RequestInv, SwapInv
  <2> QED
    BY <2>1, <2>2
<1>5. CASE AutoRestart
  <2>1. StateTypes' /\ NoFault
    BY <1>0, <1>5, StartFacts DEF AutoRestart, StateTypes, NoFault
  <2>2. UNCHANGED <<pc, req, outcome, install, old, before, trigger, online>> /\ svc = "failed" /\ install \in Versions
    BY <1>0, <1>5, StartFacts DEF AutoRestart
  <2>3. RequestInv' /\ SwapInv'
    BY <1>0, <1>n, <2>1, <2>2 DEF RequestInv, SwapInv
  <2> QED
    BY <2>1, <2>3
<1>6. CASE Kill
  <2>1. StateTypes'
    BY <1>0, <1>6, UnitsTypes DEF Kill, Goto, KeepBridge, KeepFiles, KeepCloud, StateTypes
  <2>2. RequestInv' /\ SwapInv'
    BY <1>0, <1>6, <1>f DEF Kill, Goto, KeepBridge, KeepFiles, RequestInv, SwapInv, Swapping, Writing, Taken
  <2> QED
    BY <2>1, <2>2
<1>7. CASE PowerFailure
  <2>1. StateTypes'
    BY <1>0, <1>7, UnitsTypes DEF PowerFailure, KeepCloud, StateTypes
  <2>2. RequestInv' /\ SwapInv'
    BY <1>0, <1>7, <1>f DEF PowerFailure, RequestInv, SwapInv, Swapping, Writing, Taken
  <2> QED
    BY <2>1, <2>2
<1> QED
  BY <1>1, <1>2, <1>3, <1>4, <1>c, <1>5, <1>6, <1>7

-----------------------------------------------------------------------------
(* The script, up to the swap, and in it.                                  *)

\* A bridge that is not up afterwards was not up before.
LEMMA StaysDown ==
  ASSUME StateTypes, RequestInv, StartBridge \/ (KeepBridge /\ KeepFiles)
  PROVE  svc' # "up" => svc # "up" /\ trigger' = None /\ ~online'
<1>1. (svc' # "up" => svc # "up") /\ UNCHANGED <<online, trigger>>
  BY StartFacts DEF KeepBridge, KeepFiles, fileVars
<1> QED
  BY <1>1 DEF RequestInv

LEMMA ScriptTypes == ASSUME StateTypes, RequestInv, ScriptStep PROVE StateTypes'
<1> USE DirFacts
        DEF StateTypes, Swapping, Writing, Goto, GiveUp, KeepDirs, KeepUnits, KeepBridge, KeepFiles, KeepCloud, fileVars,
            PathChanged, RemoveRuntime, Restore
<1>1. CASE Begin
  BY <1>1 DEF Begin
<1>2. CASE Look \/ Take
  BY <1>2 DEF Look, Take, NoFault
<1>3. CASE Check \/ Clear
  BY <1>3 DEF Check, Clear, Dirs
<1>4. CASE Stop
  BY <1>4 DEF Stop
<1>5. CASE Backup \/ Place
  BY <1>5 DEF Backup, Place, Dirs
<1>r. pc \in {"placing", "units"} => req \in Dirs
  BY DEF RequestInv, Taken, Dirs
<1>6. CASE Placed
  <2>1. install' \in Dirs /\ pc' \in {"units", "rollback"}
    BY <1>6, <1>r DEF Placed
  <2> QED
    BY <1>6, <2>1 DEF Placed
<1>7. CASE Rollback
  BY <1>7 DEF Rollback, Dirs
<1>8. ASSUME NEW l, NEW n \in {"write", "off"}, RestartOld(l, n) PROVE StateTypes'
  BY <1>8, StartFacts DEF RestartOld
<1>9. CASE Units
  <2>1. units' \in {units, req, Partial} /\ unitsThen' = unitsThen /\ pc' \in {"start", "off"}
    BY <1>9 DEF Units, UnitsCutOff
  <2>2. units' \in Dirs
    BY <1>9, <1>r, <2>1 DEF Units, Dirs
  <2> QED
    BY <1>9, <2>1, <2>2 DEF Units
<1>10. CASE StartNew
  BY <1>10, StartFacts DEF StartNew
<1>11. CASE Undo \/ Drop
  BY <1>11 DEF Undo, Drop, Dirs
<1>12. ASSUME NEW l, NEW n \in {"close", "close backup_failed"}, OpenResult(l, n) PROVE StateTypes'
  BY <1>12 DEF OpenResult
<1>13. ASSUME NEW l, NEW n \in {"off", "last"}, CloseResult(l, n) PROVE StateTypes'
  <2>1. [status |-> outcome, target |-> req] \in Reports
    BY DEF Reports
  <2> QED
    BY <1>13, <2>1 DEF CloseResult
<1> QED
  BY <1>1, <1>2, <1>3, <1>4, <1>5, <1>6, <1>7, <1>8, <1>9, <1>10, <1>11, <1>12, <1>13 DEF ScriptStep

LEMMA ScriptKept == ASSUME IInv, ScriptStep PROVE RequestInv' /\ SwapInv'
<1>0. FaultInv /\ StateTypes /\ RequestInv /\ SwapInv
  BY DEF IInv
<1>f. \A k : Fault(k) => faults' # {} /\ (AtMostOneFault' => faults = {} /\ AtMostOneFault)
  BY <1>0, FaultFacts
<1>n. NoFault => (AtMostOneFault' <=> AtMostOneFault) /\ faults' = faults
  BY <1>0, NoFaultFacts
<1>m. UNCHANGED faults => NoFault
  BY DEF NoFault
<1> USE <1>0, <1>f, <1>n, DirFacts
    DEF RequestInv, SwapInv, Swapping, Writing, Taken, Goto, GiveUp, KeepDirs, KeepBridge, KeepFiles, fileVars, RemoveRuntime
<1>1. CASE Begin
  BY <1>1 DEF Begin
<1>2. CASE Look
  BY <1>2, <1>m DEF Look, StateTypes
<1>3. CASE Take
  BY <1>3, <1>m DEF Take
<1>4. CASE Check
  BY <1>4 DEF Check
<1>5. CASE Clear
  BY <1>5 DEF Clear
<1>6. CASE Stop
  BY <1>6 DEF Stop
<1>7. CASE Backup
  BY <1>7 DEF Backup
<1>8. CASE Place
  BY <1>8 DEF Place
<1>9. CASE Placed
  BY <1>9 DEF Placed
<1>10. CASE Rollback
  BY <1>10 DEF Rollback, Restore
<1>11. ASSUME RestartOld("restart", "write") \/ RestartOld("last", "off") PROVE RequestInv' /\ SwapInv'
  <2>1. NoFault \/ \E k : Fault(k)
    BY <1>11 DEF RestartOld
  <2>2. (svc' # "up" => svc # "up" /\ trigger' = None /\ ~online') /\ UNCHANGED <<req, outcome, install, old, before>>
    <3>1. UNCHANGED <<req, outcome, install, old, before>> /\ (StartBridge \/ (KeepBridge /\ KeepFiles))
      BY <1>11 DEF RestartOld
    <3> QED
      BY <3>1, StaysDown
  <2>3. (pc = "restart" /\ pc' = "write") \/ (pc = "last" /\ pc' = "off")
    BY <1>11 DEF RestartOld
  <2> QED
    BY <2>1, <2>2, <2>3
<1>12. CASE Units
  BY <1>12 DEF Units
<1>13. CASE StartNew
  <2>1. (NoFault /\ pc' = "drop") \/ (Fault("start") /\ pc' = "undo")
    BY <1>13 DEF StartNew
  <2>2. /\ (svc' # "up" => svc # "up" /\ trigger' = None /\ ~online') /\ UNCHANGED <<req, outcome, install, old, before>>
        /\ pc = "start"
    BY <1>13, StartFacts DEF StartNew
  <2> QED
    BY <2>1, <2>2
<1>14. CASE Undo
  BY <1>14 DEF Undo, Restore
<1>15. CASE Drop
  BY <1>15 DEF Drop
<1>16. ASSUME OpenResult("write", "close") \/ OpenResult("write backup_failed", "close backup_failed")
       PROVE  RequestInv' /\ SwapInv'
  <2>1. /\ NoFault /\ UNCHANGED <<svc, online, trigger, req, outcome, install, old, before>>
        /\ pc \in {"write", "write backup_failed"}
        /\ pc' = (IF pc = "write" THEN "close" ELSE "close backup_failed") \/ pc' = "off"
    BY <1>16 DEF OpenResult
  <2>2. RequestInv'
    BY <2>1
  <2>3. SwapInv'
    BY <2>1
  <2> QED
    BY <2>2, <2>3
<1>17. ASSUME CloseResult("close", "off") \/ CloseResult("close backup_failed", "last")
       PROVE  RequestInv' /\ SwapInv'
  <2>1. /\ NoFault /\ UNCHANGED <<svc, online, trigger, req, outcome, install, old, before>>
        /\ (pc = "close" /\ pc' = "off") \/ (pc = "close backup_failed" /\ pc' = "last")
    BY <1>17 DEF CloseResult
  <2>2. RequestInv'
    BY <2>1
  <2>3. SwapInv'
    BY <2>1
  <2> QED
    BY <2>2, <2>3
<1> QED
  BY <1>1, <1>2, <1>3, <1>4, <1>5, <1>6, <1>7, <1>8, <1>9, <1>10, <1>11, <1>12, <1>13, <1>14,
     <1>15, <1>16, <1>17 DEF ScriptStep

LEMMA InvariantHolds == Safety => []IInv
<1>1. IInv /\ UNCHANGED vars => StateTypes' /\ RequestInv' /\ SwapInv'
  <2> SUFFICES ASSUME IInv, UNCHANGED vars PROVE StateTypes' /\ RequestInv' /\ SwapInv'
    OBVIOUS
  <2>1. AtMostOneFault' <=> AtMostOneFault
    BY DEF AtMostOneFault, vars
  <2>2. /\ UNCHANGED <<svc, running, online, runtime, trigger, aged, result, wake, pc, req, outcome>>
        /\ UNCHANGED <<install, old, before, units, unitsThen, asked, told, dropped, faults>>
    BY DEF vars, fileVars, scriptVars
  <2>3. StateTypes'
    BY <2>2 DEF IInv, StateTypes
  <2>4. RequestInv'
    BY <2>2 DEF IInv, RequestInv
  <2>5. SwapInv'
    BY <2>1, <2>2 DEF IInv, SwapInv
  <2> QED
    BY <2>3, <2>4, <2>5
<1>2. IInv /\ [Next]_vars => IInv'
  BY <1>1, FaultsKept, BridgeKept, ScriptTypes, ScriptKept DEF IInv, Next
<1> QED
  BY InitOK, <1>2, PTL DEF Safety

-----------------------------------------------------------------------------
(* The unit files.                                                         *)

LEMMA UnitsKept == ASSUME IInv, UnitsInv, [Next]_vars PROVE UnitsInv'
<1>0. FaultInv
  BY DEF IInv
<1>f. \A k : Fault(k) => (AtMostOneFault' => faults = {} /\ AtMostOneFault) /\ k \in faults'
  BY <1>0, FaultFacts DEF Fault
<1>n. NoFault => (AtMostOneFault' <=> AtMostOneFault) /\ faults' = faults
  BY <1>0, NoFaultFacts
<1>u. ASSUME (NoFault \/ \E k : Fault(k)), UNCHANGED <<units, unitsThen, outcome>>,
             pc' \in {pc, "off"}
      PROVE  UnitsInv'
  <2>1. faults \subseteq faults'
    BY <1>u DEF NoFault, Fault
  <2> QED
    BY <1>u, <1>f, <1>n, <2>1 DEF UnitsInv
<1>p. ASSUME pc' \in {"off", "start", "drop", "last"} PROVE UnitsInv'
  BY <1>p DEF UnitsInv
<1> USE DEF scriptVars, Goto, GiveUp, KeepDirs, KeepUnits
<1>1. ASSUME NEW t \in Targets, RequestUpdate(t) PROVE UnitsInv'
  BY <1>1, <1>u DEF RequestUpdate
<1>2. CASE Tick
  BY <1>2, <1>u DEF Tick, Report
<1>3. CASE Age \/ AutoRestart \/ Connect \/ Disconnect \/ Crash \/ UNCHANGED vars
  BY <1>3, <1>u DEF Age, AutoRestart, Connect, Disconnect, Crash, vars, NoFault
<1>4. CASE Kill \/ PowerFailure \/ Units
  BY <1>4, <1>p DEF Kill, PowerFailure, Units
<1>5. CASE Begin
  BY <1>5, <1>f, <1>n DEF Begin, UnitsInv
<1>6. CASE Look \/ Take \/ Check \/ Clear \/ Stop
  BY <1>6, <1>f, <1>n DEF Look, Take, Check, Clear, Stop, UnitsInv
<1>7. CASE Backup \/ Place \/ Placed
  BY <1>7, <1>f, <1>n DEF Backup, Place, Placed, UnitsInv
<1>8. CASE Rollback
  BY <1>8, <1>f, <1>n DEF Rollback, Restore, UnitsInv
<1>9. ASSUME RestartOld("restart", "write") \/ RestartOld("last", "off") PROVE UnitsInv'
  BY <1>9, <1>f, <1>n DEF RestartOld, UnitsInv
<1>10. CASE StartNew
  BY <1>10, <1>f, <1>n DEF StartNew, UnitsInv
<1>11. CASE Undo
  BY <1>11, <1>f, <1>n DEF Undo, Restore, UnitsInv
<1>12. CASE Drop
  BY <1>12, <1>f, <1>n DEF Drop, UnitsInv
<1>13. ASSUME OpenResult("write", "close") \/ OpenResult("write backup_failed", "close backup_failed")
       PROVE  UnitsInv'
  BY <1>13, <1>n DEF OpenResult, UnitsInv
<1>14. ASSUME CloseResult("close", "off") \/ CloseResult("close backup_failed", "last") PROVE UnitsInv'
  BY <1>14, <1>p, <1>n DEF CloseResult, UnitsInv
<1> QED
  BY <1>1, <1>2, <1>3, <1>4, <1>5, <1>6, <1>7, <1>8, <1>9, <1>10, <1>11, <1>12, <1>13, <1>14
     DEF Next, ScriptStep

LEMMA UnitsHold == Safety => []UnitsInv
<1>1. Init => UnitsInv
  BY DEF Init, UnitsInv
<1> QED
  BY <1>1, UnitsKept, InvariantHolds, PTL DEF Safety

-----------------------------------------------------------------------------
(* One verdict for a request.                                              *)

\* The script past the removal of the trigger, with no result written yet.
Past == Taken \ {"take"}

\* A request is in one place at most: not made, in the trigger file, in the
\* script, in the result file, answered, or dropped; a script that closes a
\* result file which was read half has nothing to write any more.
VerdictInv ==
  \A t \in Targets :
    /\ asked[t] = "no" => ~Heard(t)
    /\ asked[t] # "accepted" =>
         trigger # t /\ result.target # t /\ ~(pc \in Taken /\ req = t) /\ t \notin dropped
    /\ trigger = t => ~Heard(t) /\ result.target # t /\ ~(pc \in Past /\ req = t)
    /\ pc \in Taken /\ req = t => ~Heard(t) /\ result.target # t
    /\ result.target = t => ~Heard(t)
    /\ t \in dropped =>
         /\ ~Heard(t) /\ trigger # t /\ result.target # t
         /\ pc \in Taken /\ req = t => Closing /\ result # Half

\* Steps that bring no request into the script and no result out of it.
LEMMA VerdictQuietly ==
  ASSUME VerdictInv, UNCHANGED <<told, asked, dropped>>, trigger' \in {trigger, None},
         result' \in {result, NoResult, Half},
         pc' \in Taken => pc \in Taken /\ req' = req,
         pc' \in Past => pc \in Past \/ trigger' = None,
         Closing => pc' = pc \/ pc' \notin Taken,
         Closing /\ result' = Half => result = Half
  PROVE  VerdictInv'
<1>1. NoResult.target = None /\ Half.target = None /\ \A t \in Targets : t # None
  BY DirFacts DEF NoResult, Half
<1>2. \A t : Heard(t)' <=> Heard(t)
  BY DEF Heard
<1>3. \A t \in Targets : result'.target = t => result.target = t
  BY <1>1
<1> QED
  BY <1>1, <1>2, <1>3 DEF VerdictInv, Closing, Past

LEMMA VerdictKept ==
  ASSUME StateTypes, RequestInv, VerdictInv, [Next]_vars PROVE VerdictInv'
<1>0. /\ None \notin Targets /\ NoResult.target = None /\ Half.target = None
      /\ \A s, t : [status |-> s, target |-> t].target = t
  BY DirFacts DEF NoResult, Half
<1> USE DEF scriptVars, fileVars, KeepCloud, KeepFiles, KeepDirs, KeepBridge, Goto, GiveUp, RemoveRuntime,
            Past, Taken, Swapping, Writing, Closing
<1>h. NoResult # Half
  BY DEF NoResult, Half
<1>1. ASSUME NEW u \in Targets, RequestUpdate(u) PROVE VerdictInv'
  <2>1. /\ asked[u] = "no" /\ UNCHANGED <<result, pc, req, dropped>>
        /\ \/ /\ asked' = [asked EXCEPT ![u] = "accepted"] /\ trigger' = u /\ UNCHANGED told
           \/ /\ asked' = [asked EXCEPT ![u] = "rejected"] /\ UNCHANGED trigger
              /\ told' = told \cup {[status |-> "failed", target |-> u]}
    BY <1>1 DEF RequestUpdate
  <2>2. \A t \in Targets : t # u => asked'[t] = asked[t]
    BY <2>1 DEF StateTypes
  <2>3. asked'[u] \in {"accepted", "rejected"} /\ (asked'[u] = "accepted" <=> trigger' = u)
    BY <2>1 DEF StateTypes, VerdictInv
  <2>4. \A t \in Targets : Heard(t)' => Heard(t) \/ (t = u /\ asked'[u] = "rejected")
    <3>1. CASE UNCHANGED told
      BY <3>1 DEF Heard
    <3>2. CASE /\ asked' = [asked EXCEPT ![u] = "rejected"]
               /\ told' = told \cup {[status |-> "failed", target |-> u]}
      <4>1. asked'[u] = "rejected"
        BY <3>2 DEF StateTypes
      <4> QED
        BY <1>0, <3>2, <4>1 DEF Heard
    <3> QED
      BY <2>1, <3>1, <3>2
  <2>5. trigger' # u => UNCHANGED trigger
    BY <2>1
  <2> QED
    BY <2>1, <2>2, <2>3, <2>4, <2>5 DEF VerdictInv
<1>2. CASE Tick
  <2>1. /\ UNCHANGED <<pc, req, asked>> /\ trigger' \in {trigger, None}
    BY <1>2 DEF Tick
  <2>2. \/ /\ Stale /\ trigger' = None /\ UNCHANGED result
           /\ told' = told \cup {WatchdogReport} \/ UNCHANGED told
           /\ dropped' = IF Copied THEN dropped ELSE dropped \cup {trigger}
        \/ /\ result' = NoResult /\ (told' = told \cup {result} \/ UNCHANGED told)
           /\ dropped' = IF result = Half /\ Closing THEN dropped \cup {req} ELSE dropped
    BY <1>2 DEF Tick, Report, NoFault
  <2>3. ASSUME NEW t \in Targets, Heard(t)', ~Heard(t) PROVE result.target = t /\ result' = NoResult
    BY <1>0, <2>2, <2>3 DEF Heard, WatchdogReport
  <2>4. result' \in {result, NoResult}
    BY <2>2
  <2>5. ASSUME NEW t \in Targets, t \in dropped', t \notin dropped
        PROVE  /\ ~Heard(t) /\ asked[t] = "accepted" /\ trigger' # t
               /\ result.target # t /\ result'.target # t
               /\ pc \in Taken /\ req = t => Closing /\ result' # Half
    <3>1. CASE Stale /\ trigger' = None /\ UNCHANGED result /\ ~Copied /\ t = trigger
      <4>1. /\ ~Heard(t) /\ asked[t] = "accepted" /\ result.target # t
            /\ ~(pc \in Past /\ req = t) /\ (pc # "take" \/ req # t)
        <5> HIDE DEF Past, Taken, Swapping, Writing, Closing
        <5> QED
          BY <3>1 DEF Copied, VerdictInv
      <4>2. ~(pc \in Taken /\ req = t)
        BY <4>1
      <4> QED
        BY <1>0, <3>1, <4>1, <4>2
    <3>2. CASE result' = NoResult /\ result = Half /\ Closing /\ t = req
      <4>1. pc \in Taken
        BY <3>2
      <4>2. ~Heard(t) /\ asked[t] = "accepted" /\ trigger # t
        <5>1. Closing => pc \in Past
          OBVIOUS
        <5> HIDE DEF Past, Taken, Swapping, Writing, Closing
        <5> QED
          BY <3>2, <4>1, <5>1 DEF VerdictInv
      <4>3. trigger' # t
        BY <1>2, <3>2, <4>2, <1>h, <1>0 DEF Tick
      <4> QED
        BY <1>0, <1>h, <3>2, <4>2, <4>3
    <3> HIDE DEF Past, Taken, Swapping, Writing, Closing
    <3>3. \/ Stale /\ trigger' = None /\ UNCHANGED result /\ ~Copied /\ t = trigger
          \/ result' = NoResult /\ result = Half /\ Closing /\ t = req
      BY <2>2, <2>5
    <3> QED
      BY <3>1, <3>2, <3>3
  <2>6. ASSUME NEW t \in Targets, t \in dropped' PROVE ~Heard(t)'
    BY <2>3, <2>5, <2>6 DEF VerdictInv
  <2>7. NoResult # Half
    BY DEF NoResult, Half
  <2>8. ASSUME NEW t \in Targets, trigger' = t PROVE trigger = t
    BY <1>0, <2>1, <2>8
  <2>9. ASSUME NEW t \in Targets, result'.target = t PROVE result.target = t /\ ~Heard(t)'
    BY <1>0, <2>3, <2>4, <2>9 DEF VerdictInv
  <2> HIDE DEF Past, Taken, Swapping, Writing, Closing
  <2>10. \A t \in Targets :
           /\ asked'[t] = "no" => ~Heard(t)'
           /\ asked'[t] # "accepted" =>
                trigger' # t /\ result'.target # t /\ ~(pc \in Taken /\ req = t) /\ t \notin dropped'
           /\ trigger' = t => ~Heard(t)' /\ result'.target # t /\ ~(pc \in Past /\ req = t)
           /\ pc \in Taken /\ req = t => ~Heard(t)' /\ result'.target # t
    BY <2>1, <2>3, <2>5, <2>8, <2>9 DEF VerdictInv
  <2>11. ASSUME NEW t \in Targets, t \in dropped'
         PROVE  /\ trigger' # t /\ result'.target # t
                /\ pc \in Taken /\ req = t => Closing /\ result' # Half
    BY <2>4, <2>5, <2>7, <2>8, <2>9, <2>11 DEF VerdictInv
  <2>12. Closing' <=> Closing
    BY <2>1 DEF Closing
  <2> QED
    BY <2>1, <2>6, <2>9, <2>10, <2>11, <2>12 DEF VerdictInv
<1>c. CASE Connect \/ Disconnect
  BY <1>c, VerdictQuietly DEF Connect, Disconnect
<1>3. CASE Age \/ Crash \/ AutoRestart \/ Kill \/ PowerFailure
  BY <1>3, <1>h, VerdictQuietly DEF Age, Connect, Disconnect, Crash, AutoRestart, StartBridge, Kill, PowerFailure
<1>4. CASE Begin \/ Take \/ Check \/ Clear \/ Stop
  BY <1>4, VerdictQuietly DEF Begin, Take, Check, Clear, Stop
<1>5. CASE Backup \/ Place \/ Placed \/ Rollback
  BY <1>5, VerdictQuietly DEF Backup, Place, Placed, Rollback
<1>6. CASE Units \/ StartNew \/ Undo \/ Drop
  BY <1>6, VerdictQuietly DEF Units, StartNew, StartBridge, Undo, Drop
<1>7. CASE RestartOld("restart", "write") \/ RestartOld("last", "off")
  BY <1>7, VerdictQuietly DEF RestartOld, StartBridge
<1>8. CASE OpenResult("write", "close") \/ OpenResult("write backup_failed", "close backup_failed")
  <2>1. ~Closing
    BY <1>8 DEF OpenResult
  <2> QED
    BY <1>8, <2>1, VerdictQuietly DEF OpenResult
<1>9. CASE Look
  <2>1. /\ pc = "look" /\ UNCHANGED <<trigger, result, told, asked, dropped>>
        /\ \/ pc' = "off"
           \/ trigger # None /\ pc' = "take" /\ req' = trigger
    BY <1>9 DEF Look
  <2>2. \A t : Heard(t)' <=> Heard(t)
    BY <2>1 DEF Heard
  <2> QED
    BY <2>1, <2>2 DEF VerdictInv
<1>10. CASE CloseResult("close", "off") \/ CloseResult("close backup_failed", "last")
  <2>1. /\ pc \in {"close", "close backup_failed"} /\ pc' \in {"off", "last"}
        /\ UNCHANGED <<trigger, told, asked, dropped>>
        /\ result' = IF result = Half THEN [status |-> outcome, target |-> req] ELSE result
    BY <1>10 DEF CloseResult
  <2>2. \A t : Heard(t)' <=> Heard(t)
    BY <2>1 DEF Heard
  <2>3. \A t \in Targets : result'.target = t => result.target = t \/ (req = t /\ result = Half)
    BY <1>0, <2>1
  <2> QED
    BY <2>1, <2>2, <2>3 DEF VerdictInv
<1>11. CASE UNCHANGED vars
  BY <1>11, VerdictQuietly DEF vars
<1> QED
  BY <1>1, <1>2, <1>c, <1>3, <1>4, <1>5, <1>6, <1>7, <1>8, <1>9, <1>10, <1>11 DEF Next, ScriptStep

\* What the cloud hears in a step.
LEMMA Telling ==
  ASSUME [Next]_vars
  PROVE  \/ UNCHANGED told
         \/ \E u \in Targets : asked[u] = "no" /\ told' = told \cup {[status |-> "failed", target |-> u]}
         \/ told' = told \cup {WatchdogReport}
         \/ result # NoResult /\ told' = told \cup {result}
<1>1. ASSUME NEW u \in Targets, RequestUpdate(u)
      PROVE  \/ UNCHANGED told
             \/ asked[u] = "no" /\ told' = told \cup {[status |-> "failed", target |-> u]}
  BY <1>1 DEF RequestUpdate
<1>2. CASE Tick
  BY <1>2 DEF Tick, Report
<1>3. CASE Age \/ Connect \/ Disconnect \/ Crash \/ AutoRestart \/ Kill \/ PowerFailure \/ UNCHANGED vars
  BY <1>3 DEF Age, Connect, Disconnect, Crash, AutoRestart, Kill, PowerFailure, KeepCloud, vars
<1>4. CASE ScriptStep
  BY <1>4 DEF ScriptStep, Begin, Look, Take, Check, Clear, Stop, Backup, Place, Placed, Rollback, RestartOld,
              Units, StartNew, Undo, Drop, OpenResult, CloseResult, KeepCloud
<1> QED
  BY <1>1, <1>2, <1>3, <1>4 DEF Next

LEMMA HeardOnce ==
  ASSUME VerdictInv, VerdictInv', OneVerdict, [Next]_vars PROVE OneVerdict'
<1>1. \/ UNCHANGED told
      \/ \E u \in Targets : asked[u] = "no" /\ told' = told \cup {[status |-> "failed", target |-> u]}
      \/ told' = told \cup {WatchdogReport}
      \/ result # NoResult /\ told' = told \cup {result}
  BY Telling
<1>0. /\ \A s, t : [status |-> s, target |-> t].target = t
      /\ \A t : [status |-> "failed", target |-> t] # [status |-> "success", target |-> t]
      /\ WatchdogReport.target = None /\ None \notin Targets
  BY DirFacts DEF WatchdogReport
<1>2. ASSUME NEW t \in Targets, Heard(t)
      PROVE  \A s : [status |-> s, target |-> t] \in told' => [status |-> s, target |-> t] \in told
  <2>1. asked[t] # "no" /\ result.target # t /\ t # None
    BY <1>0, <1>2 DEF VerdictInv
  <2> QED
    BY <1>0, <1>1, <2>1
<1>3. ASSUME NEW t \in Targets, ~Heard(t)
      PROVE  ~({[status |-> s, target |-> t] : s \in {"failed", "success"}} \subseteq told')
  <2>1. PICK r : told' = told \cup {r} \/ told' = told
    BY <1>1
  <2>2. [status |-> "failed", target |-> t] \notin told /\ [status |-> "success", target |-> t] \notin told
    BY <1>0, <1>3 DEF Heard
  <2>3. ~([status |-> "failed", target |-> t] \in told' /\ [status |-> "success", target |-> t] \in told')
    BY <1>0, <2>1, <2>2
  <2> QED
    BY <2>3
<1>4. ASSUME NEW t \in Targets, t \in dropped' PROVE \A r \in told' : r.target # t
  BY <1>4 DEF VerdictInv, Heard
<1> QED
  BY <1>0, <1>2, <1>3, <1>4 DEF OneVerdict, Heard

-----------------------------------------------------------------------------
(* What a success says.                                                    *)

Success(t) == [status |-> "success", target |-> t]

\* The runtime directory goes with the bridge, and the result file with it; a
\* script that runs on finds none.
DownInv ==
  /\ svc # "up" => result = NoResult
  /\ pc \notin {"off", "look"} /\ svc # "up" => ~runtime

\* What the script has made of the directory, and of outcome.
PlaceInv ==
  /\ pc = "place" => install = None
  /\ pc \in {"placing", "rollback"} => install = Partial
  /\ pc \in {"units", "start", "undo", "drop"} => install = req
  /\ pc \in {"write", "close"} /\ outcome = "success" => install = req
  /\ pc \in {"rollback", "restart", "write backup_failed", "close backup_failed"} => outcome = "failed"

\* Without a fault the bridge that is started runs the new version.
SmoothInv ==
  faults = {} =>
    /\ pc \in {"backup", "place", "placing", "units", "start"} => svc = "stopped"
    /\ pc = "drop" \/ (pc \in {"write", "close"} /\ outcome = "success") => svc = "up" /\ running = req
    /\ \A t \in Targets : result = Success(t) => running = t

\* The next update takes the directory away only from a bridge that has
\* stopped, and the result with it, or that runs the version.
TrueInv ==
  AtMostOneFault => \A t \in Targets : result = Success(t) =>
    /\ install = t \/ running = t
    /\ pc = "backup" => running = t

LEMMA ResultFacts ==
  /\ NoResult # Half /\ \A t : Success(t) # NoResult /\ Success(t) # Half
  /\ \A t, u : Success(t) = Success(u) => t = u
  /\ \A t, s, u : [status |-> s, target |-> u] = Success(t) => s = "success" /\ u = t
BY DEF NoResult, Half, Success

LEMMA DownKept == ASSUME StateTypes, RequestInv, DownInv, [Next]_vars PROVE DownInv'
<1> USE DEF scriptVars, fileVars, KeepFiles, KeepBridge, Goto, GiveUp
<1>a. ASSUME UNCHANGED <<svc, runtime>>, result' \in {result, NoResult},
             pc' \notin {"off", "look"} => pc \notin {"off", "look"}
      PROVE  DownInv'
  BY <1>a DEF DownInv
<1>b. ASSUME svc' = "up" PROVE DownInv'
  BY <1>b DEF DownInv
<1>c. ASSUME RemoveRuntime PROVE DownInv'
  BY <1>c DEF DownInv, RemoveRuntime
<1>d. ASSUME UNCHANGED result, svc' = "up" \/ svc' = svc, pc' \in {"off", "look"} PROVE DownInv'
  BY <1>d DEF DownInv
<1>1. ASSUME NEW t \in Targets, RequestUpdate(t) PROVE DownInv'
  BY <1>1, <1>b DEF RequestUpdate, RequestInv
<1>2. CASE Tick
  BY <1>2, <1>b DEF Tick, RequestInv
<1>3. CASE Age \/ Connect \/ Disconnect
  BY <1>3, <1>a DEF Age, Connect, Disconnect
<1>4. CASE Crash \/ PowerFailure
  BY <1>4, <1>c DEF Crash, PowerFailure
<1>5. CASE Kill
  BY <1>5, <1>d DEF Kill
<1>6. CASE AutoRestart
  BY <1>6, <1>b DEF AutoRestart, StartBridge
<1>7. CASE Begin
  <2>1. UNCHANGED <<svc, result>> /\ pc' \in {"off", "look"}
    BY <1>7 DEF Begin
  <2> QED
    BY <1>d, <2>1
<1>8. CASE Look
  <2>1. \/ pc' = "off" /\ UNCHANGED <<svc, result>>
        \/ trigger # None /\ svc' = svc
    BY <1>8 DEF Look
  <2>2. trigger # None => svc = "up"
    BY DEF RequestInv
  <2> QED
    BY <1>b, <1>d, <2>1, <2>2
<1>9. CASE Take \/ Check \/ Clear
  BY <1>9, <1>a DEF Take, Check, Clear
<1>10. CASE Stop
  <2>1. \/ RemoveRuntime
        \/ svc # "up" /\ UNCHANGED <<runtime, result>>
        \/ UNCHANGED <<svc, runtime, result>>
    BY <1>10 DEF Stop
  <2>2. pc = "stop"
    BY <1>10 DEF Stop
  <2>3. ASSUME svc # "up", UNCHANGED <<runtime, result>> PROVE DownInv'
    BY <2>2, <2>3 DEF DownInv
  <2> QED
    BY <1>a, <1>c, <2>1, <2>2, <2>3
<1>11. CASE Backup \/ Place \/ Placed \/ Rollback \/ Units \/ Undo \/ Drop
  <2>1. pc \notin {"off", "look"} /\ UNCHANGED <<svc, runtime, result>>
    BY <1>11 DEF Backup, Place, Placed, Rollback, Units, Undo, Drop
  <2> QED
    BY <1>a, <2>1
<1>12. ASSUME NEW n, StartNew \/ RestartOld("restart", n) \/ RestartOld("last", n) PROVE DownInv'
  <2>1. pc \notin {"off", "look"} /\ (StartBridge \/ (KeepBridge /\ KeepFiles))
    BY <1>12 DEF StartNew, RestartOld
  <2>2. CASE StartBridge
    <3>1. CASE svc' = "up"
      BY <1>b, <3>1
    <3>2. CASE svc' # "up"
      BY <2>1, <2>2, <3>2 DEF StartBridge, DownInv
    <3> QED
      BY <3>1, <3>2
  <2>3. CASE KeepBridge /\ KeepFiles
    BY <1>a, <2>1, <2>3
  <2> QED
    BY <2>1, <2>2, <2>3
<1>13. ASSUME NEW l \in Writing, NEW n, OpenResult(l, n) \/ CloseResult(l, n) PROVE DownInv'
  <2>1. pc \notin {"off", "look"} /\ UNCHANGED <<svc, runtime>>
    BY <1>13 DEF OpenResult, CloseResult, Writing
  <2>2. svc = "up" \/ (~runtime /\ result = NoResult)
    BY <2>1 DEF DownInv
  <2>3. CASE svc = "up"
    BY <1>b, <2>1, <2>3
  <2>4. CASE ~runtime /\ result = NoResult
    <3>1. result' = result
      BY <1>13, <2>4, ResultFacts DEF OpenResult, CloseResult
    <3> QED
      BY <1>a, <2>1, <3>1
  <2> QED
    BY <2>2, <2>3, <2>4
<1>14. CASE UNCHANGED vars
  BY <1>14, <1>a DEF vars
<1> QED
  BY <1>1, <1>2, <1>3, <1>4, <1>5, <1>6, <1>7, <1>8, <1>9, <1>10, <1>11, <1>12, <1>13, <1>14
     DEF Next, ScriptStep, Writing

LEMMA PlaceKept == ASSUME StateTypes, RequestInv, PlaceInv, [Next]_vars PROVE PlaceInv'
<1> USE DEF scriptVars, KeepDirs, Goto, GiveUp, PlaceInv
<1>1. ASSUME UNCHANGED <<req, outcome, install>>, pc' = pc \/ pc' = "off" PROVE PlaceInv'
  BY <1>1
<1>2. ASSUME NEW t \in Targets, RequestUpdate(t) PROVE PlaceInv'
  BY <1>1, <1>2 DEF RequestUpdate
<1>3. CASE Tick \/ Age \/ Connect \/ Disconnect \/ Crash \/ AutoRestart \/ Kill \/ PowerFailure \/ UNCHANGED vars
  BY <1>1, <1>3 DEF Tick, Age, Connect, Disconnect, Crash, AutoRestart, Kill, PowerFailure, vars
<1>4. CASE Begin \/ Look \/ Take
  BY <1>4 DEF Begin, Look, Take
<1>5. CASE Check \/ Clear \/ Stop
  BY <1>5 DEF Check, Clear, Stop
<1>6. CASE Backup \/ Place
  BY <1>6 DEF Backup, Place
<1>7. CASE Placed \/ Rollback
  BY <1>7 DEF Placed, Rollback
<1>8. CASE Units \/ StartNew \/ Undo \/ Drop
  BY <1>8 DEF Units, StartNew, Undo, Drop
<1>9. CASE RestartOld("restart", "write") \/ RestartOld("last", "off")
  BY <1>9 DEF RestartOld
<1>10. CASE OpenResult("write", "close") \/ OpenResult("write backup_failed", "close backup_failed")
  BY <1>10 DEF OpenResult
<1>11. CASE CloseResult("close", "off") \/ CloseResult("close backup_failed", "last")
  BY <1>11 DEF CloseResult
<1> QED
  BY <1>2, <1>3, <1>4, <1>5, <1>6, <1>7, <1>8, <1>9, <1>10, <1>11 DEF Next, ScriptStep

\* A bridge with a result to report goes on running what it runs.
LEMMA RunningKept ==
  ASSUME DownInv, [Next]_vars, result # NoResult PROVE running' = running
<1> USE DEF scriptVars, KeepBridge, DownInv
<1>1. ASSUME NEW t \in Targets, RequestUpdate(t) PROVE running' = running
  BY <1>1 DEF RequestUpdate
<1>2. CASE Tick \/ Age \/ Connect \/ Disconnect \/ Crash \/ Kill \/ PowerFailure \/ UNCHANGED vars
  BY <1>2 DEF Tick, Age, Connect, Disconnect, Crash, Kill, PowerFailure, vars
<1>3. CASE AutoRestart
  BY <1>3 DEF AutoRestart
<1>4. CASE ScriptStep
  BY <1>4 DEF ScriptStep, Begin, Look, Take, Check, Clear, Stop, Backup, Place, Placed, Rollback, RestartOld,
              Units, StartNew, StartBridge, Undo, Drop, OpenResult, CloseResult
<1> QED
  BY <1>1, <1>2, <1>3, <1>4 DEF Next

\* A success gets into the result file in one way.
LEMMA SuccessWritten ==
  ASSUME PlaceInv, [Next]_vars, NEW t \in Targets, result' = Success(t), result # Success(t)
  PROVE  /\ pc = "close" /\ outcome = "success" /\ req = t /\ install = t /\ pc' = "off"
         /\ UNCHANGED <<svc, running, install, faults>>
<1>1. CloseResult("close", "off") \/ CloseResult("close backup_failed", "last")
  <2> USE ResultFacts DEF fileVars, KeepFiles, RemoveRuntime
  <2>1. ASSUME NEW u \in Targets, RequestUpdate(u) PROVE FALSE
    BY <2>1 DEF RequestUpdate
  <2>2. CASE Tick \/ Age \/ Connect \/ Disconnect \/ Crash \/ AutoRestart \/ Kill \/ PowerFailure \/ UNCHANGED vars
    BY <2>2 DEF Tick, Age, Connect, Disconnect, Crash, AutoRestart, StartBridge, Kill, PowerFailure, vars
  <2>3. CASE Begin \/ Look \/ Take \/ Check \/ Clear \/ Stop \/ Backup \/ Place \/ Placed \/ Rollback
    BY <2>3 DEF Begin, Look, Take, Check, Clear, Stop, Backup, Place, Placed, Rollback
  <2>4. ASSUME NEW l, NEW n, RestartOld(l, n) \/ OpenResult(l, n) PROVE FALSE
    BY <2>4 DEF RestartOld, OpenResult, StartBridge
  <2>5. CASE Units \/ StartNew \/ Undo \/ Drop
    BY <2>5 DEF Units, StartNew, StartBridge, Undo, Drop
  <2> QED
    BY <2>1, <2>2, <2>3, <2>4, <2>5 DEF Next, ScriptStep
<1>2. outcome = "success" /\ req = t
  BY <1>1, ResultFacts DEF CloseResult
<1>3. pc = "close" /\ pc' = "off"
  BY <1>1, <1>2 DEF CloseResult, PlaceInv, Goto
<1> QED
  BY <1>1, <1>2, <1>3 DEF CloseResult, PlaceInv, KeepBridge, KeepDirs, NoFault

LEMMA StepFaults == ASSUME [Next]_vars PROVE NoFault \/ \E k : Fault(k)
<1> USE DEF NoFault
<1>1. ASSUME NEW t \in Targets, RequestUpdate(t) PROVE NoFault
  BY <1>1 DEF RequestUpdate
<1>2. CASE Tick \/ Age \/ Connect \/ Disconnect \/ Crash \/ AutoRestart \/ Kill \/ PowerFailure \/ UNCHANGED vars
  BY <1>2 DEF Tick, Report, Age, Connect, Disconnect, Crash, AutoRestart, Kill, PowerFailure, vars
<1>3. CASE Begin \/ Look \/ Take \/ Check \/ Clear \/ Stop \/ Backup \/ Place \/ Placed
  BY <1>3 DEF Begin, Look, Take, Check, Clear, Stop, Backup, Place, Placed
<1>4. CASE Rollback \/ Units \/ StartNew \/ Undo \/ Drop
  BY <1>4 DEF Rollback, Units, StartNew, Undo, Drop, Restore
<1>5. ASSUME NEW l, NEW n, RestartOld(l, n) \/ OpenResult(l, n) \/ CloseResult(l, n)
      PROVE  NoFault \/ \E k : Fault(k)
  BY <1>5 DEF RestartOld, OpenResult, CloseResult
<1> QED
  BY <1>1, <1>2, <1>3, <1>4, <1>5 DEF Next, ScriptStep

LEMMA SmoothKept ==
  ASSUME IInv, DownInv, PlaceInv, SmoothInv, [Next]_vars PROVE SmoothInv'
<1>0. FaultInv /\ StateTypes /\ RequestInv
  BY DEF IInv
<1>1. CASE faults' # {}
  BY <1>1 DEF SmoothInv
<1>2. CASE faults' = {}
  <2>1. /\ \A k : ~Fault(k)
        /\ faults = {}
    <3>1. \A k : Fault(k) => faults' # {}
      BY <1>0, FaultFacts
    <3>2. faults \subseteq faults'
      BY StepFaults DEF Fault, NoFault
    <3> QED
      BY <1>2, <3>1, <3>2
  <2>2. AtMostOneFault
    <3>1. Cardinality(faults) = 0
      BY <2>1, FS_EmptySet
    <3> QED
      BY <3>1 DEF AtMostOneFault
  <2>3. pc \notin {"rollback", "undo"}
    BY <2>1, <2>2 DEF IInv, SwapInv
  <2>a. ASSUME NEW t \in Targets, result' = Success(t) PROVE running' = t
    <3>1. CASE result = Success(t)
      BY <2>1, <3>1, RunningKept, ResultFacts DEF SmoothInv
    <3>2. CASE result # Success(t)
      BY <2>1, <2>a, <3>2, SuccessWritten DEF SmoothInv
    <3> QED
      BY <3>1, <3>2
  <2>b. /\ pc' \in {"backup", "place", "placing", "units", "start"} => svc' = "stopped"
        /\ pc' = "drop" \/ (pc' \in {"write", "close"} /\ outcome' = "success") => svc' = "up" /\ running' = req'
    <3> USE <2>1, <2>3 DEF SmoothInv, scriptVars, KeepBridge, Goto, GiveUp, NoFault
    <3>1. ASSUME NEW t \in Targets, RequestUpdate(t)
          PROVE  UNCHANGED <<pc, svc, running, req, outcome>>
      BY <3>1 DEF RequestUpdate
    <3>2. CASE Tick \/ Age \/ Connect \/ Disconnect \/ Kill \/ UNCHANGED vars
      BY <3>2 DEF Tick, Age, Connect, Disconnect, Kill, vars
    <3>3. CASE Crash \/ PowerFailure
      BY <3>3 DEF Crash, PowerFailure
    <3>4. CASE AutoRestart
      BY <3>4 DEF AutoRestart, StartBridge
    <3>5. CASE Begin \/ Look \/ Take \/ Check \/ Clear \/ Stop
      BY <3>5 DEF Begin, Look, Take, Check, Clear, Stop
    <3>6. CASE Backup \/ Place \/ Placed
      BY <3>6 DEF Backup, Place, Placed
    <3>7. CASE Rollback \/ Undo
      BY <3>7 DEF Rollback, Undo
    <3>8. CASE Units \/ Drop
      BY <3>8 DEF Units, Drop
    <3>9. CASE StartNew
      <4>1. pc = "start" /\ install = req /\ req \in Targets /\ pc' = "drop" /\ StartBridge /\ req' = req
        BY <1>0, <3>9 DEF StartNew, PlaceInv, RequestInv, Taken, Swapping
      <4>2. install \in Versions /\ svc = "stopped"
        BY <4>1, DirFacts
      <4> QED
        BY <4>1, <4>2 DEF StartBridge
    <3>10. CASE RestartOld("restart", "write") \/ RestartOld("last", "off")
      BY <3>10 DEF RestartOld, PlaceInv
    <3>11. CASE OpenResult("write", "close") \/ OpenResult("write backup_failed", "close backup_failed")
      BY <3>11 DEF OpenResult
    <3>12. CASE CloseResult("close", "off") \/ CloseResult("close backup_failed", "last")
      BY <3>12 DEF CloseResult
    <3> QED
      BY <3>1, <3>2, <3>3, <3>4, <3>5, <3>6, <3>7, <3>8, <3>9, <3>10, <3>11, <3>12 DEF Next, ScriptStep
  <2> QED
    BY <2>a, <2>b DEF SmoothInv
<1> QED
  BY <1>1, <1>2

\* The version a success in the result file names is neither moved away nor
\* stopped before the success is read, unless the bridge runs it.
LEMMA TrueKept ==
  ASSUME IInv, VerdictInv, DownInv, PlaceInv, SmoothInv, TrueInv, [Next]_vars PROVE TrueInv'
<1>0. FaultInv
  BY DEF IInv
<1>f. AtMostOneFault' => AtMostOneFault /\ (faults = {} \/ NoFault)
  BY <1>0, StepFaults, FaultFacts, NoFaultFacts
<1> SUFFICES ASSUME AtMostOneFault', NEW t \in Targets, result' = Success(t)
             PROVE  (install' = t \/ running' = t) /\ (pc' = "backup" => running' = t)
  BY DEF TrueInv
<1>1. CASE result # Success(t)
  <2>1. install = t /\ pc' = "off" /\ UNCHANGED install
    BY <1>1, SuccessWritten
  <2> QED
    BY <2>1
<1>2. CASE result = Success(t) /\ running = t
  BY <1>2, RunningKept, ResultFacts
<1>3. CASE result = Success(t) /\ running # t
  <2>0. t # None /\ t # Partial
    BY UpdaterAssumption
  <2>1. install = t /\ pc # "backup" /\ faults # {} /\ NoFault
    <3>1. faults # {}
      BY <1>3 DEF SmoothInv
    <3> QED
      BY <1>f, <1>3, <3>1 DEF TrueInv
  <2>2. svc = "up" /\ result # NoResult /\ result.target = t
    BY <1>3, ResultFacts DEF DownInv, Success
  <2>3. \A k : ~Fault(k)
    BY <2>1 DEF Fault, NoFault
  <2>4. pc \notin {"place", "placing", "rollback", "undo"}
    <3>1. pc \notin {"place", "placing", "rollback"}
      BY <2>0, <2>1 DEF PlaceInv
    <3>2. pc # "undo"
      BY <2>1, <2>2 DEF PlaceInv, VerdictInv, Taken, Swapping
    <3> QED
      BY <3>1, <3>2
  <2>5. install' = t /\ pc' # "backup"
    <3> USE <2>1, <2>2, <2>3, <2>4 DEF scriptVars, KeepDirs, Goto, GiveUp, Swapping
    <3>1. ASSUME NEW u \in Targets, RequestUpdate(u) PROVE UNCHANGED <<install, pc>>
      BY <3>1 DEF RequestUpdate
    <3>2. CASE Tick \/ Age \/ Connect \/ Disconnect \/ Crash \/ AutoRestart \/ Kill \/ PowerFailure \/ UNCHANGED vars
      BY <3>2 DEF Tick, Age, Connect, Disconnect, Crash, AutoRestart, Kill, PowerFailure, vars
    <3>3. CASE Begin \/ Look \/ Take \/ Check \/ Clear
      BY <3>3 DEF Begin, Look, Take, Check, Clear
    <3>4. CASE Stop
      <4>1. RemoveRuntime
        BY <3>4 DEF Stop
      <4> QED
        BY <4>1, ResultFacts DEF RemoveRuntime
    <3>5. CASE Backup \/ Place \/ Placed \/ Rollback \/ Undo
      BY <3>5 DEF Backup, Place, Placed, Rollback, Undo
    <3>6. CASE Units \/ StartNew \/ Drop
      BY <3>6 DEF Units, StartNew, Drop
    <3>7. CASE RestartOld("restart", "write") \/ RestartOld("last", "off")
      BY <3>7 DEF RestartOld
    <3>8. CASE OpenResult("write", "close") \/ OpenResult("write backup_failed", "close backup_failed")
      BY <3>8 DEF OpenResult
    <3>9. CASE CloseResult("close", "off") \/ CloseResult("close backup_failed", "last")
      BY <3>9 DEF CloseResult
    <3> QED
      BY <3>1, <3>2, <3>3, <3>4, <3>5, <3>6, <3>7, <3>8, <3>9 DEF Next, ScriptStep
  <2> QED
    BY <2>5
<1> QED
  BY <1>1, <1>2, <1>3

\* A success that is told was in the result file.
LEMMA ToldFromFile ==
  ASSUME [Next]_vars, NEW t \in Targets, Success(t) \in told' \ told PROVE result = Success(t)
<1>1. \A u : [status |-> "failed", target |-> u] # Success(t)
  BY DEF Success
<1>2. WatchdogReport # Success(t)
  BY DEF WatchdogReport, Success
<1> QED
  BY <1>1, <1>2, Telling

-----------------------------------------------------------------------------

TruthInv == VerdictInv /\ OneVerdict /\ DownInv /\ PlaceInv /\ SmoothInv /\ TrueInv

LEMMA TruthInit == Init => TruthInv
<1> SUFFICES ASSUME Init PROVE TruthInv
  OBVIOUS
<1> USE DirFacts DEF Init
<1>1. NoResult.target = None
  BY DEF NoResult
<1>2. VerdictInv
  BY <1>1 DEF VerdictInv, Heard, Past, Taken, Swapping, Writing
<1>3. OneVerdict
  BY DEF OneVerdict
<1>4. DownInv
  BY DEF DownInv
<1>5. PlaceInv
  BY DEF PlaceInv
<1>6. SmoothInv /\ TrueInv
  BY ResultFacts DEF SmoothInv, TrueInv
<1> QED
  BY <1>2, <1>3, <1>4, <1>5, <1>6 DEF TruthInv

LEMMA TruthKept == IInv /\ TruthInv /\ [Next]_vars => TruthInv'
<1> SUFFICES ASSUME IInv, TruthInv, [Next]_vars PROVE TruthInv'
  OBVIOUS
<1>0. /\ StateTypes /\ RequestInv /\ VerdictInv /\ OneVerdict /\ DownInv /\ PlaceInv /\ SmoothInv /\ TrueInv
  BY DEF IInv, TruthInv
<1>1. VerdictInv'
  BY <1>0, VerdictKept
<1>2. OneVerdict'
  BY <1>0, <1>1, HeardOnce
<1>3. DownInv'
  BY <1>0, DownKept
<1>4. PlaceInv'
  BY <1>0, PlaceKept
<1>5. SmoothInv'
  BY <1>0, SmoothKept
<1>6. TrueInv'
  BY <1>0, TrueKept
<1> QED
  BY <1>1, <1>2, <1>3, <1>4, <1>5, <1>6 DEF TruthInv

LEMMA TruthHolds == Safety => []TruthInv
BY TruthInit, TruthKept, InvariantHolds, PTL DEF Safety

-----------------------------------------------------------------------------
(* Where answers are lost.                                                 *)

\* Short of the faults that silence it, the script finds a version to start
\* whenever it starts one, the bridge is up wherever a result is written, and
\* what is written goes into a file that only the bridge may have removed.
LoudInv ==
  faults \cap Silencing = {} =>
    /\ pc \notin {"undo", "write backup_failed", "close backup_failed", "last"}
    /\ pc \notin {"place", "placing", "rollback"} => install \in Versions
    /\ pc \in {"place", "placing", "rollback"} => old \in Versions
    /\ pc \in {"off", "look", "take", "check", "clear", "stop", "drop", "write", "close"} => svc = "up"
    /\ svc = "up" => runtime
    /\ pc = "close" => result = Half \/ req \in dropped

LEMMA StepLoud ==
  ASSUME [Next]_vars, faults' \cap Silencing = {}
  PROVE  faults \cap Silencing = {} /\ \A k \in Silencing : ~Fault(k)
BY StepFaults DEF Fault, NoFault

LEMMA LoudKept == ASSUME StateTypes, RequestInv, LoudInv, [Next]_vars PROVE LoudInv'
<1> SUFFICES ASSUME faults' \cap Silencing = {} PROVE LoudInv'
  BY DEF LoudInv
<1>0. /\ pc \notin {"undo", "write backup_failed", "close backup_failed", "last"}
      /\ pc \notin {"place", "placing", "rollback"} => install \in Versions
      /\ pc \in {"place", "placing", "rollback"} => old \in Versions
      /\ pc \in {"off", "look", "take", "check", "clear", "stop", "drop", "write", "close"} => svc = "up"
      /\ svc = "up" => runtime
      /\ pc = "close" => result = Half \/ req \in dropped
  BY StepLoud DEF LoudInv
<1>f. ~Fault("crash") /\ ~Fault("kill") /\ ~Fault("power") /\ ~Fault("backup") /\ ~Fault("restore")
      /\ ~Fault("units") /\ ~Fault("start")
  BY StepLoud DEF Silencing, Kinds
<1> USE DirFacts DEF scriptVars, fileVars, KeepDirs, KeepBridge, KeepFiles, KeepCloud, Goto, GiveUp
<1>1. ASSUME NEW t \in Targets, RequestUpdate(t) PROVE LoudInv'
  <2>1. UNCHANGED <<svc, pc, req, install, old, result, dropped>>
    BY <1>1 DEF RequestUpdate
  <2>2. runtime' = TRUE \/ runtime' = runtime
    BY <1>1 DEF RequestUpdate
  <2> QED
    BY <1>0, <2>1, <2>2 DEF LoudInv
<1>2. CASE Tick
  <2>1. /\ UNCHANGED <<svc, runtime, pc, req, install, old>> /\ dropped \subseteq dropped'
        /\ UNCHANGED result \/ (result = Half /\ Closing => req \in dropped')
    BY <1>2 DEF Tick
  <2>2. pc = "close" => result' = Half \/ req' \in dropped'
    <3>1. CASE UNCHANGED result
      BY <1>0, <2>1, <3>1
    <3>2. CASE result = Half /\ Closing => req \in dropped'
      BY <1>0, <2>1, <3>2 DEF Closing
    <3> QED
      BY <2>1, <3>1, <3>2
  <2> QED
    BY <1>0, <2>1, <2>2 DEF LoudInv
<1>3. CASE Age \/ Connect \/ Disconnect \/ UNCHANGED vars
  <2>1. UNCHANGED <<svc, runtime, pc, req, install, old, result, dropped>>
    BY <1>3 DEF Age, Connect, Disconnect, vars
  <2> QED
    BY <1>0, <2>1 DEF LoudInv
<1>4. CASE Crash \/ Kill \/ PowerFailure
  BY <1>f, <1>4 DEF Crash, Kill, PowerFailure
<1>5. CASE AutoRestart
  BY <1>0, <1>5 DEF AutoRestart, StartBridge, LoudInv
<1>6. CASE Begin \/ Look
  BY <1>0, <1>6 DEF Begin, Look, LoudInv
<1>7. CASE Take \/ Check \/ Clear
  BY <1>0, <1>7 DEF Take, Check, Clear, LoudInv
<1>8. CASE Stop
  <2>1. /\ pc = "stop" /\ pc' = "backup" /\ UNCHANGED install
        /\ (UNCHANGED <<svc, runtime>> \/ svc' = "stopped")
    BY <1>8 DEF Stop
  <2> QED
    BY <1>0, <2>1 DEF LoudInv
<1>9. CASE Backup \/ Place
  BY <1>0, <1>f, <1>9 DEF Backup, Place, LoudInv
<1>10. CASE Placed
  <2>1. req \in Targets
    BY <1>10 DEF Placed, RequestInv, Taken, Swapping
  <2> QED
    BY <1>0, <1>10, <2>1 DEF Placed, LoudInv
<1>11. CASE Rollback
  BY <1>0, <1>f, <1>11 DEF Rollback, Restore, LoudInv
<1>12. CASE RestartOld("restart", "write") \/ RestartOld("last", "off") \/ StartNew
  <2>1. /\ StartBridge /\ pc' \in {"write", "drop"} /\ pc \in {"restart", "start"} /\ UNCHANGED install
    BY <1>0, <1>f, <1>12 DEF RestartOld, StartNew
  <2> QED
    BY <1>0, <2>1 DEF StartBridge, LoudInv
<1>13. CASE Units \/ Undo \/ Drop
  BY <1>0, <1>f, <1>13 DEF Units, Undo, Drop, LoudInv
<1>14. ASSUME OpenResult("write", "close") \/ OpenResult("write backup_failed", "close backup_failed")
       PROVE  LoudInv'
  BY <1>0, <1>14 DEF OpenResult, LoudInv
<1>15. ASSUME CloseResult("close", "off") \/ CloseResult("close backup_failed", "last") PROVE LoudInv'
  BY <1>0, <1>15 DEF CloseResult, LoudInv
<1> QED
  BY <1>1, <1>2, <1>3, <1>4, <1>5, <1>6, <1>7, <1>8, <1>9, <1>10, <1>11, <1>12, <1>13, <1>14, <1>15
     DEF Next, ScriptStep

\* A script at work explains the silence about every request but its own.
LEMMA WorkExplains ==
  ASSUME RequestInv, VerdictInv, pc \in Taken PROVE SilenceExplained
BY DEF RequestInv, VerdictInv, SilenceExplained, InPlay

LEMMA SilenceKept ==
  ASSUME StateTypes, RequestInv, RequestInv', VerdictInv, VerdictInv', LoudInv,
         SilenceExplained, [Next]_vars
  PROVE  SilenceExplained'
<1>w. CASE pc' \in Taken
  <2>1. RequestInv' /\ VerdictInv' /\ (pc \in Taken)' => SilenceExplained'
    BY WorkExplains, PTL
  <2> QED
    BY <1>w, <2>1 DEF Taken, Swapping, Writing
<1> SUFFICES ASSUME pc' \notin Taken, faults' \cap Silencing = {},
                    NEW t \in Targets, asked'[t] = "accepted",
                    \A u \in Targets \ {t} : asked'[u] # "accepted"
             PROVE  trigger' = t \/ result'.target = t \/ Heard(t)' \/ t \in dropped'
  BY <1>w DEF SilenceExplained, InPlay
<1>f. ~Fault("crash") /\ ~Fault("kill") /\ ~Fault("power") /\ ~Fault("send") /\ ~Fault("units")
  BY StepLoud DEF Silencing, Kinds
<1>l. /\ pc # "close backup_failed" /\ pc # "last" /\ pc # "write backup_failed" /\ (pc = "write" => runtime)
      /\ pc = "close" => result = Half \/ req \in dropped
  BY StepLoud DEF LoudInv
<1>o. asked[t] = "accepted" /\ UNCHANGED asked =>
        (trigger = t \/ (pc \in Taken /\ req = t) \/ result.target = t \/ Heard(t) \/ t \in dropped)
  BY StepLoud DEF SilenceExplained, InPlay
<1> USE DEF scriptVars, fileVars, KeepCloud, KeepFiles, KeepDirs, KeepBridge, Goto, GiveUp
<1>1. ASSUME NEW u \in Targets, RequestUpdate(u)
      PROVE  trigger' = t \/ result'.target = t \/ Heard(t)' \/ t \in dropped'
  <2>1. CASE asked' = [asked EXCEPT ![u] = "accepted"] /\ trigger' = u
    BY <2>1 DEF StateTypes
  <2>2. CASE asked' = [asked EXCEPT ![u] = "rejected"] /\ UNCHANGED trigger
    <3>1. /\ asked[t] = "accepted" /\ \A v \in Targets \ {t} : asked[v] # "accepted"
          /\ pc \notin Taken /\ result' = result /\ dropped' = dropped /\ told \subseteq told'
      BY <1>1, <2>2 DEF StateTypes, RequestUpdate
    <3>2. faults \cap Silencing = {}
      BY StepLoud
    <3> QED
      BY <2>2, <3>1, <3>2 DEF SilenceExplained, InPlay, Heard
  <2> QED
    BY <1>1, <2>1, <2>2 DEF RequestUpdate
<1>2. CASE Tick
  <2>1. /\ UNCHANGED <<pc, asked>> /\ dropped \subseteq dropped' /\ told \subseteq told'
        /\ trigger' = trigger \/ trigger \in dropped' \/ Copied
        /\ result' = result \/ result = Half \/ result \in told'
    BY <1>2, <1>f DEF Tick, Report
  <2>2. ~Copied /\ pc \notin Taken
    BY <2>1 DEF Copied, Taken
  <2>3. Half.target # t
    BY DirFacts DEF Half
  <2>4. trigger = t \/ result.target = t \/ Heard(t) \/ t \in dropped
    BY <1>o, <2>1, <2>2
  <2> QED
    BY <2>1, <2>2, <2>3, <2>4 DEF Heard
<1>3. CASE Age \/ Connect \/ Disconnect \/ UNCHANGED vars
  BY <1>o, <1>3 DEF Age, Connect, Disconnect, vars, Heard
<1>4. CASE Crash \/ Kill \/ PowerFailure
  BY <1>f, <1>4 DEF Crash, Kill, PowerFailure
<1>5. CASE AutoRestart
  BY <1>o, <1>5 DEF AutoRestart, StartBridge, Heard
<1>6. CASE Begin \/ Look
  <2>1. UNCHANGED <<trigger, result, asked, told, dropped>> /\ pc \notin Taken
    BY <1>6 DEF Begin, Look, Taken, Swapping, Writing
  <2> QED
    BY <1>o, <2>1 DEF Heard
<1>7. CASE Take \/ Check \/ Clear \/ Stop \/ Backup \/ Place \/ Placed \/ Rollback
  BY <1>7 DEF Take, Check, Clear, Stop, Backup, Place, Placed, Rollback, Taken, Swapping, Writing
<1>8. CASE RestartOld("restart", "write") \/ StartNew \/ Undo \/ Drop \/ Units
  BY <1>8, <1>f DEF RestartOld, StartNew, Undo, Drop, Units, Taken, Swapping, Writing
<1>9. ASSUME OpenResult("write", "close") \/ OpenResult("write backup_failed", "close backup_failed")
      PROVE  FALSE
  BY <1>9, <1>l DEF OpenResult, Taken, Writing
<1>10. ASSUME CloseResult("close", "off") \/ CloseResult("close backup_failed", "last")
       PROVE  trigger' = t \/ result'.target = t \/ Heard(t)' \/ t \in dropped'
  <2>1. /\ pc = "close" /\ UNCHANGED <<trigger, asked, told, dropped>>
        /\ result' = IF result = Half THEN [status |-> outcome, target |-> req] ELSE result
    BY <1>10, <1>l DEF CloseResult
  <2>2. Half.target # t
    BY DirFacts DEF Half
  <2> QED
    BY <1>o, <1>l, <2>1, <2>2 DEF Heard
<1>11. CASE RestartOld("last", "off")
  BY <1>11, <1>l DEF RestartOld
<1> QED
  BY <1>1, <1>2, <1>3, <1>4, <1>5, <1>6, <1>7, <1>8, <1>9, <1>10, <1>11 DEF Next, ScriptStep

-----------------------------------------------------------------------------
(* What is proved.                                                         *)

\* Every reachable state of bridge, script and files is well-typed.
THEOREM UpdaterTypeCorrect == Safety => []TypeOK
<1>1. IInv => TypeOK
  BY TypeParts DEF IInv
<1> QED
  BY <1>1, InvariantHolds, PTL

\* Whatever single thing goes wrong, wherever in however many updates, a
\* complete version is on the disk under one name or the other.
THEOREM CopyIsKept == Safety => []CopyKept
<1>1. IInv => CopyKept
  BY DEF IInv, SwapInv, CopyKept
<1> QED
  BY <1>1, InvariantHolds, PTL

\* A run that failed for one reason has put back what it found before it says so.
THEOREM FailuresRestored == Safety => []FailureRestores
<1>1. IInv /\ UnitsInv => FailureRestores
  BY DEF IInv, SwapInv, UnitsInv, FailureRestores, Writing
<1> QED
  BY <1>1, InvariantHolds, UnitsHold, PTL

\* However many faults there are, and however often scripts are killed and
\* requests overwrite each other, a target is not reported as failed and as
\* installed.
THEOREM VerdictsAgree == Safety => []OneVerdict
<1>1. TruthInv => OneVerdict
  BY DEF TruthInv
<1> QED
  BY <1>1, TruthHolds, PTL

\* Short of the faults that end the script or take its files or its report
\* away, the answer to the only request accepted is lost in two ways, both the
\* bridge's own: the watchdog gave it up, or the result was read half.
THEOREM SilenceIsExplained == Safety => []SilenceExplained
<1>1. Init => LoudInv /\ SilenceExplained
  BY DirFacts DEF Init, LoudInv, SilenceExplained
<1>2. IInv /\ IInv' /\ TruthInv /\ TruthInv' /\ LoudInv /\ SilenceExplained /\ [Next]_vars
        => LoudInv' /\ SilenceExplained'
  <2> SUFFICES ASSUME IInv, IInv', TruthInv, TruthInv', LoudInv, SilenceExplained, [Next]_vars
               PROVE  LoudInv' /\ SilenceExplained'
    OBVIOUS
  <2>1. /\ StateTypes /\ RequestInv /\ VerdictInv /\ RequestInv' /\ VerdictInv'
    BY DEF IInv, TruthInv
  <2> QED
    BY <2>1, LoudKept, SilenceKept
<1> QED
  BY <1>1, <1>2, InvariantHolds, TruthHolds, PTL DEF Safety

\* Unless two things went wrong, the version is installed or runs when the
\* cloud hears of its success: the next update does not overtake the report.
THEOREM SuccessIsTrue == Safety => SuccessTruthful
<1>1. TruthInv /\ [Next]_vars =>
        [AtMostOneFault => \A t \in Targets :
           [status |-> "success", target |-> t] \in told' \ told
             => install = t \/ running = t]_vars
  <2> SUFFICES ASSUME TruthInv, [Next]_vars, AtMostOneFault, NEW t \in Targets, Success(t) \in told' \ told
               PROVE  install = t \/ running = t
    BY DEF Success
  <2>1. result = Success(t)
    BY ToldFromFile
  <2> QED
    BY <2>1 DEF TruthInv, TrueInv
<1> QED
  BY <1>1, TruthHolds, PTL DEF Safety, SuccessTruthful
=============================================================================
