------------------------------- MODULE Updater -------------------------------
(***************************************************************************)
(* Updates of a "daemon" bridge: the bridge process (internal/updater and  *)
(* the session loop), the root script orderpy-bridge-updater.sh, and what  *)
(* systemd does for both.  They share the files of the runtime directory   *)
(* and /opt/orderpy-bridge, and run concurrently.                          *)
(*                                                                         *)
(*  - An "update" message makes the bridge write the trigger file.  The    *)
(*    path unit starts the script, which copies and removes the trigger,   *)
(*    downloads and verifies, stops the bridge, swaps the directories,     *)
(*    starts the bridge and writes the result file.                        *)
(*  - Every 30 s of a session the bridge turns a trigger older than 15     *)
(*    minutes into a failure, and reads, removes and reports a result      *)
(*    file.  Between sessions nothing ticks.                               *)
(*  - systemd removes the runtime directory whenever the bridge stops, and *)
(*    creates it when the bridge starts (RuntimeDirectory=).               *)
(*                                                                         *)
(* A fault is anything the script or the bridge cannot prevent.  Each has  *)
(* a kind; a run chooses the kinds and how many happen.                    *)
(***************************************************************************)
EXTENDS Naturals, FiniteSets

CONSTANTS
  Base,        \* the version installed at first
  Targets,     \* versions the cloud asks for, each once
  None,        \* no version, no request, no file
  Partial,     \* a directory that is not a complete version
  FaultKinds,  \* the faults that may happen
  MaxFaults    \* bound: how many of them, each kind once

Kinds == {"crash", "kill", "power", "send", "tools", "stop", "backup", "place",
          "restore", "units", "start"}

ASSUME UpdaterAssumption ==
  /\ Base \notin Targets
  /\ None \notin Targets \cup {Base, Partial}
  /\ Partial \notin Targets \cup {Base}
  /\ FaultKinds \subseteq Kinds
  /\ MaxFaults \in Nat

VARIABLES
  \* the bridge
  svc,       \* orderpy-bridge.service
  running,   \* version of the running process, or of the last one
  online,    \* it is in a session with the cloud and serves its select
  \* the runtime directory
  runtime,   \* it exists
  trigger,   \* target in update-requested.json
  aged,      \* the trigger is older than the watchdog's 900 s
  result,    \* update-result.json
  \* the updater
  wake,      \* the path unit is about to start the script
  pc,        \* where the script is
  req,       \* TARGET
  outcome,   \* status of the result to write
  install,   \* /opt/orderpy-bridge
  old,       \* /opt/orderpy-bridge.old
  before,    \* install when the script began
  units,     \* the version whose unit files lie in /etc/systemd/system
  unitsThen, \* units when the script began
  \* the cloud
  asked,     \* targets accepted or rejected by the bridge
  told,      \* reports the cloud has received
  dropped,   \* targets the bridge removed before they were carried out or told
  faults     \* the kinds of faults that have happened

fileVars   == <<runtime, trigger, aged, result>>
scriptVars == <<wake, pc, req, outcome, install, old, before, units, unitsThen>>
vars       == <<svc, running, online, fileVars, scriptVars, asked, told, dropped, faults>>

Versions == Targets \cup {Base}
Dirs     == Versions \cup {None, Partial}
Reports  == [status : {"failed", "success"}, target : Targets \cup {None}]
NoResult == [status |-> "none", target |-> None]
Half     == [status |-> "half", target |-> None]

\* The script between systemctl stop and the start of a bridge.
Swapping == {"backup", "place", "placing", "rollback", "restart", "units", "start", "undo"}

\* write_result; the backup_failed branch starts the bridge afterwards.
Writing == {"write", "close", "write backup_failed", "close backup_failed"}

TypeOK ==
  /\ svc \in {"up", "failed", "stopped"}
  /\ running \in Versions
  /\ online \in BOOLEAN
  /\ runtime \in BOOLEAN
  /\ trigger \in Targets \cup {None}
  /\ aged \in BOOLEAN
  /\ result \in Reports \cup {NoResult, Half}
  /\ wake \in BOOLEAN
  /\ pc \in Swapping \cup Writing \cup
             {"off", "look", "take", "check", "clear", "stop", "drop", "last"}
  /\ req \in Targets \cup {None}
  /\ outcome \in {"failed", "success"}
  /\ install \in Dirs /\ old \in Dirs /\ before \in Dirs
  /\ units \in Dirs /\ unitsThen \in Dirs
  /\ asked \in [Targets -> {"no", "accepted", "rejected"}]
  /\ told \in SUBSET Reports
  /\ dropped \in SUBSET Targets
  /\ faults \in SUBSET FaultKinds /\ Cardinality(faults) <= MaxFaults

Init ==
  /\ svc = "up" /\ running = Base /\ online = FALSE
  /\ runtime = TRUE /\ trigger = None /\ aged = FALSE /\ result = NoResult
  /\ wake = FALSE /\ pc = "off" /\ req = None /\ outcome = "failed"
  /\ install = Base /\ old = None /\ before = Base /\ units = Base /\ unitsThen = Base
  /\ asked = [t \in Targets |-> "no"] /\ told = {} /\ dropped = {} /\ faults = {}

Fault(kind) ==
  /\ kind \in FaultKinds \ faults /\ Cardinality(faults) < MaxFaults
  /\ faults' = faults \cup {kind}

NoFault == UNCHANGED faults

\* systemd drops the runtime directory with the files in it.
RemoveRuntime == runtime' = FALSE /\ trigger' = None /\ aged' = FALSE /\ result' = NoResult

\* PathChanged= starts the script.  A change while the script runs may be
\* missed, because its unit is active already.
PathChanged == IF pc = "off" THEN wake' = TRUE ELSE wake' \in BOOLEAN

-----------------------------------------------------------------------------
(* The bridge.                                                             *)

\* A session begins; it ends, or its loop is held up by a write or a print.
Connect ==
  /\ svc = "up" /\ ~online
  /\ online' = TRUE
  /\ UNCHANGED <<svc, running, fileVars, scriptVars, asked, told, dropped, faults>>

Disconnect ==
  /\ online
  /\ online' = FALSE
  /\ UNCHANGED <<svc, running, fileVars, scriptVars, asked, told, dropped, faults>>

\* An "update" message.  HandleUpdateAction refuses a payload that does not
\* match the patterns; otherwise the trigger is renamed into place.
RequestUpdate(t) ==
  /\ online /\ asked[t] = "no"
  /\ \/ /\ asked' = [asked EXCEPT ![t] = "accepted"]
        /\ runtime' = TRUE /\ trigger' = t /\ aged' = FALSE
        /\ PathChanged
        /\ UNCHANGED told
     \/ /\ asked' = [asked EXCEPT ![t] = "rejected"]
        /\ told' = told \cup {[status |-> "failed", target |-> t]}
        /\ UNCHANGED <<runtime, trigger, aged, wake>>
  /\ UNCHANGED <<svc, running, online, result, pc, req, outcome, install, old, before,
                 units, unitsThen, dropped>>
  /\ NoFault

\* Faulty: the watchdog acts only beside a result, and its report names the
\* version of the trigger.
StaleBesideResult == trigger # None /\ aged /\ result # NoResult
NamingReport == [status |-> "failed", target |-> trigger]

\* What the cloud learns of a request the watchdog removed: no version.
WatchdogReport == [status |-> "failed", target |-> None]

\* CheckWatchdog fires: a stale trigger with no result beside it.
Stale == trigger # None /\ aged /\ result = NoResult

\* A report is sent, or lost with a connection that broke unnoticed.
Report(r) ==
  \/ told' = told \cup {r} /\ NoFault
  \/ Fault("send") /\ UNCHANGED told

\* The script has copied the trigger and not removed it yet.
Copied == pc = "take" /\ req = trigger

\* The script has opened the result file and not closed it yet.
Closing == pc \in {"close", "close backup_failed"}

\* The session's ticker: the watchdog, then ConsumePendingUpdateResult.  The
\* watchdog's own result is consumed in the same tick and names no target; a
\* file without its text is no JSON, and removed like any other.
Tick ==
  /\ online
  /\ \/ /\ Stale
        /\ trigger' = None /\ aged' = FALSE
        /\ PathChanged
        /\ Report(WatchdogReport)
        /\ dropped' = IF Copied THEN dropped ELSE dropped \cup {trigger}
        /\ UNCHANGED result
     \/ /\ result # NoResult
        /\ result' = NoResult
        /\ IF result = Half THEN UNCHANGED told /\ NoFault ELSE Report(result)
        /\ dropped' = IF result = Half /\ Closing THEN dropped \cup {req} ELSE dropped
        /\ UNCHANGED <<trigger, aged, wake>>
  /\ UNCHANGED <<svc, running, online, runtime, pc, req, outcome, install, old, before,
                 units, unitsThen, asked>>

\* Fifteen minutes pass.
Age ==
  /\ trigger # None /\ ~aged
  /\ aged' = TRUE
  /\ UNCHANGED <<svc, running, online, runtime, trigger, result, scriptVars, asked, told,
                 dropped, faults>>

Crash ==
  /\ svc = "up" /\ Fault("crash")
  /\ svc' = "failed" /\ online' = FALSE
  /\ RemoveRuntime
  /\ UNCHANGED <<running, scriptVars, asked, told, dropped>>

\* systemctl start, or systemd's own start: nothing to do for a bridge that
\* runs; a directory that is not a complete version cannot be executed, which
\* a service of Type=simple does not tell the one who starts it.
StartBridge ==
  /\ svc' = IF svc = "up" \/ install \in Versions THEN "up" ELSE "failed"
  /\ running' = IF svc # "up" /\ install \in Versions THEN install ELSE running
  /\ runtime' = IF svc' = "up" THEN TRUE ELSE runtime
  /\ UNCHANGED <<online, trigger, aged, result>>

\* Restart=on-failure; also the start at boot.
AutoRestart ==
  /\ svc = "failed" /\ install \in Versions
  /\ StartBridge
  /\ UNCHANGED <<scriptVars, asked, told, dropped, faults>>

-----------------------------------------------------------------------------
(* The script.                                                             *)

Goto(label) == pc' = label /\ UNCHANGED <<wake, req, outcome, before>>

\* Faulty: a failed run falls through to the success at the end.
GiveUpAsSuccess(label) == pc' = label /\ outcome' = "success" /\ UNCHANGED <<wake, req, before>>

\* Faulty: a failed run ends without a result.
GiveUpQuietly(label) == pc' = "off" /\ UNCHANGED <<wake, req, outcome, before>>

\* The end of a failed run.
GiveUp(label) == pc' = label /\ outcome' = "failed" /\ UNCHANGED <<wake, req, before>>

KeepUnits  == UNCHANGED <<units, unitsThen>>
KeepDirs   == UNCHANGED <<install, old>> /\ KeepUnits
KeepBridge == UNCHANGED <<svc, running, online>>
KeepFiles  == UNCHANGED fileVars
KeepCloud  == UNCHANGED <<asked, told, dropped>>

\* The script is part of the installed version: without one there is nothing
\* to execute, and half a version may lack it.
Begin ==
  /\ wake /\ pc = "off"
  /\ wake' = FALSE
  /\ \/ Fault("tools") /\ UNCHANGED <<pc, runtime, before, unitsThen>>
     \/ NoFault /\ install \notin Versions /\ UNCHANGED <<pc, runtime, before, unitsThen>>
     \/ NoFault /\ install # None
        /\ pc' = "look" /\ runtime' = TRUE /\ before' = install /\ unitsThen' = units
  /\ KeepBridge
  /\ UNCHANGED <<trigger, aged, result, req, outcome, install, old, units>>
  /\ KeepCloud

\* cp "$TRIGGER": nothing to do without a trigger.
Look ==
  /\ pc = "look"
  /\ IF trigger = None THEN pc' = "off" /\ UNCHANGED req
                       ELSE pc' = "take" /\ req' = trigger
  /\ UNCHANGED <<wake, outcome, before>>
  /\ KeepDirs /\ KeepBridge /\ KeepFiles /\ KeepCloud /\ NoFault

\* rm -f "$TRIGGER": whatever is there by now.
Take ==
  /\ pc = "take"
  /\ pc' = "check"
  /\ trigger' = None /\ aged' = FALSE
  /\ PathChanged
  /\ UNCHANGED <<runtime, result, req, outcome, before>>
  /\ KeepDirs /\ KeepBridge /\ KeepCloud /\ NoFault

\* Validation, downloads, checksum, signature, unpacking.
Check ==
  /\ pc = "check"
  /\ Goto("clear") \/ GiveUp("write")
  /\ KeepDirs /\ KeepBridge /\ KeepFiles /\ KeepCloud /\ NoFault

\* rm -rf "$OLD"
Clear ==
  /\ pc = "clear"
  /\ Goto("stop")
  /\ old' = None /\ UNCHANGED install /\ KeepUnits
  /\ KeepBridge /\ KeepFiles /\ KeepCloud /\ NoFault

\* systemctl stop ... || true
Stop ==
  /\ pc = "stop"
  /\ Goto("backup")
  /\ \/ Fault("stop") /\ KeepFiles /\ UNCHANGED <<svc, online>>
     \/ NoFault /\ svc' = "stopped" /\ online' = FALSE
        /\ IF svc = "up" THEN RemoveRuntime ELSE KeepFiles
  /\ UNCHANGED running
  /\ KeepDirs /\ KeepCloud

\* Faulty: the old version is removed and not moved aside.
BackupRemoving ==
  /\ pc = "backup"
  /\ Goto("place") /\ NoFault
  /\ install' = None /\ UNCHANGED old /\ KeepUnits
  /\ KeepBridge /\ KeepFiles /\ KeepCloud

\* mv "$INSTALL" "$OLD"
Backup ==
  /\ pc = "backup"
  /\ \/ Goto("place") /\ NoFault
        /\ IF install = None THEN UNCHANGED <<install, old>> ELSE old' = install /\ install' = None
     \/ Fault("backup") /\ install # None /\ GiveUp("write backup_failed")
        /\ UNCHANGED <<install, old>>
  /\ KeepUnits /\ KeepBridge /\ KeepFiles /\ KeepCloud

\* mv "$EXTRACTED" "$INSTALL", from /tmp and so a copy that takes a while
Place ==
  /\ pc = "place"
  /\ Goto("placing")
  /\ install' = Partial /\ UNCHANGED old /\ KeepUnits
  /\ KeepBridge /\ KeepFiles /\ KeepCloud /\ NoFault

Placed ==
  /\ pc = "placing"
  /\ \/ Goto("units") /\ NoFault /\ install' = req
     \/ GiveUp("rollback") /\ Fault("place") /\ UNCHANGED install
  /\ UNCHANGED old /\ KeepUnits
  /\ KeepBridge /\ KeepFiles /\ KeepCloud

\* mv "$OLD" "$INSTALL" || true, after rm -rf "$INSTALL"
Restore ==
  /\ \/ NoFault /\ install' = old /\ old' = None
     \/ Fault("restore") /\ install' = None /\ UNCHANGED old
  /\ KeepUnits

\* Faulty: the rollback does not start the old version.
RollbackOnly ==
  /\ pc = "rollback"
  /\ Goto("write")
  /\ IF old = None THEN KeepDirs /\ NoFault ELSE Restore
  /\ KeepBridge /\ KeepFiles /\ KeepCloud

\* rollback
Rollback ==
  /\ pc = "rollback"
  /\ Goto("restart")
  /\ IF old = None THEN KeepDirs /\ NoFault ELSE Restore
  /\ KeepBridge /\ KeepFiles /\ KeepCloud

\* systemctl start ... || true
RestartOld(label, next) ==
  /\ pc = label
  /\ Goto(next)
  /\ \/ StartBridge /\ NoFault
     \/ Fault("start") /\ KeepBridge /\ KeepFiles
  /\ KeepDirs /\ KeepCloud

\* The loop over the unit files is cut off.
UnitsCutOff ==
  /\ units' \in IF pc = "units" THEN {units, req, Partial} ELSE {units}
  /\ UNCHANGED unitsThen

\* The unit files of the new version go to /etc/systemd/system, if it has any;
\* set -e ends the script on an error.
Units ==
  /\ pc = "units"
  /\ \/ Goto("start") /\ NoFault /\ units' \in {units, req} /\ UNCHANGED unitsThen
     \/ Goto("off") /\ Fault("units") /\ UnitsCutOff
  /\ UNCHANGED <<install, old>>
  /\ KeepBridge /\ KeepFiles /\ KeepCloud

StartNew ==
  /\ pc = "start"
  /\ \/ StartBridge /\ NoFault /\ Goto("drop")
     \/ Fault("start") /\ KeepBridge /\ KeepFiles /\ Goto("undo")
  /\ KeepDirs /\ KeepCloud

\* Faulty: the old directory does not come back.
UndoNothing ==
  /\ pc = "undo"
  /\ GiveUp("write")
  /\ KeepDirs /\ KeepBridge /\ KeepFiles /\ KeepCloud /\ NoFault

\* The start failed: the old directory comes back, and not the unit files.
Undo ==
  /\ pc = "undo"
  /\ GiveUp("write")
  /\ Restore
  /\ KeepBridge /\ KeepFiles /\ KeepCloud

\* rm -rf "$OLD"
Drop ==
  /\ pc = "drop"
  /\ pc' = "write" /\ outcome' = "success" /\ UNCHANGED <<wake, req, before>>
  /\ old' = None /\ UNCHANGED install /\ KeepUnits
  /\ KeepBridge /\ KeepFiles /\ KeepCloud /\ NoFault

\* write_result: open(path, "w") leaves an empty file; without the runtime
\* directory it fails, and set -e ends the script.
OpenResult(label, next) ==
  /\ pc = label
  /\ IF runtime THEN Goto(next) /\ result' = Half ELSE Goto("off") /\ UNCHANGED result
  /\ UNCHANGED <<runtime, trigger, aged>>
  /\ KeepDirs /\ KeepBridge /\ KeepCloud /\ NoFault

\* The text reaches the file with its close, unless the file was removed.
CloseResult(label, next) ==
  /\ pc = label
  /\ Goto(next)
  /\ result' = IF result = Half THEN [status |-> outcome, target |-> req] ELSE result
  /\ UNCHANGED <<runtime, trigger, aged>>
  /\ KeepDirs /\ KeepBridge /\ KeepCloud /\ NoFault

-----------------------------------------------------------------------------
(* TimeoutStartSec=, and a power failure.                                  *)

Kill ==
  /\ pc # "off" /\ Fault("kill")
  /\ Goto("off")
  /\ UNCHANGED <<install, old>> /\ UnitsCutOff
  /\ KeepBridge /\ KeepFiles /\ KeepCloud

PowerFailure ==
  /\ Fault("power")
  /\ svc' = "failed" /\ online' = FALSE
  /\ RemoveRuntime
  /\ pc' = "off" /\ wake' = FALSE
  /\ UnitsCutOff
  /\ UNCHANGED <<running, req, outcome, install, old, before>>
  /\ KeepCloud

ScriptStep ==
  \/ Begin \/ Look \/ Take \/ Check \/ Clear \/ Stop \/ Backup \/ Place \/ Placed
  \/ Rollback \/ RestartOld("restart", "write")
  \/ Units \/ StartNew \/ Undo \/ Drop
  \/ OpenResult("write", "close") \/ CloseResult("close", "off")
  \/ OpenResult("write backup_failed", "close backup_failed")
  \/ CloseResult("close backup_failed", "last") \/ RestartOld("last", "off")

Next ==
  \/ \E t \in Targets : RequestUpdate(t)
  \/ Connect \/ Disconnect \/ Tick \/ Age \/ Crash \/ AutoRestart
  \/ ScriptStep
  \/ Kill \/ PowerFailure

\* The script runs, the ticker of a session ticks, systemd restarts the bridge
\* and time passes.  Nothing makes the bridge connect or stay connected, so
\* that nothing is said of a trigger while the cloud is away.
Fairness ==
  /\ WF_vars(ScriptStep)
  /\ WF_vars(Tick) /\ WF_vars(Age) /\ WF_vars(AutoRestart)

Safety == Init /\ [][Next]_vars
Spec   == Safety /\ Fairness

-----------------------------------------------------------------------------
(* What an update promises.                                                *)

AtMostOneFault == Cardinality(faults) <= 1

\* A success that the cloud hears of is real: the version is installed, or
\* runs, at that moment.
SuccessTruthful ==
  [][AtMostOneFault => \A t \in Targets :
       [status |-> "success", target |-> t] \in told' \ told
         => install = t \/ running = t]_vars

\* A run that fails, for whatever single reason, leaves the version it found,
\* and unless it was the new bridge that did not start, the unit files too.
FailureRestores ==
  pc \in Writing /\ outcome = "failed" /\ AtMostOneFault =>
    /\ install = before
    /\ units = unitsThen \/ "start" \in faults

\* At every moment a complete version is on the disk, under one name or the
\* other, so that one fault never costs the last copy.
CopyKept == AtMostOneFault => install \in Versions \/ old \in Versions

\* A target is not reported as failed and as installed, and one that the
\* bridge has removed is never reported by its name: a trigger that the watchdog
\* gave up is not carried out afterwards, unless the script had copied it.
OneVerdict ==
  \A t \in Targets :
    /\ ~ {[status |-> s, target |-> t] : s \in {"failed", "success"}} \subseteq told
    /\ t \in dropped => \A r \in told : r.target # t

Heard(t) == \E r \in told : r.target = t

\* The script past its look at the trigger, with no result written yet.
Taken == Swapping \cup Writing \cup {"take", "check", "clear", "stop", "drop"}

\* A request on its way: in the trigger file, in the script or in the result.
InPlay(t) == trigger = t \/ (pc \in Taken /\ req = t) \/ result.target = t

\* The faults that take the script, the runtime directory or the report away.
Silencing == Kinds \ {"tools", "stop", "place"}

\* Short of those faults, a request that is accepted is answered, or is given
\* up by the watchdog, or its result is read before it is complete; or another
\* request was accepted, beside which triggers and results are lost.
SilenceExplained ==
  faults \cap Silencing = {} =>
    \A t \in Targets : asked[t] = "accepted" =>
      \/ InPlay(t) \/ Heard(t) \/ t \in dropped
      \/ \E u \in Targets \ {t} : asked[u] = "accepted"

\* The faults that end the script before it starts a bridge, or take away what
\* it could start.
LeavesBridgeDown == {"kill", "power", "backup", "restore", "units", "start"}

\* A bridge that crashed, or was stopped for a swap, comes back, also from a
\* swap that was rolled back.
BridgeComesBack ==
  svc # "up" ~> svc = "up" \/ faults \cap LeavesBridgeDown # {}

\* A request does not lie in the runtime directory for ever, as long as the
\* bridge stays in a session: if the script does not take it, because it cannot
\* run, is killed or is not started again, the watchdog does.
TriggerCleared == \A t \in Targets : trigger = t /\ online ~> trigger # t \/ ~online

-----------------------------------------------------------------------------
(* What documents and comments say and the code does not keep.             *)

\* backup_failed: the bridge is started again.
RestartedAfterFailedBackup == pc = "off" => svc # "stopped"
=============================================================================
