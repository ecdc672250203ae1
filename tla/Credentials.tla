---------------------------- MODULE Credentials ----------------------------
(***************************************************************************)
(* settings.json and the viewer credentials.  Two processes write the file *)
(* and neither locks it: the supervisor (settings.cpp, main.cpp:317-372 at *)
(* startup, 768-824 in its handlers) and the host (SettingsFile.cs, called *)
(* from App.xaml.cs and MainWindow.xaml.cs).  The credentials exist in six *)
(* places: the file, the memory of both processes, mediamtx.runtime.yml,   *)
(* the running mediamtx, and the rows from which the host copies URLs.     *)
(*                                                                         *)
(* A write is two steps, truncate and write, so that a kill or the other   *)
(* process can come in between.  A file that is missing or torn reads as   *)
(* the defaults (LoadSettings, HostSettings.Load).  User name and password *)
(* are one value; NoCred is the empty pair.                                *)
(***************************************************************************)
EXTENDS Naturals, Sequences

CONSTANTS
  Creds,         \* non-empty user/password pairs
  NoCred,        \* both empty
  DiskMayFail,   \* whether opening or writing a file can fail
  MaxCalls       \* bound: requests the host has sent and not had answered

ASSUME CredentialsAssumption ==
  /\ Creds # {} /\ NoCred \notin Creds
  /\ DiskMayFail \in BOOLEAN /\ MaxCalls \in Nat

VARIABLES
  file,     \* settings.json
  host,     \* App.Settings, the host's copy: loaded once, at its start
  hostPc,   \* what the host's UI thread is doing
  mem,      \* the supervisor's `settings`
  keep,     \* local of SaveSettings: the host's key it has read
  supPc,    \* what the supervisor's main or IPC thread is doing
  yml,      \* the credentials in mediamtx.runtime.yml, NoCred if it is cut short
  mtx,      \* mediamtx: running, and the credentials it accepts
  calls,    \* requests on the control pipe, in order
  rows,     \* viewer_user/viewer_pass of the host's rows
  lastOk,   \* history: credentials last applied, by a launch or an ok answer
  doubt,    \* history: credentials being applied, or answered with an error
  stale     \* history: credentials that settings changed in the host brought
            \* into the file (Save) or into memory (reload), since the launch

vars == <<file, host, hostPc, mem, keep, supPc, yml, mtx, calls, rows, lastOk,
          doubt, stale>>
supervisor == <<mem, keep, supPc, yml, mtx>>
history == <<lastOk, doubt, stale>>
-----------------------------------------------------------------------------
(* The file.                                                               *)

AllCreds == Creds \cup {NoCred}

File == [state : {"missing", "torn", "whole"}, notif : BOOLEAN,
         dflt : BOOLEAN, cred : AllCreds]

\* The key values found are the defaults unless the file is whole.
Unreadable(state) ==
  [state |-> state, notif |-> TRUE, dflt |-> TRUE, cred |-> NoCred]

\* HostSettings.Save writes all four keys from the host's memory.
HostImage(h) ==
  [state |-> "whole", notif |-> h.notif, dflt |-> h.dflt, cred |-> h.cred]

\* SaveSettings overlays the three keys the supervisor knows on what it read.
Merged(kept, m) ==
  [state |-> "whole", notif |-> kept, dflt |-> m.dflt, cred |-> m.cred]

Reload == [method |-> "reload", cred |-> NoCred]
Request == {Reload} \cup [method : {"credentials"}, cred : Creds]

Init ==
  /\ file \in {Unreadable("missing")}
              \cup {HostImage([notif |-> TRUE, dflt |-> TRUE, cred |-> c]) :
                      c \in AllCreds}
  /\ host = [notif |-> TRUE, dflt |-> TRUE, cred |-> NoCred] /\ hostPc = "off"
  /\ mem = [dflt |-> TRUE, cred |-> NoCred] /\ keep = TRUE /\ supPc = "off"
  /\ yml = NoCred /\ mtx = [running |-> FALSE, cred |-> NoCred]
  /\ calls = <<>> /\ rows = NoCred
  /\ lastOk = NoCred /\ doubt = {} /\ stale = {}

-----------------------------------------------------------------------------
(* While one process has the file open for writing the other cannot open it *)
(* for writing, but can read what is there.                                *)

OpenByHost == hostPc \in {"saving", "firstSaving"}
OpenBySupervisor == supPc \in {"genWrite", "credWrite"}

-----------------------------------------------------------------------------
(* The host.                                                               *)

\* App.OnStartup: its settings are loaded before it launches the supervisor.
HostStarts ==
  /\ hostPc = "off"
  /\ host' = [notif |-> file.notif, dflt |-> file.dflt, cred |-> file.cred]
  /\ hostPc' = "starting" /\ supPc' = "load"
  /\ UNCHANGED <<file, mem, keep, yml, mtx, calls, rows, history>>

\* The pipe is there: get-status fills the rows; a missing settings.json is
\* written for the first time.
HostConnects ==
  /\ hostPc = "starting" /\ supPc = "up"
  /\ rows' = mem.cred
  /\ hostPc' = IF file.state = "missing" THEN "firstSave" ELSE "idle"
  /\ UNCHANGED <<file, host, supervisor, calls, history>>

\* A check box or the tray's notification item: memory first, then Save and
\* reload-settings.
Toggle ==
  /\ hostPc = "idle" /\ Len(calls) < MaxCalls
  /\ \E n, d \in BOOLEAN : host' = [host EXCEPT !.notif = n, !.dflt = d]
  /\ host' # host
  /\ hostPc' = "save"
  /\ UNCHANGED <<file, supervisor, calls, rows, history>>

\* File.WriteAllText shares the file with readers only and truncates it.
HostSaveBegins ==
  /\ hostPc \in {"save", "firstSave"} /\ ~OpenBySupervisor
  /\ hostPc' = IF hostPc = "save" THEN "saving" ELSE "firstSaving"
  /\ file' = Unreadable("torn") /\ stale' = stale \cup {host.cred}
  /\ UNCHANGED <<host, supervisor, calls, rows, lastOk, doubt>>

\* A failure to open or to write is swallowed; the tray item sends
\* reload-settings all the same, the window's check boxes do not.
HostSaveFails ==
  /\ hostPc \in {"save", "firstSave", "saving", "firstSaving"}
  /\ DiskMayFail \/ OpenBySupervisor
  /\ \/ UNCHANGED calls
     \/ /\ hostPc \in {"save", "saving"} /\ supPc # "off"
        /\ calls' = Append(calls, Reload)
  /\ hostPc' = "idle"
  /\ UNCHANGED <<file, host, supervisor, rows, history>>

HostSaveEnds ==
  /\ OpenByHost
  /\ file' = HostImage(host)
  /\ calls' = IF hostPc = "saving" /\ supPc # "off"
              THEN Append(calls, Reload) ELSE calls
  /\ hostPc' = "idle"
  /\ UNCHANGED <<host, supervisor, rows, history>>

\* ApplyCredentials_Click: the form is awaited, so the UI stays usable.
ApplyCredentials(c) ==
  /\ hostPc = "idle" /\ supPc # "off" /\ Len(calls) < MaxCalls
  /\ calls' = Append(calls, [method |-> "credentials", cred |-> c])
  /\ UNCHANGED <<file, host, hostPc, supervisor, rows, history>>

\* A camera-state-changed event or a poll carries the supervisor's copy.
RowsRefreshed ==
  /\ hostPc \notin {"off", "starting"} /\ supPc = "up"
  /\ rows' = mem.cred
  /\ UNCHANGED <<file, host, hostPc, supervisor, calls, history>>

-----------------------------------------------------------------------------
(* SaveSettings, called at startup and by set-viewer-credentials.          *)

SaveReads ==
  /\ supPc \in {"genRead", "credRead"}
  /\ keep' = file.notif
  /\ supPc' = IF supPc = "genRead" THEN "genTruncate" ELSE "credTruncate"
  /\ UNCHANGED <<file, host, hostPc, mem, yml, mtx, calls, rows, history>>

SaveTruncates ==
  /\ supPc \in {"genTruncate", "credTruncate"} /\ ~OpenByHost
  /\ file' = Unreadable("torn")
  /\ supPc' = IF supPc = "genTruncate" THEN "genWrite" ELSE "credWrite"
  /\ UNCHANGED <<host, hostPc, mem, keep, yml, mtx, calls, rows, history>>

\* The file cannot be opened.  At startup that is a warning; the handler
\* answers with an error and leaves memory as it is.
SaveFailsFallsThrough ==                            \* mutant
  /\ DiskMayFail \/ OpenByHost
  /\ \/ supPc = "genTruncate" /\ supPc' = "yml" /\ UNCHANGED calls
     \/ supPc = "credTruncate" /\ supPc' = "credYml" /\ calls' = Tail(calls)
  /\ UNCHANGED <<file, host, hostPc, mem, keep, yml, mtx, rows, history>>
SaveFails ==
  /\ DiskMayFail \/ OpenByHost
  /\ \/ supPc = "genTruncate" /\ supPc' = "yml" /\ UNCHANGED calls
     \/ supPc = "credTruncate" /\ supPc' = "up" /\ calls' = Tail(calls)
  /\ UNCHANGED <<file, host, hostPc, mem, keep, yml, mtx, rows, history>>

\* The result of the write itself is not looked at.
SaveWrites ==
  /\ OpenBySupervisor
  /\ file' = Merged(keep, mem) \/ (DiskMayFail /\ UNCHANGED file)
  /\ supPc' = IF supPc = "genWrite" THEN "yml" ELSE "credYml"
  /\ UNCHANGED <<host, hostPc, mem, keep, yml, mtx, calls, rows, history>>

-----------------------------------------------------------------------------
(* The supervisor's startup.                                               *)

Loads ==
  /\ supPc = "load"
  /\ IF file.cred = NoCred
     THEN \E c \in Creds :
            /\ mem' = [dflt |-> file.dflt, cred |-> c]
            /\ supPc' = "genRead" /\ doubt' = doubt \cup {c}
     ELSE /\ mem' = [dflt |-> file.dflt, cred |-> file.cred]
          /\ supPc' = "yml" /\ UNCHANGED doubt
  /\ UNCHANGED <<file, host, hostPc, keep, yml, mtx, calls, rows, lastOk, stale>>

\* writeRuntimeYml.  The result of the write itself is not looked at; a file
\* that cannot be opened is exit code 2 (Dies).
WriteRuntimeYml == yml' = mem.cred \/ (DiskMayFail /\ yml' = NoCred)

WritesYml ==
  /\ supPc = "yml"
  /\ WriteRuntimeYml /\ supPc' = "mtx"
  /\ UNCHANGED <<file, host, hostPc, mem, keep, mtx, calls, rows, history>>

StartsMtx ==
  /\ supPc = "mtx"
  /\ mtx' = [running |-> TRUE, cred |-> yml] /\ supPc' = "up"
  /\ lastOk' = mem.cred /\ doubt' = {} /\ stale' = {}
  /\ UNCHANGED <<file, host, hostPc, mem, keep, yml, calls, rows>>

-----------------------------------------------------------------------------
(* The supervisor's handlers, one request at a time under state_mutex.     *)

ReloadSettings ==
  /\ supPc = "up" /\ calls # <<>> /\ Head(calls).method = "reload"
  /\ mem' = [dflt |-> file.dflt, cred |-> file.cred]
  /\ calls' = Tail(calls) /\ stale' = stale \cup {file.cred}
  /\ UNCHANGED <<file, host, hostPc, keep, supPc, yml, mtx, rows, lastOk, doubt>>

\* Memory is changed before anything is written.
CredMemoryAfterSave(c) == UNCHANGED mem             \* mutant
CredMemory(c) == mem' = [mem EXCEPT !.cred = c]

SetViewerCredentials ==
  /\ supPc = "up" /\ calls # <<>> /\ Head(calls).method = "credentials"
  /\ CredMemory(Head(calls).cred)
  /\ supPc' = "credRead" /\ doubt' = doubt \cup {Head(calls).cred}
  /\ UNCHANGED <<file, host, hostPc, keep, yml, mtx, calls, rows, lastOk, stale>>

CredYml ==
  /\ supPc = "credYml"
  /\ \/ WriteRuntimeYml /\ supPc' = "credMtx" /\ UNCHANGED calls
     \/ DiskMayFail /\ UNCHANGED yml /\ supPc' = "up" /\ calls' = Tail(calls)
  /\ UNCHANGED <<file, host, hostPc, mem, keep, mtx, rows, history>>

\* Stop and start, whatever the backoff says; then the wait for the port.
CredRestartIfDown ==                                \* mutant
  /\ supPc = "credMtx"
  /\ mtx' = IF mtx.running THEN mtx ELSE [running |-> TRUE, cred |-> yml]
  /\ supPc' = "credWait"
  /\ UNCHANGED <<file, host, hostPc, mem, keep, yml, calls, rows, history>>
CredRestart ==
  /\ supPc = "credMtx"
  /\ mtx' = [running |-> TRUE, cred |-> yml]
  /\ supPc' = "credWait"
  /\ UNCHANGED <<file, host, hostPc, mem, keep, yml, calls, rows, history>>

\* cameras-changed, with the new credentials in every row, then the answer.
CredAnswerSilent ==                                 \* mutant
  /\ supPc = "credWait"
  /\ UNCHANGED rows
  /\ supPc' = "up" /\ calls' = Tail(calls)
  /\ lastOk' = Head(calls).cred /\ doubt' = {}
  /\ UNCHANGED <<file, host, hostPc, mem, keep, yml, mtx, stale>>
CredAnswer ==
  /\ supPc = "credWait"
  /\ rows' = IF hostPc \in {"off", "starting"} THEN rows ELSE mem.cred
  /\ supPc' = "up" /\ calls' = Tail(calls)
  /\ lastOk' = Head(calls).cred /\ doubt' = {}
  /\ UNCHANGED <<file, host, hostPc, mem, keep, yml, mtx, stale>>

-----------------------------------------------------------------------------
(* Failures.                                                               *)

MtxExits ==
  /\ mtx.running
  /\ mtx' = [mtx EXCEPT !.running = FALSE]
  /\ UNCHANGED <<file, host, hostPc, mem, keep, supPc, yml, calls, rows,
                 history>>

\* The tick restarts mediamtx, which reads the yml again.
MtxRestarts ==
  /\ supPc = "up" /\ ~mtx.running
  /\ mtx' = [running |-> TRUE, cred |-> yml]
  /\ UNCHANGED <<file, host, hostPc, mem, keep, supPc, yml, calls, rows,
                 history>>

\* The supervisor dies, with its children; the host does not launch another.
Dies ==
  /\ supPc # "off"
  /\ supPc' = "off" /\ calls' = <<>> /\ mtx' = [mtx EXCEPT !.running = FALSE]
  /\ UNCHANGED <<file, host, hostPc, mem, keep, yml, rows, history>>

\* The host exits or dies; the supervisor is in its job object.
HostDies ==
  /\ hostPc # "off"
  /\ hostPc' = "off" /\ rows' = NoCred
  /\ supPc' = "off" /\ calls' = <<>> /\ mtx' = [mtx EXCEPT !.running = FALSE]
  /\ UNCHANGED <<file, host, mem, keep, yml, history>>

HostSteps ==
  \/ HostStarts \/ HostConnects \/ Toggle
  \/ HostSaveBegins \/ HostSaveFails \/ HostSaveEnds \/ RowsRefreshed
  \/ \E c \in Creds : ApplyCredentials(c)

SupervisorSteps ==
  \/ SaveReads \/ SaveTruncates \/ SaveFails \/ SaveWrites
  \/ Loads \/ WritesYml \/ StartsMtx
  \/ ReloadSettings \/ SetViewerCredentials
  \/ CredYml \/ CredRestart \/ CredAnswer

Failures == MtxExits \/ MtxRestarts \/ Dies \/ HostDies

Next == HostSteps \/ SupervisorSteps \/ Failures

Spec == Init /\ [][Next]_vars
-----------------------------------------------------------------------------
(* Properties.                                                             *)

SupervisorPcs == {"off", "load", "genRead", "genTruncate", "genWrite", "yml",
  "mtx", "up", "credRead", "credTruncate", "credWrite", "credYml", "credMtx",
  "credWait"}

Serving == {"credRead", "credTruncate", "credWrite", "credYml", "credMtx",
            "credWait"}

TypeOK ==
  /\ file \in File
  /\ host \in [notif : BOOLEAN, dflt : BOOLEAN, cred : AllCreds]
  /\ hostPc \in {"off", "starting", "idle", "save", "saving", "firstSave",
                 "firstSaving"}
  /\ mem \in [dflt : BOOLEAN, cred : AllCreds] /\ keep \in BOOLEAN
  /\ supPc \in SupervisorPcs
  /\ yml \in AllCreds /\ mtx \in [running : BOOLEAN, cred : AllCreds]
  /\ calls \in Seq(Request) /\ (supPc \in Serving => calls # <<>>)
  /\ rows \in AllCreds /\ lastOk \in AllCreds /\ doubt \subseteq Creds
  /\ stale \subseteq AllCreds

\* What viewers must log in with is what was last applied, unless the yml was
\* cut short by a full disk: an error answer leaves it alone wherever the
\* handler failed, and no write of the host, reload or restart of mediamtx by
\* the tick changes it (main.cpp:779-808).
AcceptedIsLastOk ==
  supPc = "up" /\ mtx.running /\ yml # NoCred => mtx.cred = lastOk

\* The credentials a relaunch would load are the applied ones, those of a
\* request that was cut short or failed half-way, or those the host loaded at
\* its start and wrote back when a setting was changed (SettingsFile.cs:83);
\* main.cpp:317-323 persists them "so subsequent restarts are stable".
FileKeepsApplied ==
  file.cred # NoCred /\ lastOk # NoCred
  => file.cred \in {lastOk} \cup doubt \cup stale

\* The URL of the Copy button opens: rows carry the credentials mediamtx
\* accepts (CameraInfo.cs:49-52), or those a reload brought in (main.cpp:816),
\* unless the last request was answered with an error or the yml was cut short.
CopiedUrlAccepted ==
  /\ supPc = "up" /\ hostPc \notin {"off", "starting"} /\ mtx.running
  /\ doubt = {} /\ yml # NoCred
  => rows \in {mtx.cred} \cup stale

=============================================================================
