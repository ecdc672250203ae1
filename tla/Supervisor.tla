----------------------------- MODULE Supervisor -----------------------------
(***************************************************************************)
(* The supervisor process of webcam-streamer: src/supervisor/src/main.cpp. *)
(*                                                                         *)
(* The process owns a list of camera slots (`slots`), one ffmpeg publisher *)
(* per slot and one mediamtx server.  Four kinds of threads work on it:    *)
(*   - the supervision loop (`loopPc`): every 500 ms a tick restarts what  *)
(*     died; every 10 s the USB bus is enumerated and compared with slots; *)
(*   - the IPC thread: one request at a time, the whole handler under      *)
(*     state_mutex (actions RestartCamera ... ShutdownRequest);            *)
(*   - the events thread: viewer hooks from mediamtx (Hook, HookPublish);  *)
(*   - the environment: cameras plugged and unplugged, children dying,     *)
(*     time passing, the process killed.                                   *)
(*                                                                         *)
(* state_mutex is not a variable: it is held by the loop exactly while     *)
(* loopPc is in Locked, and by the IPC thread while it waits for mediamtx. *)
(* Handlers that do not wait are one atomic action; a child that dies      *)
(* between two reads of IsRunning inside such a section is an \E of the    *)
(* action (Survives).                                                      *)
(*                                                                         *)
(* Abstracted: names are model values, the path /webcamN is N, the backoff *)
(* clock is the boolean `due` (module Backoff gives it its arithmetic),    *)
(* codec settings are left out.                                            *)
(***************************************************************************)
EXTENDS Naturals, Sequences, SequencesExt

CONSTANTS
  Names,        \* friendly names a camera can have
  FirstBus,     \* the cameras attached when the supervisor is first launched
  Pluggable,    \* names whose devices are plugged and unplugged at run time
  Crashable,    \* names whose publisher can exit by itself or fail to start
  Addressed,    \* names clients send requests about
  MaxDevices,   \* bound: devices attached at the same time
  MaxViewers,   \* bound: viewer_count of a slot
  HookPaths,    \* paths named by the viewer hooks
  Defaults,     \* values the host writes for new cameras
  EnumMayFail,  \* whether ffmpeg -list_devices can fail
  DiskMayFail,  \* whether writing an override file can fail
  MtxMayFail    \* whether mediamtx can exit, or fail to start

ASSUME ConstantsAssumption ==
  /\ FirstBus \in Seq(Names)
  /\ Pluggable \subseteq Names /\ Crashable \subseteq Names
  /\ Addressed \subseteq Names
  /\ MaxDevices \in Nat /\ MaxViewers \in Nat /\ HookPaths \subseteq Nat
  /\ Defaults \subseteq BOOLEAN
  /\ EnumMayFail \in BOOLEAN /\ DiskMayFail \in BOOLEAN
  /\ MtxMayFail \in BOOLEAN

VARIABLES
  bus,       \* attached devices, by friendly name, in enumeration order
  disk,      \* probes/<slug>.override.txt: {} no `enabled` line, {b} enabled=b
  diskDflt,  \* default_enabled_for_new_cameras in settings.json
  dflt,      \* the supervisor's in-memory copy of it
  slots,     \* std::vector<CamSlot>
  mtx,       \* the mediamtx child: running, and its backoff elapsed
  stop,      \* g_stop
  loopPc,    \* where the main thread is
  idx,       \* slot the tick looks at next
  scan,      \* locals of the re-enumeration
  ipcPc,     \* "idle", or "credWait" in set-viewer-credentials
  inflight,  \* snapshot the events thread has taken and not yet published
  told,      \* per name, the row a client has after all events published: {} none
  drift,     \* history: why told[n] may differ from the slot
  unsaved    \* history: names whose last enabled setting was not written

vars == <<bus, disk, diskDflt, dflt, slots, mtx, stop, loopPc, idx, scan,
          ipcPc, inflight, told, drift, unsaved>>

history == <<drift, unsaved>>

-----------------------------------------------------------------------------
(* Data.                                                                   *)

Slot == [name : Names, path : Nat, enabled : BOOLEAN, present : BOOLEAN,
         running : BOOLEAN,   \* proc->IsRunning()
         last : BOOLEAN,      \* last_running
         count : Nat,         \* viewer_count
         due : BOOLEAN]       \* now >= backoff.earliest_next

\* What CamToJson says of a slot, as far as a client can get it wrong.
Row == [running : BOOLEAN, enabled : BOOLEAN, count : Nat]

CamToJson(s) == [running |-> s.running, enabled |-> s.enabled, count |-> s.count]

NoScan == [current |-> <<>>, fresh |-> {}, known |-> {}, changed |-> FALSE]

Down == {"off", "exit3", "exit4", "exited"}   \* no supervisor process
LoopStates == Down \cup {"top", "sleep", "mtxWait", "slots", "phase2",
               "diff", "formats", "append", "stopIpc", "stopEvents",
               "stopChildren"}

Locked == {"mtxWait", "slots", "append"}
MutexFree == loopPc \notin Locked /\ ipcPc = "idle"

\* The IPC thread serves requests until ipc.Stop; the events thread until
\* events.Stop.
IpcUp == loopPc \notin Down \cup {"stopEvents", "stopChildren"}
EventsUp == loopPc \notin Down \cup {"stopChildren"}
Serving == IpcUp /\ MutexFree

KnownNames == {slots[i].name : i \in DOMAIN slots}
Paths == {slots[i].path : i \in DOMAIN slots}

\* std::find_if over slots by friendly_name: the first match.
IsSlotOf(i, n) ==
  i \in DOMAIN slots /\ slots[i].name = n
  /\ \A j \in 1..(i - 1) : slots[j].name # n

\* IsRunning of a child started or sampled a moment ago.
Survives(n) == IF n \in Crashable THEN BOOLEAN ELSE {TRUE}

\* LoadOverride, then the settings default.
ResolveEnabledNoOverride(n, default) == default     \* mutant
ResolveEnabled(n, default) ==
  IF disk[n] = {} THEN default ELSE TRUE \in disk[n]

-----------------------------------------------------------------------------
(* The children.                                                           *)

StopProc(s) == [s EXCEPT !.running = FALSE]

\* A fresh SupervisedProcess and Backoff{}; viewer_count reset.
RebuildSlot(s) == [s EXCEPT !.running = FALSE, !.due = TRUE, !.count = 0]

\* Never starts anything once g_stop is set.
StartUnguarded(s, ok) == [s EXCEPT !.running = ok, !.due = FALSE]  \* mutant
StartNoSleep(s, ok) ==
  IF stop THEN s ELSE [s EXCEPT !.running = ok, !.due = FALSE]

NewSlot(n, p, default) ==
  [name |-> n, path |-> p, enabled |-> ResolveEnabled(n, default), present |-> TRUE,
   running |-> FALSE, last |-> FALSE, count |-> 0, due |-> TRUE]

\* A camera left, or came back, between two enumerations.
MarkAbsentFreeingPath(s) ==                         \* mutant
  [StopProc(s) EXCEPT !.present = FALSE, !.path = 0]
MarkAbsent(s) == [StopProc(s) EXCEPT !.present = FALSE]

ReturnedIfEnabled(s, listed) ==                     \* mutant
  ~s.present /\ s.enabled /\ s.name \in listed
Returned(s, listed) == ~s.present /\ s.name \in listed

MarkPresentAlwaysStart(s, ok) ==                    \* mutant
  StartNoSleep(RebuildSlot([s EXCEPT !.present = TRUE]), ok)
MarkPresent(s, ok) ==
  IF s.enabled THEN StartNoSleep(RebuildSlot([s EXCEPT !.present = TRUE]), ok)
  ELSE [s EXCEPT !.present = TRUE]

\* The tick restarts a wanted publisher.
RestartDueOnEdge(s) == ~s.running /\ s.due /\ s.last  \* mutant
RestartDue(s) == ~s.running /\ s.due

StartIfEnabled(s, ok) == IF s.enabled THEN StartNoSleep(s, ok) ELSE s

StartMtx(m, ok) == IF stop THEN m ELSE [running |-> ok, due |-> FALSE]
MtxStarts == IF MtxMayFail THEN BOOLEAN ELSE {TRUE}

-----------------------------------------------------------------------------
(* What clients have been told.  A camera-state-changed event replaces the *)
(* row of its name if the client has one; cameras-changed replaces all.    *)

Tell(n, row) ==
  /\ told' = [told EXCEPT ![n] = IF @ = {} THEN {} ELSE {row}]
  /\ drift' = [drift EXCEPT ![n] = {}]

TellAll(ss) ==
  /\ told' = [n \in Names |->
                {CamToJson(ss[i]) : i \in {j \in DOMAIN ss : ss[j].name = n}}]
  /\ drift' = [n \in Names |-> {}]

TellNothing == UNCHANGED <<told, drift>>

-----------------------------------------------------------------------------
(* Startup.                                                                *)

Init ==
  /\ bus = FirstBus
  /\ disk = [n \in Names |-> {}] /\ diskDflt = TRUE /\ dflt = TRUE
  /\ slots = <<>> /\ mtx = [running |-> FALSE, due |-> TRUE]
  /\ stop = FALSE /\ loopPc = "off" /\ idx = 1 /\ scan = NoScan
  /\ ipcPc = "idle" /\ inflight = {}
  /\ told = [n \in Names |-> {}]
  /\ drift = [n \in Names |-> {}] /\ unsaved = {}

\* What ffmpeg -list_devices yields: a failed run is an empty list.
EnumerateCameras(seen) == seen = bus \/ (EnumMayFail /\ seen = <<>>)

\* main up to the loop.  The host's client connects and lists the cameras.
Launch ==
  /\ loopPc \in Down
  /\ stop' = FALSE /\ dflt' = diskDflt
  /\ \E seen \in {bus, <<>>}, ok \in [DOMAIN bus -> BOOLEAN] :
       /\ EnumerateCameras(seen) /\ seen # <<>>
       /\ \A i \in DOMAIN bus : ok[i] \in Survives(bus[i])
       /\ slots' = [i \in DOMAIN seen |->
            LET s == NewSlot(seen[i], i - 1, diskDflt)
                up == s.enabled /\ ok[i]
            IN  [s EXCEPT !.running = up, !.last = up, !.due = ~s.enabled]]
  /\ mtx' = [running |-> TRUE, due |-> FALSE]
  /\ loopPc' = "top"
  /\ TellAll(slots')
  /\ UNCHANGED <<bus, disk, diskDflt, idx, scan, ipcPc, inflight, unsaved>>

\* No camera: return 3.  mediamtx not ready in 10 s: return 4; the job
\* object takes mediamtx along.
LaunchFails ==
  /\ loopPc \in Down
  /\ stop' = FALSE /\ dflt' = diskDflt
  /\ \E seen \in {bus, <<>>} :
       /\ EnumerateCameras(seen)
       /\ loopPc' = IF seen = <<>> THEN "exit3" ELSE "exit4"
       /\ seen = <<>> \/ MtxMayFail
  /\ slots' = <<>> /\ mtx' = [running |-> FALSE, due |-> TRUE]
  /\ UNCHANGED <<bus, disk, diskDflt, idx, scan, ipcPc, inflight, history, told>>

\* The process ends without its shutdown sequence.  Children are in its job
\* object; clients lose their pipe.
Kill ==
  /\ loopPc \notin Down
  /\ loopPc' = "off" /\ slots' = <<>> /\ mtx' = [running |-> FALSE, due |-> TRUE]
  /\ stop' = FALSE /\ idx' = 1 /\ scan' = NoScan /\ ipcPc' = "idle"
  /\ inflight' = {} /\ TellAll(<<>>)
  /\ UNCHANGED <<bus, disk, diskDflt, dflt, unsaved>>

-----------------------------------------------------------------------------
(* Environment.                                                            *)

Plug(n) ==
  /\ n \in Pluggable /\ Len(bus) < MaxDevices
  /\ bus' = Append(bus, n)
  /\ UNCHANGED <<disk, diskDflt, dflt, slots, mtx, stop, loopPc, idx, scan,
                 ipcPc, inflight, told, history>>

Unplug(i) ==
  /\ i \in DOMAIN bus /\ bus[i] \in Pluggable
  /\ bus' = RemoveAt(bus, i)
  /\ UNCHANGED <<disk, diskDflt, dflt, slots, mtx, stop, loopPc, idx, scan,
                 ipcPc, inflight, told, history>>

PublisherExits(i) ==
  /\ i \in DOMAIN slots /\ slots[i].running /\ slots[i].name \in Crashable
  /\ slots' = [slots EXCEPT ![i] = StopProc(@)]
  /\ UNCHANGED <<bus, disk, diskDflt, dflt, mtx, stop, loopPc, idx, scan,
                 ipcPc, inflight, told, history>>

MtxExits ==
  /\ mtx.running /\ MtxMayFail
  /\ mtx' = [mtx EXCEPT !.running = FALSE]
  /\ UNCHANGED <<bus, disk, diskDflt, dflt, slots, stop, loopPc, idx, scan,
                 ipcPc, inflight, told, history>>

BackoffElapses(i) ==
  /\ i \in DOMAIN slots /\ ~slots[i].due
  /\ slots' = [slots EXCEPT ![i].due = TRUE]
  /\ UNCHANGED <<bus, disk, diskDflt, dflt, mtx, stop, loopPc, idx, scan,
                 ipcPc, inflight, told, history>>

MtxBackoffElapses ==
  /\ loopPc \notin Down /\ ~mtx.due
  /\ mtx' = [mtx EXCEPT !.due = TRUE]
  /\ UNCHANGED <<bus, disk, diskDflt, dflt, slots, stop, loopPc, idx, scan,
                 ipcPc, inflight, told, history>>

\* The host application rewrites settings.json.
HostSavesDefault(b) ==
  /\ diskDflt' = b
  /\ UNCHANGED <<bus, disk, dflt, slots, mtx, stop, loopPc, idx, scan, ipcPc,
                 inflight, told, history>>

-----------------------------------------------------------------------------
(* IPC handlers.                                                           *)

\* The tail of every handler that touches a child: publish the row, then
\* record IsRunning.  The child may die between the two reads.
PublishThenRecord(i, s, still) ==
  LET up == s.running /\ still
  IN  /\ slots' = [slots EXCEPT ![i] = [s EXCEPT !.running = up, !.last = up]]
      /\ Tell(s.name, CamToJson(s))

\* Stop, rebuild, start; used by restart-camera and set-mode, whatever the
\* slot's enabled and present say.
Relaunch(i) ==
  \E ok, still \in Survives(slots[i].name) :
    PublishThenRecord(i, StartNoSleep(RebuildSlot(slots[i]), ok), still)

RestartCamera(n) ==
  /\ Serving
  /\ \E i \in DOMAIN slots : IsSlotOf(i, n) /\ Relaunch(i)
  /\ UNCHANGED <<bus, disk, diskDflt, dflt, mtx, stop, loopPc, idx, scan,
                 ipcPc, inflight, unsaved>>

\* The override file gets the new mode; SaveOverride keeps its `enabled`.
SetMode(n) ==
  /\ Serving
  /\ \E i \in DOMAIN slots : IsSlotOf(i, n) /\ Relaunch(i)
  /\ UNCHANGED <<bus, disk, diskDflt, dflt, mtx, stop, loopPc, idx, scan,
                 ipcPc, inflight, unsaved>>

\* SaveOverride with only `enabled` set.
SaveEnabled(n, want) ==
  \/ disk' = [disk EXCEPT ![n] = {want}] /\ unsaved' = unsaved \ {n}
  \/ DiskMayFail /\ UNCHANGED disk /\ unsaved' = unsaved \cup {n}

SetStreamEnabled(n, want) ==
  /\ Serving
  /\ \E i \in DOMAIN slots, ok, still \in Survives(n) :
       /\ IsSlotOf(i, n)
       /\ SaveEnabled(n, want)
       /\ LET s == [slots[i] EXCEPT !.enabled = want]
              t == CASE want /\ s.present -> StartNoSleep(RebuildSlot(s), ok)
                     [] want /\ ~s.present -> s
                     [] OTHER -> StopProc(s)
          IN  PublishThenRecord(i, t, still)
  /\ UNCHANGED <<bus, diskDflt, dflt, mtx, stop, loopPc, idx, scan, ipcPc,
                 inflight>>

\* Once settings and yml are written: restart mediamtx and wait for its
\* port, state_mutex held throughout.  (A failed write changes nothing here.)
SetViewerCredentials ==
  /\ Serving
  /\ \E ok \in MtxStarts : mtx' = StartMtx([mtx EXCEPT !.running = FALSE], ok)
  /\ ipcPc' = "credWait"
  /\ UNCHANGED <<bus, disk, diskDflt, dflt, slots, stop, loopPc, idx, scan,
                 inflight, told, history>>

\* WaitForRtspReady returned: port open, 10 s over, or g_stop.
CredentialsApplied ==
  /\ ipcPc = "credWait"
  /\ ipcPc' = "idle"
  /\ TellAll(slots)
  /\ UNCHANGED <<bus, disk, diskDflt, dflt, slots, mtx, stop, loopPc, idx,
                 scan, inflight, unsaved>>

ReloadSettings ==
  /\ Serving
  /\ dflt' = diskDflt
  /\ UNCHANGED <<bus, disk, diskDflt, slots, mtx, stop, loopPc, idx, scan,
                 ipcPc, inflight, told, history>>

ShutdownRequest ==
  /\ Serving
  /\ stop' = TRUE
  /\ UNCHANGED <<bus, disk, diskDflt, dflt, slots, mtx, loopPc, idx, scan,
                 ipcPc, inflight, told, history>>

\* Ctrl-C, console close: the handler needs no lock.
ConsoleCtrl ==
  /\ loopPc \notin Down /\ ~stop
  /\ stop' = TRUE
  /\ UNCHANGED <<bus, disk, diskDflt, dflt, slots, mtx, loopPc, idx, scan,
                 ipcPc, inflight, told, history>>

-----------------------------------------------------------------------------
(* The events thread: count under the lock, publish after it.              *)

ViewerCountNoFloor(s, kind) ==                      \* mutant
  [s EXCEPT !.count = IF kind = "read" THEN @ + 1 ELSE @ - 1]
ViewerCount(s, kind) ==
  [s EXCEPT !.count = IF kind = "read" THEN @ + 1 ELSE IF @ > 0 THEN @ - 1 ELSE 0]

Hook(kind, p) ==
  /\ EventsUp /\ MutexFree /\ inflight = {}
  /\ \E i \in DOMAIN slots :
       /\ slots[i].path = p
       /\ kind = "read" => slots[i].count < MaxViewers
       /\ LET s == ViewerCount(slots[i], kind)
          IN  /\ slots' = [slots EXCEPT ![i] = s]
              /\ inflight' = {[name |-> s.name, row |-> CamToJson(s)]}
  /\ UNCHANGED <<bus, disk, diskDflt, dflt, mtx, stop, loopPc, idx, scan,
                 ipcPc, told, history>>

\* The row published is the snapshot; if the slot moved on meanwhile, the
\* client now has an old row (recorded in drift).
HookPublish ==
  /\ EventsUp
  /\ \E ev \in inflight :
       /\ told' = [told EXCEPT ![ev.name] = IF @ = {} THEN {} ELSE {ev.row}]
       /\ drift' = [drift EXCEPT ![ev.name] =
            IF \E i \in DOMAIN slots :
                 /\ slots[i].name = ev.name
                 /\ slots[i].enabled = ev.row.enabled
                 /\ slots[i].count = ev.row.count
            THEN {} ELSE {"overtaken"}]
  /\ inflight' = {}
  /\ UNCHANGED <<bus, disk, diskDflt, dflt, slots, mtx, stop, loopPc, idx,
                 scan, ipcPc, unsaved>>
-----------------------------------------------------------------------------
(* The supervision loop, phase 1: the tick.                                *)

\* while (!g_stop): decided here; the sleep follows.
LoopTop ==
  /\ loopPc = "top"
  /\ loopPc' = IF stop THEN "stopIpc" ELSE "sleep"
  /\ UNCHANGED <<bus, disk, diskDflt, dflt, slots, mtx, stop, idx, scan,
                 ipcPc, inflight, told, history>>

\* The lock is taken; a dead mediamtx is restarted if its backoff is over,
\* and its port awaited with the lock held.
Tick ==
  /\ loopPc = "sleep" /\ MutexFree
  /\ idx' = 1
  /\ IF ~mtx.running /\ mtx.due
     THEN /\ \E ok \in MtxStarts : mtx' = StartMtx(mtx, ok)
          /\ loopPc' = "mtxWait"
     ELSE /\ UNCHANGED mtx
          /\ loopPc' = "slots"
  /\ UNCHANGED <<bus, disk, diskDflt, dflt, slots, stop, scan, ipcPc,
                 inflight, told, history>>

\* WaitForRtspReady returned, whether or not the port answered.
MtxWaitEndsIfReady ==                               \* mutant
  /\ loopPc = "mtxWait" /\ mtx.running
  /\ loopPc' = "slots"
  /\ UNCHANGED <<bus, disk, diskDflt, dflt, slots, mtx, stop, idx, scan,
                 ipcPc, inflight, told, history>>
MtxWaitEnds ==
  /\ loopPc = "mtxWait"
  /\ loopPc' = "slots"
  /\ UNCHANGED <<bus, disk, diskDflt, dflt, slots, mtx, stop, idx, scan,
                 ipcPc, inflight, told, history>>

\* Unplugged or disabled: only the bookkeeping is touched.
TickIdleSilent(i) ==                                \* mutant
  /\ ~(slots[i].present /\ slots[i].enabled)
  /\ slots' = [slots EXCEPT ![i].last = FALSE, ![i].count = 0]
  /\ TellNothing
TickIdle(i) ==
  LET s == [slots[i] EXCEPT !.last = FALSE, !.count = 0] IN
  /\ ~(slots[i].present /\ slots[i].enabled)
  /\ IF slots[i].last \/ slots[i].count # 0
     THEN slots' = [slots EXCEPT ![i] = s] /\ Tell(s.name, CamToJson(s))
     ELSE UNCHANGED slots /\ TellNothing

\* Wanted: reset the count of a dead publisher, restart it when due, and
\* publish if the running flag differs from the last one published.  The
\* count alone is not worth an event.
TickWanted(i) ==
  \E ok, still \in Survives(slots[i].name) :
    LET s == slots[i]
        wiped == ~s.running /\ s.count # 0
        t == IF s.running THEN s ELSE [s EXCEPT !.count = 0]
        u == IF RestartDue(s) THEN StartNoSleep(StopProc(t), ok) ELSE t
        up == u.running /\ still
    IN  /\ s.present /\ s.enabled
        /\ IF u.running # s.last
           THEN /\ slots' = [slots EXCEPT ![i] =
                               [u EXCEPT !.running = up, !.last = u.running]]
                /\ Tell(s.name, CamToJson([u EXCEPT !.running = up]))
           ELSE /\ slots' = [slots EXCEPT ![i] = u]
                /\ drift' = IF wiped
                            THEN [drift EXCEPT ![s.name] = @ \cup {"wiped"}]
                            ELSE drift
                /\ UNCHANGED told

TickSlot ==
  /\ loopPc = "slots" /\ idx \in DOMAIN slots
  /\ TickIdle(idx) \/ TickWanted(idx)
  /\ idx' = idx + 1
  /\ UNCHANGED <<bus, disk, diskDflt, dflt, mtx, stop, loopPc, scan, ipcPc,
                 inflight, unsaved>>

TickEnds ==
  /\ loopPc = "slots" /\ idx \notin DOMAIN slots
  /\ loopPc' = "phase2" /\ idx' = 1
  /\ UNCHANGED <<bus, disk, diskDflt, dflt, slots, mtx, stop, scan, ipcPc,
                 inflight, told, history>>

-----------------------------------------------------------------------------
(* The supervision loop, phase 2: hot-plug.                                *)

SkipEnumeration ==
  /\ loopPc = "phase2"
  /\ loopPc' = "top"
  /\ UNCHANGED <<bus, disk, diskDflt, dflt, slots, mtx, stop, idx, scan,
                 ipcPc, inflight, told, history>>

\* 10 s have passed: enumerate, without the lock.
Enumerate ==
  /\ loopPc = "phase2"
  /\ \E seen \in {bus, <<>>} :
       EnumerateCameras(seen) /\ scan' = [NoScan EXCEPT !.current = seen]
  /\ loopPc' = "diff"
  /\ UNCHANGED <<bus, disk, diskDflt, dflt, slots, mtx, stop, idx, ipcPc,
                 inflight, told, history>>

\* Step 1, one short lock: mark what left and what returned.
Diff ==
  LET listed == {scan.current[k] : k \in DOMAIN scan.current}
      gone(s) == s.present /\ s.name \notin listed
  IN
  /\ loopPc = "diff" /\ MutexFree
  /\ \E ok \in [DOMAIN slots -> BOOLEAN] :
       /\ \A i \in DOMAIN slots : ok[i] \in Survives(slots[i].name)
       /\ slots' = [i \in DOMAIN slots |->
            LET s == slots[i] IN
            CASE gone(s) -> MarkAbsent(s)
              [] Returned(s, listed) -> MarkPresent(s, ok[i])
              [] OTHER -> s]
  /\ scan' = [scan EXCEPT
       !.changed = \E i \in DOMAIN slots :
                     gone(slots[i]) \/ Returned(slots[i], listed),
       !.fresh = {k \in DOMAIN scan.current : scan.current[k] \notin KnownNames}]
  /\ loopPc' = "formats"
  /\ UNCHANGED <<bus, disk, diskDflt, dflt, mtx, stop, idx, ipcPc, inflight,
                 told, history>>

\* Steps 2 and 3: formats of the new devices without the lock, then the
\* lock again (if there is anything to report) and the names known by then.
NothingNew ==
  /\ loopPc = "formats" /\ scan.fresh = {} /\ ~scan.changed
  /\ loopPc' = "top" /\ scan' = NoScan
  /\ UNCHANGED <<bus, disk, diskDflt, dflt, slots, mtx, stop, idx, ipcPc,
                 inflight, told, history>>

AppendBegins ==
  /\ loopPc = "formats" /\ (scan.fresh # {} \/ scan.changed) /\ MutexFree
  /\ loopPc' = "append" /\ scan' = [scan EXCEPT !.known = KnownNames]
  /\ UNCHANGED <<bus, disk, diskDflt, dflt, slots, mtx, stop, idx, ipcPc,
                 inflight, told, history>>

\* allocPath: the least index no slot has.
AllocPathOfPresent(p) ==                            \* mutant
  LET taken == {slots[i].path : i \in {j \in DOMAIN slots : slots[j].present}}
  IN  p \notin taken /\ \A q \in 0..(p - 1) : q \in taken
AllocPath(p) == p \notin Paths /\ \A q \in 0..(p - 1) : q \in Paths

AppendDevice ==
  /\ loopPc = "append"
  /\ \E k \in scan.fresh, p \in 0..Len(slots) :
       /\ \A j \in scan.fresh : k <= j
       /\ AllocPath(p)
       /\ LET n == scan.current[k] IN
          IF n \in scan.known
          THEN UNCHANGED slots /\ scan' = [scan EXCEPT !.fresh = @ \ {k}]
          ELSE /\ \E ok \in Survives(n) :
                    slots' = Append(slots,
                               StartIfEnabled(NewSlot(n, p, dflt), ok))
               /\ scan' = [scan EXCEPT !.fresh = @ \ {k}, !.changed = TRUE]
  /\ UNCHANGED <<bus, disk, diskDflt, dflt, mtx, stop, loopPc, idx, ipcPc,
                 inflight, told, history>>

AppendEnds ==
  /\ loopPc = "append" /\ scan.fresh = {}
  /\ IF scan.changed THEN TellAll(slots) ELSE TellNothing
  /\ loopPc' = "top" /\ scan' = NoScan
  /\ UNCHANGED <<bus, disk, diskDflt, dflt, slots, mtx, stop, idx, ipcPc,
                 inflight, unsaved>>

-----------------------------------------------------------------------------
(* Shutdown: ipc.Stop and events.Stop join their threads, then the children*)
(* are stopped.                                                            *)

StopIpc ==
  /\ loopPc = "stopIpc" /\ ipcPc = "idle"
  /\ loopPc' = "stopEvents"
  /\ TellAll(<<>>)
  /\ UNCHANGED <<bus, disk, diskDflt, dflt, slots, mtx, stop, idx, scan,
                 ipcPc, inflight, unsaved>>

StopEvents ==
  /\ loopPc = "stopEvents" /\ inflight = {}
  /\ loopPc' = "stopChildren"
  /\ UNCHANGED <<bus, disk, diskDflt, dflt, slots, mtx, stop, idx, scan,
                 ipcPc, inflight, told, history>>

StopChildrenEnabled ==                              \* mutant
  /\ loopPc = "stopChildren"
  /\ slots' = [i \in DOMAIN slots |->
                 IF slots[i].enabled THEN StopProc(slots[i]) ELSE slots[i]]
  /\ mtx' = [mtx EXCEPT !.running = FALSE]
  /\ loopPc' = "exited"
  /\ UNCHANGED <<bus, disk, diskDflt, dflt, stop, idx, scan, ipcPc, inflight,
                 told, history>>
StopChildren ==
  /\ loopPc = "stopChildren"
  /\ slots' = [i \in DOMAIN slots |-> StopProc(slots[i])]
  /\ mtx' = [mtx EXCEPT !.running = FALSE]
  /\ loopPc' = "exited"
  /\ UNCHANGED <<bus, disk, diskDflt, dflt, stop, idx, scan, ipcPc, inflight,
                 told, history>>

-----------------------------------------------------------------------------
Lifecycle == Launch \/ LaunchFails \/ Kill

Environment ==
  \/ \E n \in Names : Plug(n)
  \/ \E i \in DOMAIN bus : Unplug(i)
  \/ \E i \in DOMAIN slots : PublisherExits(i) \/ BackoffElapses(i)
  \/ MtxExits \/ MtxBackoffElapses
  \/ \E b \in Defaults : HostSavesDefault(b)

Requests ==
  \/ \E n \in Addressed : RestartCamera(n) \/ SetMode(n)
  \/ \E n \in Addressed, want \in BOOLEAN : SetStreamEnabled(n, want)
  \/ SetViewerCredentials \/ CredentialsApplied
  \/ ReloadSettings \/ ShutdownRequest \/ ConsoleCtrl

Hooks ==
  \/ \E kind \in {"read", "unread"}, p \in HookPaths : Hook(kind, p)
  \/ HookPublish

Loop ==
  \/ LoopTop \/ Tick \/ MtxWaitEnds \/ TickSlot \/ TickEnds
  \/ SkipEnumeration \/ Enumerate \/ Diff \/ NothingNew
  \/ AppendBegins \/ AppendDevice \/ AppendEnds
  \/ StopIpc \/ StopEvents \/ StopChildren

Next == Lifecycle \/ Environment \/ Requests \/ Hooks \/ Loop

Spec == Init /\ [][Next]_vars
-----------------------------------------------------------------------------
(* Properties.                                                             *)

TypeOK ==
  /\ bus \in Seq(Names)
  /\ disk \in [Names -> {{}, {TRUE}, {FALSE}}]
  /\ diskDflt \in BOOLEAN /\ dflt \in BOOLEAN
  /\ slots \in Seq(Slot)
  /\ mtx \in [running : BOOLEAN, due : BOOLEAN]
  /\ stop \in BOOLEAN /\ loopPc \in LoopStates /\ idx \in Nat \ {0}
  /\ scan \in [current : Seq(Names), fresh : SUBSET Nat,
               known : SUBSET Names, changed : BOOLEAN]
  /\ scan.fresh \subseteq DOMAIN scan.current
  /\ ipcPc \in {"idle", "credWait"}
  /\ inflight \in SUBSET [name : Names, row : Row]
  /\ told \in [Names -> SUBSET Row]
  /\ drift \in [Names -> SUBSET {"overtaken", "wiped"}]
  /\ unsaved \subseteq Names

\* Two slots never publish to the same RTSP path, whatever sequence of
\* launches, hot-plugs and re-appearing or identically named devices led here
\* (main.cpp:463-479 numbers the first ones, allocPath the others).
PathsUnique ==
  \A i, j \in DOMAIN slots : i # j => slots[i].path # slots[j].path

\* While the process lives a slot keeps its position, name and path: an
\* unplugged camera keeps its URL for when it returns, and no later device
\* can take it (main.cpp:1013-1035 flips `present` and erases nothing).  That
\* is the specification Registry, implemented by Spec.
Entries ==
  IF loopPc \in Down THEN <<>>
  ELSE [i \in DOMAIN slots |-> [name |-> slots[i].name, path |-> slots[i].path]]

Reg == INSTANCE Registry WITH alive <- loopPc \notin Down, entries <- Entries

PathsKept == Reg!Spec

\* The enabled flag a slot works with is the one its override file will give
\* after a crash, unless writing the file failed (main.cpp:733-740: persist
\* first).  Only the first of several slots of one name is addressed by name.
EnabledSurvivesCrash ==
  \A n \in Names \ unsaved, i \in DOMAIN slots :
    IsSlotOf(i, n) /\ disk[n] # {} => disk[n] = {slots[i].enabled}

\* Only restart-camera and set-mode may start a publisher that is not
\* wanted: the tick and the hot-plug path start enabled, present cameras
\* only (main.cpp:955-968, 1022-1030, 1075-1077).
LoopStartsOnlyWanted ==
  [][\A i \in DOMAIN slots' :
       (slots'[i].running /\ (i \in DOMAIN slots => ~slots[i].running))
       => \/ slots'[i].enabled /\ slots'[i].present
          \/ RestartCamera(slots'[i].name) \/ SetMode(slots'[i].name)]_vars

\* From the moment shutdown is requested no child is started any more, by
\* the tick, a hot-plug already under way or a handler still served
\* (main.cpp:134).
NothingStartsAfterStop ==
  [][stop /\ stop' =>
       /\ mtx'.running => mtx.running
       /\ \A i \in DOMAIN slots' : slots'[i].running =>
            i \in DOMAIN slots /\ slots[i].running]_vars

\* After an orderly exit no child is left, although requests and hooks are
\* served until their threads are joined (main.cpp:1087-1094).
ExitLeavesNothing ==
  loopPc = "exited" => ~mtx.running /\ inflight = {}
                       /\ \A i \in DOMAIN slots : ~slots[i].running

OnlySlotOf(i, n) == \A j \in DOMAIN slots : (slots[j].name = n) <=> (j = i)

\* What clients were told of a camera agrees with the slot, once the publish
\* that follows the mutation has been made, but for two ways to drift: an old
\* snapshot overtook a newer row (main.cpp:907), or the tick wiped the count of
\* a dead publisher and restarted it without an event (main.cpp:972).
RowsAgree ==
  \A i \in DOMAIN slots, n \in Names :
    /\ OnlySlotOf(i, n) /\ drift[n] = {}
    /\ ~scan.changed /\ \A ev \in inflight : ev.name # n
    => \A r \in told[n] : r.enabled = slots[i].enabled /\ r.count = slots[i].count

-----------------------------------------------------------------------------
(* Fairness.  The loop runs on a thread of its own and its waits are bounded *)
(* (10 s for the port), so each of its steps is eventually taken; a step     *)
(* that needs state_mutex gets it because requests arrive one at a time from *)
(* one client and leave gaps (SF).  Every iteration of the loop lets time    *)
(* pass, so the 10 s of the next enumeration elapse (SF on Enumerate).       *)

\* CreateProcess does not fail for ever, and enumeration does not either.
TickStarts(i) == TickSlot /\ idx = i /\ slots'[i].running
EnumerationWorks == Enumerate /\ scan'.current = bus

LoopFairness ==
  /\ WF_vars(LoopTop) /\ SF_vars(Tick) /\ WF_vars(MtxWaitEnds)
  /\ WF_vars(TickSlot) /\ WF_vars(TickEnds)
  /\ \A i \in 1..MaxDevices : SF_vars(TickStarts(i))
  /\ WF_vars(SkipEnumeration) /\ SF_vars(EnumerationWorks)
  /\ SF_vars(Diff) /\ WF_vars(NothingNew) /\ SF_vars(AppendBegins)
  /\ WF_vars(AppendDevice) /\ WF_vars(AppendEnds)
  /\ SF_vars(StopIpc) /\ SF_vars(StopEvents) /\ WF_vars(StopChildren)
  /\ WF_vars(CredentialsApplied) /\ WF_vars(HookPublish)

TimerFairness == \A k \in 1..MaxDevices : WF_vars(BackoffElapses(k))

FairSpec == Spec /\ LoopFairness /\ TimerFairness

Wanted(n) == \E i \in DOMAIN slots :
  slots[i].name = n /\ slots[i].enabled /\ slots[i].present
Running(n) == \E i \in DOMAIN slots : slots[i].name = n /\ slots[i].running

\* A wanted publisher that is down comes up again, unless the camera goes, is
\* disabled, or the supervisor is stopped (main.cpp:973-984).
PublisherRecovers ==
  \A n \in Names : (Wanted(n) /\ ~Running(n))
                     ~> (Running(n) \/ ~Wanted(n) \/ stop \/ loopPc \in Down)

OnBus(n) == \E k \in DOMAIN bus : bus[k] = n
SlotPresent(n) == \E i \in DOMAIN slots : slots[i].name = n /\ slots[i].present

\* A camera plugged in while the supervisor runs gets a slot, marked present,
\* and one unplugged is marked absent (main.cpp:1000-1084).
HotPlugFollowed ==
  \A n \in Names :
    /\ (OnBus(n) /\ loopPc \notin Down)
         ~> (SlotPresent(n) \/ ~OnBus(n) \/ stop \/ loopPc \in Down)
    /\ (SlotPresent(n) /\ ~OnBus(n))
         ~> (~SlotPresent(n) \/ OnBus(n) \/ stop \/ loopPc \in Down)

\* A shutdown request ends the process even if mediamtx never answers, a
\* request is being served or a hook is half-way (main.cpp:1087-1094).
ShutdownCompletes == stop ~> (loopPc \in Down \/ ~stop)

=============================================================================
