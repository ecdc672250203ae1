# webcam-streamer: specification and proofs

webcam-streamer publishes the USB cameras of a Windows PC as RTSP streams. A
supervisor process (C++, `supervisor/src`) runs one ffmpeg publisher per camera
and one mediamtx server; a WPF host (C#, `ui/WebcamStreamerUi`) shows a tray icon
and a window and drives the supervisor over a named pipe. This directory holds
TLA+ models of that system, TLC configurations for small instances of them, and
proofs checked by TLAPS. Paths below are relative to `src/`; line numbers are those of
the commit the models were translated from.

## 1. Inventory

| component | state it keeps | operations | talks to |
|---|---|---|---|
| supervision core, `supervisor/src/main.cpp` | `slots` (name, path, enabled, present, publisher, backoff, viewer_count, last_running), mediamtx and its backoff, settings, `g_stop` | startup; the 500 ms tick; the 10 s re-enumeration; eleven request handlers; viewer hooks; shutdown | children through SupervisedProcess; clients through the control pipe; hooks through the events pipe; override files and settings.json |
| restart backoff, `main.cpp:96-148` | delay, restarts, last_start, earliest_next | StartNoSleep and its callers | tick, handlers |
| children, `process_supervisor.cpp`, `job_object.cpp` | process, thread and pipe handles, stdout reader thread | Start, Stop, IsRunning | a job object kills them with the supervisor |
| camera configuration, `camera_enum.cpp`, `camera_formats.cpp`, `camera_probe.cpp`, `camera_config.cpp`, `known_cameras.cpp`, `main.cpp:213-267,408-450` | override files `probes/<slug>.override.txt`, known-cameras DB | enumerate, list formats, resolve, load and save an override | ffmpeg through RunCommand |
| settings and credentials, `settings.cpp`, `main.cpp:317-372,768-824`, `SettingsFile.cs` | settings.json, `mediamtx.runtime.yml`, the copies in memory of supervisor and host | load, save, generate, set-viewer-credentials, reload-settings; the host's Save | two processes write one file |
| control pipe, `ipc_server.cpp` | pipe handle, client_connected, stop flag, two mutexes | accept, read a request, answer, publish an event, Stop | one client; handlers run under `state_mutex` |
| events pipe and hook, `events_pipe.cpp`, `mtx_event_hook.cpp` | current pipe handle, stop flag | accept, read one line, Stop; the hook's retry loop | mediamtx starts one hook process per reader event |
| command runner, `run_command.cpp` | pipes and a drain thread | run, drain, wait, kill | enumeration, probe thread |
| IPC client, `IpcClient.cs` | waiters by request id, the pump task | connect, call with timeout, pump, dispose | control pipe |
| view model and windows, `MainViewModel.cs`, `CameraInfo.cs`, `MainWindow.xaml.cs` | rows, credential form and its dirty flag, poll timer | apply a list, apply an event, apply credentials | IPC client, dispatcher queue |
| host lifecycle, `App.xaml.cs`, `SupervisorLauncher.cs` | single-instance mutex, doorbell event, job of the supervisor | launch, doorbell, exit | other launches, the supervisor |
| presentation, logging, installer, scripts | none that another part depends on | | |

What is hard. Three threads of the supervisor share `slots` under one mutex, and each
lets go of it at a point where others act: the hook handler before it publishes, the
re-enumeration while it lists formats, the handlers between two reads of a child's
state. Children die at any time. Cameras come and go between two enumerations, in
pairs of one name, and enumeration itself fails. The supervisor is killed with its job at
any moment and comes back from files it, and another process, write without locks.
Every child inherits whatever pipe ends are open when it is created. Events and answers
reach the window by two ways. Shutdown joins threads that are using the very things it
tears down. `PROJECT.json` lists these hazards line by line with the properties that watch
them.

What makes each part correct:

- supervision core: two cameras never share a path and a camera keeps its path
  while the supervisor runs; a wanted publisher that died runs again; presence follows
  the bus; an unwanted one is not started by the loop; what clients are told agrees
  with the slots; a shutdown ends, starts nothing on its way and leaves no child; the
  enabled flag survives a crash.
- backoff: waits grow to the cap and a flapping child is started a bounded number
  of times a minute.
- settings and credentials: mediamtx accepts what was last applied, the file brings
  it back after a restart, and the rows offer it.
- children: Stop leaves no process running, no reader of a predecessor beside the
  successor's, and nothing survives the supervisor.
- camera configuration: the input ffmpeg is told to open is one the camera offers
  where it was picked from the camera's formats; a restart changes no setting.
- control pipe: every request is answered once, on the connection it came from; a
  writer does not wait for the reader of the same handle; Stop returns.
- events pipe and hook: what a hook saw taken is counted, counts equal the readers
  there are once the hooks are delivered in order; Stop returns.
- command runner: a command that ends is reported, whatever it writes where.
- IPC client and view model: every call ends; rows come to show the latest state;
  what the user is typing is not overwritten.
- host lifecycle: never two hosts with a supervisor, and a running host that is rung
  shows its window or ends.

## 2. Plan

Each component of the inventory that keeps state has its module; they were written in
the order of importance below. There is no module that composes all of them: Supervisor
is where they meet, and each of the others models one edge of it in detail, with the
rest of the supervisor reduced to what that edge sees.

1. `Supervisor`, with `Registry`, its abstract specification
2. `Backoff`, the arithmetic behind `due` in Supervisor
3. `Credentials`, the two processes around settings.json
4. `ViewerHooks`, `ControlPipe`, `Children`: pipes, threads and processes
5. `UiSync`, `SingleInstance`: the host
6. `CameraConfig`: the data of a camera

`Supervisor_proofs`, `Backoff_proofs`, `Credentials_proofs`, `ViewerHooks_proofs`,
`ControlPipe_proofs`, `Children_proofs` and `CameraConfig_proofs` hold the theorems about the module
they are named after, `Host_proofs` those about UiSync and SingleInstance. What is left: the script
and the result files of probe-camera's thread.

## 3. The modules

### Supervisor and Registry

| variable | in the code |
|---|---|
| `bus` | the devices DirectShow lists (external) |
| `disk` | the `enabled` line of each override file |
| `diskDflt`, `dflt` | `default_enabled_for_new_cameras` in settings.json, and in memory |
| `slots` | `std::vector<CamSlot>`; `due` stands for `now >= backoff.earliest_next` |
| `mtx` | the mediamtx child and its backoff |
| `stop` | `g_stop` |
| `loopPc`, `idx`, `scan` | where the main thread is and its locals |
| `ipcPc` | "credWait" while set-viewer-credentials waits for the port |
| `inflight` | the row the events thread has computed and not yet published |
| `told` | the row each client has after all published events |
| `drift`, `unsaved` | history: why `told` may be old; which settings were not written |

`state_mutex` is no variable: the loop holds it in the states `Locked`, the IPC thread
while it waits for mediamtx, and a handler that does not wait is one action. Where
such a handler reads `IsRunning` twice, the child may die in between
(`Survives`). The tick is one step per slot, under the lock. Re-enumeration is split
where the code lets go of the mutex: `Enumerate` (no lock), `Diff` (lock),
`AppendBegins`, which stands for listing formats without the lock and taking it
again, `AppendDevice` (once per device) and `AppendEnds`. Shutdown
is `StopIpc`, `StopEvents`, `StopChildren`, in the order of main.cpp:1087-1093; a
join waits for the handler that is running. `Launch` is the whole startup up to the
loop, `LaunchFails` its early exits, `Kill` the end of the process and, by the job
object, of its children at any moment.

`Registry` says what a client may rely on: while the supervisor lives the list of
(name, path) only grows at its end, each new path free. `Entries` is the
refinement mapping; `PathsKept` is `Reg!Spec`.

### Backoff

One child, with the delays of the source and a clock in seconds. `StartNoSleep` takes the
bookkeeping its caller hands it: the tick waits for it, rebuildSlot starts from a
fresh `Backoff{}`, set-viewer-credentials starts whatever it says. `log` holds the
ages of the tick's starts, oldest first; `Second` drops the one that is a minute old, of which there
is one at most, since two starts are a wait of at least a second apart.

### Credentials

Six copies of one pair: settings.json, the memory of host and supervisor, the yml, mediamtx and
the rows. `hostPc` and `supPc` say where each process is. A save is read, truncate and
write for the supervisor, truncate and write for the host; a file that is missing or cut
short reads as the defaults. While one process has the file open for writing the other
can read it but not open it for writing (the sharing modes of `std::ofstream` on
Windows and `File.WriteAllText`). `lastOk`, `doubt` and `stale` are history: what was last
applied, what a request that failed or was cut short may have left, and what the
host brought back by saving another setting with the credentials of its start.
set-viewer-credentials appears in both modules: as a wait for mediamtx in Supervisor,
with its data here.

### ViewerHooks

A hook is `<<reader, kind>>`, one process per event, with its place between the first
attempt to connect and its end in `hook`. `inst` is the one pipe instance the kernel has,
`pc` the accept thread, `stopPc` the thread in Stop. A hook gives up, breaks when the
server closes its end, or dies with mediamtx. `handled` and `swapped` are history: which
events were handled, and for which reader the unread came first. Supervisor has the same
handler with the rows it publishes; its `Hook` is one `Handle` of this module.

### ControlPipe

`inst` is the pipe instance of the kernel and `pipe` the handle as other threads see it, both
numbers, so that a stale handle can be told from a new one; a closed handle's value may be given
to the next instance. `pc` is the accept thread, `wr` the WritePipe of each thread,
whose entry is at "write" for whoever has `write_mutex_`; `state` holds the thread that
has `state_mutex`. A request is a call, text that is no JSON, or JSON that is no object
(which ends the process). The client connects, sends, reads and leaves. A publisher stands
for every thread that publishes without a lock: events pipe, mediamtx's output, probe.

### Children

mediamtx, started and stopped by one thread, and a command, run by another. `ends` says who
holds the write end of each pipe; creation copies every end the supervisor has open,
also those the other thread is about to close. `proc` goes from suspended over running and
dying to dead; `job` is the job object and `unassigned` those it refused. Stop is
`Begin`, `Terminate`, `Forget`, `Join`; Start is `MakePipe`, `CreateProcess`, `Assign`, `Resume`,
`StartReader`, with its failures; RunCommand is `Run`, `RunCreate`, `RunClose`, `Drain`, `Drained`,
`Waited`. `SupervisorDies` may come at every step. ffmpeg publishers use the same class
without a reader, so mediamtx is the harder of the two.

### UiSync

The supervisor is a counter `ver` and the credentials. An event goes pump, dispatcher; an
answer goes pump, thread pool, dispatcher, and may overtake or be overtaken. `call` and
`waiting` are IpcClient's pending calls and its waiters; a late answer finds no waiter and
is dropped. `kept` is history: the edit made while no Apply was under way.

### SingleInstance

One `pc` per launch, from OnStartup to OnExit. Mutex and doorbell are the sets of processes
with a handle, since a named object lives as long as one is open. `sup` says where a
host's supervisor is; a host that dies between starting and assigning it leaves an orphan.
`windows` are the hosts whose window is to be seen. The names of its specification begin with `Host`,
for `Host_proofs` extends UiSync too.

### CameraConfig

Operators for each stage: what ffmpeg prints (`Listing`) and what the parser makes of it
(`Parsing`, the state of its loop after each line), the slug and with it the override file, the
sources of a configuration in their order (`Base`, and `Over` for what falls through field by field),
the input of the command line, and the two dropdowns of the host. Cameras have different names
here, so `slots` is a function of names; twins are Supervisor's. The formats of a camera are a set:
the code sorts them and drops repeats, and what its loops then pick does not depend on more than
that order (`Before`). The machine plugs
cameras, a user and another client change them, saves fail or are torn, the supervisor restarts.
`unsaved` and `fits` are history: names with a change the disk does not have, and
names whose mode and size were picked from their own formats.

Operators marked `\* mutant` are plausible wrong versions of the definition that follows
them. No specification uses them; each property is shown to fail when one of them takes
the definition's place.

## 4. What TLC checks

| run | question | result |
|---|---|---|
| faults | with every thread and every fault: do rows agree with slots, does the enabled flag survive, does the loop start only wanted publishers, does shutdown start nothing and leave nothing? | yes, rows but for two recorded ways to drift |
| hotplug | two names, two devices, twins: are paths unique and kept (Registry)? | yes |
| live | does a wanted publisher recover, does presence follow the bus, does a shutdown end? | yes, under the fairness below |
| backoff | with 1 s to 30 s, reset after 60 s: at most 6 starts by the tick in a minute? | yes |
| cred | does mediamtx accept what was last applied, does the file give it back, does a copied URL open? | yes, but for what the host itself writes back (`stale`) |
| hooks | is every event a hook saw taken counted, do hooks end, does Stop return? | yes, but for the window in which a cancel is lost |
| pipe | is no handle closed twice, does each client get its own answers in order, does nobody hang while the client reads? | yes |
| children | is nothing left running, do readers not overlap, does Stop return, is a command reported? | yes, unless mediamtx inherits the command's pipe |
| timeout | does RunCommand's timeout bound it? | no: see 7 |
| ui | is an edit kept, do rows catch up, do calls end? | yes |
| host | at most one host with a supervisor, is the doorbell answered? | yes |
| cameras | own identity, inputs that exist, settings kept over a restart? | yes, where the sources are the ones named in the properties |

Bounds. In Supervisor one camera is enough where a property is about one slot, since
slots share only the lock, the path numbers and the lookup by name; those are what
`hotplug` checks, with two names and two devices at a time, which includes twins of one
name, a return of one while the other is new, and a third slot after both. One viewer
distinguishes zero from not zero; `viewer_count` is capped by `MaxViewers` in the
guard of `Hook`. The faults are constants, so that each run turns on the ones its question
is about. Backoff's clock saturates just past the longest time the code compares
with. Credentials uses two interchangeable pairs, enough for "old" and "new", and two
requests queued, enough for a reload behind a change of credentials. ViewerHooks has two
readers, so four hooks for one pipe instance: order within a reader and between readers.
ControlPipe has two instances (a stale handle and its successor), two requests a
connection (one buffered behind the one worked on), two events and a buffer of one message,
so that a write can wait; the publishers are the loop, the handler and one free
thread. Children starts mediamtx twice (a predecessor and a successor) beside one
command that writes two lines to each pipe, one more than the pipe holds. UiSync has two
calls at a time, two texts, one change and one late answer: that orders any two
messages on the two ways. SingleInstance has three launches: the second can meet the first's
exit and the third the second's start. CameraConfig has four machines: a known camera
between a virtual one and a microphone, a camera with formats of every kind, two names with one
slug, and a camera with nothing of use. Three changes are enough for two sources and the field that
comes between them.

Deadlock checking is off in ViewerHooks, ControlPipe, Children, UiSync and SingleInstance, whose
runs really may stop: after Stop, after the supervisor's end, or with every host gone;
their liveness properties say that nobody is left waiting there. It is on in all other runs.

## 5. Fairness

Safety properties use no fairness. Of `FairSpec`:

- Supervisor: every step of the loop is taken eventually: it has a thread of its own and each of its
  waits is bounded (500 ms, 10 s for the port). Steps that need `state_mutex` are
  strongly fair: requests come from one client, one at a time, and the mutex is
  free between them. Enumeration happens again and again, because each iteration lets time
  pass, and does not fail for ever; nor does `CreateProcess` for a wanted publisher. It is also assumed to
  return, which RunCommand's timeout does not ensure (`timeout`). Backoff windows elapse; a handler
  waiting for the port ends; a hook's row is published. Nothing is assumed of
  plugging, children, requests, hooks or kills.
- ViewerHooks: the accept thread, the thread in Stop and hook processes are scheduled.
- ControlPipe: the same for its threads, and the client's pump reads (IpcClient.cs:57-65).
  A client that stops reading is outside of it, and then writers do hang: section 7.
- Children: the supervisor's threads are scheduled, a terminated process dies, and a
  command writes what it has to and ends. The last is not assumed of mediamtx.
- UiSync: the supervisor serves, the pump, the thread pool and the dispatcher run, and a
  timeout ends a call when the supervisor is gone. `RowsCatchUp` assumes in its own
  statement that the window goes on refreshing and the supervisor is up from some time on.
- SingleInstance: the steps of start and exit and the listener are scheduled, and a user
  dismisses a message box.

## 6. What is proved

For all values of the constants, from the named assumptions of each module (typing of
the constants; `Creds` and `Texts` not empty; delays positive and ordered):

- `Supervisor_proofs!TypeCorrect`: `TypeOK` always holds.
- `Supervisor_proofs!PathsAlwaysUnique`: with `TypeOK` it is inductive. Each action is put
  into one of four classes: the entries (name and path) of `slots` stay as they
  are, one entry with a free path is added, the list is emptied, or it is the
  numbered list of a launch. Uniqueness is shown once per class.
- `Supervisor_proofs!ImplementsRegistry`: `Spec => Reg!Spec`, from the same
  classification: the classes map to a stutter, `Learn`, `Die` and `Start`.
- `Supervisor_proofs!StoppedStartsNothing` and `OnlyWantedStarted`: action properties, one
  lemma per action about which publishers run in the next state. Both need only `TypeOK`: the
  guards on `stop`, `enabled` and `present` are read in the step that starts.
- `Supervisor_proofs!OrderlyExit`: `ExitLeavesNothing` is not inductive; `ExitInv` adds that
  from "stopChildren" on the events thread has been joined, so nothing is in flight.
- `Supervisor_proofs!EnabledAlwaysSurvives`: inductive with `TypeOK`. Most actions change
  neither entries, files nor flags, which two lemmas say once.
- `Supervisor_proofs!RowsAlwaysAgree`: what the host shows is the slot, unless the drift is recorded.
  `RowsAgree` excuses a change of the bus not yet told and a row in flight, so
  `RowsInv` adds that a change waits for cameras-changed only while the loop lists formats or
  appends, and that the events thread holds one snapshot at a time. Each action changes nothing
  a client was told about, tells one row, or tells them all; one lemma each.
- `Backoff_proofs!LadderAlways` and `TypeCorrect`: for all delays the wait in force is below the
  next one until both are the cap. Inductive together with the type invariant.
- `Backoff_proofs!StormAlwaysBounded`: for all delays whose first `MaxStarts` waits take longer
  together than `StableAfter`, which `wait` and `total` say as the ladder of doublings
  (`IsLadder`). `WindowInv` ties the ages in the log and the delay in force to the ladder: with
  k starts in the log the delay is at least wait number k + 1 of the ladder, and the ages differ
  by at least the waits between. `SixStartsAMinute` discharges the hypotheses for the delays of
  the source:
  1 s, 30 s and 60 s give six starts a minute at most (waits 1, 2, 4, 8, 16, 30).
- `Credentials_proofs!TypeCorrect` and `AcceptedAlwaysLastOk`. The property speaks of the state between requests;
  `HandlerInv` says what holds at each step of a handler: the yml holds the last
  applied credentials until it is rewritten, then those of the request at the head
  of the queue, which memory keeps until the answer, and a running
  mediamtx has read the yml, except between its rewriting and the restart.
- `Credentials_proofs!FileAlwaysKeepsApplied`: `WritersInv` says what either writer is about
  to put into the file, at each of its steps.
- `Credentials_proofs!CopiedUrlAlwaysAccepted`: `RowsInv`, on top of those two, follows the pair
  from memory to the rows.
- `ControlPipe_proofs!PublishedAlwaysOpen`: `HandleInv` ties the handle in `pipe_` to the accept
  thread's own and to where that thread is.
- `ControlPipe_proofs!AnswersAlwaysBelong`: a client reads the answers to its own requests, each once
  and in order. `LinesInv` numbers what is under way on a connection: answers read or in
  the pipe, then the line worked on, the buffer and the pipe's input carry consecutive
  numbers of this connection. `ClientInv` says that an instance nobody came to is empty and
  that a thread serves only one somebody came to; `WriterInv` that only the accept thread writes
  answers, to the request it works on. The buffer is cleared between clients: without that
  the numbers of `LinesInv` belong to the client before.
- `ViewerHooks_proofs!TypeCorrect`, `DoneAlwaysCounted` and `CountAlwaysTracks`. `OnePlace`: a line is
  in the pipe, with the accept thread or handled, in one of them at a time, and the
  pipe has one client; `Flushed`: one that was written and has left the pipe was read;
  `ReadFirst`: an unread is sent after its read. `CountInv` is arithmetic on top: the count is at
  least the readers joined and not left, and exactly those when no unread came first.
- `Children_proofs!NoOrphanEver` and `OldReaderAlwaysGone`: `CurrentInv` says which incarnations exist
  where Start and Stop are; `JobInv` that while the supervisor lives no mediamtx runs that is
  neither in the job nor refused by it (once it is dead the job has ended them); `ReaderInv`
  that only the current mediamtx has a reader, from the end of Start to the join of Stop.
- `Host_proofs!NeverTwoSupervisors`: `GuardInv`: at most one host is past the guard,
  it has a handle on the mutex, and only such a host has a supervisor.
- `Host_proofs!EditsAlwaysSurvive`: `EditInv`: while an edit is to be kept the form is dirty
  and no Apply is under way, so neither a snapshot nor an answer touches it. It needs the
  types of what travels, `TypeOK` of that module.

- `CameraConfig_proofs!IdentityAlways`: for a listing of any length, every device the parser has is a
  camera with its own alternative name. The loop is followed one device, that is two
  lines, at a time: `ParsingStep` gives the equation of its states, `DeviceListed` says that
  after both lines of a device the list is again one of cameras and the next alternative name belongs to
  nobody before it. Slots keep what they were created with.
- `CameraConfig_proofs!RestartKeepsAlways`: `KeepInv` says that a slot is at all times what its
  override file, its profile and its formats make of it (`Keeps`), unless a change of it was not saved or
  another name shares the file. A new slot is that by construction, a change keeps it, since
  memory and file take the same fields; and two slots that are both so agree (`KeepsDetermine`), the
  one before the restart with the one after it. The mode needs care: memory may have one that
  the restart replaces, which is why `Keeps` speaks of it for the dropdown's modes only.
- `CameraConfig_proofs!PicksAlwaysOpen`: `FitInv` says that what was picked from a camera's formats asks for
  one of them (`Has`), in the slot and, if all three fields are there, in the file a restart reads. That
  a pick is one of the formats needs a largest element (`LargestIsOne`): `Before` is a total order of the
  formats, and a finite set that has one more member has a largest member again.
- `CameraConfig_proofs!CameraConfigTypeOK`, on which these stand. `StepIs` sorts the actions into
  new slots, changes of one camera (`Change`, whatever handler or dropdown made them) and the rest, so that each invariant
  is shown for three kinds of steps. Assumed of the constants: profiles have all three fields,
  override files and sizes no others, and the cameras of a machine different names.

Two of these are inductions over data, one along the lines of a listing and one over sizes of sets. They
are written as the existence of a least counterexample (`LeastNat`, `UpTo`), from the
well-foundedness of < on Nat, because the library's induction rules take a predicate, which the provers
cannot instantiate.

Every invariant and every safety action property of a passing run is stated by one of these theorems.
Only model-checked: liveness, for the prover handles neither fairness nor ENABLED (the liveness
properties of `live`, `hooks`, `pipe`, `children`, `ui` and `host`); and the
run that finds a violation, `timeout`.

## 7. Where the code departs from its comments

One departure has a run. `timeout`: run_command.h:15 says the timeout is total wall-clock, but
RunCommand reads both pipes to their end before the wait that has the timeout
(run_command.cpp:111-118), and a mediamtx started meanwhile holds their write ends for as long as it
lives. The rest was met while modelling:

Supervisor.

- set-mode and restart-camera start disabled or unplugged cameras (main.cpp:957, 542-544), which
  nothing stops, though 654 says the tick does the starting. `LoopStartsOnlyWanted`
  names both requests.
- a failed ffmpeg run counts as all cameras unplugged (camera_enum.cpp:88; main.cpp:1017, while
  113 says "false = unplugged"); at startup it ends the supervisor with code 3 (main.cpp:386).
- viewer counts shown can stay wrong until the next poll of an open window: the handler computes a
  row under the lock and publishes it after (main.cpp:876-879, 906-907, 972). It is `drift`.
- the comment at main.cpp:975-978 says the loop never sleeps with `state_mutex` held; line 949
  waits up to 10 s for mediamtx inside the lock of line 940 ("mtxWait"; `live` shows it ends).
- set-mode accepts five modes and a restart turns three of them into others (main.cpp:636, 440-446);
  the comment at 225 says 1280x720, the code 640x480; a camera with h264 formats only gets the 640x480
  mjpeg default, which it does not have and which 264 leaves to the backoff; a camera with nv12 as its only raw format
  passes for raw and is asked for yuyv422 (257 and 404, camera_config.cpp:45); a camera added later
  has its formats listed once, whether that worked or not (1045); the runtime yml's write is
  not checked (370).
- the probe thread is detached and uses the pipe server by reference, also after shutdown has
  destroyed it (main.cpp:679).
- a JSON text that is no object ends the process (ipc_server.cpp:253, outside the try); "writes are
  short" (93) fails for a client that has stopped reading: a writer waits for ever, with
  `state_mutex` if it is the loop or a handler.

Host.

- the host writes the credentials of its start over newer ones (SettingsFile.cs:83 against
  main.cpp:321-323); the rows offer them at once (CameraInfo.cs:49-52, MainWindow.xaml.cs:187-189)
  and a restart brings them back. `stale` in Credentials. SaveSettings can likewise lose a key
  the host saved between its read and its write (settings.cpp:43-46, 66).
- "they'll see its window shortly" (App.xaml.cs:70-74) is not so for a first host that was started
  at logon and found before it listens: it stays in the tray. A launch while the first host
  exits leaves nobody running (App.xaml.cs:66): the mutex is there, the host is not.
- a host that dies between starting the supervisor and putting it into the job leaves it running
  (SupervisorLauncher.cs:77); the next host's supervisor meets it.
- two cameras of one name end the refresh with an exception (MainViewModel.cs:110); the supervisor
  allows them.
- the answer of Apply counts as success whatever its `ok` says (MainWindow.xaml.cs:186-189); the mode
  dropdown sends no size (288); after the window is closed once, polling has ended (301), for
  Loaded comes once; two calls at once may throw in WriteLineAsync (IpcClient.cs:120), which fails
  one of them.

## 8. Not modelled

Presentation (tray, toasts, windows' layout, password box, converters), logging, string conversion,
installer, build and scripts: none holds state another part depends on. mediamtx, ffmpeg,
DirectShow, named pipes, jobs and the dispatcher are external and modelled by what the
code relies on. Of the supervisor: the script and the result files of probe-camera (its
thread is a free publisher of ControlPipe and RunCommand its command), fps and the
encoder and output options of the command line, probe summaries, and the handlers that
only read. Of the host: commands that only send a request, the clipboard and texts.
