--------------------------- MODULE SingleInstance ---------------------------
(***************************************************************************)
(* The life of the host: App.xaml.cs and SupervisorLauncher.cs.  Of all    *)
(* the hosts the user launches one goes on, holding a named mutex; a later *)
(* one rings its doorbell and leaves.  The host owns the supervisor by a   *)
(* job: whatever is in it dies when the host closes the job or dies.       *)
(*                                                                         *)
(* A named kernel object lives while somebody has a handle on it, so it is *)
(* the set of those who have.  The UI thread runs posted work when it      *)
(* awaits and when it idles.                                               *)
(***************************************************************************)
EXTENDS Naturals

CONSTANTS
  Hosts,        \* launches
  MaxRings      \* bound: times the user closes the window again

ASSUME SingleInstanceAssumption == MaxRings \in Nat

VARIABLES
  pc,        \* per host, its UI thread
  mutex,     \* handles on the single-instance mutex
  doorbell,  \* handles on the show-window event
  rung,      \* the event is set; the wait that sees it resets it
  listener,  \* per host, its ShowWindowListenerLoop
  posted,    \* hosts with a ShowMainWindow posted
  windows,     \* hosts whose window is windows
  sup,       \* per host, its supervisor: none, outside the job, in it, orphaned
  answered,  \* history: hosts that were rung and have not windows their window yet
  hidden     \* times a window was closed

hostVars == <<pc, mutex, doorbell, rung, listener, posted, windows, sup, answered, hidden>>
kernel == <<mutex, doorbell, rung>>
showing == <<listener, posted, windows, answered, hidden>>

\* From Start to the last line of OnExit; "box" is a message box before Shutdown.
Past == {"event", "launch", "assign", "connect", "box", "running",
         "close", "flag", "unring", "release"}

HostInit ==
  /\ pc = [h \in Hosts |-> "none"] /\ mutex = {} /\ doorbell = {} /\ rung = FALSE
  /\ listener = [h \in Hosts |-> "none"] /\ posted = {} /\ windows = {}
  /\ sup = [h \in Hosts |-> "none"] /\ answered = {} /\ hidden = 0

Goes(h, from, to) == pc[h] = from /\ pc' = [pc EXCEPT ![h] = to]

\* The supervisor of a host whose job closes: dead if it was in the job.
JobCloses(h) == sup' = [sup EXCEPT ![h] = IF @ = "inside" THEN "none"
                                          ELSE IF @ = "outside" THEN "orphan" ELSE @]

-----------------------------------------------------------------------------
(* OnStartup.                                                              *)

Launch(h) ==
  /\ Goes(h, "none", IF mutex = {} THEN "event" ELSE "second")
  /\ mutex' = mutex \cup {h}
  /\ UNCHANGED <<doorbell, rung, showing, sup>>

\* A second host: open the doorbell if there is one, ring it, leave.
OpensDoorbell(h) ==
  /\ Goes(h, "second", IF doorbell = {} THEN "leave" ELSE "ring")
  /\ doorbell' = IF doorbell = {} THEN {} ELSE doorbell \cup {h}
  /\ UNCHANGED <<mutex, rung, showing, sup>>

Rings(h) ==
  /\ Goes(h, "ring", "leave")
  /\ rung' = TRUE /\ doorbell' = doorbell \ {h}
  /\ answered' = answered \cup {g \in Hosts : pc[g] \in Past /\ listener[g] # "none"}
  /\ UNCHANGED <<mutex, listener, posted, windows, hidden, sup>>

Leaves(h) ==
  /\ Goes(h, "leave", "gone")
  /\ mutex' = mutex \ {h}
  /\ UNCHANGED <<doorbell, rung, showing, sup>>

\* The first: create the doorbell and start the listener.
CreatesDoorbell(h) ==
  /\ Goes(h, "event", "launch")
  /\ doorbell' = doorbell \cup {h} /\ listener' = [listener EXCEPT ![h] = "wait"]
  /\ UNCHANGED <<mutex, rung, posted, windows, answered, hidden, sup>>

\* The executable is missing, or the process does not start; else it runs, at
\* first outside the job.
StartsSupervisor(h) ==
  /\ \/ Goes(h, "launch", "assign") /\ sup' = [sup EXCEPT ![h] = "outside"]
     \/ Goes(h, "launch", "box") /\ UNCHANGED sup
  /\ UNCHANGED <<kernel, showing>>

AssignsSupervisor(h) ==
  /\ \/ /\ Goes(h, "assign", "connect")
        /\ sup' = [sup EXCEPT ![h] = IF @ = "outside" THEN "inside" ELSE @]
     \/ Goes(h, "assign", "box") /\ UNCHANGED sup
  /\ UNCHANGED <<kernel, showing>>

\* Up to 20 attempts; the last timeout is an error.  Without a settings file
\* the window is windows at once.
Connects(h) ==
  /\ \/ /\ Goes(h, "connect", "running")
        /\ windows' \in {windows, windows \cup {h}}
        /\ answered' = answered \ windows'
        /\ UNCHANGED <<listener, posted, hidden>>
     \/ Goes(h, "connect", "box") /\ UNCHANGED showing
  /\ UNCHANGED <<kernel, sup>>

\* The supervisor ends by itself: a line in the status bar.
SupervisorEnds(h) ==
  /\ sup[h] # "none" /\ sup' = [sup EXCEPT ![h] = "none"]
  /\ UNCHANGED <<pc, kernel, showing>>

-----------------------------------------------------------------------------
(* The doorbell.                                                           *)

\* WaitOne returns for one of those who wait; _shuttingDown ends the loop.
HearsOnce(h) ==                                     \* mutant
  /\ listener[h] = "wait" /\ rung /\ rung' = FALSE
  /\ posted' = posted \cup {h} /\ listener' = [listener EXCEPT ![h] = "ended"]
  /\ UNCHANGED <<pc, mutex, doorbell, windows, answered, hidden, sup>>
Hears(h) ==
  /\ listener[h] = "wait" /\ rung /\ rung' = FALSE
  /\ IF pc[h] \in {"unring", "release", "gone"}
     THEN listener' = [listener EXCEPT ![h] = "ended"] /\ UNCHANGED posted
     ELSE posted' = posted \cup {h} /\ UNCHANGED listener
  /\ UNCHANGED <<pc, mutex, doorbell, windows, answered, hidden, sup>>

\* Posted work runs while the UI thread awaits the pipe, idles or shows a box.
Shows(h) ==
  /\ h \in posted /\ pc[h] \in {"connect", "box", "running"}
  /\ posted' = posted \ {h} /\ windows' = windows \cup {h} /\ answered' = answered \ {h}
  /\ UNCHANGED <<pc, kernel, listener, hidden, sup>>

\* Closing only hides the window.
Hides(h) ==
  /\ h \in windows /\ pc[h] = "running" /\ hidden < MaxRings
  /\ hidden' = hidden + 1 /\ windows' = windows \ {h}
  /\ UNCHANGED <<pc, kernel, listener, posted, answered, sup>>

-----------------------------------------------------------------------------
(* ExitApp, or OnExit after a message box: the same three steps.           *)

ExitApp(h) == Goes(h, "running", "close") /\ UNCHANGED <<kernel, showing, sup>>
BoxDismissed(h) == Goes(h, "box", "close") /\ UNCHANGED <<kernel, showing, sup>>

\* SupervisorLauncher.Dispose.
DisposesLauncherNever(h) ==                         \* mutant
  Goes(h, "close", "flag") /\ UNCHANGED <<kernel, showing, sup>>
DisposesLauncher(h) ==
  /\ Goes(h, "close", "flag")
  /\ JobCloses(h)
  /\ UNCHANGED <<kernel, showing>>

\* DisposeSingleInstanceGuard: _shuttingDown and Set; Dispose; the mutex.
WakesListener(h) ==
  /\ Goes(h, "flag", "unring")
  /\ rung' = (rung \/ h \in doorbell)
  /\ UNCHANGED <<mutex, doorbell, showing, sup>>

DisposesDoorbell(h) ==
  /\ Goes(h, "unring", "release")
  /\ doorbell' = doorbell \ {h} /\ rung' = (rung /\ doorbell' # {})
  /\ listener' \in {listener, [listener EXCEPT ![h] = "ended"]}
  /\ UNCHANGED <<mutex, posted, windows, answered, hidden, sup>>

\* Then the process is on its way out, and its listener with it.
ReleasesMutex(h) ==
  /\ Goes(h, "release", "gone")
  /\ mutex' = mutex \ {h} /\ listener' = [listener EXCEPT ![h] = "ended"]
  /\ windows' = windows \ {h} /\ posted' = posted \ {h} /\ answered' = answered \ {h}
  /\ UNCHANGED <<doorbell, rung, hidden, sup>>

\* Killed, or an exception nobody catches: the kernel closes all handles.
Crashes(h) ==
  /\ pc[h] \notin {"none", "gone"} /\ pc' = [pc EXCEPT ![h] = "gone"]
  /\ mutex' = mutex \ {h} /\ doorbell' = doorbell \ {h}
  /\ rung' = (rung /\ doorbell' # {})
  /\ listener' = [listener EXCEPT ![h] = "ended"]
  /\ windows' = windows \ {h} /\ posted' = posted \ {h} /\ answered' = answered \ {h}
  /\ JobCloses(h) /\ UNCHANGED hidden

-----------------------------------------------------------------------------
Startup(h) ==
  \/ OpensDoorbell(h) \/ Rings(h) \/ Leaves(h) \/ CreatesDoorbell(h)
  \/ StartsSupervisor(h) \/ AssignsSupervisor(h) \/ Connects(h)
Exit(h) ==
  DisposesLauncher(h) \/ WakesListener(h) \/ DisposesDoorbell(h) \/ ReleasesMutex(h)

HostNext == \E h \in Hosts :
  \/ Launch(h) \/ Startup(h) \/ Exit(h) \/ Hears(h) \/ Shows(h) \/ Hides(h)
  \/ ExitApp(h) \/ BoxDismissed(h) \/ SupervisorEnds(h) \/ Crashes(h)

\* Threads are scheduled and the user closes a message box.
HostFairness == \A h \in Hosts :
  /\ WF_hostVars(Startup(h)) /\ WF_hostVars(Exit(h)) /\ WF_hostVars(BoxDismissed(h))
  /\ WF_hostVars(Hears(h)) /\ WF_hostVars(Shows(h))

HostSpec == HostInit /\ [][HostNext]_hostVars
HostFairSpec == HostSpec /\ HostFairness

-----------------------------------------------------------------------------
(* Properties.                                                             *)

\* Never two supervisors that belong to hosts: the guard is given up only when
\* the old one's is gone.  An orphan is one whose host could not put it in the
\* job, or died before it did (App.xaml.cs:65-88, 336-353;
\* SupervisorLauncher.cs:76-78).
OneSupervisor == \A g, h \in Hosts :
  {sup[g], sup[h]} \subseteq {"outside", "inside"} => g = h

\* A host that is rung shows its window, also the second time, unless it comes
\* to its end (App.xaml.cs:75-79, 303-322).
DoorbellAnswered == \A h \in Hosts :
  (h \in answered) ~> (h \notin answered)

=============================================================================
