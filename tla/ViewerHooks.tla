---------------------------- MODULE ViewerHooks ----------------------------
(***************************************************************************)
(* Viewer events from mediamtx to the supervisor: mtx_event_hook.cpp and   *)
(* events_pipe.cpp.  mediamtx runs one hook process per event; the hook    *)
(* connects to the events pipe, writes one line and waits until it is read.*)
(* The supervisor's accept thread serves one pipe instance at a time and   *)
(* calls the handler of main.cpp:857-910, which counts the viewers of a    *)
(* slot.  Stop may come at any point of the accept loop.                   *)
(*                                                                         *)
(* One camera is modelled.  A hook is <<reader, kind>>: a connection of a  *)
(* reader has an id of its own, so each is read once and unread once.  A   *)
(* line is read as a whole; a section under mu_ is one action.             *)
(***************************************************************************)
EXTENDS Naturals, FiniteSets

CONSTANTS
  Readers,      \* readers that come and go
  HooksMayDie   \* whether mediamtx, going down, ends hooks that are at work

ASSUME HooksAssumption == HooksMayDie \in BOOLEAN

VARIABLES
  hook,      \* per hook, where its process is
  inst,      \* the pipe instance the kernel has: its client and the unread line
  current,   \* current_pipe_ is a handle
  pc,        \* the accept thread
  ok,        \* its local: ConnectNamedPipe succeeded
  line,      \* its local: the line read, {} if none
  stop,      \* stop_
  stopPc,    \* the thread in Stop()
  count,     \* viewer_count of the slot
  handled,   \* history: the hooks whose event was handled
  swapped    \* history: readers whose unread was handled before their read

vars == <<hook, inst, current, pc, ok, line, stop, stopPc, count, handled,
          swapped>>
counts == <<count, handled, swapped>>
server == <<current, pc, ok, line, stop, stopPc, counts>>

Hooks == Readers \X {"read", "unread"}

\* hook: not started, trying to connect, connected, waiting in
\* FlushFileBuffers; then ended after its line was read, without ever having
\* connected, or because its end broke or mediamtx went down.
HookStates == {"none", "trying", "open", "flush", "done", "dropped", "broken"}

NoPipe == [exists |-> FALSE, client |-> {}, here |-> FALSE, data |-> {}]
Listening == [exists |-> TRUE, client |-> {}, here |-> FALSE, data |-> {}]

Init ==
  /\ hook = [h \in Hooks |-> "none"]
  /\ inst = NoPipe /\ current = FALSE /\ pc = "check" /\ ok = FALSE
  /\ line = {} /\ stop = FALSE /\ stopPc = "no" /\ count = 0
  /\ handled = {} /\ swapped = {}

-----------------------------------------------------------------------------
(* mediamtx and its hooks.                                                 *)

\* The readers mediamtx serves.
Watching == {r \in Readers : hook[<<r, "read">>] # "none" /\ hook[<<r, "unread">>] = "none"}

ReaderConnects(r) ==
  /\ hook[<<r, "read">>] = "none"
  /\ hook' = [hook EXCEPT ![<<r, "read">>] = "trying"]
  /\ UNCHANGED <<inst, server>>

ReaderLeaves(r) ==
  /\ r \in Watching
  /\ hook' = [hook EXCEPT ![<<r, "unread">>] = "trying"]
  /\ UNCHANGED <<inst, server>>

\* CreateFile gets the instance if nobody has it.
HookConnects(h) ==
  /\ hook[h] = "trying" /\ inst.exists /\ inst.client = {}
  /\ hook' = [hook EXCEPT ![h] = "open"]
  /\ inst' = [inst EXCEPT !.client = {h}, !.here = TRUE]
  /\ UNCHANGED server

\* Busy or not there: it waits and tries again; the last of its 20 attempts, or
\* another error, drops the event.
HookGivesUp(h) ==
  /\ hook[h] = "trying" /\ ~(inst.exists /\ inst.client = {})
  /\ hook' = [hook EXCEPT ![h] = "dropped"]
  /\ UNCHANGED <<inst, server>>

Connected(h) == h \in inst.client /\ inst.here

\* The client's end is closed; a line not yet read goes with it unless the
\* server is already connected.
Leave(h, how) ==
  /\ hook' = [hook EXCEPT ![h] = how]
  /\ inst' = IF Connected(h) THEN [inst EXCEPT !.here = FALSE] ELSE inst
  /\ UNCHANGED server

HookWrites(h) ==
  /\ hook[h] = "open" /\ Connected(h)
  /\ hook' = [hook EXCEPT ![h] = "flush"]
  /\ inst' = [inst EXCEPT !.data = {h}]
  /\ UNCHANGED server

\* FlushFileBuffers returns when the server has read the line.
HookEndsUnflushed(h) == hook[h] = "flush" /\ Connected(h) /\ Leave(h, "done") \* mutant
HookEnds(h) ==
  hook[h] = "flush" /\ Connected(h) /\ h \notin inst.data /\ Leave(h, "done")

\* The server closed the pipe: write and flush fail.
HookBreaks(h) ==
  hook[h] \in {"open", "flush"} /\ ~Connected(h) /\ Leave(h, "broken")

HookDies(h) ==
  HooksMayDie /\ hook[h] \in {"trying", "open", "flush"} /\ Leave(h, "broken")

-----------------------------------------------------------------------------
(* The accept thread.                                                      *)

\* CreateNamedPipe; if it fails the loop sleeps and tries again.
Create ==
  /\ pc = "check"
  /\ IF stop THEN pc' = "ended" /\ UNCHANGED inst
     ELSE pc' = "created" /\ inst' = Listening
  /\ UNCHANGED <<hook, current, ok, line, stop, stopPc,
                 counts>>

\* Under mu_: give up if Stop has begun, else publish the handle.
Publish ==
  /\ pc = "created"
  /\ IF stop THEN pc' = "ended" /\ inst' = NoPipe /\ UNCHANGED current
     ELSE pc' = "connect" /\ current' = TRUE /\ UNCHANGED inst
  /\ UNCHANGED <<hook, ok, line, stop, stopPc, counts>>

\* ConnectNamedPipe: at once if a hook was faster, with an error if that hook
\* is gone or Stop has closed the handle, else it blocks; "missed" when the
\* cancel of Stop has been and gone.
Connect ==
  /\ pc = "connect"
  /\ IF inst.exists /\ inst.client = {}
     THEN /\ pc' = IF stopPc \in {"no", "cancel"} THEN "blocked" ELSE "missed"
          /\ UNCHANGED ok
     ELSE pc' = "returned" /\ ok' = inst.here
  /\ UNCHANGED <<hook, inst, current, line, stop, stopPc,
                 counts>>

Unblocked ==
  /\ pc \in {"blocked", "missed"} /\ inst.client # {}
  /\ pc' = "returned" /\ ok' = TRUE
  /\ UNCHANGED <<hook, inst, current, line, stop, stopPc,
                 counts>>

\* Under mu_: close current_pipe_ if it is still a handle.
CloseCurrentNever == UNCHANGED <<current, inst>>    \* mutant
CloseCurrent ==
  IF current THEN current' = FALSE /\ inst' = NoPipe
  ELSE UNCHANGED <<current, inst>>

\* Stop is looked at first; then the result.
Returned ==
  /\ pc = "returned"
  /\ IF stop THEN pc' = "ended" /\ CloseCurrent
     ELSE pc' = (IF ok THEN "read" ELSE "failed") /\ UNCHANGED <<current, inst>>
  /\ ok' = FALSE
  /\ UNCHANGED <<hook, line, stop, stopPc, counts>>

\* CloseHandle(p), whether or not Stop has closed it in the meantime.
ConnectFailed ==
  /\ pc = "failed"
  /\ inst' = NoPipe /\ current' = FALSE /\ pc' = "check"
  /\ UNCHANGED <<hook, ok, line, stop, stopPc, counts>>

\* One line, or none: the hook is gone, the handle closed, or stop set.
Read ==
  /\ pc = "read"
  /\ \/ inst.data # {} /\ line' = inst.data /\ inst' = [inst EXCEPT !.data = {}]
     \/ /\ stop \/ ~inst.exists \/ (~inst.here /\ inst.data = {})
        /\ line' = {} /\ UNCHANGED inst
  /\ pc' = "handle"
  /\ UNCHANGED <<hook, current, ok, stop, stopPc, counts>>

ViewerCountNoFloor(kind) ==                         \* mutant
  IF kind = "read" THEN count + 1 ELSE count - 1
ViewerCountKeepsOne(kind) ==                        \* mutant
  IF kind = "read" THEN count + 1 ELSE IF count > 1 THEN count - 1 ELSE count
ViewerCount(kind) ==
  IF kind = "read" THEN count + 1 ELSE IF count > 0 THEN count - 1 ELSE 0

Handle ==
  /\ pc = "handle"
  /\ IF line = {} THEN UNCHANGED counts
     ELSE \E h \in line : /\ count' = ViewerCount(h[2])
                          /\ handled' = handled \cup {h}
                          /\ swapped' = IF h[2] = "unread" /\ <<h[1], "read">> \notin handled
                                        THEN swapped \cup {h[1]} ELSE swapped
  /\ line' = {} /\ pc' = "close"
  /\ UNCHANGED <<hook, inst, current, ok, stop, stopPc>>

Close ==
  /\ pc = "close"
  /\ CloseCurrent /\ pc' = "check"
  /\ UNCHANGED <<hook, ok, line, stop, stopPc, counts>>

-----------------------------------------------------------------------------
(* Stop(): set the flag, cancel, close, join.                              *)

StopBegins ==
  /\ stopPc = "no"
  /\ stop' = TRUE /\ stopPc' = "cancel"
  /\ UNCHANGED <<hook, inst, current, pc, ok, line, counts>>

\* CancelSynchronousIo reaches a call that is blocked now.
CancelNothing ==                                    \* mutant
  /\ stopPc = "cancel" /\ stopPc' = "close"
  /\ UNCHANGED <<hook, inst, current, pc, ok, line, stop, counts>>
Cancel ==
  /\ stopPc = "cancel"
  /\ IF pc = "blocked" THEN pc' = "returned" /\ ok' = FALSE
     ELSE UNCHANGED <<pc, ok>>
  /\ stopPc' = "close"
  /\ UNCHANGED <<hook, inst, current, line, stop, counts>>

\* Closing the handle "does NOT reliably unblock" a ConnectNamedPipe that is in
\* flight (ipc_server.cpp:118-119).
StopCloses ==
  /\ stopPc = "close"
  /\ CloseCurrent /\ stopPc' = "join"
  /\ pc' \in {pc} \cup (IF pc = "missed" THEN {"returned"} ELSE {})
  /\ UNCHANGED <<hook, ok, line, stop, counts>>

Join ==
  /\ stopPc = "join" /\ pc = "ended"
  /\ stopPc' = "returned"
  /\ UNCHANGED <<hook, inst, current, pc, ok, line, stop,
                 counts>>

-----------------------------------------------------------------------------
HookSteps(h) ==
  HookConnects(h) \/ HookGivesUp(h) \/ HookWrites(h) \/ HookEnds(h) \/ HookBreaks(h)

Accept ==
  \/ Create \/ Publish \/ Connect \/ Unblocked \/ Returned \/ ConnectFailed
  \/ Read \/ Handle \/ Close

Stop == StopBegins \/ Cancel \/ StopCloses \/ Join

Next ==
  \/ \E r \in Readers : ReaderConnects(r) \/ ReaderLeaves(r)
  \/ \E h \in Hooks : HookSteps(h) \/ HookDies(h)
  \/ Accept \/ Stop

\* Threads and hook processes are scheduled; nobody has to stop the server.
Fairness ==
  /\ WF_vars(Accept) /\ WF_vars(Cancel \/ StopCloses \/ Join)
  /\ \A h \in Hooks : WF_vars(HookSteps(h))

Spec == Init /\ [][Next]_vars
FairSpec == Spec /\ Fairness

-----------------------------------------------------------------------------
(* Properties.                                                             *)

TypeOK ==
  /\ hook \in [Hooks -> HookStates]
  /\ inst \in [exists : BOOLEAN, client : SUBSET Hooks, here : BOOLEAN,
               data : SUBSET Hooks]
  /\ current \in BOOLEAN /\ ok \in BOOLEAN /\ stop \in BOOLEAN
  /\ pc \in {"check", "created", "connect", "blocked", "missed", "returned", "failed",
             "read", "handle", "close", "ended"}
  /\ line \subseteq Hooks /\ stopPc \in {"no", "cancel", "close", "join", "returned"}
  /\ count \in Nat /\ handled \subseteq Hooks /\ swapped \subseteq Readers

\* A hook that saw its line taken is counted, also when the server is being
\* stopped: FlushFileBuffers keeps the client's end open until the server has
\* connected and read (mtx_event_hook.cpp:110), and what was read is handled
\* without another look at stop_ (events_pipe.cpp:91-98).
DoneIsCounted == \A h \in Hooks : hook[h] = "done" => h \in handled \cup line

\* What the count says when no event is under way and none was lost: never too
\* few viewers, and exactly the viewers there are if the two events of every
\* reader were handled in their order.  Each hook is a process of its own, so
\* they need not be (main.cpp:896-897 stops at zero).
Settled == {h \in Hooks : hook[h] # "none"} \subseteq handled
CountTracksReaders ==
  Settled => /\ count >= Cardinality(Watching)
             /\ swapped = {} => count = Cardinality(Watching)

\* No hook is left hanging: its attempts are bounded and the server always
\* reads or closes, also while it stops (mtx_event_hook.cpp:87-112).
HooksEnd == \A h \in Hooks :
  hook[h] \in {"trying", "open", "flush"} ~> hook[h] \in {"done", "dropped", "broken"}

\* Stop returns wherever the accept thread was, unless ConnectNamedPipe was
\* entered between the cancel and the close (events_pipe.cpp:25-33).
StopReturns == (stopPc # "no") ~> (stopPc = "returned" \/ pc = "missed")

=============================================================================
