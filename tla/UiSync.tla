------------------------------- MODULE UiSync -------------------------------
(***************************************************************************)
(* How the host keeps its window true to the supervisor: IpcClient.cs and  *)
(* what App, MainWindow and MainViewModel do with answers and events.      *)
(*                                                                         *)
(* The pump reads one message after the other.  It posts an event to the   *)
(* dispatcher itself; an answer completes a task whose continuation goes   *)
(* through the thread pool first.  So the two reach the view model by two  *)
(* ways and not in the order the supervisor wrote them.                    *)
(*                                                                         *)
(* What the rows show is the number of a supervisor state, the credentials *)
(* are a text.  Ids of calls are used again once nothing refers to them.   *)
(***************************************************************************)
EXTENDS Naturals, Sequences

CONSTANTS
  Ids,        \* bound: calls under way at once
  Texts,      \* what the credential form may hold
  MaxChanges, \* bound: changes of the supervisor's state
  MaxLate     \* bound: answers that come too late although the pipe is open

ASSUME UiSyncAssumption == Texts # {} /\ MaxChanges \in Nat /\ MaxLate \in Nat

VARIABLES
  ver, cred,        \* the supervisor: its state, its credentials
  up,               \* it and its pipe are there
  toSup, toUi,      \* the two directions of the pipe
  call,             \* per id: "free", or what awaits the answer
  waiting,          \* ids whose TaskCompletionSource is in _waiters and open
  late,             \* timeouts so far with the pipe open
  pool,             \* continuations on the thread pool
  queue,            \* the dispatcher
  shown,            \* the state the rows show
  form, dirty,      \* the credential form, _credentialsDirty
  kept              \* history: the edit made while no Apply was under way

vars == <<ver, cred, up, toSup, toUi, call, waiting, late, pool, queue,
          shown, form, dirty, kept>>
supervisor == <<ver, cred, up>>
calls == <<call, waiting>>
view == <<shown, form, dirty, kept>>

Snap == [ver |-> ver, cred |-> cred]
Nothing == [ver |-> 0, cred |-> ""]  \* what is not looked at
Event(kind, snap) == [id |-> 0, kind |-> kind, snap |-> snap]
Answer(id, snap) == [id |-> id, kind |-> "answer", snap |-> snap]

\* An id is free when no message carries it either: a late answer is dropped.
Carried == {toSup[i].id : i \in DOMAIN toSup} \cup {toUi[i].id : i \in DOMAIN toUi}
Free == {id \in Ids : call[id] = "free"} \ Carried

Init ==
  /\ ver = 0 /\ cred = (CHOOSE t \in Texts : TRUE) /\ up = TRUE /\ toSup = <<>> /\ toUi = <<>>
  /\ call = [id \in Ids |-> "free"] /\ waiting = {} /\ late = 0
  /\ pool = {} /\ queue = <<>> /\ shown = 0
  /\ form = cred /\ dirty = FALSE /\ kept = {}

-----------------------------------------------------------------------------
(* The supervisor, as the host sees it.                                    *)

\* A camera changes: one row, or the list.
Changes(kind) ==
  /\ up /\ ver < MaxChanges
  /\ ver' = ver + 1
  /\ toUi' = Append(toUi, Event(kind, [Snap EXCEPT !.ver = ver']))
  /\ UNCHANGED <<cred, up, toSup, calls, late, pool, queue, view>>

\* get-status is answered with a snapshot.  set-viewer-credentials is refused,
\* or announced to every row before its answer; the mediamtx-state-changed it
\* sends too carries nothing (see Refresh).
Serves ==
  /\ up /\ toSup # <<>>
  /\ toSup' = Tail(toSup)
  /\ LET rq == Head(toSup)
     IN \/ /\ toUi' = Append(toUi, Answer(rq.id, IF rq.kind = "apply" THEN Nothing ELSE Snap))
           /\ UNCHANGED <<ver, cred>>
        \/ /\ rq.kind = "apply" /\ cred' = rq.text /\ UNCHANGED ver
           /\ toUi' = toUi \o <<Event("list", Snap'), Answer(rq.id, Nothing)>>
  /\ UNCHANGED <<up, calls, late, pool, queue, view>>

\* It ends; what the host had not read yet is lost or not.
Ends ==
  /\ up /\ up' = FALSE /\ toSup' = <<>>
  /\ toUi' \in {toUi, <<>>}
  /\ UNCHANGED <<ver, cred, calls, late, pool, queue, view>>

-----------------------------------------------------------------------------
(* IpcClient.                                                              *)

\* CallAsync: the line is written and the wait begins.  If the pipe is closed,
\* or another write is under way, that throws: the call has failed at once, its
\* waiter stays behind and nobody will use it.
CallAsync(kind) == \E id \in Free :
  /\ up
  /\ call' = [call EXCEPT ![id] = kind] /\ waiting' = waiting \cup {id}
  /\ toSup' = Append(toSup, [id |-> id, kind |-> kind,
                              text |-> IF kind = "apply" THEN form ELSE ""])
  /\ UNCHANGED <<supervisor, toUi, late, pool, queue>>

Failed(id) == [id |-> id, kind |-> "failed", snap |-> Nothing]

\* 5 s, or 15 s for an Apply: the supervisor is gone, or busy for longer.
TimesOutIfOpen(id) ==                               \* mutant
  /\ id \in waiting /\ up /\ late < MaxLate /\ late' = late + 1
  /\ waiting' = waiting \ {id} /\ pool' = pool \cup {Failed(id)}
  /\ UNCHANGED <<supervisor, toSup, toUi, call, queue, view>>
TimesOut(id) ==
  /\ id \in waiting
  /\ IF up THEN late < MaxLate /\ late' = late + 1 ELSE UNCHANGED late
  /\ waiting' = waiting \ {id} /\ pool' = pool \cup {Failed(id)}
  /\ UNCHANGED <<supervisor, toSup, toUi, call, queue, view>>

\* One message.  An answer nobody waits for is dropped.
Pump ==
  /\ toUi # <<>> /\ toUi' = Tail(toUi)
  /\ LET m == Head(toUi)
     IN IF m.kind # "answer"
        THEN queue' = Append(queue, m) /\ UNCHANGED <<waiting, pool>>
        ELSE /\ waiting' = waiting \ {m.id}
             /\ pool' = IF m.id \in waiting
                        THEN pool \cup {m} ELSE pool
             /\ UNCHANGED queue
  /\ UNCHANGED <<supervisor, toSup, call, late, view>>

\* The thread pool posts a continuation to the dispatcher.
Posts(c) ==
  /\ c \in pool /\ pool' = pool \ {c}
  /\ queue' = Append(queue, c)
  /\ UNCHANGED <<supervisor, toSup, toUi, calls, late, view>>

-----------------------------------------------------------------------------
(* The dispatcher: queued work, and what the user does between.            *)

\* The rows take what comes; ApplyCameraList promotes its credentials to the
\* form unless that is dirty.
ApplyAlways(snap, list) ==                          \* mutant
  shown' = snap.ver /\ form' = IF list THEN snap.cred ELSE form
ApplyIfClean(snap, list) ==                         \* mutant
  IF dirty THEN UNCHANGED <<shown, form>>
  ELSE shown' = snap.ver /\ form' = IF list THEN snap.cred ELSE form
Apply(snap, list) ==
  shown' = snap.ver /\ form' = IF list /\ ~dirty THEN snap.cred ELSE form

\* What follows the await: a snapshot is applied; the answer to an Apply, which
\* is not looked at, marks the form clean.
Resumes(m) ==
  LET apply == call[m.id] = "apply"
  IN /\ IF ~apply /\ m.kind = "answer" THEN Apply(m.snap, TRUE) ELSE UNCHANGED <<shown, form>>
     /\ dirty' = (dirty /\ ~(apply /\ m.kind = "answer"))
     /\ call' = [call EXCEPT ![m.id] = "free"]

Dispatch ==
  /\ queue # <<>> /\ queue' = Tail(queue)
  /\ LET m == Head(queue)
     IN IF m.kind \in {"answer", "failed"} THEN Resumes(m)
        ELSE Apply(m.snap, m.kind = "list") /\ UNCHANGED <<dirty, call>>
  /\ UNCHANGED <<supervisor, toSup, toUi, waiting, late, pool, kept>>

\* The setters of ViewerUser and ViewerPassword.
Edits(text) ==
  /\ text # form /\ form' = text /\ dirty' = TRUE
  /\ kept' = IF \E id \in Ids : call[id] = "apply" THEN {} ELSE {text}
  /\ UNCHANGED <<supervisor, toSup, toUi, calls, late, pool, queue, shown>>

ApplyCredentials ==
  /\ CallAsync("apply") /\ kept' = {}
  /\ UNCHANGED <<shown, form, dirty>>

\* RefreshAsync: at the start, when the window is loaded, when mediamtx changes,
\* after a failed Apply, and every 5 s from Loaded until the window is closed.
Refresh == CallAsync("status") /\ UNCHANGED view

-----------------------------------------------------------------------------
Next ==
  \/ Changes("row") \/ Changes("list") \/ Serves \/ Ends
  \/ \E id \in Ids : TimesOut(id)
  \/ Pump \/ (\E c \in pool : Posts(c)) \/ Dispatch
  \/ \E t \in Texts : Edits(t)
  \/ ApplyCredentials \/ Refresh

\* Threads and timers run and the supervisor serves; what the user does and the
\* supervisor's changes may never come.
Fairness ==
  /\ WF_vars(Serves) /\ WF_vars(Pump) /\ WF_vars(Dispatch)
  /\ \A id \in Ids : /\ WF_vars(~up /\ TimesOut(id))
                     /\ WF_vars(\E c \in pool : c.id = id /\ Posts(c))

Spec == Init /\ [][Next]_vars
FairSpec == Spec /\ Fairness

-----------------------------------------------------------------------------
(* Properties.                                                             *)

\* What the user typed while no Apply was under way stays in the form until
\* the user applies or changes it, whatever snapshots arrive, also those of
\* polls, of a failed Apply and of a timed-out one
\* (MainViewModel.cs:47-56, 74-91; MainWindow.xaml.cs:183-197).
EditsSurvive == kept # {} => kept = {form}

\* While the host refreshes again and again, the rows come to show the
\* supervisor's last state and stay there, although an answer may be applied
\* after a newer event.  The window refreshes every 5 s until it is closed for
\* the first time, for Loaded comes once (MainWindow.xaml.cs:46-52, 298-306).
RowsCatchUp == (<>[]up /\ []<><<Refresh>>_vars) => <>[](shown = ver)

\* Every call comes to an end, also when the pipe is closed under it
\* (IpcClient.cs:122-133).
CallsEnd == \A id \in Ids : (call[id] # "free") ~> (call[id] = "free")

=============================================================================
