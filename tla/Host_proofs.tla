----------------------------- MODULE Host_proofs -----------------------------
(* Proofs about the two modules of the host, each by its own specification:  *)
(* UiSync, for any number of calls, texts and changes, and SingleInstance,   *)
(* for any number of launches.                                               *)
EXTENDS UiSync, SingleInstance, TLAPS

-----------------------------------------------------------------------------
(* UiSync.                                                                   *)

\* What travels: snapshots carry what the form can hold, an answer or a failure
\* carries the id of a call.
Snapshot == [ver : Nat, cred : Texts \cup {""}]
Requests == [id : Ids, kind : {"apply", "status"}, text : Texts \cup {""}]
Events == [id : {0}, kind : {"row", "list"}, snap : Snapshot]
Ended == [id : Ids, kind : {"answer", "failed"}, snap : Snapshot]

TypeOK ==
  /\ ver \in Nat /\ cred \in Texts \cup {""} /\ up \in BOOLEAN
  /\ toSup \in Seq(Requests) /\ toUi \in Seq(Events \cup Ended)
  /\ call \in [Ids -> {"free", "apply", "status"}]
  /\ waiting \subseteq Ids /\ late \in Nat
  /\ pool \subseteq Ended /\ queue \in Seq(Events \cup Ended)
  /\ form \in Texts \cup {""} /\ dirty \in BOOLEAN

\* While an edit is to be kept the form is dirty and no Apply is under way, so
\* that neither a snapshot nor the answer to an Apply can touch it.
EditInv == kept # {} => /\ kept = {form} /\ dirty
                        /\ \A id \in Ids : call[id] # "apply"

IInv == TypeOK /\ EditInv

LEMMA EmptyTyped == ASSUME NEW S PROVE <<>> \in Seq(S)
OBVIOUS

LEMMA AppendTyped ==
  ASSUME NEW S, NEW s \in Seq(S), NEW x \in S
  PROVE  Append(s, x) \in Seq(S)
OBVIOUS

LEMMA PairTyped ==
  ASSUME NEW S, NEW s \in Seq(S), NEW x \in S, NEW y \in S
  PROVE  s \o <<x, y>> \in Seq(S)
OBVIOUS

LEMMA EditInit == Init => IInv
<1> SUFFICES ASSUME Init PROVE IInv
  OBVIOUS
<1>1. cred \in Texts
  BY UiSyncAssumption DEF Init
<1> QED
  BY <1>1, EmptyTyped DEF Init, IInv, TypeOK, EditInv

LEMMA SnapTyped == ASSUME TypeOK PROVE Snap \in Snapshot
BY DEF TypeOK, Snap, Snapshot

LEMMA Increment == \A n \in Nat : n + 1 \in Nat
OBVIOUS

LEMMA CountersTyped == TypeOK => ver + 1 \in Nat /\ late + 1 \in Nat
<1> SUFFICES ASSUME ver \in Nat, late \in Nat
             PROVE  ver + 1 \in Nat /\ late + 1 \in Nat
  BY Zenon DEF TypeOK
<1> QED
  BY Increment

LEMMA NextSnapTyped ==
  ASSUME TypeOK, NEW n \in Nat
  PROVE  [Snap EXCEPT !.ver = n] \in Snapshot
BY DEF TypeOK, Snap, Snapshot

LEMMA NothingTyped == Nothing \in Snapshot
BY DEF Nothing, Snapshot

LEMMA HeadTail ==
  ASSUME NEW S, NEW s \in Seq(S), s # <<>>
  PROVE  Head(s) \in S /\ Tail(s) \in Seq(S)
OBVIOUS

\* A call that is not an Apply, or one made while nothing is to be kept.
LEMMA CallKeeps ==
  ASSUME IInv, NEW kind \in {"apply", "status"}, CallAsync(kind),
         UNCHANGED <<form, dirty>>,
         kept' = {} \/ (kind = "status" /\ kept' = kept)
  PROVE  IInv'
<1> USE DEF IInv, TypeOK, EditInv, view, supervisor
<1>1. PICK id \in Free :
        /\ call' = [call EXCEPT ![id] = kind] /\ waiting' = waiting \cup {id}
        /\ toSup' = Append(toSup, [id |-> id, kind |-> kind,
                              text |-> IF kind = "apply" THEN form ELSE ""])
        /\ UNCHANGED <<supervisor, toUi, late, pool, queue>>
  BY DEF CallAsync
<1>2. id \in Ids
  BY DEF Free
<1>3. toSup' \in Seq(Requests)
  BY <1>1, <1>2, AppendTyped DEF Requests
<1>4. TypeOK'
  BY <1>1, <1>2, <1>3
<1>5. EditInv'
  BY <1>1, <1>2
<1> QED
  BY <1>4, <1>5

LEMMA DispatchKeeps == IInv /\ Dispatch => IInv'
<1> SUFFICES ASSUME IInv, Dispatch PROVE IInv'
  OBVIOUS
<1> USE DEF IInv, TypeOK, EditInv, supervisor
<1> DEFINE m == Head(queue)
<1>1. m \in Events \cup Ended /\ queue' \in Seq(Events \cup Ended)
  BY HeadTail DEF Dispatch
<1>2. m.snap.cred \in Texts \cup {""}
  BY <1>1 DEF Events, Ended, Snapshot
<1>3. CASE m.kind \in {"answer", "failed"}
  <2>1. m.id \in Ids
    BY <1>1, <1>3 DEF Events, Ended
  <2>2. Resumes(m)
    BY <1>3 DEF Dispatch
  <2>3. TypeOK'
    BY <1>1, <1>2, <2>1, <2>2 DEF Dispatch, Resumes, Apply
  <2>4. EditInv'
    BY <2>1, <2>2 DEF Dispatch, Resumes, Apply
  <2> QED
    BY <2>3, <2>4
<1>4. CASE m.kind \notin {"answer", "failed"}
  BY <1>1, <1>2, <1>4 DEF Dispatch, Apply
<1> QED
  BY <1>3, <1>4

LEMMA EditNext == IInv /\ [Next]_vars => IInv'
<1> SUFFICES ASSUME IInv, [Next]_vars PROVE IInv'
  OBVIOUS
<1>0. ver + 1 \in Nat /\ late + 1 \in Nat
  BY CountersTyped DEF IInv
<1> USE DEF IInv, TypeOK, EditInv, supervisor, calls, view
<1>1. CASE UNCHANGED vars
  BY <1>1 DEF vars
<1>2. ASSUME NEW kind \in {"row", "list"}, Changes(kind)
      PROVE  IInv'
  <2>0. ver' \in Nat
    <3>1. ver' = ver + 1
      BY <1>2 DEF Changes
    <3> QED
      BY <1>0, <3>1
  <2>1. [Snap EXCEPT !.ver = ver'] \in Snapshot
    BY <2>0, NextSnapTyped
  <2>2. Event(kind, [Snap EXCEPT !.ver = ver']) \in Events
    BY <2>1 DEF Event, Events
  <2> QED
    BY <1>2, <2>0, <2>2, AppendTyped DEF Changes
<1>3. CASE Serves
  <2> DEFINE rq == Head(toSup)
  <2>1. rq \in Requests /\ toSup' \in Seq(Requests)
    BY <1>3, HeadTail DEF Serves
  <2>2. rq.id \in Ids /\ rq.text \in Texts \cup {""}
    BY <2>1 DEF Requests
  <2>3. \A snap \in Snapshot : Answer(rq.id, snap) \in Ended /\ Event("list", snap) \in Events
    BY <2>2 DEF Answer, Ended, Event, Events
  <2>4. ver' \in Nat /\ cred' \in Texts \cup {""}
    BY <1>3, <2>2 DEF Serves
  <2>5. Snap \in Snapshot /\ Snap' \in Snapshot /\ Nothing \in Snapshot
    BY <2>4, SnapTyped, NothingTyped DEF Snap, Snapshot
  <2>6. CASE toUi' = Append(toUi, Answer(rq.id, IF rq.kind = "apply" THEN Nothing ELSE Snap))
    <3>1. toUi' \in Seq(Events \cup Ended)
      BY <2>3, <2>5, <2>6, AppendTyped
    <3> QED
      BY <1>3, <2>1, <2>4, <3>1 DEF Serves
  <2>7. CASE toUi' = toUi \o <<Event("list", Snap'), Answer(rq.id, Nothing)>>
    <3>1. toUi' \in Seq(Events \cup Ended)
      <4>1. Event("list", Snap') \in Events \cup Ended /\ Answer(rq.id, Nothing) \in Events \cup Ended
        BY <2>3, <2>5
      <4> QED
        BY <2>7, <4>1, PairTyped
    <3> QED
      BY <1>3, <2>1, <2>4, <3>1 DEF Serves
  <2> QED
    BY <1>3, <2>6, <2>7 DEF Serves
<1>4. CASE Ends
  BY <1>4, EmptyTyped DEF Ends
<1>5. ASSUME NEW id \in Ids, TimesOut(id)
      PROVE  IInv'
  <2>1. Failed(id) \in Ended
    BY NothingTyped DEF Failed, Ended
  <2>2. late' = late \/ late' = late + 1
    BY <1>5 DEF TimesOut
  <2>3. pool' \subseteq Ended /\ waiting' \subseteq Ids
    BY <1>5, <2>1 DEF TimesOut
  <2>4. UNCHANGED <<ver, cred, up, toSup, toUi, call, queue, form, dirty, kept>>
    BY <1>5 DEF TimesOut
  <2>5. late' \in Nat
    BY <1>0, <2>2
  <2>6. TypeOK'
    BY <2>3, <2>4, <2>5
  <2>7. EditInv'
    BY <2>4
  <2> QED
    BY <2>6, <2>7
<1>6. CASE Pump
  <2>1. Head(toUi) \in Events \cup Ended /\ toUi' \in Seq(Events \cup Ended)
    BY <1>6, HeadTail DEF Pump
  <2> DEFINE m == Head(toUi)
  <2>2. m.kind = "answer" => m \in Ended
    BY <2>1 DEF Events
  <2>3. UNCHANGED <<ver, cred, up, toSup, call, late, form, dirty, kept>>
    BY <1>6 DEF Pump
  <2>4. queue' \in Seq(Events \cup Ended) /\ pool' \subseteq Ended /\ waiting' \subseteq Ids
    <3>1. CASE m.kind # "answer"
      <4>1. queue' = Append(queue, m) /\ pool' = pool /\ waiting' = waiting
        BY <1>6, <3>1 DEF Pump
      <4>2. Append(queue, m) \in Seq(Events \cup Ended)
        BY <2>1, AppendTyped
      <4> QED
        BY <4>1, <4>2
    <3>2. CASE m.kind = "answer"
      <4>1. queue' = queue /\ waiting' = waiting \ {m.id} /\ pool' \in {pool, pool \cup {m}}
        BY <1>6, <3>2 DEF Pump
      <4> QED
        BY <2>2, <3>2, <4>1
    <3> QED
      BY <3>1, <3>2
  <2>5. TypeOK'
    BY <2>1, <2>3, <2>4
  <2>6. EditInv'
    BY <2>3
  <2> QED
    BY <2>5, <2>6
<1>7. ASSUME NEW c \in pool, Posts(c)
      PROVE  IInv'
  BY <1>7, AppendTyped DEF Posts
<1>8. CASE Dispatch
  BY <1>8, DispatchKeeps
<1>9. ASSUME NEW text \in Texts, Edits(text)
      PROVE  IInv'
  BY <1>9 DEF Edits
<1>10. CASE ApplyCredentials
  BY <1>10, CallKeeps DEF ApplyCredentials
<1>11. CASE Refresh
  BY <1>11, CallKeeps DEF Refresh
<1> QED
  BY <1>1, <1>2, <1>3, <1>4, <1>5, <1>6, <1>7, <1>8, <1>9, <1>10, <1>11 DEF Next

\* What the user typed while no Apply was under way stays in the form until the
\* user applies or changes it (MainViewModel.cs:47-56, 74-91).
THEOREM EditsAlwaysSurvive == Spec => []EditsSurvive
<1>1. IInv => EditsSurvive
  BY DEF IInv, EditInv, EditsSurvive
<1> QED
  BY <1>1, EditInit, EditNext, PTL DEF Spec

-----------------------------------------------------------------------------
(* SingleInstance.                                                           *)

\* A host has a supervisor of its own from its launch until the launcher is
\* disposed.
Owning == {"assign", "connect", "box", "running", "close"}

\* Nobody is past the guard without a handle on the mutex, and one host at most:
\* a launch that finds the mutex gone finds nobody past the guard.
GuardInv ==
  /\ pc \in [Hosts -> Past \cup {"none", "second", "ring", "leave", "gone"}]
  /\ sup \in [Hosts -> {"none", "outside", "inside", "orphan"}]
  /\ \A h \in Hosts : pc[h] \in Past => h \in mutex
  /\ \A g, h \in Hosts : pc[g] \in Past /\ pc[h] \in Past => g = h
  /\ \A h \in Hosts : sup[h] \in {"outside", "inside"} => pc[h] \in Owning

LEMMA GuardInit == HostInit => GuardInv
BY DEF HostInit, GuardInv, Past

LEMMA GuardNext == GuardInv /\ [HostNext]_hostVars => GuardInv'
<1> SUFFICES ASSUME GuardInv, [HostNext]_hostVars
             PROVE  GuardInv'
  OBVIOUS
<1> USE DEF GuardInv, Past, Owning
<1>1. CASE UNCHANGED hostVars
  BY <1>1 DEF hostVars
<1>2. ASSUME NEW h \in Hosts, Launch(h)
      PROVE  GuardInv'
  BY <1>2 DEF Launch, Goes
<1>3. ASSUME NEW h \in Hosts, OpensDoorbell(h) \/ Rings(h) \/ CreatesDoorbell(h)
      PROVE  GuardInv'
  BY <1>3 DEF OpensDoorbell, Rings, CreatesDoorbell, Goes
<1>4. ASSUME NEW h \in Hosts, Leaves(h)
      PROVE  GuardInv'
  BY <1>4 DEF Leaves, Goes
<1>5. ASSUME NEW h \in Hosts, StartsSupervisor(h)
      PROVE  GuardInv'
  BY <1>5 DEF StartsSupervisor, Goes, kernel
<1>6. ASSUME NEW h \in Hosts, AssignsSupervisor(h)
      PROVE  GuardInv'
  BY <1>6 DEF AssignsSupervisor, Goes, kernel
<1>7. ASSUME NEW h \in Hosts, Connects(h) \/ ExitApp(h) \/ BoxDismissed(h)
      PROVE  GuardInv'
  BY <1>7 DEF Connects, ExitApp, BoxDismissed, Goes, kernel
<1>8. ASSUME NEW h \in Hosts, SupervisorEnds(h)
      PROVE  GuardInv'
  BY <1>8 DEF SupervisorEnds, kernel
<1>9. ASSUME NEW h \in Hosts, Hears(h) \/ Shows(h) \/ Hides(h)
      PROVE  GuardInv'
  BY <1>9 DEF Hears, Shows, Hides, kernel
<1>10. ASSUME NEW h \in Hosts, DisposesLauncher(h)
       PROVE  GuardInv'
  BY <1>10 DEF DisposesLauncher, JobCloses, Goes, kernel
<1>11. ASSUME NEW h \in Hosts, WakesListener(h) \/ DisposesDoorbell(h)
       PROVE  GuardInv'
  BY <1>11 DEF WakesListener, DisposesDoorbell, Goes
<1>12. ASSUME NEW h \in Hosts, ReleasesMutex(h)
       PROVE  GuardInv'
  BY <1>12 DEF ReleasesMutex, Goes
<1>13. ASSUME NEW h \in Hosts, Crashes(h)
       PROVE  GuardInv'
  BY <1>13 DEF Crashes, JobCloses
<1> QED
  BY <1>1, <1>2, <1>3, <1>4, <1>5, <1>6, <1>7, <1>8, <1>9, <1>10, <1>11, <1>12, <1>13
     DEF HostNext, Startup, Exit

\* However many hosts are launched, crash and exit at whatever moment, two of
\* them never have a supervisor at once: the launcher is disposed before the
\* guard is released, and the guard before the next host passes it.
THEOREM NeverTwoSupervisors == HostSpec => []OneSupervisor
<1>1. GuardInv => OneSupervisor
  BY DEF GuardInv, OneSupervisor, Owning, Past
<1> QED
  BY <1>1, GuardInit, GuardNext, PTL DEF HostSpec
=============================================================================
