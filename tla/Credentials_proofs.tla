------------------------- MODULE Credentials_proofs -------------------------
(* Proofs about Credentials, for every set of credentials and any faults.   *)
EXTENDS Credentials, SequenceTheorems, TLAPS

\* A running mediamtx has read the yml, except between the rewriting of the yml
\* and the restart.  The yml holds the last applied credentials until it is
\* rewritten, then those of the request at the head of the queue, which memory
\* keeps until the answer.
HandlerInv ==
  /\ hostPc = "off" => supPc = "off"
  /\ supPc \in {"off", "load", "genRead", "genTruncate", "genWrite", "yml", "mtx"}
       => ~mtx.running
  /\ supPc \in {"mtx", "credMtx", "credWait"} => yml \in {mem.cred, NoCred}
  /\ supPc \in {"up", "credRead", "credTruncate", "credWrite", "credYml"}
       => yml \in {lastOk, NoCred}
  /\ supPc \in Serving => calls # <<>> /\ Head(calls).cred = mem.cred
  /\ supPc # "credMtx" /\ mtx.running => mtx.cred = yml

LEMMA QueueFacts ==
  ASSUME calls \in Seq(Request)
  PROVE  /\ \A r \in Request : /\ Append(calls, r) \in Seq(Request)
                               /\ Append(calls, r) # <<>>
                               /\ calls # <<>> => Head(Append(calls, r)) = Head(calls)
         /\ calls # <<>> => Tail(calls) \in Seq(Request) /\ Head(calls) \in Request
<1>1. ASSUME NEW r \in Request
      PROVE  /\ Append(calls, r) \in Seq(Request)
             /\ Append(calls, r) # <<>>
             /\ calls # <<>> => Head(Append(calls, r)) = Head(calls)
  <2>1. /\ Append(calls, r) \in Seq(Request) /\ Append(calls, r) # <<>>
        /\ \A i \in 1..Len(calls) : Append(calls, r)[i] = calls[i]
    BY AppendProperties
  <2>2. calls # <<>> => 1 \in 1..Len(calls)
    BY EmptySeq
  <2> QED  BY <2>1, <2>2
<1>2. calls # <<>> => Tail(calls) \in Seq(Request) /\ Head(calls) \in Request
  BY HeadTailProperties
<1> QED  BY <1>1, <1>2

LEMMA ReloadTyped == Reload \in Request
BY DEF Request

\* The host launches the supervisor; after that it changes none of its
\* variables and only appends to the queue.
LEMMA HostKeeps ==
  ASSUME TypeOK, HandlerInv, HostSteps
  PROVE  HandlerInv'
<1>1. CASE HostStarts
  BY <1>1 DEF HostStarts, HandlerInv, TypeOK, Serving
<1>2. ASSUME UNCHANGED <<supervisor, calls, lastOk>>, hostPc' # "off"
      PROVE  HandlerInv'
  BY <1>2 DEF supervisor, HandlerInv
<1>3. ASSUME NEW r \in Request, UNCHANGED <<supervisor, lastOk>>,
             hostPc' # "off", calls' = Append(calls, r)
      PROVE  HandlerInv'
  BY <1>3, QueueFacts DEF supervisor, HandlerInv, TypeOK
<1>4. CASE HostConnects \/ Toggle \/ HostSaveBegins \/ RowsRefreshed
  BY <1>2, <1>4 DEF HostConnects, Toggle, HostSaveBegins, RowsRefreshed, history
<1>5. CASE HostSaveFails \/ HostSaveEnds
  BY <1>2, <1>3, <1>5, ReloadTyped DEF HostSaveFails, HostSaveEnds, history
<1>6. ASSUME NEW c \in Creds, ApplyCredentials(c)
      PROVE  HandlerInv'
  <2>1. [method |-> "credentials", cred |-> c] \in Request
    BY DEF Request
  <2> QED  BY <1>3, <1>6, <2>1 DEF ApplyCredentials, history
<1> QED  BY <1>1, <1>4, <1>5, <1>6 DEF HostSteps

\* Startup: nothing runs before the yml holds what memory holds.
LEMMA StartupKeeps ==
  ASSUME TypeOK, HandlerInv, SaveReads \/ SaveTruncates \/ SaveFails \/ SaveWrites
               \/ Loads \/ WritesYml \/ StartsMtx
  PROVE  HandlerInv'
<1>1. CASE SaveReads \/ SaveTruncates
  BY <1>1 DEF SaveReads, SaveTruncates, history, HandlerInv, TypeOK, Serving
<1>2. CASE SaveFails
  BY <1>2, QueueFacts DEF SaveFails, history, HandlerInv, TypeOK, Serving
<1>3. CASE SaveWrites
  BY <1>3 DEF SaveWrites, OpenBySupervisor, history, HandlerInv, TypeOK, Serving
<1>4. CASE Loads
  <2>1. supPc' \in {"genRead", "yml"}
    BY <1>4 DEF Loads
  <2> QED  BY <1>4, <2>1 DEF Loads, HandlerInv, TypeOK, Serving
<1>5. CASE WritesYml \/ StartsMtx
  BY <1>5 DEF WritesYml, WriteRuntimeYml, StartsMtx, history, HandlerInv, TypeOK, Serving
<1> QED  BY <1>1, <1>2, <1>3, <1>4, <1>5

\* The handlers, and the failures around them.
LEMMA HandlersKeep ==
  ASSUME TypeOK, HandlerInv, ReloadSettings \/ SetViewerCredentials \/ CredYml
               \/ CredRestart \/ CredAnswer \/ Failures
  PROVE  HandlerInv'
<1>1. CASE ReloadSettings
  BY <1>1, QueueFacts DEF ReloadSettings, history, HandlerInv, TypeOK, Serving
<1>2. CASE SetViewerCredentials
  <2>1. Head(calls).cred = mem.cred'
    <3>1. PICK c : c = Head(calls).cred /\ mem' = [mem EXCEPT !.cred = c]
      BY <1>2 DEF SetViewerCredentials, CredMemory
    <3> QED  BY <3>1
  <2> QED  BY <1>2, <2>1 DEF SetViewerCredentials, HandlerInv, TypeOK, Serving
<1>3. CASE CredYml
  BY <1>3, QueueFacts DEF CredYml, WriteRuntimeYml, history, HandlerInv, TypeOK, Serving
<1>4. CASE CredRestart
  BY <1>4 DEF CredRestart, history, HandlerInv, TypeOK, Serving
<1>5. CASE CredAnswer
  BY <1>5, QueueFacts DEF CredAnswer, HandlerInv, TypeOK, Serving
<1>6. CASE MtxExits \/ MtxRestarts
  BY <1>6 DEF MtxExits, MtxRestarts, history, HandlerInv, TypeOK, Serving
<1>7. CASE Dies \/ HostDies
  BY <1>7, EmptySeq DEF Dies, HostDies, history, HandlerInv, TypeOK, Serving
<1> QED  BY <1>1, <1>2, <1>3, <1>4, <1>5, <1>6, <1>7 DEF Failures

LEMMA TypeKept ==
  ASSUME TypeOK, [Next]_vars
  PROVE  TypeOK'
<1> USE QueueFacts, ReloadTyped DEF TypeOK, history, supervisor
<1>1. CASE UNCHANGED vars
  BY <1>1 DEF vars
<1>2. CASE HostSteps
  <2>1. CASE HostStarts
    BY <2>1 DEF HostStarts, File, SupervisorPcs, Serving
  <2>7. CASE HostConnects
    BY <2>7 DEF HostConnects
  <2>8. CASE Toggle
    BY <2>8 DEF Toggle
  <2>2. CASE HostSaveBegins
    BY <2>2 DEF HostSaveBegins, File, Unreadable, AllCreds
  <2>3. CASE HostSaveFails
    BY <2>3 DEF HostSaveFails
  <2>4. CASE HostSaveEnds
    BY <2>4 DEF HostSaveEnds, OpenByHost, File, HostImage
  <2>5. CASE RowsRefreshed
    BY <2>5 DEF RowsRefreshed
  <2>6. ASSUME NEW c \in Creds, ApplyCredentials(c)
        PROVE  TypeOK'
    BY <2>6 DEF ApplyCredentials, Request
  <2> QED  BY <1>2, <2>1, <2>2, <2>3, <2>4, <2>5, <2>6, <2>7, <2>8
           DEF HostSteps
<1>3. CASE SupervisorSteps
  <2>1. CASE SaveReads
    BY <2>1 DEF SaveReads, File, SupervisorPcs, Serving
  <2>9. CASE SaveTruncates
    BY <2>9 DEF SaveTruncates, File, Unreadable, AllCreds, SupervisorPcs, Serving
  <2>2. CASE SaveFails
    BY <2>2 DEF SaveFails, SupervisorPcs, Serving
  <2>10. CASE SaveWrites
    BY <2>10 DEF SaveWrites, OpenBySupervisor, File, Merged, SupervisorPcs,
                 Serving
  <2>3. CASE Loads
    BY <2>3 DEF Loads, File, AllCreds, SupervisorPcs, Serving
  <2>4. CASE WritesYml
    BY <2>4 DEF WritesYml, WriteRuntimeYml, AllCreds, SupervisorPcs, Serving
  <2>11. CASE StartsMtx
    BY <2>11 DEF StartsMtx, SupervisorPcs, Serving
  <2>5. CASE ReloadSettings
    BY <2>5 DEF ReloadSettings, File, Serving
  <2>6. CASE SetViewerCredentials
    <3>1. Head(calls).cred \in Creds
      BY <2>6 DEF SetViewerCredentials, Request, Reload
    <3> QED  BY <2>6, <3>1 DEF SetViewerCredentials, CredMemory, AllCreds,
                               SupervisorPcs, Serving
  <2>7. CASE CredYml
    <3>1. yml' \in AllCreds
      BY <2>7 DEF CredYml, WriteRuntimeYml, AllCreds
    <3>2. CASE supPc' = "credMtx" /\ UNCHANGED calls
      BY <2>7, <3>1, <3>2 DEF CredYml, SupervisorPcs, Serving
    <3>3. CASE supPc' = "up" /\ calls' = Tail(calls)
      BY <2>7, <3>1, <3>3 DEF CredYml, SupervisorPcs, Serving
    <3> QED  BY <2>7, <3>2, <3>3 DEF CredYml
  <2>12. CASE CredRestart
    BY <2>12 DEF CredRestart, SupervisorPcs, Serving
  <2>8. CASE CredAnswer
    <3>1. Head(calls).cred \in AllCreds
      BY <2>8 DEF CredAnswer, Serving, Request, Reload, AllCreds
    <3> QED  BY <2>8, <3>1 DEF CredAnswer, SupervisorPcs, Serving
  <2> QED  BY <1>3, <2>1, <2>2, <2>3, <2>4, <2>5, <2>6, <2>7, <2>8,
              <2>9, <2>10, <2>11, <2>12 DEF SupervisorSteps
<1>4. CASE Failures
  <2>1. CASE MtxExits
    BY <2>1 DEF MtxExits
  <2>2. CASE MtxRestarts
    BY <2>2 DEF MtxRestarts
  <2>3. CASE Dies
    BY <2>3, EmptySeq DEF Dies, SupervisorPcs, Serving
  <2>4. CASE HostDies
    BY <2>4, EmptySeq DEF HostDies, AllCreds, SupervisorPcs, Serving
  <2> QED  BY <1>4, <2>1, <2>2, <2>3, <2>4 DEF Failures
<1> QED  BY <1>1, <1>2, <1>3, <1>4 DEF Next

\* Every variable keeps its type, and a handler at work has the request it
\* serves at the head of the queue, whatever fails under it (main.cpp:768-824).
THEOREM TypeCorrect == Spec => []TypeOK
<1>1. Init => TypeOK
  <2> SUFFICES ASSUME Init PROVE TypeOK
    OBVIOUS
  <2>1. file \in File
    <3>1. CASE file = Unreadable("missing")
      BY <3>1 DEF Unreadable, File, AllCreds
    <3>2. ASSUME NEW c \in AllCreds,
                 file = HostImage([notif |-> TRUE, dflt |-> TRUE, cred |-> c])
          PROVE  file \in File
      BY <3>2 DEF HostImage, File
    <3> QED  BY <3>1, <3>2 DEF Init
  <2>2. calls \in Seq(Request)
    BY EmptySeq DEF Init
  <2> QED  BY <2>1, <2>2 DEF Init, TypeOK, AllCreds, SupervisorPcs, Serving
<1> QED  BY <1>1, TypeKept, PTL DEF Spec

\* The inductive invariant: AcceptedIsLastOk alone says nothing of a handler
\* half-way through, between the new yml and the restart of mediamtx.
LEMMA HandlerInvariant == Spec => []HandlerInv
<1>1. Init => HandlerInv
  BY EmptySeq DEF Init, HandlerInv, Serving
<1>2. TypeOK /\ HandlerInv /\ [Next]_vars => HandlerInv'
  <2> SUFFICES ASSUME TypeOK, HandlerInv, [Next]_vars PROVE HandlerInv'
    OBVIOUS
  <2>1. CASE UNCHANGED vars
    BY <2>1 DEF vars, HandlerInv
  <2>2. CASE Next
    BY <2>2, HostKeeps, StartupKeeps, HandlersKeep DEF Next, SupervisorSteps
  <2> QED  BY <2>1, <2>2
<1> QED  BY <1>1, <1>2, TypeCorrect, PTL DEF Spec

\* Whenever the supervisor is between requests, a running mediamtx accepts the
\* credentials last applied, by a launch or by a request that was answered ok,
\* unless the yml was cut short: for all credentials, disk faults, kills and
\* writes of the host (main.cpp:768-810 and the tick's restart).
THEOREM AcceptedAlwaysLastOk == Spec => []AcceptedIsLastOk
<1>1. HandlerInv => AcceptedIsLastOk
  BY DEF HandlerInv, AcceptedIsLastOk
<1> QED  BY <1>1, HandlerInvariant, PTL

-----------------------------------------------------------------------------
(* What a relaunch loads, and what the host copies.                        *)

\* Where credentials that are neither the applied ones nor recorded in doubt or
\* stale could come from, step by step: the file is empty while one process
\* writes it, and the other does not have it open; what the host writes is in
\* stale and what the supervisor writes in doubt; the file of a request that is
\* about to be answered, and that of a supervisor that is about to start
\* mediamtx, has nothing else in it.
Startup == {"load", "genRead", "genTruncate", "genWrite", "yml", "mtx"}
Generating == {"genRead", "genTruncate", "genWrite"}

WritersInv ==
  /\ supPc \in Startup => hostPc = "starting"
  /\ ~(OpenByHost /\ OpenBySupervisor)
  /\ OpenByHost => host.cred \in stale
  /\ supPc \in Generating \cup Serving => mem.cred \in doubt
  /\ supPc \in Generating \cup {"credWrite"} => file.cred = NoCred
  /\ supPc \in {"yml", "mtx"} => file.cred \in {NoCred, mem.cred}
  /\ supPc \in {"credYml", "credMtx", "credWait"}
       => file.cred \in {NoCred, mem.cred} \cup stale
  /\ FileKeepsApplied

LEMMA WritersInit == Init => WritersInv
BY DEF Init, WritersInv, Startup, Generating, Serving, OpenByHost,
       OpenBySupervisor, FileKeepsApplied

LEMMA WritersStep ==
  ASSUME TypeOK, HandlerInv, WritersInv, [Next]_vars
  PROVE  WritersInv'
<1> USE DEF WritersInv, Startup, Generating, Serving, OpenByHost,
            OpenBySupervisor, FileKeepsApplied, supervisor, history
<1>1. CASE UNCHANGED vars
  BY <1>1 DEF vars
<1>2. CASE HostSteps
  <2>1. CASE HostStarts
    BY <2>1 DEF HostStarts
  <2>2. CASE HostConnects \/ RowsRefreshed
    BY <2>2 DEF HostConnects, RowsRefreshed
  <2>3. CASE Toggle
    BY <2>3 DEF Toggle
  <2>4. CASE HostSaveBegins
    BY <2>4 DEF HostSaveBegins, Unreadable, TypeOK, File
  <2>5. CASE HostSaveFails
    BY <2>5 DEF HostSaveFails
  <2>6. CASE HostSaveEnds
    <3>1. file'.cred = host.cred /\ host.cred \in stale
      BY <2>6 DEF HostSaveEnds, HostImage
    <3> QED  BY <2>6, <3>1 DEF HostSaveEnds
  <2>7. ASSUME NEW c \in Creds, ApplyCredentials(c)
        PROVE  WritersInv'
    BY <2>7 DEF ApplyCredentials
  <2> QED  BY <1>2, <2>1, <2>2, <2>3, <2>4, <2>5, <2>6, <2>7 DEF HostSteps
<1>3. CASE SupervisorSteps
  <2>1. CASE SaveReads
    BY <2>1 DEF SaveReads
  <2>2. CASE SaveTruncates
    <3>1. file'.cred = NoCred
      BY <2>2 DEF SaveTruncates, Unreadable
    <3> QED  BY <2>2, <3>1 DEF SaveTruncates
  <2>3. CASE SaveFails
    BY <2>3 DEF SaveFails
  <2>4. CASE SaveWrites
    <3>1. file'.cred \in {NoCred, mem.cred}
      BY <2>4 DEF SaveWrites, Merged
    <3> QED  BY <2>4, <3>1 DEF SaveWrites
  <2>5. CASE Loads
    BY <2>5 DEF Loads
  <2>6. CASE WritesYml \/ CredRestart
    BY <2>6 DEF WritesYml, CredRestart
  <2>7. CASE StartsMtx
    BY <2>7 DEF StartsMtx
  <2>8. CASE ReloadSettings
    BY <2>8 DEF ReloadSettings
  <2>9. CASE SetViewerCredentials
    BY <2>9 DEF SetViewerCredentials, CredMemory, TypeOK
  <2>10. CASE CredYml
    BY <2>10 DEF CredYml
  <2>11. CASE CredAnswer
    <3>1. Head(calls).cred = mem.cred
      BY <2>11 DEF CredAnswer, HandlerInv
    <3> QED  BY <2>11, <3>1 DEF CredAnswer
  <2> QED
    BY <1>3, <2>1, <2>2, <2>3, <2>4, <2>5, <2>6, <2>7, <2>8, <2>9, <2>10, <2>11
    DEF SupervisorSteps
<1>4. CASE Failures
  BY <1>4 DEF Failures, MtxExits, MtxRestarts, Dies, HostDies
<1> QED  BY <1>1, <1>2, <1>3, <1>4 DEF Next

LEMMA WritersInvariant == Spec => []WritersInv
<1>1. TypeOK /\ HandlerInv /\ WritersInv /\ [Next]_vars => WritersInv'
  BY WritersStep
<1> QED
  BY <1>1, WritersInit, TypeCorrect, HandlerInvariant, PTL DEF Spec

\* The credentials a relaunch would load are the applied ones, those of a
\* request that failed or was cut short, or those the host wrote back with an
\* unrelated setting: whatever fails, and however the two writers of
\* settings.json interleave, no other get into it (main.cpp:317-323, 779-808;
\* SettingsFile.cs:77-92).
THEOREM FileAlwaysKeepsApplied == Spec => []FileKeepsApplied
<1>1. WritersInv => FileKeepsApplied
  BY DEF WritersInv
<1> QED  BY <1>1, WritersInvariant, PTL

\* Memory and rows, between requests: nothing but what was applied or brought
\* in by the host, unless the last request failed.
RowsInv ==
  supPc = "up" /\ doubt = {}
  => /\ mem.cred \in {lastOk} \cup stale
     /\ hostPc \notin {"off", "starting"} => rows \in {lastOk} \cup stale

LEMMA RowsStep ==
  ASSUME TypeOK, HandlerInv, WritersInv, RowsInv, [Next]_vars
  PROVE  RowsInv'
<1> USE DEF RowsInv, supervisor, history
<1>1. CASE UNCHANGED vars
  BY <1>1 DEF vars
<1>2. CASE HostSteps
  <2>1. CASE HostStarts
    BY <2>1 DEF HostStarts
  <2>2. CASE HostConnects \/ RowsRefreshed
    BY <2>2 DEF HostConnects, RowsRefreshed
  <2>3. CASE Toggle
    BY <2>3 DEF Toggle
  <2>4. CASE HostSaveBegins
    BY <2>4 DEF HostSaveBegins
  <2>5. CASE HostSaveFails
    BY <2>5 DEF HostSaveFails
  <2>6. CASE HostSaveEnds
    BY <2>6 DEF HostSaveEnds, OpenByHost
  <2>7. ASSUME NEW c \in Creds, ApplyCredentials(c)
        PROVE  RowsInv'
    BY <2>7 DEF ApplyCredentials
  <2> QED  BY <1>2, <2>1, <2>2, <2>3, <2>4, <2>5, <2>6, <2>7 DEF HostSteps
<1>3. CASE SupervisorSteps
  <2>1. CASE SaveReads \/ SaveTruncates
    BY <2>1 DEF SaveReads, SaveTruncates
  <2>2. CASE SaveFails
    BY <2>2 DEF SaveFails, WritersInv, Serving, Generating
  <2>3. CASE SaveWrites
    BY <2>3 DEF SaveWrites
  <2>4. CASE Loads
    BY <2>4 DEF Loads
  <2>5. CASE WritesYml \/ CredRestart
    BY <2>5 DEF WritesYml, CredRestart
  <2>6. CASE StartsMtx
    BY <2>6 DEF StartsMtx, WritersInv, Startup
  <2>7. CASE ReloadSettings
    BY <2>7 DEF ReloadSettings, TypeOK
  <2>8. CASE SetViewerCredentials
    BY <2>8 DEF SetViewerCredentials
  <2>9. CASE CredYml
    BY <2>9 DEF CredYml, WritersInv, Serving, Generating
  <2>10. CASE CredAnswer
    <3>1. Head(calls).cred = mem.cred
      BY <2>10 DEF CredAnswer, HandlerInv, Serving
    <3> QED  BY <2>10, <3>1 DEF CredAnswer
  <2> QED
    BY <1>3, <2>1, <2>2, <2>3, <2>4, <2>5, <2>6, <2>7, <2>8, <2>9, <2>10
    DEF SupervisorSteps
<1>4. CASE Failures
  BY <1>4 DEF Failures, MtxExits, MtxRestarts, Dies, HostDies
<1> QED  BY <1>1, <1>2, <1>3, <1>4 DEF Next

\* The URL of the Copy button opens: the rows the host shows carry what
\* mediamtx accepts, or what the host's own Save brought in by a reload, unless
\* the last request failed or the yml was cut short (CameraInfo.cs:49-52;
\* main.cpp:816).
THEOREM CopiedUrlAlwaysAccepted == Spec => []CopiedUrlAccepted
<1>1. Init => RowsInv
  BY DEF Init, RowsInv
<1>2. TypeOK /\ HandlerInv /\ WritersInv /\ RowsInv /\ [Next]_vars => RowsInv'
  BY RowsStep
<1>3. HandlerInv /\ RowsInv => CopiedUrlAccepted
  BY DEF HandlerInv, RowsInv, CopiedUrlAccepted
<1> QED
  BY <1>1, <1>2, <1>3, TypeCorrect, HandlerInvariant, WritersInvariant, PTL
  DEF Spec
=============================================================================
