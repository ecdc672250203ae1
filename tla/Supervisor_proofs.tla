-------------------------- MODULE Supervisor_proofs --------------------------
(* Proofs about Supervisor, for every set of names, every bus and every    *)
(* bound.                                                                  *)
EXTENDS Supervisor, SequenceTheorems, TLAPS

-----------------------------------------------------------------------------
(* Lemmas about sequences.                                                 *)

LEMMA UpdateSeq ==
  ASSUME NEW S, NEW q \in Seq(S), NEW i \in DOMAIN q, NEW e \in S
  PROVE  /\ [q EXCEPT ![i] = e] \in Seq(S)
         /\ DOMAIN [q EXCEPT ![i] = e] = DOMAIN q
         /\ Len([q EXCEPT ![i] = e]) = Len(q)
         /\ \A j \in DOMAIN q : [q EXCEPT ![i] = e][j] = IF j = i THEN e ELSE q[j]
  OBVIOUS

\* A function on the domain of a sequence is a sequence of that length.
LEMMA FunctionSeq ==
  ASSUME NEW S, NEW T, NEW q \in Seq(T), NEW f \in [DOMAIN q -> S]
  PROVE  f \in Seq(S) /\ Len(f) = Len(q) /\ DOMAIN f = DOMAIN q
  OBVIOUS

LEMMA RemoveSeq ==
  ASSUME NEW S, NEW q \in Seq(S), NEW i \in DOMAIN q
  PROVE  RemoveAt(q, i) \in Seq(S)
  BY DEF RemoveAt

-----------------------------------------------------------------------------
(* The operations on one slot keep its type, name and path.                *)

SameKey(s, t) == t.name = s.name /\ t.path = s.path

LEMMA StopProcType ==
  ASSUME NEW s \in Slot
  PROVE  StopProc(s) \in Slot /\ SameKey(s, StopProc(s))
  BY DEF StopProc, Slot, SameKey

LEMMA RebuildType ==
  ASSUME NEW s \in Slot
  PROVE  RebuildSlot(s) \in Slot /\ SameKey(s, RebuildSlot(s))
  BY DEF RebuildSlot, Slot, SameKey

LEMMA StartType ==
  ASSUME NEW s \in Slot, NEW ok \in BOOLEAN
  PROVE  StartNoSleep(s, ok) \in Slot /\ SameKey(s, StartNoSleep(s, ok))
  BY DEF StartNoSleep, Slot, SameKey

LEMMA NewSlotType ==
  ASSUME NEW n \in Names, NEW p \in Nat, NEW default \in BOOLEAN, TypeOK
  PROVE  /\ NewSlot(n, p, default) \in Slot
         /\ NewSlot(n, p, default).name = n /\ NewSlot(n, p, default).path = p
<1>1. ResolveEnabled(n, default) \in BOOLEAN
  <2>1. CASE disk[n] = {}
    BY <2>1 DEF ResolveEnabled
  <2>2. CASE disk[n] # {}
    <3>1. ResolveEnabled(n, default) = (TRUE \in disk[n])
      BY <2>2 DEF ResolveEnabled
    <3>2. (TRUE \in disk[n]) \in BOOLEAN
      OBVIOUS
    <3> QED  BY <3>1, <3>2
  <2> QED  BY <2>1, <2>2
<1> QED  BY <1>1 DEF NewSlot, Slot

LEMMA RowType ==
  ASSUME NEW s \in Slot
  PROVE  CamToJson(s) \in Row
  BY DEF CamToJson, Slot, Row

-----------------------------------------------------------------------------
(* Type correctness, one lemma per group of actions.                       *)

\* The list keeps its length, names and paths.
SameEntries ==
  /\ slots' \in Seq(Slot) /\ DOMAIN slots' = DOMAIN slots
  /\ \A i \in DOMAIN slots : SameKey(slots[i], slots'[i])

LEMMA SlotsUnchanged ==
  ASSUME TypeOK, UNCHANGED slots
  PROVE  SameEntries
  BY DEF TypeOK, SameEntries, SameKey

\* One slot is replaced by another with its name and path.
LEMMA SlotReplaced ==
  ASSUME TypeOK, NEW i \in DOMAIN slots, NEW t \in Slot, SameKey(slots[i], t),
         slots' = [slots EXCEPT ![i] = t]
  PROVE  SameEntries
<1>1. slots \in Seq(Slot)
  BY DEF TypeOK
<1>2. /\ slots' \in Seq(Slot) /\ DOMAIN slots' = DOMAIN slots
      /\ \A j \in DOMAIN slots : slots'[j] = IF j = i THEN t ELSE slots[j]
  BY <1>1, UpdateSeq
<1> QED  BY <1>2 DEF SameEntries, SameKey

LEMMA SlotTyped ==
  ASSUME TypeOK, NEW i \in DOMAIN slots
  PROVE  slots[i] \in Slot /\ slots[i].name \in Names
<1>1. slots \in Seq(Slot)
  BY DEF TypeOK
<1>2. slots[i] \in Slot
  BY <1>1
<1> QED  BY <1>2 DEF Slot

\* Publishing the row of a name keeps the types of what was told.
LEMMA TellType ==
  ASSUME TypeOK, NEW n \in Names, NEW r \in Row, Tell(n, r)
  PROVE  /\ told' \in [Names -> SUBSET Row]
         /\ drift' \in [Names -> SUBSET {"overtaken", "wiped"}]
  BY DEF Tell, TypeOK

LEMMA TellAllType ==
  ASSUME NEW ss \in Seq(Slot), TellAll(ss)
  PROVE  /\ told' \in [Names -> SUBSET Row]
         /\ drift' \in [Names -> SUBSET {"overtaken", "wiped"}]
<1>1. \A i \in DOMAIN ss : CamToJson(ss[i]) \in Row
  BY RowType
<1>2. ASSUME NEW n \in Names
      PROVE  {CamToJson(ss[i]) : i \in {j \in DOMAIN ss : ss[j].name = n}}
               \in SUBSET Row
  BY <1>1
<1> QED  BY <1>2 DEF TellAll

LEMMA EnvironmentType ==
  ASSUME TypeOK, Environment
  PROVE  TypeOK' /\ SameEntries
<1>1. ASSUME NEW n \in Names, Plug(n) PROVE TypeOK' /\ SameEntries
  <2>1. bus' \in Seq(Names)
    BY <1>1 DEF Plug, TypeOK
  <2> QED  BY <1>1, <2>1, SlotsUnchanged DEF Plug, TypeOK, history
<1>2. ASSUME NEW i \in DOMAIN bus, Unplug(i) PROVE TypeOK' /\ SameEntries
  <2>1. bus' \in Seq(Names)
    BY <1>2, RemoveSeq DEF Unplug, TypeOK
  <2> QED  BY <1>2, <2>1, SlotsUnchanged DEF Unplug, TypeOK, history
<1>3. ASSUME NEW i \in DOMAIN slots, PublisherExits(i)
      PROVE  TypeOK' /\ SameEntries
  <2>1. slots' = [slots EXCEPT ![i] = StopProc(slots[i])]
    BY <1>3 DEF PublisherExits
  <2>2. SameEntries
    BY <2>1, SlotTyped, StopProcType, SlotReplaced
  <2> QED  BY <1>3, <2>2 DEF PublisherExits, TypeOK, history, SameEntries
<1>4. ASSUME NEW i \in DOMAIN slots, BackoffElapses(i)
      PROVE  TypeOK' /\ SameEntries
  <2>1. slots' = [slots EXCEPT ![i] = [slots[i] EXCEPT !.due = TRUE]]
    BY <1>4 DEF BackoffElapses
  <2>2. /\ [slots[i] EXCEPT !.due = TRUE] \in Slot
        /\ SameKey(slots[i], [slots[i] EXCEPT !.due = TRUE])
    BY SlotTyped DEF Slot, SameKey
  <2>3. SameEntries
    BY <2>1, <2>2, SlotReplaced
  <2> QED  BY <1>4, <2>3 DEF BackoffElapses, TypeOK, history, SameEntries
<1>5. CASE MtxExits
  BY <1>5, SlotsUnchanged DEF MtxExits, TypeOK, history
<1>6. CASE MtxBackoffElapses
  BY <1>6, SlotsUnchanged DEF MtxBackoffElapses, TypeOK, history
<1>7. ASSUME NEW b \in Defaults, HostSavesDefault(b)
      PROVE  TypeOK' /\ SameEntries
  BY <1>7, SlotsUnchanged, ConstantsAssumption
  DEF HostSavesDefault, TypeOK, history
<1> QED  BY <1>1, <1>2, <1>3, <1>4, <1>5, <1>6, <1>7 DEF Environment

\* What the tail of a handler does to one slot.
LEMMA PublishType ==
  ASSUME TypeOK, NEW i \in DOMAIN slots, NEW t \in Slot, SameKey(slots[i], t),
         NEW still \in BOOLEAN, PublishThenRecord(i, t, still)
  PROVE  /\ SameEntries
         /\ told' \in [Names -> SUBSET Row]
         /\ drift' \in [Names -> SUBSET {"overtaken", "wiped"}]
<1> DEFINE u == [t EXCEPT !.running = t.running /\ still,
                          !.last = t.running /\ still]
<1>1. u \in Slot /\ SameKey(slots[i], u)
  BY DEF Slot, SameKey
<1>2. slots' = [slots EXCEPT ![i] = u] /\ Tell(t.name, CamToJson(t))
  BY DEF PublishThenRecord
<1> HIDE DEF u
<1>3. SameEntries
  BY <1>1, <1>2, SlotReplaced
<1>4. t.name \in Names /\ CamToJson(t) \in Row
  BY RowType DEF Slot
<1>5. Tell(t.name, CamToJson(t))
  BY <1>2
<1> QED  BY <1>3, <1>4, <1>5, TellType

LEMMA SurvivesType ==
  ASSUME NEW n, NEW ok \in Survives(n)
  PROVE  ok \in BOOLEAN
  BY DEF Survives

LEMMA RelaunchType ==
  ASSUME TypeOK, NEW i \in DOMAIN slots, Relaunch(i)
  PROVE  /\ SameEntries
         /\ told' \in [Names -> SUBSET Row]
         /\ drift' \in [Names -> SUBSET {"overtaken", "wiped"}]
<1>1. PICK ok \in Survives(slots[i].name), still \in Survives(slots[i].name) :
        PublishThenRecord(i, StartNoSleep(RebuildSlot(slots[i]), ok), still)
  BY DEF Relaunch
<1>2. ok \in BOOLEAN /\ still \in BOOLEAN
  BY SurvivesType
<1> DEFINE r == RebuildSlot(slots[i])
           t == StartNoSleep(r, ok)
<1>3. slots[i] \in Slot
  BY SlotTyped
<1>4. r \in Slot /\ SameKey(slots[i], r)
  BY <1>3, RebuildType
<1>5. t \in Slot /\ SameKey(r, t)
  BY <1>2, <1>4, StartType
<1>6. SameKey(slots[i], t)
  BY <1>4, <1>5 DEF SameKey
<1> QED  BY <1>1, <1>2, <1>5, <1>6, PublishType

LEMMA SetStreamEnabledType ==
  ASSUME TypeOK, NEW n \in Names, NEW want \in BOOLEAN,
         SetStreamEnabled(n, want)
  PROVE  TypeOK' /\ SameEntries
<1>1. PICK i \in DOMAIN slots, ok \in Survives(n), still \in Survives(n) :
        LET s == [slots[i] EXCEPT !.enabled = want]
            t == CASE want /\ s.present -> StartNoSleep(RebuildSlot(s), ok)
                   [] want /\ ~s.present -> s
                   [] OTHER -> StopProc(s)
        IN  SaveEnabled(n, want) /\ PublishThenRecord(i, t, still)
  BY DEF SetStreamEnabled
<1>2. ok \in BOOLEAN /\ still \in BOOLEAN
  BY SurvivesType
<1> DEFINE s == [slots[i] EXCEPT !.enabled = want]
           r == StartNoSleep(RebuildSlot(s), ok)
           t == CASE want /\ s.present -> r
                  [] want /\ ~s.present -> s
                  [] OTHER -> StopProc(s)
<1>3. s \in Slot /\ SameKey(slots[i], s)
  BY SlotTyped DEF Slot, SameKey
<1>4. r \in Slot /\ SameKey(slots[i], r)
  <2>1. RebuildSlot(s) \in Slot /\ SameKey(s, RebuildSlot(s))
    BY <1>3, RebuildType
  <2>2. r \in Slot /\ SameKey(RebuildSlot(s), r)
    BY <1>2, <2>1, StartType
  <2> QED  BY <1>3, <2>1, <2>2 DEF SameKey
<1>5. StopProc(s) \in Slot /\ SameKey(slots[i], StopProc(s))
  BY <1>3, StopProcType DEF SameKey
<1>6. SaveEnabled(n, want) /\ PublishThenRecord(i, t, still)
  BY <1>1
<1>7. t = r \/ t = s \/ t = StopProc(s)
  <2>1. CASE want /\ s.present
    BY <2>1
  <2>2. CASE want /\ ~s.present
    BY <2>2
  <2>3. CASE ~want
    BY <2>3
  <2> QED  BY <2>1, <2>2, <2>3
<1> HIDE DEF s, r, t
<1>8. t \in Slot /\ SameKey(slots[i], t)
  BY <1>3, <1>4, <1>5, <1>7
<1>9. /\ SameEntries
      /\ told' \in [Names -> SUBSET Row]
      /\ drift' \in [Names -> SUBSET {"overtaken", "wiped"}]
  BY <1>2, <1>6, <1>8, PublishType
<1>10. disk' \in [Names -> {{}, {TRUE}, {FALSE}}] /\ unsaved' \subseteq Names
  BY <1>6 DEF SaveEnabled, TypeOK
<1> QED  BY <1>9, <1>10 DEF SetStreamEnabled, TypeOK, SameEntries

LEMMA StartMtxType ==
  ASSUME NEW m \in [running : BOOLEAN, due : BOOLEAN], NEW ok \in BOOLEAN
  PROVE  StartMtx(m, ok) \in [running : BOOLEAN, due : BOOLEAN]
  BY DEF StartMtx

LEMMA RequestsType ==
  ASSUME TypeOK, Requests
  PROVE  TypeOK' /\ SameEntries
<1>0. Addressed \subseteq Names
  BY ConstantsAssumption
<1>1. ASSUME NEW n \in Addressed, RestartCamera(n)
      PROVE  TypeOK' /\ SameEntries
  <2>1. PICK i \in DOMAIN slots : Relaunch(i)
    BY <1>1 DEF RestartCamera
  <2> QED  BY <1>1, <2>1, RelaunchType DEF RestartCamera, TypeOK, SameEntries
<1>2. ASSUME NEW n \in Addressed, SetMode(n)
      PROVE  TypeOK' /\ SameEntries
  <2>1. PICK i \in DOMAIN slots : Relaunch(i)
    BY <1>2 DEF SetMode
  <2> QED  BY <1>2, <2>1, RelaunchType DEF SetMode, TypeOK, SameEntries
<1>3. ASSUME NEW n \in Addressed, NEW want \in BOOLEAN, SetStreamEnabled(n, want)
      PROVE  TypeOK' /\ SameEntries
  BY <1>0, <1>3, SetStreamEnabledType
<1>4. CASE SetViewerCredentials
  <2>1. PICK ok \in BOOLEAN : mtx' = StartMtx([mtx EXCEPT !.running = FALSE], ok)
    BY <1>4 DEF SetViewerCredentials, MtxStarts
  <2>2. [mtx EXCEPT !.running = FALSE] \in [running : BOOLEAN, due : BOOLEAN]
    BY DEF TypeOK
  <2>3. mtx' \in [running : BOOLEAN, due : BOOLEAN]
    BY <2>1, <2>2, StartMtxType
  <2> QED  BY <1>4, <2>3, SlotsUnchanged DEF SetViewerCredentials, TypeOK, history
<1>5. CASE CredentialsApplied
  <2>1. /\ told' \in [Names -> SUBSET Row]
        /\ drift' \in [Names -> SUBSET {"overtaken", "wiped"}]
    BY <1>5, TellAllType DEF CredentialsApplied, TypeOK
  <2> QED  BY <1>5, <2>1, SlotsUnchanged DEF CredentialsApplied, TypeOK
<1>6. CASE ReloadSettings
  BY <1>6, SlotsUnchanged DEF ReloadSettings, TypeOK, history
<1>7. CASE ShutdownRequest
  BY <1>7, SlotsUnchanged DEF ShutdownRequest, TypeOK, history
<1>8. CASE ConsoleCtrl
  BY <1>8, SlotsUnchanged DEF ConsoleCtrl, TypeOK, history
<1> QED
  BY <1>1, <1>2, <1>3, <1>4, <1>5, <1>6, <1>7, <1>8 DEF Requests

LEMMA HooksType ==
  ASSUME TypeOK, Hooks
  PROVE  TypeOK' /\ SameEntries
<1>1. ASSUME NEW kind, NEW p \in HookPaths, Hook(kind, p)
      PROVE  TypeOK' /\ SameEntries
  <2>1. PICK i \in DOMAIN slots :
          LET t == ViewerCount(slots[i], kind)
          IN  /\ slots' = [slots EXCEPT ![i] = t]
              /\ inflight' = {[name |-> t.name, row |-> CamToJson(t)]}
    BY <1>1 DEF Hook
  <2> DEFINE t == ViewerCount(slots[i], kind)
  <2>2. slots[i] \in Slot
    BY SlotTyped
  <2>3. t \in Slot /\ SameKey(slots[i], t)
    BY <2>2 DEF ViewerCount, Slot, SameKey
  <2>4. /\ slots' = [slots EXCEPT ![i] = t]
        /\ inflight' = {[name |-> t.name, row |-> CamToJson(t)]}
    BY <2>1
  <2> HIDE DEF t
  <2>5. SameEntries
    BY <2>3, <2>4, SlotReplaced
  <2>6. inflight' \in SUBSET [name : Names, row : Row]
    <3>1. t.name \in Names /\ CamToJson(t) \in Row
      BY <2>3, RowType DEF Slot
    <3> QED  BY <2>4, <3>1
  <2> QED  BY <1>1, <2>5, <2>6 DEF Hook, TypeOK, history, SameEntries
<1>2. CASE HookPublish
  <2>1. PICK ev \in inflight :
          /\ told' = [told EXCEPT ![ev.name] = IF @ = {} THEN {} ELSE {ev.row}]
          /\ \/ drift' = [drift EXCEPT ![ev.name] = {}]
             \/ drift' = [drift EXCEPT ![ev.name] = {"overtaken"}]
    BY <1>2 DEF HookPublish
  <2>2. ev.name \in Names /\ ev.row \in Row
    BY DEF TypeOK
  <2>3. /\ told' \in [Names -> SUBSET Row]
        /\ drift' \in [Names -> SUBSET {"overtaken", "wiped"}]
    BY <2>1, <2>2 DEF TypeOK
  <2> QED  BY <1>2, <2>3, SlotsUnchanged DEF HookPublish, TypeOK
<1> QED  BY <1>1, <1>2 DEF Hooks

-----------------------------------------------------------------------------
(* The tick.                                                               *)

LEMMA TickIdleType ==
  ASSUME TypeOK, NEW i \in DOMAIN slots, TickIdle(i)
  PROVE  /\ SameEntries
         /\ told' \in [Names -> SUBSET Row]
         /\ drift' \in [Names -> SUBSET {"overtaken", "wiped"}]
<1> DEFINE t == [slots[i] EXCEPT !.last = FALSE, !.count = 0]
<1>1. t \in Slot /\ SameKey(slots[i], t)
  BY SlotTyped DEF Slot, SameKey
<1>2. \/ slots' = [slots EXCEPT ![i] = t] /\ Tell(t.name, CamToJson(t))
      \/ UNCHANGED <<slots, told, drift>>
  BY DEF TickIdle, TellNothing
<1> HIDE DEF t
<1>3. CASE slots' = [slots EXCEPT ![i] = t] /\ Tell(t.name, CamToJson(t))
  <2>1. t.name \in Names /\ CamToJson(t) \in Row
    BY <1>1, RowType DEF Slot
  <2> QED  BY <1>1, <1>3, <2>1, SlotReplaced, TellType
<1>4. CASE UNCHANGED <<slots, told, drift>>
  BY <1>4, SlotsUnchanged DEF TypeOK
<1> QED  BY <1>2, <1>3, <1>4

LEMMA TickWantedType ==
  ASSUME TypeOK, NEW i \in DOMAIN slots, TickWanted(i)
  PROVE  /\ SameEntries
         /\ told' \in [Names -> SUBSET Row]
         /\ drift' \in [Names -> SUBSET {"overtaken", "wiped"}]
<1> DEFINE s == slots[i]
           t == IF s.running THEN s ELSE [s EXCEPT !.count = 0]
           u(ok) == IF RestartDue(s) THEN StartNoSleep(StopProc(t), ok) ELSE t
<1>1. PICK ok \in Survives(s.name), still \in Survives(s.name) :
        IF u(ok).running # s.last
        THEN /\ slots' = [slots EXCEPT ![i] =
                  [u(ok) EXCEPT !.running = u(ok).running /\ still,
                                !.last = u(ok).running]]
             /\ Tell(s.name, CamToJson([u(ok) EXCEPT
                                          !.running = u(ok).running /\ still]))
        ELSE /\ slots' = [slots EXCEPT ![i] = u(ok)]
             /\ \/ drift' = [drift EXCEPT ![s.name] = @ \cup {"wiped"}]
                \/ UNCHANGED drift
             /\ UNCHANGED told
  BY DEF TickWanted
<1>2. ok \in BOOLEAN /\ still \in BOOLEAN
  BY SurvivesType
<1>3. s \in Slot /\ s.name \in Names
  BY SlotTyped
<1>4. t \in Slot /\ SameKey(s, t)
  BY <1>3 DEF Slot, SameKey
<1>5. u(ok) \in Slot /\ SameKey(s, u(ok))
  <2> HIDE DEF t
  <2>1. StopProc(t) \in Slot /\ SameKey(t, StopProc(t))
    BY <1>4, StopProcType
  <2>2. /\ StartNoSleep(StopProc(t), ok) \in Slot
        /\ SameKey(StopProc(t), StartNoSleep(StopProc(t), ok))
    BY <1>2, <2>1, StartType
  <2> QED  BY <1>4, <2>1, <2>2 DEF SameKey
<1> DEFINE v == [u(ok) EXCEPT !.running = u(ok).running /\ still,
                              !.last = u(ok).running]
           w == [u(ok) EXCEPT !.running = u(ok).running /\ still]
<1> HIDE DEF u, t
<1>6. v \in Slot /\ SameKey(s, v) /\ w \in Slot
  BY <1>5 DEF Slot, SameKey
<1>7. \/ slots' = [slots EXCEPT ![i] = v] /\ Tell(s.name, CamToJson(w))
      \/ /\ slots' = [slots EXCEPT ![i] = u(ok)]
         /\ \/ drift' = [drift EXCEPT ![s.name] = @ \cup {"wiped"}]
            \/ UNCHANGED drift
         /\ UNCHANGED told
  BY <1>1
<1> HIDE DEF v, w, s
<1>8. CASE slots' = [slots EXCEPT ![i] = v] /\ Tell(s.name, CamToJson(w))
  <2>1. CamToJson(w) \in Row
    BY <1>6, RowType
  <2>2. SameEntries
    BY <1>6, <1>8, SlotReplaced DEF s
  <2> QED  BY <1>3, <1>8, <2>1, <2>2, TellType
<1>9. CASE /\ slots' = [slots EXCEPT ![i] = u(ok)]
           /\ \/ drift' = [drift EXCEPT ![s.name] = @ \cup {"wiped"}]
              \/ UNCHANGED drift
           /\ UNCHANGED told
  <2>1. SameEntries
    BY <1>5, <1>9, SlotReplaced DEF s
  <2>2. drift' \in [Names -> SUBSET {"overtaken", "wiped"}]
    BY <1>3, <1>9 DEF TypeOK
  <2> QED  BY <1>9, <2>1, <2>2 DEF TypeOK
<1> QED  BY <1>7, <1>8, <1>9

LEMMA TickSlotType ==
  ASSUME TypeOK, TickSlot
  PROVE  TypeOK' /\ SameEntries
<1>1. idx \in DOMAIN slots /\ (TickIdle(idx) \/ TickWanted(idx))
  BY DEF TickSlot
<1>2. /\ SameEntries
      /\ told' \in [Names -> SUBSET Row]
      /\ drift' \in [Names -> SUBSET {"overtaken", "wiped"}]
  BY <1>1, TickIdleType, TickWantedType
<1>3. idx' \in Nat \ {0}
  BY DEF TickSlot, TypeOK
<1> QED  BY <1>2, <1>3 DEF TickSlot, TypeOK, SameEntries

-----------------------------------------------------------------------------
(* Hot-plug.                                                               *)

LEMMA MarkTypes ==
  ASSUME NEW s \in Slot, NEW ok \in BOOLEAN
  PROVE  /\ MarkAbsent(s) \in Slot /\ SameKey(s, MarkAbsent(s))
         /\ MarkPresent(s, ok) \in Slot /\ SameKey(s, MarkPresent(s, ok))
<1>1. MarkAbsent(s) \in Slot /\ SameKey(s, MarkAbsent(s))
  BY StopProcType DEF MarkAbsent, Slot, SameKey
<1> DEFINE t == [s EXCEPT !.present = TRUE]
<1>2. t \in Slot /\ SameKey(s, t)
  BY DEF Slot, SameKey
<1>3. RebuildSlot(t) \in Slot /\ SameKey(t, RebuildSlot(t))
  BY <1>2, RebuildType
<1>4. /\ StartNoSleep(RebuildSlot(t), ok) \in Slot
      /\ SameKey(RebuildSlot(t), StartNoSleep(RebuildSlot(t), ok))
  BY <1>3, StartType
<1>5. MarkPresent(s, ok) = StartNoSleep(RebuildSlot(t), ok)
      \/ MarkPresent(s, ok) = t
  BY DEF MarkPresent
<1> QED  BY <1>1, <1>2, <1>3, <1>4, <1>5 DEF SameKey

LEMMA DiffType ==
  ASSUME TypeOK, Diff
  PROVE  TypeOK' /\ SameEntries
<1> DEFINE listed == {scan.current[k] : k \in DOMAIN scan.current}
<1>1. PICK ok \in [DOMAIN slots -> BOOLEAN] :
        slots' = [i \in DOMAIN slots |->
          CASE slots[i].present /\ slots[i].name \notin listed
                 -> MarkAbsent(slots[i])
            [] Returned(slots[i], listed) -> MarkPresent(slots[i], ok[i])
            [] OTHER -> slots[i]]
  BY DEF Diff
<1> HIDE DEF listed
<1>2. ASSUME NEW i \in DOMAIN slots
      PROVE  slots'[i] \in Slot /\ SameKey(slots[i], slots'[i])
  <2>1. slots[i] \in Slot /\ ok[i] \in BOOLEAN
    BY SlotTyped
  <2>2. /\ MarkAbsent(slots[i]) \in Slot
        /\ SameKey(slots[i], MarkAbsent(slots[i]))
        /\ MarkPresent(slots[i], ok[i]) \in Slot
        /\ SameKey(slots[i], MarkPresent(slots[i], ok[i]))
    BY <2>1, MarkTypes
  <2>3. \/ slots'[i] = MarkAbsent(slots[i])
        \/ slots'[i] = MarkPresent(slots[i], ok[i])
        \/ slots'[i] = slots[i]
    <3>1. CASE slots[i].present /\ slots[i].name \notin listed
      BY <1>1, <3>1 DEF Returned
    <3>2. CASE Returned(slots[i], listed)
      BY <1>1, <3>2 DEF Returned
    <3>3. CASE /\ ~(slots[i].present /\ slots[i].name \notin listed)
               /\ ~Returned(slots[i], listed)
      BY <1>1, <3>3
    <3> QED  BY <3>1, <3>2, <3>3
  <2> QED  BY <2>1, <2>2, <2>3 DEF SameKey
<1>3. slots' \in [DOMAIN slots -> Slot]
  BY <1>1, <1>2
<1>4. SameEntries
  <2>1. slots \in Seq(Slot)
    BY DEF TypeOK
  <2>2. slots' \in Seq(Slot) /\ DOMAIN slots' = DOMAIN slots
    BY <1>3, <2>1, FunctionSeq
  <2> QED  BY <1>2, <2>2 DEF SameEntries
<1>5. /\ scan' \in [current : Seq(Names), fresh : SUBSET Nat,
                    known : SUBSET Names, changed : BOOLEAN]
      /\ scan'.fresh \subseteq DOMAIN scan'.current
  <2> DEFINE c == \E i \in DOMAIN slots :
                    \/ slots[i].present /\ slots[i].name \notin listed
                    \/ Returned(slots[i], listed)
             f == {k \in DOMAIN scan.current : scan.current[k] \notin KnownNames}
  <2>1. scan' = [scan EXCEPT !.changed = c, !.fresh = f]
    BY DEF Diff, listed
  <2>2. c \in BOOLEAN /\ f \subseteq DOMAIN scan.current
    OBVIOUS
  <2> HIDE DEF c, f
  <2>3. DOMAIN scan.current \subseteq Nat
    BY DEF TypeOK
  <2> QED  BY <2>1, <2>2, <2>3 DEF TypeOK
<1> QED  BY <1>4, <1>5 DEF Diff, TypeOK, history, LoopStates, SameEntries

\* A slot was appended, with a path no slot had.
OneAdded ==
  /\ slots' \in Seq(Slot) /\ Len(slots') = Len(slots) + 1
  /\ \A i \in DOMAIN slots : slots'[i] = slots[i]
  /\ slots'[Len(slots')].path \notin Paths

LEMMA AppendDeviceType ==
  ASSUME TypeOK, AppendDevice
  PROVE  TypeOK' /\ (SameEntries \/ OneAdded)
<1>1. PICK k \in scan.fresh, p \in 0..Len(slots) :
        /\ AllocPath(p)
        /\ \/ UNCHANGED slots /\ scan' = [scan EXCEPT !.fresh = @ \ {k}]
           \/ /\ \E ok \in Survives(scan.current[k]) :
                   slots' = Append(slots, StartIfEnabled(
                                     NewSlot(scan.current[k], p, dflt), ok))
              /\ scan' = [scan EXCEPT !.fresh = @ \ {k}, !.changed = TRUE]
  BY DEF AppendDevice
<1>2. slots \in Seq(Slot) /\ p \in Nat /\ Len(slots) \in Nat
  BY DEF TypeOK
<1>3. scan.current[k] \in Names
  BY DEF TypeOK
<1>4. /\ scan' \in [current : Seq(Names), fresh : SUBSET Nat,
                    known : SUBSET Names, changed : BOOLEAN]
      /\ scan'.fresh \subseteq DOMAIN scan'.current
  <2>1. CASE scan' = [scan EXCEPT !.fresh = @ \ {k}]
    BY <2>1 DEF TypeOK
  <2>2. CASE scan' = [scan EXCEPT !.fresh = @ \ {k}, !.changed = TRUE]
    BY <2>2 DEF TypeOK
  <2> QED  BY <1>1, <2>1, <2>2
<1>5. CASE UNCHANGED slots
  BY <1>4, <1>5, SlotsUnchanged
  DEF AppendDevice, TypeOK, history
<1>6. ASSUME NEW ok \in Survives(scan.current[k]),
             slots' = Append(slots, StartIfEnabled(
                               NewSlot(scan.current[k], p, dflt), ok))
      PROVE  TypeOK' /\ OneAdded
  <2> DEFINE s == NewSlot(scan.current[k], p, dflt)
             t == StartIfEnabled(s, ok)
  <2>1. s \in Slot /\ s.path = p
    BY <1>2, <1>3, NewSlotType DEF TypeOK
  <2>2. t \in Slot /\ t.path = p
    <3> HIDE DEF s
    <3>1. StartNoSleep(s, ok) \in Slot /\ SameKey(s, StartNoSleep(s, ok))
      BY <2>1, SurvivesType, StartType
    <3> QED  BY <2>1, <3>1 DEF StartIfEnabled, SameKey
  <2> HIDE DEF s, t
  <2>3. slots' = Append(slots, t)
    BY <1>6 DEF s, t
  <2>4. /\ slots' \in Seq(Slot) /\ Len(slots') = Len(slots) + 1
        /\ \A i \in DOMAIN slots : slots'[i] = slots[i]
        /\ slots'[Len(slots')] = t
    BY <1>2, <2>2, <2>3
  <2>5. OneAdded
    BY <1>1, <2>2, <2>4 DEF OneAdded, AllocPath
  <2> QED  BY <1>4, <2>4, <2>5 DEF AppendDevice, TypeOK, history
<1> QED  BY <1>1, <1>5, <1>6

-----------------------------------------------------------------------------
(* The whole loop, and startup.                                            *)

LEMMA LoopType ==
  ASSUME TypeOK, Loop
  PROVE  TypeOK' /\ (SameEntries \/ OneAdded)
<1>1. CASE LoopTop
  BY <1>1, SlotsUnchanged DEF LoopTop, TypeOK, history, LoopStates, Down
<1>2. CASE Tick
  <2>1. mtx' \in [running : BOOLEAN, due : BOOLEAN]
    BY <1>2, StartMtxType DEF Tick, MtxStarts, TypeOK
  <2>2. idx' \in Nat \ {0} /\ loopPc' \in LoopStates
    BY <1>2 DEF Tick, LoopStates
  <2> QED  BY <1>2, <2>1, <2>2, SlotsUnchanged DEF Tick, TypeOK, history
<1>3. CASE MtxWaitEnds
  BY <1>3, SlotsUnchanged DEF MtxWaitEnds, TypeOK, history, LoopStates, Down
<1>4. CASE TickSlot
  BY <1>4, TickSlotType
<1>5. CASE TickEnds
  <2>1. idx' \in Nat \ {0} /\ loopPc' \in LoopStates
    BY <1>5 DEF TickEnds, LoopStates
  <2> QED  BY <1>5, <2>1, SlotsUnchanged DEF TickEnds, TypeOK, history
<1>6. CASE SkipEnumeration
  BY <1>6, SlotsUnchanged
  DEF SkipEnumeration, TypeOK, history, LoopStates, Down
<1>7. CASE Enumerate
  <2>1. /\ scan' \in [current : Seq(Names), fresh : SUBSET Nat,
                      known : SUBSET Names, changed : BOOLEAN]
        /\ scan'.fresh \subseteq DOMAIN scan'.current
    <3>1. PICK seen \in {bus, <<>>} : scan' = [NoScan EXCEPT !.current = seen]
      BY <1>7 DEF Enumerate
    <3>2. scan' = [current |-> seen, fresh |-> {}, known |-> {},
                   changed |-> FALSE]
      BY <3>1 DEF NoScan
    <3>3. seen \in Seq(Names)
      <4>1. bus \in Seq(Names) /\ <<>> \in Seq(Names)
        BY DEF TypeOK
      <4> QED  BY <4>1
    <3> QED  BY <3>2, <3>3
  <2> QED  BY <1>7, <2>1, SlotsUnchanged
           DEF Enumerate, TypeOK, history, LoopStates, Down
<1>8. CASE Diff
  BY <1>8, DiffType
<1>9. NoScan \in [current : Seq(Names), fresh : SUBSET Nat,
                  known : SUBSET Names, changed : BOOLEAN]
      /\ NoScan.fresh \subseteq DOMAIN NoScan.current
  BY DEF NoScan
<1>10. CASE NothingNew
  BY <1>9, <1>10, SlotsUnchanged
  DEF NothingNew, TypeOK, history, LoopStates, Down
<1>11. CASE AppendBegins
  <2>1. KnownNames \subseteq Names
    BY SlotTyped DEF KnownNames
  <2>2. /\ scan' \in [current : Seq(Names), fresh : SUBSET Nat,
                      known : SUBSET Names, changed : BOOLEAN]
        /\ scan'.fresh \subseteq DOMAIN scan'.current
    BY <1>11, <2>1 DEF AppendBegins, TypeOK
  <2> QED  BY <1>11, <2>2, SlotsUnchanged
           DEF AppendBegins, TypeOK, history, LoopStates, Down
<1>12. CASE AppendDevice
  BY <1>12, AppendDeviceType
<1>13. CASE AppendEnds
  <2>1. /\ told' \in [Names -> SUBSET Row]
        /\ drift' \in [Names -> SUBSET {"overtaken", "wiped"}]
    BY <1>13, TellAllType DEF AppendEnds, TellNothing, TypeOK
  <2> QED  BY <1>9, <1>13, <2>1, SlotsUnchanged
           DEF AppendEnds, TypeOK, LoopStates, Down
<1>14. CASE StopIpc
  <2>1. <<>> \in Seq(Slot)
    OBVIOUS
  <2>2. /\ told' \in [Names -> SUBSET Row]
        /\ drift' \in [Names -> SUBSET {"overtaken", "wiped"}]
    BY <1>14, <2>1, TellAllType DEF StopIpc
  <2> QED  BY <1>14, <2>2, SlotsUnchanged
           DEF StopIpc, TypeOK, LoopStates, Down
<1>15. CASE StopEvents
  BY <1>15, SlotsUnchanged DEF StopEvents, TypeOK, history, LoopStates, Down
<1>16. CASE StopChildren
  <2>1. slots' = [i \in DOMAIN slots |-> StopProc(slots[i])]
    BY <1>16 DEF StopChildren
  <2>2. \A i \in DOMAIN slots : slots'[i] \in Slot /\ SameKey(slots[i], slots'[i])
    BY <2>1, SlotTyped, StopProcType
  <2>3. slots' \in [DOMAIN slots -> Slot] /\ slots \in Seq(Slot)
    BY <2>1, <2>2 DEF TypeOK
  <2>4. SameEntries
    BY <2>2, <2>3, FunctionSeq DEF SameEntries
  <2> QED  BY <1>16, <2>4
           DEF StopChildren, TypeOK, history, LoopStates, Down, SameEntries
<1> QED
  BY <1>1, <1>2, <1>3, <1>4, <1>5, <1>6, <1>7, <1>8, <1>10, <1>11, <1>12,
     <1>13, <1>14, <1>15, <1>16 DEF Loop

\* A launch numbers the slots from 0 in the order of enumeration.
Numbered == \A i \in DOMAIN slots' : slots'[i].path = i - 1

LEMMA LaunchType ==
  ASSUME TypeOK, Launch
  PROVE  TypeOK' /\ Numbered /\ slots' # <<>>
<1>1. PICK seen \in {bus, <<>>}, ok \in [DOMAIN bus -> BOOLEAN] :
        /\ seen # <<>>
        /\ slots' = [i \in DOMAIN seen |->
             LET s == NewSlot(seen[i], i - 1, diskDflt)
                 up == s.enabled /\ ok[i]
             IN  [s EXCEPT !.running = up, !.last = up, !.due = ~s.enabled]]
  BY DEF Launch
<1>2. seen = bus /\ seen \in Seq(Names)
  BY <1>1 DEF TypeOK
<1>3. ASSUME NEW i \in DOMAIN seen
      PROVE  slots'[i] \in Slot /\ slots'[i].path = i - 1
  <2> DEFINE s == NewSlot(seen[i], i - 1, diskDflt)
             up == s.enabled /\ ok[i]
             t == [s EXCEPT !.running = up, !.last = up, !.due = ~s.enabled]
  <2>1. seen[i] \in Names /\ i - 1 \in Nat /\ diskDflt \in BOOLEAN
    BY <1>2 DEF TypeOK
  <2>2. s \in Slot /\ s.path = i - 1
    BY <2>1, NewSlotType
  <2>3. slots'[i] = t
    BY <1>1
  <2> HIDE DEF s
  <2>4. up \in BOOLEAN /\ (~s.enabled) \in BOOLEAN
    BY <2>2 DEF Slot
  <2> HIDE DEF up
  <2>5. t \in Slot /\ t.path = i - 1
    BY <2>2, <2>4 DEF Slot
  <2> QED  BY <2>3, <2>5
<1>4. slots' \in [DOMAIN seen -> Slot]
  BY <1>1, <1>3
<1>5. slots' \in Seq(Slot) /\ Len(slots') = Len(seen) /\ DOMAIN slots' = DOMAIN seen
  BY <1>2, <1>4, FunctionSeq
<1>6. Numbered
  BY <1>3, <1>5 DEF Numbered
<1>7. slots' # <<>>
  <2>1. Len(seen) # 0
    BY <1>1, <1>2, EmptySeq
  <2> QED  BY <1>5, <2>1
<1>8. /\ told' \in [Names -> SUBSET Row]
      /\ drift' \in [Names -> SUBSET {"overtaken", "wiped"}]
  <2>1. TellAll(slots')
    BY DEF Launch
  <2> QED  BY <1>5, <2>1, TellAllType
<1>9. mtx' \in [running : BOOLEAN, due : BOOLEAN] /\ loopPc' \in LoopStates
  BY DEF Launch, LoopStates
<1> QED  BY <1>5, <1>6, <1>7, <1>8, <1>9 DEF Launch, TypeOK

LEMMA LifecycleType ==
  ASSUME TypeOK, Lifecycle
  PROVE  /\ TypeOK'
         /\ \/ slots' = <<>> /\ loopPc' \in Down
            \/ Launch /\ Numbered /\ slots' # <<>>
<1>0. <<>> \in Seq(Slot)
  OBVIOUS
<1>1. CASE Launch
  BY <1>1, LaunchType
<1>2. CASE LaunchFails
  <2>1. mtx' \in [running : BOOLEAN, due : BOOLEAN] /\ loopPc' \in Down
    BY <1>2 DEF LaunchFails, Down
  <2> QED  BY <1>0, <1>2, <2>1 DEF LaunchFails, TypeOK, history, LoopStates
<1>3. CASE Kill
  <2>1. mtx' \in [running : BOOLEAN, due : BOOLEAN] /\ loopPc' \in Down
    BY <1>3 DEF Kill, Down
  <2>2. /\ told' \in [Names -> SUBSET Row]
        /\ drift' \in [Names -> SUBSET {"overtaken", "wiped"}]
    BY <1>0, <1>3, TellAllType DEF Kill
  <2>3. /\ scan' \in [current : Seq(Names), fresh : SUBSET Nat,
                      known : SUBSET Names, changed : BOOLEAN]
        /\ scan'.fresh \subseteq DOMAIN scan'.current
    BY <1>3 DEF Kill, NoScan
  <2>4. idx' \in Nat \ {0} /\ slots' = <<>> /\ inflight' = {}
    BY <1>3 DEF Kill
  <2> QED  BY <1>0, <1>3, <2>1, <2>2, <2>3, <2>4 DEF Kill, TypeOK, LoopStates
<1> QED  BY <1>1, <1>2, <1>3 DEF Lifecycle

\* Every step, seen from the list of slots.
LEMMA StepType ==
  ASSUME TypeOK, [Next]_vars
  PROVE  /\ TypeOK'
         /\ \/ SameEntries
            \/ Loop /\ OneAdded
            \/ slots' = <<>> /\ loopPc' \in Down
            \/ Launch /\ Numbered /\ slots' # <<>>
<1>1. CASE Lifecycle
  BY <1>1, LifecycleType
<1>2. CASE Environment
  BY <1>2, EnvironmentType
<1>3. CASE Requests
  BY <1>3, RequestsType
<1>4. CASE Hooks
  BY <1>4, HooksType
<1>5. CASE Loop
  BY <1>5, LoopType
<1>6. CASE UNCHANGED vars
  BY <1>6, SlotsUnchanged DEF vars, TypeOK
<1> QED  BY <1>1, <1>2, <1>3, <1>4, <1>5, <1>6 DEF Next

LEMMA InitType == Init => TypeOK
<1> SUFFICES ASSUME Init PROVE TypeOK
  OBVIOUS
<1>1. bus \in Seq(Names) /\ slots = <<>> /\ slots \in Seq(Slot)
  BY ConstantsAssumption DEF Init
<1>2. /\ disk \in [Names -> {{}, {TRUE}, {FALSE}}]
      /\ diskDflt \in BOOLEAN /\ dflt \in BOOLEAN /\ stop \in BOOLEAN
  BY DEF Init
<1>3. mtx \in [running : BOOLEAN, due : BOOLEAN]
  BY DEF Init
<1>4. loopPc \in LoopStates /\ idx \in Nat \ {0} /\ ipcPc \in {"idle", "credWait"}
  BY DEF Init, LoopStates, Down
<1>5. /\ scan \in [current : Seq(Names), fresh : SUBSET Nat,
                   known : SUBSET Names, changed : BOOLEAN]
      /\ scan.fresh \subseteq DOMAIN scan.current
  BY DEF Init, NoScan
<1>6. /\ inflight = {} /\ unsaved = {}
      /\ told \in [Names -> SUBSET Row]
      /\ drift \in [Names -> SUBSET {"overtaken", "wiped"}]
  BY DEF Init
<1> QED  BY <1>1, <1>2, <1>3, <1>4, <1>5, <1>6 DEF TypeOK

\* The state of the supervisor keeps its types, for all names and bounds: in
\* particular a viewer_count never goes below zero and the re-enumeration never
\* looks past the devices it listed (main.cpp:896, 1065).
THEOREM TypeCorrect == Spec => []TypeOK
<1>1. TypeOK /\ [Next]_vars => TypeOK'
  BY StepType
<1> QED  BY InitType, <1>1, PTL DEF Spec

-----------------------------------------------------------------------------
(* Paths.                                                                  *)

LEMMA PathsUniqueStep ==
  ASSUME TypeOK, PathsUnique, [Next]_vars
  PROVE  PathsUnique'
<1>1. TypeOK'
  BY StepType
<1>2. slots \in Seq(Slot) /\ slots' \in Seq(Slot)
  BY <1>1 DEF TypeOK
<1>3. CASE SameEntries
  BY <1>3 DEF SameEntries, SameKey, PathsUnique
<1>4. CASE OneAdded
  <2> SUFFICES ASSUME NEW i \in DOMAIN slots', NEW j \in DOMAIN slots', i # j
               PROVE  slots'[i].path # slots'[j].path
    BY DEF PathsUnique
  <2> DEFINE n == Len(slots')
  <2>1. /\ DOMAIN slots' = 1..n /\ DOMAIN slots = 1..(n - 1) /\ n \in Nat
        /\ \A k \in DOMAIN slots : slots'[k] = slots[k]
        /\ slots'[n].path \notin Paths
    BY <1>2, <1>4 DEF OneAdded
  <2>2. \A k \in DOMAIN slots : slots'[k].path \in Paths
    BY <2>1 DEF Paths
  <2> HIDE DEF n
  <2>3. CASE i = n
    <3>1. j \in DOMAIN slots
      BY <2>1, <2>3
    <3> QED  BY <2>1, <2>2, <2>3, <3>1
  <2>4. CASE j = n
    <3>1. i \in DOMAIN slots
      BY <2>1, <2>4
    <3> QED  BY <2>1, <2>2, <2>4, <3>1
  <2>5. CASE i # n /\ j # n
    <3>1. i \in DOMAIN slots /\ j \in DOMAIN slots
      BY <2>1, <2>5
    <3> QED  BY <2>1, <3>1 DEF PathsUnique
  <2> QED  BY <2>3, <2>4, <2>5
<1>5. CASE slots' = <<>>
  BY <1>5 DEF PathsUnique
<1>6. CASE Numbered
  BY <1>2, <1>6 DEF Numbered, PathsUnique
<1> QED  BY <1>3, <1>4, <1>5, <1>6, StepType

\* No two slots ever publish to the same path, however many cameras of
\* whatever names come and go (main.cpp:463-479, 924-931, 1057-1061).
THEOREM PathsAlwaysUnique == Spec => []PathsUnique
<1>1. Init => PathsUnique
  BY DEF Init, PathsUnique
<1>2. TypeOK /\ PathsUnique /\ [Next]_vars => PathsUnique'
  BY PathsUniqueStep
<1> QED  BY <1>1, <1>2, TypeCorrect, PTL DEF Spec

-----------------------------------------------------------------------------
(* Supervisor implements Registry.                                         *)

\* The refinement mapping, where the supervisor runs.
EntriesOf(ss) == [i \in DOMAIN ss |-> [name |-> ss[i].name, path |-> ss[i].path]]

LEMMA EntriesType ==
  ASSUME NEW ss \in Seq(Slot)
  PROVE  /\ EntriesOf(ss) \in Seq(Reg!Entry)
         /\ Len(EntriesOf(ss)) = Len(ss) /\ DOMAIN EntriesOf(ss) = DOMAIN ss
<1>1. \A i \in DOMAIN ss :
        [name |-> ss[i].name, path |-> ss[i].path] \in Reg!Entry
  <2>1. \A i \in DOMAIN ss : ss[i] \in Slot
    OBVIOUS
  <2>2. \A i \in DOMAIN ss : ss[i].name \in Names /\ ss[i].path \in Nat
    BY <2>1 DEF Slot
  <2> QED  BY <2>2 DEF Reg!Entry
<1>2. EntriesOf(ss) \in [DOMAIN ss -> Reg!Entry]
  BY <1>1 DEF EntriesOf
<1> QED  BY <1>2, FunctionSeq

LEMMA EntriesUnique ==
  ASSUME PathsUnique
  PROVE  Reg!UniquePaths(EntriesOf(slots))
  BY DEF PathsUnique, Reg!UniquePaths, EntriesOf

\* A supervisor comes to life by Launch only.
LEMMA OnlyLaunchStarts ==
  ASSUME [Next]_vars, loopPc \in Down, loopPc' \notin Down
  PROVE  Launch
<1>1. CASE Lifecycle
  BY <1>1 DEF Lifecycle, LaunchFails, Kill, Down
<1>2. CASE Environment
  BY <1>2 DEF Environment, Plug, Unplug, PublisherExits, MtxExits,
              BackoffElapses, MtxBackoffElapses, HostSavesDefault
<1>3. CASE Requests
  BY <1>3 DEF Requests, RestartCamera, SetMode, SetStreamEnabled,
              SetViewerCredentials, CredentialsApplied, ReloadSettings,
              ShutdownRequest, ConsoleCtrl
<1>4. CASE Hooks
  BY <1>4 DEF Hooks, Hook, HookPublish
<1>5. CASE Loop
  BY <1>5 DEF Loop, LoopTop, Tick, MtxWaitEnds, TickSlot, TickEnds,
              SkipEnumeration, Enumerate, Diff, NothingNew, AppendBegins,
              AppendDevice, AppendEnds, StopIpc, StopEvents, StopChildren, Down
<1>6. CASE UNCHANGED vars
  BY <1>6 DEF vars
<1> QED  BY <1>1, <1>2, <1>3, <1>4, <1>5, <1>6 DEF Next

LEMMA RegistryStep ==
  ASSUME TypeOK, PathsUnique, [Next]_vars
  PROVE  [Reg!Next]_(Reg!vars)
<1> DEFINE up == loopPc \notin Down
<1>1. PathsUnique' /\ TypeOK'
  BY PathsUniqueStep, StepType
<1>2. slots \in Seq(Slot) /\ slots' \in Seq(Slot)
  BY <1>1 DEF TypeOK
<1>3. /\ up => Entries = EntriesOf(slots)
      /\ up' => Entries' = EntriesOf(slots')
      /\ ~up => Entries = <<>>
      /\ ~up' => Entries' = <<>>
  BY DEF Entries, EntriesOf
<1>4. /\ EntriesOf(slots') \in Seq(Reg!Entry)
      /\ Len(EntriesOf(slots')) = Len(slots')
      /\ DOMAIN EntriesOf(slots') = DOMAIN slots'
      /\ Len(EntriesOf(slots)) = Len(slots)
      /\ DOMAIN EntriesOf(slots) = DOMAIN slots
  BY <1>2, EntriesType
<1>5. Reg!UniquePaths(EntriesOf(slots'))
  BY <1>1 DEF PathsUnique, Reg!UniquePaths, EntriesOf
<1>6. CASE ~up /\ ~up'
  BY <1>3, <1>6 DEF Reg!vars
<1>7. CASE ~up /\ up'
  <2>1. Launch
    BY <1>7, OnlyLaunchStarts
  <2>2. slots' # <<>>
    BY <2>1, LaunchType
  <2>3. Len(slots') # 0
    BY <1>2, <2>2, EmptySeq
  <2>4. EntriesOf(slots') # <<>>
    BY <1>4, <2>3, EmptySeq
  <2> QED  BY <1>3, <1>4, <1>5, <1>7, <2>4 DEF Reg!Next, Reg!Start
<1>8. CASE up /\ ~up'
  BY <1>3, <1>8 DEF Reg!Next, Reg!Die
<1>9. CASE up /\ up'
  <2>1. SameEntries \/ OneAdded
    BY <1>9, StepType DEF Launch
  <2>2. CASE SameEntries
    <3>1. EntriesOf(slots') = EntriesOf(slots)
      BY <2>2 DEF SameEntries, SameKey, EntriesOf
    <3> QED  BY <1>3, <1>9, <3>1 DEF Reg!vars
  <2>3. CASE OneAdded
    <3>1. \A i \in DOMAIN slots :
            i \in DOMAIN slots' /\ EntriesOf(slots')[i] = EntriesOf(slots)[i]
      BY <1>2, <2>3 DEF OneAdded, EntriesOf
    <3>2. Len(EntriesOf(slots')) = Len(EntriesOf(slots)) + 1
      BY <1>4, <2>3 DEF OneAdded
    <3> QED  BY <1>3, <1>4, <1>5, <1>9, <3>1, <3>2 DEF Reg!Next, Reg!Learn
  <2> QED  BY <2>1, <2>2, <2>3
<1> QED  BY <1>6, <1>7, <1>8, <1>9

\* For as long as a supervisor runs, cameras are only ever added, each at a
\* path nobody else has: a URL handed out stays valid through unplugging,
\* re-plugging, crashes of its publisher and every request
\* (main.cpp:1013-1035, 1051-1081).
THEOREM ImplementsRegistry == Spec => PathsKept
<1>1. Init => Reg!Init
  BY DEF Init, Reg!Init, Entries, Down
<1>2. TypeOK /\ PathsUnique /\ [Next]_vars => [Reg!Next]_(Reg!vars)
  BY RegistryStep
<1> QED
  BY <1>1, <1>2, TypeCorrect, PathsAlwaysUnique, PTL
  DEF Spec, PathsKept, Reg!Spec

-----------------------------------------------------------------------------
(* Shutdown.                                                               *)

\* A step that starts nothing: the body of NothingStartsAfterStop.
StartsNothing ==
  /\ mtx'.running => mtx.running
  /\ \A i \in DOMAIN slots' : slots'[i].running =>
       i \in DOMAIN slots /\ slots[i].running

LEMMA SlotsKeptStartNothing ==
  ASSUME UNCHANGED <<slots, mtx>>
  PROVE  StartsNothing
  BY DEF StartsNothing

\* One slot is replaced by another that does not run unless it did.
LEMMA ReplacedStartsNothing ==
  ASSUME TypeOK, NEW i \in DOMAIN slots, NEW t, slots' = [slots EXCEPT ![i] = t],
         t.running => slots[i].running, UNCHANGED mtx
  PROVE  StartsNothing
<1>1. slots \in Seq(Slot)
  BY DEF TypeOK
<1>2. DOMAIN slots' = DOMAIN slots
  BY <1>1
<1>3. \A j \in DOMAIN slots : slots'[j] = IF j = i THEN t ELSE slots[j]
  BY <1>1
<1> QED  BY <1>2, <1>3 DEF StartsNothing

LEMMA StopProcStops ==
  ASSUME NEW s \in Slot
  PROVE  ~StopProc(s).running
  BY DEF StopProc, Slot

LEMMA RebuildStops ==
  ASSUME NEW s \in Slot
  PROVE  ~RebuildSlot(s).running
  BY DEF RebuildSlot, Slot

LEMMA NoStartWhenStopped ==
  ASSUME stop, NEW s, NEW ok
  PROVE  StartNoSleep(s, ok) = s
  BY DEF StartNoSleep

LEMMA EnvironmentStartsNothing ==
  ASSUME TypeOK, Environment
  PROVE  StartsNothing
<1>1. ASSUME NEW i \in DOMAIN slots, PublisherExits(i)
      PROVE  StartsNothing
  BY <1>1, SlotTyped, StopProcStops, ReplacedStartsNothing DEF PublisherExits
<1>2. ASSUME NEW i \in DOMAIN slots, BackoffElapses(i)
      PROVE  StartsNothing
  <2>1. /\ slots' = [slots EXCEPT ![i] = [slots[i] EXCEPT !.due = TRUE]]
        /\ UNCHANGED mtx
    BY <1>2 DEF BackoffElapses
  <2>2. [slots[i] EXCEPT !.due = TRUE].running = slots[i].running
    BY SlotTyped DEF Slot
  <2> QED  BY <2>1, <2>2, ReplacedStartsNothing
<1>3. CASE MtxExits \/ MtxBackoffElapses
  BY <1>3 DEF MtxExits, MtxBackoffElapses, StartsNothing, TypeOK
<1> QED
  BY <1>1, <1>2, <1>3, SlotsKeptStartNothing
  DEF Environment, Plug, Unplug, HostSavesDefault

\* What a handler publishes and records runs no more than what it started.
LEMMA PublishStartsNothing ==
  ASSUME TypeOK, NEW i \in DOMAIN slots, NEW t \in Slot, NEW still \in BOOLEAN,
         t.running => slots[i].running, PublishThenRecord(i, t, still), UNCHANGED mtx
  PROVE  StartsNothing
<1> DEFINE u == [t EXCEPT !.running = t.running /\ still,
                          !.last = t.running /\ still]
<1>1. slots' = [slots EXCEPT ![i] = u]
  BY DEF PublishThenRecord
<1>2. u.running => slots[i].running
  BY DEF Slot
<1> HIDE DEF u
<1> QED  BY <1>1, <1>2, ReplacedStartsNothing

LEMMA RelaunchStartsNothing ==
  ASSUME TypeOK, stop, NEW i \in DOMAIN slots, Relaunch(i), UNCHANGED mtx
  PROVE  StartsNothing
<1>1. PICK ok \in Survives(slots[i].name), still \in Survives(slots[i].name) :
        PublishThenRecord(i, StartNoSleep(RebuildSlot(slots[i]), ok), still)
  BY DEF Relaunch
<1>2. still \in BOOLEAN
  BY SurvivesType
<1>3. PublishThenRecord(i, RebuildSlot(slots[i]), still)
  BY <1>1, NoStartWhenStopped
<1>4. RebuildSlot(slots[i]) \in Slot /\ ~RebuildSlot(slots[i]).running
  BY SlotTyped, RebuildType, RebuildStops
<1> QED  BY <1>2, <1>3, <1>4, PublishStartsNothing

LEMMA SetStreamEnabledStartsNothing ==
  ASSUME TypeOK, stop, NEW n \in Names, NEW want \in BOOLEAN,
         SetStreamEnabled(n, want)
  PROVE  StartsNothing
<1>1. PICK i \in DOMAIN slots, ok \in Survives(n), still \in Survives(n) :
        LET s == [slots[i] EXCEPT !.enabled = want]
            t == CASE want /\ s.present -> StartNoSleep(RebuildSlot(s), ok)
                   [] want /\ ~s.present -> s
                   [] OTHER -> StopProc(s)
        IN  PublishThenRecord(i, t, still)
  BY DEF SetStreamEnabled
<1> DEFINE s == [slots[i] EXCEPT !.enabled = want]
           t == CASE want /\ s.present -> RebuildSlot(s)
                  [] want /\ ~s.present -> s
                  [] OTHER -> StopProc(s)
<1>2. s \in Slot /\ s.running = slots[i].running
  BY SlotTyped DEF Slot
<1>3. PublishThenRecord(i, t, still)
  BY <1>1, NoStartWhenStopped
<1>4. /\ RebuildSlot(s) \in Slot /\ ~RebuildSlot(s).running
      /\ StopProc(s) \in Slot /\ ~StopProc(s).running
  BY <1>2, RebuildType, RebuildStops, StopProcType, StopProcStops
<1>5. t = RebuildSlot(s) \/ t = s \/ t = StopProc(s)
  <2>1. CASE want /\ s.present
    BY <2>1
  <2>2. CASE want /\ ~s.present
    BY <2>2
  <2>3. CASE ~want
    BY <2>3
  <2> QED  BY <2>1, <2>2, <2>3
<1> HIDE DEF s, t
<1>6. t \in Slot /\ (t.running => slots[i].running) /\ still \in BOOLEAN
  BY <1>2, <1>4, <1>5, SurvivesType
<1>7. UNCHANGED mtx
  BY DEF SetStreamEnabled
<1> QED  BY <1>3, <1>6, <1>7, PublishStartsNothing

LEMMA RequestsStartNothing ==
  ASSUME TypeOK, stop, Requests
  PROVE  StartsNothing
<1>1. ASSUME NEW n \in Addressed, RestartCamera(n) \/ SetMode(n)
      PROVE  StartsNothing
  BY <1>1, RelaunchStartsNothing DEF RestartCamera, SetMode
<1>2. ASSUME NEW n \in Addressed, NEW want \in BOOLEAN, SetStreamEnabled(n, want)
      PROVE  StartsNothing
  BY <1>2, ConstantsAssumption, SetStreamEnabledStartsNothing
<1>3. CASE SetViewerCredentials
  <2>1. mtx' = [mtx EXCEPT !.running = FALSE] /\ UNCHANGED slots
    BY <1>3 DEF SetViewerCredentials, StartMtx
  <2> QED  BY <2>1 DEF StartsNothing, TypeOK
<1>4. CASE CredentialsApplied
  BY <1>4, SlotsKeptStartNothing DEF CredentialsApplied
<1>5. CASE ReloadSettings
  BY <1>5, SlotsKeptStartNothing DEF ReloadSettings
<1>6. CASE ShutdownRequest
  BY <1>6, SlotsKeptStartNothing DEF ShutdownRequest
<1>7. CASE ConsoleCtrl
  BY <1>7, SlotsKeptStartNothing DEF ConsoleCtrl
<1> QED  BY <1>1, <1>2, <1>3, <1>4, <1>5, <1>6, <1>7 DEF Requests

LEMMA HooksStartNothing ==
  ASSUME TypeOK, Hooks
  PROVE  StartsNothing
<1>1. ASSUME NEW kind, NEW p, Hook(kind, p)
      PROVE  StartsNothing
  <2>1. PICK i \in DOMAIN slots :
          slots' = [slots EXCEPT ![i] = ViewerCount(slots[i], kind)]
    BY <1>1 DEF Hook
  <2>2. ViewerCount(slots[i], kind).running = slots[i].running
    BY SlotTyped DEF ViewerCount, Slot
  <2> QED  BY <1>1, <2>1, <2>2, ReplacedStartsNothing DEF Hook
<1> QED  BY <1>1, SlotsKeptStartNothing DEF Hooks, HookPublish

LEMMA TickSlotStartsNothing ==
  ASSUME TypeOK, stop, TickSlot
  PROVE  StartsNothing
<1>1. idx \in DOMAIN slots /\ UNCHANGED mtx
  BY DEF TickSlot
<1> DEFINE s == slots[idx]
<1>2. s \in Slot
  BY <1>1, SlotTyped
<1>3. CASE TickIdle(idx)
  <2> DEFINE t == [s EXCEPT !.last = FALSE, !.count = 0]
  <2>1. t.running = s.running
    BY <1>2 DEF Slot
  <2>2. slots' = [slots EXCEPT ![idx] = t] \/ UNCHANGED slots
    BY <1>3 DEF TickIdle
  <2> HIDE DEF t
  <2> QED
    BY <1>1, <2>1, <2>2, ReplacedStartsNothing, SlotsKeptStartNothing
<1>4. CASE TickWanted(idx)
  <2> DEFINE t == IF s.running THEN s ELSE [s EXCEPT !.count = 0]
             u == IF RestartDue(s) THEN StopProc(t) ELSE t
             v(still) == [u EXCEPT !.running = u.running /\ still,
                                   !.last = u.running]
  <2>1. PICK ok \in Survives(s.name), still \in Survives(s.name) :
          LET w == IF RestartDue(s) THEN StartNoSleep(StopProc(t), ok) ELSE t
          IN  IF w.running # s.last
              THEN slots' = [slots EXCEPT ![idx] =
                     [w EXCEPT !.running = w.running /\ still, !.last = w.running]]
              ELSE slots' = [slots EXCEPT ![idx] = w]
    BY <1>4, Zenon DEF TickWanted
  <2> HIDE DEF t
  <2>2. (IF RestartDue(s) THEN StartNoSleep(StopProc(t), ok) ELSE t) = u
    BY NoStartWhenStopped
  <2>3. slots' = [slots EXCEPT ![idx] = v(still)]
        \/ slots' = [slots EXCEPT ![idx] = u]
    BY <2>1, <2>2
  <2>4. t \in Slot /\ t.running = s.running
    BY <1>2 DEF Slot, t
  <2>5. u \in Slot /\ (u.running => s.running)
    <3> HIDE DEF s
    <3> QED  BY <2>4, StopProcType, StopProcStops
  <2>6. v(still).running => s.running
    <3> HIDE DEF u
    <3> QED  BY <2>5 DEF Slot
  <2> HIDE DEF u, v
  <2> QED  BY <1>1, <2>3, <2>5, <2>6, ReplacedStartsNothing
<1> QED  BY <1>3, <1>4 DEF TickSlot

LEMMA DiffStartsNothing ==
  ASSUME TypeOK, stop, Diff
  PROVE  StartsNothing
<1> DEFINE listed == {scan.current[k] : k \in DOMAIN scan.current}
<1>1. PICK ok \in [DOMAIN slots -> BOOLEAN] :
        slots' = [i \in DOMAIN slots |->
          CASE slots[i].present /\ slots[i].name \notin listed
                 -> MarkAbsent(slots[i])
            [] Returned(slots[i], listed) -> MarkPresent(slots[i], ok[i])
            [] OTHER -> slots[i]]
  BY DEF Diff
<1> HIDE DEF listed
<1>2. ASSUME NEW i \in DOMAIN slots, slots'[i].running
      PROVE  slots[i].running
  <2> DEFINE t == [slots[i] EXCEPT !.present = TRUE]
  <2>1. slots[i] \in Slot /\ t \in Slot /\ t.running = slots[i].running
    BY SlotTyped DEF Slot
  <2>2. ~MarkAbsent(slots[i]).running
    BY <2>1, StopProcType, StopProcStops DEF MarkAbsent, Slot
  <2>3. MarkPresent(slots[i], ok[i]) = RebuildSlot(t)
        \/ MarkPresent(slots[i], ok[i]) = t
    BY NoStartWhenStopped DEF MarkPresent
  <2>4. MarkPresent(slots[i], ok[i]).running => slots[i].running
    <3> HIDE DEF t
    <3> QED  BY <2>1, <2>3, RebuildStops
  <2>5. \/ slots'[i] = MarkAbsent(slots[i])
        \/ slots'[i] = MarkPresent(slots[i], ok[i])
        \/ slots'[i] = slots[i]
    <3>1. CASE slots[i].present /\ slots[i].name \notin listed
      BY <1>1, <3>1 DEF Returned
    <3>2. CASE Returned(slots[i], listed)
      BY <1>1, <3>2 DEF Returned
    <3>3. CASE /\ ~(slots[i].present /\ slots[i].name \notin listed)
               /\ ~Returned(slots[i], listed)
      BY <1>1, <3>3
    <3> QED  BY <3>1, <3>2, <3>3
  <2> QED  BY <1>2, <2>2, <2>4, <2>5
<1>3. DOMAIN slots' = DOMAIN slots /\ UNCHANGED mtx
  BY <1>1 DEF Diff
<1> QED  BY <1>2, <1>3 DEF StartsNothing

LEMMA AppendDeviceStartsNothing ==
  ASSUME TypeOK, stop, AppendDevice
  PROVE  StartsNothing
<1>1. UNCHANGED mtx
  BY DEF AppendDevice
<1>2. CASE UNCHANGED slots
  BY <1>1, <1>2, SlotsKeptStartNothing
<1>3. CASE ~UNCHANGED slots
  <2>1. PICK n, p :
          slots' = Append(slots, NewSlot(n, p, dflt))
    BY <1>3, NoStartWhenStopped DEF AppendDevice, StartIfEnabled
  <2>2. ~NewSlot(n, p, dflt).running
    BY DEF NewSlot
  <2>3. slots \in Seq(Slot)
    BY DEF TypeOK
  <2> DEFINE t == NewSlot(n, p, dflt)
  <2> HIDE DEF t
  <2>4. slots' = Append(slots, t)
    BY <2>1 DEF t
  <2>5. /\ DOMAIN slots' = DOMAIN slots \cup {Len(slots) + 1}
        /\ slots'[Len(slots) + 1] = t
        /\ \A i \in DOMAIN slots : slots'[i] = slots[i]
    BY <2>3, <2>4
  <2> QED  BY <1>1, <2>2, <2>5 DEF StartsNothing, t
<1> QED  BY <1>2, <1>3

LEMMA StopChildrenStops ==
  ASSUME TypeOK, StopChildren
  PROVE  ~mtx'.running /\ \A i \in DOMAIN slots' : ~slots'[i].running
<1>1. /\ slots' = [i \in DOMAIN slots |-> StopProc(slots[i])]
      /\ mtx' = [mtx EXCEPT !.running = FALSE]
  BY DEF StopChildren
<1>2. ~mtx'.running
  BY <1>1 DEF TypeOK
<1> QED  BY <1>1, <1>2, SlotTyped, StopProcStops

LEMMA LoopStartsNothing ==
  ASSUME TypeOK, stop, Loop
  PROVE  StartsNothing
<1>1. CASE LoopTop \/ MtxWaitEnds \/ TickEnds \/ SkipEnumeration \/ Enumerate
  BY <1>1, SlotsKeptStartNothing
  DEF LoopTop, MtxWaitEnds, TickEnds, SkipEnumeration, Enumerate
<1>2. CASE NothingNew \/ AppendBegins \/ AppendEnds \/ StopIpc \/ StopEvents
  BY <1>2, SlotsKeptStartNothing
  DEF NothingNew, AppendBegins, AppendEnds, StopIpc, StopEvents
<1>3. CASE Tick
  BY <1>3, SlotsKeptStartNothing DEF Tick, StartMtx
<1>4. CASE StopChildren
  BY <1>4, StopChildrenStops DEF StartsNothing
<1> QED
  BY <1>1, <1>2, <1>3, <1>4, TickSlotStartsNothing, DiffStartsNothing,
     AppendDeviceStartsNothing
  DEF Loop

\* No launch and no kill ends with `stop` set; every other step starts nothing.
LEMMA StoppedStepStartsNothing ==
  ASSUME TypeOK, [Next]_vars, stop, stop'
  PROVE  StartsNothing
<1>1. CASE Lifecycle
  BY <1>1 DEF Lifecycle, Launch, LaunchFails, Kill
<1>2. CASE UNCHANGED vars
  BY <1>2, SlotsKeptStartNothing DEF vars
<1> QED
  BY <1>1, <1>2, EnvironmentStartsNothing, RequestsStartNothing,
     HooksStartNothing, LoopStartsNothing
  DEF Next

\* From the moment shutdown is requested no child is started any more: not
\* by the tick, by a hot-plug already under way or by a handler still served
\* (main.cpp:134).
THEOREM StoppedStartsNothing == Spec => NothingStartsAfterStop
<1>1. TypeOK /\ [Next]_vars =>
        [stop /\ stop' =>
           /\ mtx'.running => mtx.running
           /\ \A i \in DOMAIN slots' : slots'[i].running =>
                i \in DOMAIN slots /\ slots[i].running]_vars
  BY StoppedStepStartsNothing DEF StartsNothing
<1> QED
  BY <1>1, TypeCorrect, PTL DEF Spec, NothingStartsAfterStop

\* The events thread is joined with nothing left to publish, and it is the
\* only one that takes snapshots.
ExitInv ==
  /\ loopPc = "stopChildren" => inflight = {}
  /\ ExitLeavesNothing

LEMMA ExitStep ==
  ASSUME TypeOK, ExitInv, [Next]_vars
  PROVE  ExitInv'
<1>1. ASSUME loopPc' = "exited", loopPc = "exited", UNCHANGED inflight, StartsNothing
      PROVE  ExitInv'
  BY <1>1 DEF ExitInv, ExitLeavesNothing, StartsNothing
<1>2. ASSUME UNCHANGED <<loopPc, inflight>>, StartsNothing
      PROVE  ExitInv'
  BY <1>2 DEF ExitInv, ExitLeavesNothing, StartsNothing
<1>3. CASE Lifecycle
  <2>1. Launch => loopPc' \notin {"stopChildren", "exited"}
    BY Zenon DEF Launch
  <2>2. LaunchFails => loopPc' \notin {"stopChildren", "exited"}
    BY DEF LaunchFails
  <2>3. Kill => loopPc' \notin {"stopChildren", "exited"}
    BY DEF Kill
  <2>4. loopPc' \notin {"stopChildren", "exited"}
    BY <1>3, <2>1, <2>2, <2>3 DEF Lifecycle
  <2> QED  BY <2>4 DEF ExitInv, ExitLeavesNothing
<1>4. CASE Environment
  <2>1. UNCHANGED <<loopPc, inflight>>
    BY <1>4 DEF Environment, Plug, Unplug, PublisherExits, BackoffElapses,
                MtxExits, MtxBackoffElapses, HostSavesDefault
  <2> QED  BY <1>2, <1>4, <2>1, EnvironmentStartsNothing
<1>5. CASE Requests
  <2>1. UNCHANGED <<loopPc, inflight>>
    BY <1>5 DEF Requests, RestartCamera, SetMode, SetStreamEnabled,
                SetViewerCredentials, CredentialsApplied, ReloadSettings,
                ShutdownRequest, ConsoleCtrl
  <2>2. CASE CredentialsApplied
    BY <1>2, <2>1, <2>2, SlotsKeptStartNothing DEF CredentialsApplied
  <2>3. CASE ConsoleCtrl
    BY <1>2, <2>1, <2>3, SlotsKeptStartNothing DEF ConsoleCtrl
  <2>4. CASE Serving
    <3>1. loopPc \notin {"stopChildren", "exited"}
      BY <2>4 DEF Serving, IpcUp, Down
    <3> QED  BY <2>1, <3>1 DEF ExitInv, ExitLeavesNothing
  <2>5. Serving \/ CredentialsApplied \/ ConsoleCtrl
    BY <1>5 DEF Requests, RestartCamera, SetMode, SetStreamEnabled,
                SetViewerCredentials, ReloadSettings, ShutdownRequest
  <2> QED  BY <2>2, <2>3, <2>4, <2>5
<1>6. CASE Hooks
  <2>1. EventsUp /\ UNCHANGED loopPc
    BY <1>6 DEF Hooks, Hook, HookPublish
  <2> QED  BY <2>1 DEF EventsUp, Down, ExitInv, ExitLeavesNothing
<1>7. CASE Loop
  <2>1. CASE StopEvents
    BY <2>1 DEF StopEvents, ExitInv, ExitLeavesNothing
  <2>2. CASE StopChildren
    <3>1. inflight' = {} /\ loopPc' = "exited"
      BY <2>2 DEF StopChildren, ExitInv
    <3> QED  BY <2>2, <3>1, StopChildrenStops DEF ExitInv, ExitLeavesNothing
  <2>3. CASE ~StopEvents /\ ~StopChildren
    <3> SUFFICES loopPc' \notin {"stopChildren", "exited"}
      BY DEF ExitInv, ExitLeavesNothing
    <3>1. CASE LoopTop \/ TickSlot
      BY <3>1 DEF LoopTop, TickSlot
    <3>2. CASE Tick \/ MtxWaitEnds \/ TickEnds \/ SkipEnumeration
      BY <3>2 DEF Tick, MtxWaitEnds, TickEnds, SkipEnumeration
    <3>3. CASE Enumerate \/ Diff \/ NothingNew
      BY <3>3 DEF Enumerate, Diff, NothingNew
    <3>4. CASE AppendBegins \/ AppendEnds \/ StopIpc
      BY <3>4 DEF AppendBegins, AppendEnds, StopIpc
    <3>5. CASE AppendDevice
      BY <3>5 DEF AppendDevice
    <3> QED  BY <1>7, <2>3, <3>1, <3>2, <3>3, <3>4, <3>5 DEF Loop
  <2> QED  BY <2>1, <2>2, <2>3
<1>8. CASE UNCHANGED vars
  BY <1>2, <1>8, SlotsKeptStartNothing DEF vars
<1> QED  BY <1>3, <1>4, <1>5, <1>6, <1>7, <1>8 DEF Next

\* After an orderly exit no child is left and no event is half-way, although
\* requests and hooks are served until their threads are joined
\* (main.cpp:1087-1094).
THEOREM OrderlyExit == Spec => []ExitLeavesNothing
<1>1. Init => ExitInv
  BY DEF Init, ExitInv, ExitLeavesNothing
<1>2. TypeOK /\ ExitInv /\ [Next]_vars => ExitInv'
  BY ExitStep
<1>3. ExitInv => ExitLeavesNothing
  BY DEF ExitInv
<1> QED  BY <1>1, <1>2, <1>3, TypeCorrect, PTL DEF Spec

-----------------------------------------------------------------------------
(* The enabled flag and its file.                                          *)

EnabledKept ==
  /\ DOMAIN slots' = DOMAIN slots
  /\ \A i \in DOMAIN slots : slots'[i].enabled = slots[i].enabled

LEMMA SlotsKeepEnabled ==
  ASSUME UNCHANGED slots
  PROVE  EnabledKept
  BY DEF EnabledKept

LEMMA ReplacedKeepsEnabled ==
  ASSUME TypeOK, NEW i \in DOMAIN slots, NEW t, t.enabled = slots[i].enabled,
         slots' = [slots EXCEPT ![i] = t]
  PROVE  EnabledKept
<1>1. slots \in Seq(Slot)
  BY DEF TypeOK
<1> QED  BY <1>1 DEF EnabledKept

\* No operation on a slot changes its enabled flag.
LEMMA OperationsKeepEnabled ==
  ASSUME NEW s \in Slot, NEW ok \in BOOLEAN
  PROVE  /\ StopProc(s).enabled = s.enabled /\ RebuildSlot(s).enabled = s.enabled
         /\ StartNoSleep(s, ok).enabled = s.enabled
         /\ MarkAbsent(s).enabled = s.enabled
         /\ MarkPresent(s, ok).enabled = s.enabled
<1>1. \A r \in Slot : /\ StopProc(r).enabled = r.enabled
                      /\ RebuildSlot(r).enabled = r.enabled
                      /\ StartNoSleep(r, ok).enabled = r.enabled
  BY DEF StopProc, RebuildSlot, StartNoSleep, Slot
<1>2. MarkAbsent(s).enabled = s.enabled
  BY <1>1, StopProcType DEF MarkAbsent, Slot
<1> DEFINE t == [s EXCEPT !.present = TRUE]
<1>3. t \in Slot /\ t.enabled = s.enabled
  BY DEF Slot
<1>4. MarkPresent(s, ok) = StartNoSleep(RebuildSlot(t), ok) \/ MarkPresent(s, ok) = t
  BY DEF MarkPresent
<1> HIDE DEF t
<1> QED  BY <1>1, <1>2, <1>3, <1>4, RebuildType

LEMMA EnvironmentKeepsEnabled ==
  ASSUME TypeOK, Environment
  PROVE  EnabledKept
<1>1. ASSUME NEW i \in DOMAIN slots, PublisherExits(i)
      PROVE  EnabledKept
  BY <1>1, SlotTyped, OperationsKeepEnabled, ReplacedKeepsEnabled DEF PublisherExits
<1>2. ASSUME NEW i \in DOMAIN slots, BackoffElapses(i)
      PROVE  EnabledKept
  <2>1. slots' = [slots EXCEPT ![i] = [slots[i] EXCEPT !.due = TRUE]]
    BY <1>2 DEF BackoffElapses
  <2>2. [slots[i] EXCEPT !.due = TRUE].enabled = slots[i].enabled
    BY SlotTyped DEF Slot
  <2> QED  BY <2>1, <2>2, ReplacedKeepsEnabled
<1> QED
  BY <1>1, <1>2, SlotsKeepEnabled
  DEF Environment, Plug, Unplug, MtxExits, MtxBackoffElapses, HostSavesDefault

LEMMA RelaunchKeepsEnabled ==
  ASSUME TypeOK, NEW i \in DOMAIN slots, Relaunch(i)
  PROVE  EnabledKept
<1>1. PICK ok \in Survives(slots[i].name), still \in Survives(slots[i].name) :
        PublishThenRecord(i, StartNoSleep(RebuildSlot(slots[i]), ok), still)
  BY DEF Relaunch
<1> DEFINE t == StartNoSleep(RebuildSlot(slots[i]), ok)
<1>2. t \in Slot /\ t.enabled = slots[i].enabled
  <2>1. ok \in BOOLEAN /\ slots[i] \in Slot
    BY SurvivesType, SlotTyped
  <2>2. RebuildSlot(slots[i]) \in Slot
    BY <2>1, RebuildType
  <2> QED  BY <2>1, <2>2, StartType, OperationsKeepEnabled
<1> HIDE DEF t
<1>3. slots' = [slots EXCEPT ![i] = [t EXCEPT !.running = t.running /\ still,
                                              !.last = t.running /\ still]]
  BY <1>1 DEF PublishThenRecord, t
<1>4. [t EXCEPT !.running = t.running /\ still,
                !.last = t.running /\ still].enabled = slots[i].enabled
  BY <1>2 DEF Slot
<1> QED  BY <1>3, <1>4, ReplacedKeepsEnabled

LEMMA HooksKeepEnabled ==
  ASSUME TypeOK, Hooks
  PROVE  EnabledKept
<1>1. ASSUME NEW kind, NEW p, Hook(kind, p)
      PROVE  EnabledKept
  <2>1. PICK i \in DOMAIN slots :
          slots' = [slots EXCEPT ![i] = ViewerCount(slots[i], kind)]
    BY <1>1 DEF Hook
  <2>2. ViewerCount(slots[i], kind).enabled = slots[i].enabled
    BY SlotTyped DEF ViewerCount, Slot
  <2> QED  BY <2>1, <2>2, ReplacedKeepsEnabled
<1> QED  BY <1>1, SlotsKeepEnabled DEF Hooks, HookPublish

LEMMA TickSlotKeepsEnabled ==
  ASSUME TypeOK, TickSlot
  PROVE  EnabledKept
<1>1. idx \in DOMAIN slots
  BY DEF TickSlot
<1> DEFINE s == slots[idx]
<1>2. s \in Slot
  BY <1>1, SlotTyped
<1>3. CASE TickIdle(idx)
  <2> DEFINE t == [s EXCEPT !.last = FALSE, !.count = 0]
  <2>1. t.enabled = s.enabled
    BY <1>2 DEF Slot
  <2>2. slots' = [slots EXCEPT ![idx] = t] \/ UNCHANGED slots
    BY <1>3 DEF TickIdle
  <2> HIDE DEF t
  <2> QED  BY <1>1, <2>1, <2>2, ReplacedKeepsEnabled, SlotsKeepEnabled
<1>4. CASE TickWanted(idx)
  <2> DEFINE t == IF s.running THEN s ELSE [s EXCEPT !.count = 0]
             u(ok) == IF RestartDue(s) THEN StartNoSleep(StopProc(t), ok) ELSE t
             v(ok, still) == [u(ok) EXCEPT !.running = u(ok).running /\ still,
                                           !.last = u(ok).running]
  <2>1. PICK ok \in Survives(s.name), still \in Survives(s.name) :
          IF u(ok).running # s.last
          THEN slots' = [slots EXCEPT ![idx] = v(ok, still)]
          ELSE slots' = [slots EXCEPT ![idx] = u(ok)]
    BY <1>4, Zenon DEF TickWanted
  <2>2. ok \in BOOLEAN
    BY SurvivesType
  <2>3. t \in Slot /\ t.enabled = s.enabled
    BY <1>2 DEF Slot
  <2>4. u(ok) \in Slot /\ u(ok).enabled = s.enabled
    <3> HIDE DEF t, s
    <3>1. StopProc(t) \in Slot /\ StopProc(t).enabled = s.enabled
      BY <2>2, <2>3, StopProcType, OperationsKeepEnabled
    <3> QED  BY <2>2, <2>3, <3>1, StartType, OperationsKeepEnabled
  <2>5. v(ok, still).enabled = s.enabled
    <3> HIDE DEF u
    <3> QED  BY <2>4 DEF Slot
  <2> HIDE DEF u, v
  <2> QED  BY <1>1, <2>1, <2>4, <2>5, ReplacedKeepsEnabled
<1> QED  BY <1>3, <1>4 DEF TickSlot

LEMMA DiffKeepsEnabled ==
  ASSUME TypeOK, Diff
  PROVE  EnabledKept
<1> DEFINE listed == {scan.current[k] : k \in DOMAIN scan.current}
<1>1. PICK ok \in [DOMAIN slots -> BOOLEAN] :
        slots' = [i \in DOMAIN slots |->
          CASE slots[i].present /\ slots[i].name \notin listed
                 -> MarkAbsent(slots[i])
            [] Returned(slots[i], listed) -> MarkPresent(slots[i], ok[i])
            [] OTHER -> slots[i]]
  BY DEF Diff
<1> HIDE DEF listed
<1>2. ASSUME NEW i \in DOMAIN slots
      PROVE  slots'[i].enabled = slots[i].enabled
  <2>1. slots[i] \in Slot /\ ok[i] \in BOOLEAN
    BY SlotTyped
  <2>2. \/ slots'[i] = MarkAbsent(slots[i])
        \/ slots'[i] = MarkPresent(slots[i], ok[i])
        \/ slots'[i] = slots[i]
    <3>1. CASE slots[i].present /\ slots[i].name \notin listed
      BY <1>1, <3>1 DEF Returned
    <3>2. CASE Returned(slots[i], listed)
      BY <1>1, <3>2 DEF Returned
    <3>3. CASE /\ ~(slots[i].present /\ slots[i].name \notin listed)
               /\ ~Returned(slots[i], listed)
      BY <1>1, <3>3
    <3> QED  BY <3>1, <3>2, <3>3
  <2> QED  BY <2>1, <2>2, OperationsKeepEnabled
<1> QED  BY <1>1, <1>2 DEF EnabledKept

\* A slot is given the flag its file has, if it has one.
LEMMA NewSlotEnabled ==
  ASSUME TypeOK, NEW n \in Names, NEW p \in Nat, NEW default \in BOOLEAN,
         disk[n] # {}
  PROVE  disk[n] = {NewSlot(n, p, default).enabled}
<1>1. disk[n] = {TRUE} \/ disk[n] = {FALSE}
  BY DEF TypeOK
<1>2. NewSlot(n, p, default).enabled = (TRUE \in disk[n])
  BY DEF NewSlot, ResolveEnabled
<1>3. CASE disk[n] = {TRUE}
  <2>1. (TRUE \in disk[n]) = TRUE
    BY <1>3
  <2> QED  BY <1>2, <1>3, <2>1
<1>4. CASE disk[n] = {FALSE}
  <2>1. (TRUE \in disk[n]) = FALSE
    BY <1>4
  <2> QED  BY <1>2, <1>4, <2>1
<1> QED  BY <1>1, <1>3, <1>4

LEMMA SlotOfKept ==
  ASSUME TypeOK, SameEntries, NEW n, NEW i, IsSlotOf(i, n)'
  PROVE  IsSlotOf(i, n)
<1>1. slots \in Seq(Slot) /\ slots' \in Seq(Slot) /\ DOMAIN slots' = DOMAIN slots
  BY DEF TypeOK, SameEntries
<1>2. i \in DOMAIN slots /\ slots'[i].name = n
  BY <1>1 DEF IsSlotOf
<1>3. \A j \in 1..(i - 1) : j \in DOMAIN slots /\ slots'[j].name # n
  BY <1>1, <1>2 DEF IsSlotOf
<1>4. \A j \in DOMAIN slots : slots[j].name = slots'[j].name
  BY DEF SameEntries, SameKey
<1> QED  BY <1>2, <1>3, <1>4 DEF IsSlotOf

\* Slots that keep name and flag keep agreeing with files that are kept.
LEMMA KeptAgree ==
  ASSUME TypeOK, EnabledSurvivesCrash, SameEntries, EnabledKept,
         UNCHANGED <<disk, unsaved>>
  PROVE  EnabledSurvivesCrash'
<1>1. ASSUME NEW n, NEW i, IsSlotOf(i, n)'
      PROVE  IsSlotOf(i, n) /\ slots'[i].enabled = slots[i].enabled
  BY <1>1, SlotOfKept DEF IsSlotOf, EnabledKept
<1> QED  BY <1>1 DEF EnabledSurvivesCrash, EnabledKept

LEMMA SetStreamEnabledAgrees ==
  ASSUME TypeOK, EnabledSurvivesCrash, NEW n \in Names, NEW want \in BOOLEAN,
         SetStreamEnabled(n, want)
  PROVE  EnabledSurvivesCrash'
<1>1. SameEntries
  BY SetStreamEnabledType
<1>2. PICK i \in DOMAIN slots, ok \in Survives(n), still \in Survives(n) :
        LET s == [slots[i] EXCEPT !.enabled = want]
            t == CASE want /\ s.present -> StartNoSleep(RebuildSlot(s), ok)
                   [] want /\ ~s.present -> s
                   [] OTHER -> StopProc(s)
        IN  IsSlotOf(i, n) /\ SaveEnabled(n, want) /\ PublishThenRecord(i, t, still)
  BY DEF SetStreamEnabled
<1> DEFINE s == [slots[i] EXCEPT !.enabled = want]
           r == StartNoSleep(RebuildSlot(s), ok)
           t == CASE want /\ s.present -> r
                  [] want /\ ~s.present -> s
                  [] OTHER -> StopProc(s)
           u == [t EXCEPT !.running = t.running /\ still,
                          !.last = t.running /\ still]
<1>3. ok \in BOOLEAN /\ s \in Slot /\ s.enabled = want
  BY SurvivesType, SlotTyped DEF Slot
<1>4. /\ r \in Slot /\ r.enabled = want
      /\ StopProc(s) \in Slot /\ StopProc(s).enabled = want
  <2> HIDE DEF s
  <2>1. RebuildSlot(s) \in Slot
    BY <1>3, RebuildType
  <2> QED
    BY <1>3, <2>1, StartType, StopProcType, OperationsKeepEnabled
<1>5. t = r \/ t = s \/ t = StopProc(s)
  <2>1. CASE want /\ s.present
    BY <2>1
  <2>2. CASE want /\ ~s.present
    BY <2>2
  <2>3. CASE ~want
    BY <2>3
  <2> QED  BY <2>1, <2>2, <2>3
<1>6. slots' = [slots EXCEPT ![i] = u] /\ IsSlotOf(i, n) /\ SaveEnabled(n, want)
  BY <1>2 DEF PublishThenRecord
<1>7. u.enabled = want
  <2> HIDE DEF s, r, t
  <2>1. t \in Slot /\ t.enabled = want
    BY <1>3, <1>4, <1>5
  <2> QED  BY <2>1 DEF Slot, u
<1> HIDE DEF s, r, t, u
<1>8. \A j \in DOMAIN slots : j \in DOMAIN slots' /\
        slots'[j].enabled = IF j = i THEN want ELSE slots[j].enabled
  BY <1>6, <1>7 DEF TypeOK
<1>9. ASSUME NEW m \in Names \ unsaved', NEW j \in DOMAIN slots',
             IsSlotOf(j, m)', disk'[m] # {}
      PROVE  disk'[m] = {slots'[j].enabled}
  <2>1. j \in DOMAIN slots /\ IsSlotOf(j, m)
    BY <1>1, <1>9, SlotOfKept DEF IsSlotOf
  <2>2. CASE m = n
    <3>1. j = i
      <4>1. \A k \in 1..(j - 1) : slots[k].name # n
        BY <2>1, <2>2 DEF IsSlotOf
      <4>2. \A k \in 1..(i - 1) : slots[k].name # n
        BY <1>6 DEF IsSlotOf
      <4>3. slots[i].name = n /\ slots[j].name = n /\ i \in Nat /\ j \in Nat
            /\ i > 0 /\ j > 0
        BY <1>6, <2>1, <2>2 DEF IsSlotOf, TypeOK
      <4> QED  BY <4>1, <4>2, <4>3
    <3>2. disk' = [disk EXCEPT ![n] = {want}]
      BY <1>6, <2>2 DEF SaveEnabled
    <3> QED  BY <1>8, <2>1, <2>2, <3>1, <3>2 DEF TypeOK
  <2>3. CASE m # n
    <3>1. j # i
      BY <1>6, <2>1, <2>3 DEF IsSlotOf
    <3>2. disk'[m] = disk[m] /\ m \notin unsaved
      BY <1>6, <2>3 DEF SaveEnabled, TypeOK
    <3> QED  BY <1>8, <1>9, <2>1, <3>1, <3>2 DEF EnabledSurvivesCrash
  <2> QED  BY <2>2, <2>3
<1> QED  BY <1>9 DEF EnabledSurvivesCrash

LEMMA RequestsAgree ==
  ASSUME TypeOK, EnabledSurvivesCrash, Requests
  PROVE  EnabledSurvivesCrash'
<1>1. SameEntries
  BY RequestsType
<1>2. ASSUME NEW n \in Addressed, RestartCamera(n) \/ SetMode(n)
      PROVE  EnabledSurvivesCrash'
  BY <1>1, <1>2, RelaunchKeepsEnabled, KeptAgree DEF RestartCamera, SetMode
<1>3. ASSUME NEW n \in Addressed, NEW want \in BOOLEAN, SetStreamEnabled(n, want)
      PROVE  EnabledSurvivesCrash'
  BY <1>3, ConstantsAssumption, SetStreamEnabledAgrees
<1>4. ASSUME UNCHANGED <<slots, disk, unsaved>>
      PROVE  EnabledSurvivesCrash'
  BY <1>1, <1>4, SlotsKeepEnabled, KeptAgree
<1>5. CASE SetViewerCredentials \/ CredentialsApplied
  BY <1>4, <1>5 DEF SetViewerCredentials, CredentialsApplied, history
<1>6. CASE ReloadSettings \/ ShutdownRequest
  BY <1>4, <1>6 DEF ReloadSettings, ShutdownRequest, history
<1>7. CASE ConsoleCtrl
  BY <1>4, <1>7 DEF ConsoleCtrl, history
<1> QED  BY <1>2, <1>3, <1>5, <1>6, <1>7 DEF Requests

LEMMA AppendDeviceAgrees ==
  ASSUME TypeOK, EnabledSurvivesCrash, AppendDevice
  PROVE  EnabledSurvivesCrash'
<1>1. PICK k \in scan.fresh, p \in 0..Len(slots) :
        \/ UNCHANGED slots
        \/ \E ok \in Survives(scan.current[k]) :
             slots' = Append(slots, StartIfEnabled(
                               NewSlot(scan.current[k], p, dflt), ok))
  BY DEF AppendDevice
<1>2. UNCHANGED <<disk, unsaved>>
  BY DEF AppendDevice, history
<1>3. CASE UNCHANGED slots
  BY <1>2, <1>3, SlotsUnchanged, SlotsKeepEnabled, KeptAgree
<1>4. ASSUME NEW ok \in Survives(scan.current[k]),
             slots' = Append(slots, StartIfEnabled(
                               NewSlot(scan.current[k], p, dflt), ok))
      PROVE  EnabledSurvivesCrash'
  <2> DEFINE n == scan.current[k]
             s == NewSlot(n, p, dflt)
             t == StartIfEnabled(s, ok)
             L == Len(slots)
  <2>1. n \in Names /\ p \in Nat /\ dflt \in BOOLEAN /\ ok \in BOOLEAN
    BY SurvivesType DEF TypeOK
  <2>2. s \in Slot /\ s.name = n
    BY <2>1, NewSlotType
  <2>3. disk[n] # {} => disk[n] = {s.enabled}
    BY <2>1, NewSlotEnabled
  <2>4. t \in Slot /\ t.name = n /\ t.enabled = s.enabled
    <3> HIDE DEF s, n
    <3> QED
      BY <2>1, <2>2, StartType, OperationsKeepEnabled DEF StartIfEnabled, SameKey
  <2> HIDE DEF t, s, n
  <2>5. slots' = Append(slots, t)
    BY <1>4 DEF t, s, n
  <2>6. slots \in Seq(Slot)
    BY DEF TypeOK
  <2>7. /\ DOMAIN slots' = DOMAIN slots \cup {L + 1}
        /\ slots'[L + 1] = t
        /\ \A i \in DOMAIN slots : slots'[i] = slots[i]
        /\ L \in Nat /\ DOMAIN slots = 1..L
    BY <2>4, <2>5, <2>6
  <2> HIDE DEF L
  <2>8. ASSUME NEW m \in Names \ unsaved', NEW i \in DOMAIN slots',
               IsSlotOf(i, m)', disk'[m] # {}
        PROVE  disk'[m] = {slots'[i].enabled}
    <3>1. slots'[i].name = m
      BY <2>8 DEF IsSlotOf
    <3>2. CASE i = L + 1
      BY <1>2, <2>3, <2>4, <2>7, <2>8, <3>1, <3>2
    <3>3. CASE i \in DOMAIN slots
      <4>1. \A j \in 1..(i - 1) : j \in DOMAIN slots /\ slots[j].name # m
        BY <2>7, <2>8, <3>3 DEF IsSlotOf
      <4>2. IsSlotOf(i, m)
        BY <2>7, <3>1, <3>3, <4>1 DEF IsSlotOf
      <4> QED  BY <1>2, <2>7, <2>8, <3>3, <4>2 DEF EnabledSurvivesCrash
    <3> QED  BY <2>7, <3>2, <3>3
  <2> QED  BY <2>8 DEF EnabledSurvivesCrash
<1> QED  BY <1>1, <1>3, <1>4

LEMMA LoopAgrees ==
  ASSUME TypeOK, EnabledSurvivesCrash, Loop
  PROVE  EnabledSurvivesCrash'
<1>1. ASSUME UNCHANGED <<slots, disk, unsaved>>
      PROVE  EnabledSurvivesCrash'
  BY <1>1, SlotsUnchanged, SlotsKeepEnabled, KeptAgree
<1>2. CASE LoopTop \/ Tick \/ MtxWaitEnds \/ TickEnds \/ SkipEnumeration
  BY <1>1, <1>2 DEF LoopTop, Tick, MtxWaitEnds, TickEnds, SkipEnumeration, history
<1>3. CASE Enumerate \/ NothingNew \/ AppendBegins \/ AppendEnds
  BY <1>1, <1>3 DEF Enumerate, NothingNew, AppendBegins, AppendEnds, history
<1>4. CASE StopIpc \/ StopEvents
  BY <1>1, <1>4 DEF StopIpc, StopEvents, history
<1>5. CASE TickSlot
  BY <1>5, TickSlotType, TickSlotKeepsEnabled, KeptAgree DEF TickSlot
<1>6. CASE Diff
  <2>1. UNCHANGED <<disk, unsaved>>
    BY <1>6 DEF Diff, history
  <2> QED  BY <1>6, <2>1, DiffType, DiffKeepsEnabled, KeptAgree
<1>7. CASE AppendDevice
  BY <1>7, AppendDeviceAgrees
<1>8. CASE StopChildren
  <2>1. slots' = [i \in DOMAIN slots |-> StopProc(slots[i])]
    BY <1>8 DEF StopChildren
  <2>2. \A i \in DOMAIN slots : /\ slots'[i] \in Slot
                                /\ SameKey(slots[i], slots'[i])
                                /\ slots'[i].enabled = slots[i].enabled
    BY <2>1, SlotTyped, StopProcType, OperationsKeepEnabled
  <2>3. EnabledKept
    BY <2>1, <2>2 DEF EnabledKept
  <2>4. SameEntries
    <3>1. slots' \in [DOMAIN slots -> Slot] /\ slots \in Seq(Slot)
      BY <2>1, <2>2 DEF TypeOK
    <3> QED  BY <2>2, <3>1, FunctionSeq DEF SameEntries
  <2>5. UNCHANGED <<disk, unsaved>>
    BY <1>8 DEF StopChildren, history
  <2> QED  BY <2>3, <2>4, <2>5, KeptAgree
<1> QED  BY <1>2, <1>3, <1>4, <1>5, <1>6, <1>7, <1>8 DEF Loop

LEMMA LaunchAgrees ==
  ASSUME TypeOK, Launch
  PROVE  EnabledSurvivesCrash'
<1>1. PICK seen \in {bus, <<>>}, ok \in [DOMAIN bus -> BOOLEAN] :
        /\ seen # <<>>
        /\ slots' = [i \in DOMAIN seen |->
             LET s == NewSlot(seen[i], i - 1, diskDflt)
                 up == s.enabled /\ ok[i]
             IN  [s EXCEPT !.running = up, !.last = up, !.due = ~s.enabled]]
  BY Zenon DEF Launch
<1>2. seen = bus /\ seen \in Seq(Names)
  BY <1>1, Zenon DEF TypeOK
<1>3. disk' = disk
  BY Zenon DEF Launch
<1>4. ASSUME NEW i \in DOMAIN slots', NEW n \in Names, IsSlotOf(i, n)', disk'[n] # {}
      PROVE  disk'[n] = {slots'[i].enabled}
  <2> DEFINE s == NewSlot(seen[i], i - 1, diskDflt)
             up == s.enabled /\ ok[i]
  <2>1. i \in DOMAIN seen
    BY <1>1, Zenon
  <2>2. seen[i] \in Names /\ i - 1 \in Nat /\ diskDflt \in BOOLEAN
    BY <1>2, <2>1 DEF TypeOK
  <2>3. s \in Slot /\ s.name = seen[i]
    BY <2>2, NewSlotType
  <2>4. slots'[i] = [s EXCEPT !.running = up, !.last = up, !.due = ~s.enabled]
    BY <1>1, <2>1, Zenon
  <2> HIDE DEF s, up
  <2>5. slots'[i].name = seen[i] /\ slots'[i].enabled = s.enabled
    BY <2>3, <2>4 DEF Slot
  <2>6. n = seen[i]
    BY <1>4, <2>5 DEF IsSlotOf
  <2> QED  BY <1>3, <1>4, <2>2, <2>5, <2>6, NewSlotEnabled DEF s
<1> QED  BY <1>4 DEF EnabledSurvivesCrash

LEMMA LifecycleAgrees ==
  ASSUME TypeOK, Lifecycle
  PROVE  EnabledSurvivesCrash'
<1>1. CASE LaunchFails \/ Kill
  <2>1. slots' = <<>>
    BY <1>1 DEF LaunchFails, Kill
  <2> QED  BY <2>1 DEF EnabledSurvivesCrash
<1> QED  BY <1>1, LaunchAgrees DEF Lifecycle

\* The flag a slot works with is the one its file will give after a crash,
\* however requests, hot-plugs, kills and launches interleave, unless the file
\* could not be written (main.cpp:733-740).
THEOREM EnabledAlwaysSurvives == Spec => []EnabledSurvivesCrash
<1>1. Init => EnabledSurvivesCrash
  BY DEF Init, EnabledSurvivesCrash
<1>2. TypeOK /\ EnabledSurvivesCrash /\ [Next]_vars => EnabledSurvivesCrash'
  <2> SUFFICES ASSUME TypeOK, EnabledSurvivesCrash, [Next]_vars
               PROVE  EnabledSurvivesCrash'
    OBVIOUS
  <2>1. ASSUME UNCHANGED <<slots, disk, unsaved>>
        PROVE  EnabledSurvivesCrash'
    BY <2>1, SlotsUnchanged, SlotsKeepEnabled, KeptAgree
  <2>2. CASE Environment
    <3>1. UNCHANGED <<disk, unsaved>>
      BY <2>2 DEF Environment, Plug, Unplug, PublisherExits, BackoffElapses,
                  MtxExits, MtxBackoffElapses, HostSavesDefault, history
    <3> QED  BY <2>2, <3>1, EnvironmentType, EnvironmentKeepsEnabled, KeptAgree
  <2>3. CASE Hooks
    <3>1. UNCHANGED <<disk, unsaved>>
      BY <2>3 DEF Hooks, Hook, HookPublish, history
    <3> QED  BY <2>3, <3>1, HooksType, HooksKeepEnabled, KeptAgree
  <2>4. CASE UNCHANGED vars
    BY <2>1, <2>4 DEF vars
  <2> QED
    BY <2>2, <2>3, <2>4, RequestsAgree, LoopAgrees, LifecycleAgrees DEF Next
<1> QED  BY <1>1, <1>2, TypeCorrect, PTL DEF Spec

-----------------------------------------------------------------------------
(* What the loop starts.                                                   *)

\* A slot that runs and did not is wanted.
WantedIfStarted(s, t) == t.running /\ ~s.running => t.enabled /\ t.present

StartsWanted ==
  \A i \in DOMAIN slots' :
    (slots'[i].running /\ (i \in DOMAIN slots => ~slots[i].running))
    => \/ slots'[i].enabled /\ slots'[i].present
       \/ RestartCamera(slots'[i].name) \/ SetMode(slots'[i].name)

LEMMA NoStartIsWanted ==
  ASSUME UNCHANGED slots \/ StartsNothing
  PROVE  StartsWanted
  BY DEF StartsNothing, StartsWanted

LEMMA ReplacedWanted ==
  ASSUME TypeOK, NEW i \in DOMAIN slots, NEW t, slots' = [slots EXCEPT ![i] = t],
         WantedIfStarted(slots[i], t)
  PROVE  StartsWanted
<1>1. slots \in Seq(Slot)
  BY DEF TypeOK
<1>2. /\ DOMAIN slots' = DOMAIN slots
      /\ \A j \in DOMAIN slots : slots'[j] = IF j = i THEN t ELSE slots[j]
  BY <1>1
<1> QED  BY <1>2 DEF StartsWanted, WantedIfStarted

\* Both handlers may start the camera they were asked for, and no other.
LEMMA RelaunchWanted ==
  ASSUME TypeOK, NEW n, RestartCamera(n) \/ SetMode(n)
  PROVE  StartsWanted
<1>1. PICK i \in DOMAIN slots : IsSlotOf(i, n) /\ Relaunch(i)
  BY DEF RestartCamera, SetMode
<1>2. SameEntries
  BY <1>1, RelaunchType
<1>3. PICK t : slots' = [slots EXCEPT ![i] = t]
  BY <1>1 DEF Relaunch, PublishThenRecord
<1>4. slots \in Seq(Slot)
  BY DEF TypeOK
<1>5. \A j \in DOMAIN slots : j # i => slots'[j] = slots[j]
  BY <1>3, <1>4
<1>6. DOMAIN slots' = DOMAIN slots /\ slots'[i].name = n
  BY <1>1, <1>2 DEF SameEntries, SameKey, IsSlotOf
<1> QED  BY <1>5, <1>6 DEF StartsWanted

LEMMA SetStreamEnabledWanted ==
  ASSUME TypeOK, NEW n \in Names, NEW want \in BOOLEAN, SetStreamEnabled(n, want)
  PROVE  StartsWanted
<1>1. PICK i \in DOMAIN slots, ok \in Survives(n), still \in Survives(n) :
        LET s == [slots[i] EXCEPT !.enabled = want]
            t == CASE want /\ s.present -> StartNoSleep(RebuildSlot(s), ok)
                   [] want /\ ~s.present -> s
                   [] OTHER -> StopProc(s)
        IN  PublishThenRecord(i, t, still)
  BY DEF SetStreamEnabled
<1> DEFINE s == [slots[i] EXCEPT !.enabled = want]
           r == StartNoSleep(RebuildSlot(s), ok)
           t == CASE want /\ s.present -> r
                  [] want /\ ~s.present -> s
                  [] OTHER -> StopProc(s)
           u == [t EXCEPT !.running = t.running /\ still,
                          !.last = t.running /\ still]
<1>2. ok \in BOOLEAN /\ s \in Slot /\ s.enabled = want /\ s.running = slots[i].running
  BY SurvivesType, SlotTyped DEF Slot
<1>3. /\ r \in Slot /\ r.enabled = s.enabled /\ r.present = s.present
      /\ StopProc(s) \in Slot /\ ~StopProc(s).running
  <2> HIDE DEF s
  <2>1. RebuildSlot(s).present = s.present
    BY <1>2 DEF RebuildSlot, Slot
  <2>2. RebuildSlot(s) \in Slot
    BY <1>2, RebuildType
  <2>3. r.present = RebuildSlot(s).present
    BY <2>2 DEF StartNoSleep, Slot
  <2> QED
    BY <1>2, <2>1, <2>2, <2>3, StartType, StopProcType, StopProcStops,
       OperationsKeepEnabled
<1>4. slots' = [slots EXCEPT ![i] = u]
  BY <1>1 DEF PublishThenRecord
<1>5. t \in Slot /\ WantedIfStarted(slots[i], t)
  <2>1. CASE want /\ s.present
    <3>1. t = r
      BY <2>1
    <3> HIDE DEF s, r, t
    <3> QED  BY <1>2, <1>3, <2>1, <3>1 DEF WantedIfStarted
  <2>2. CASE want /\ ~s.present
    <3>1. t = s
      BY <2>2
    <3> HIDE DEF s, r, t
    <3> QED  BY <1>2, <3>1 DEF WantedIfStarted
  <2>3. CASE ~want
    <3>1. t = StopProc(s)
      BY <2>3
    <3> HIDE DEF s, r, t
    <3> QED  BY <1>3, <3>1 DEF WantedIfStarted
  <2> QED  BY <2>1, <2>2, <2>3
<1> HIDE DEF s, r, t
<1>6. WantedIfStarted(slots[i], u)
  BY <1>5 DEF WantedIfStarted, Slot
<1> HIDE DEF u
<1> QED  BY <1>4, <1>6, ReplacedWanted

LEMMA TickSlotWanted ==
  ASSUME TypeOK, TickSlot
  PROVE  StartsWanted
<1>1. idx \in DOMAIN slots
  BY DEF TickSlot
<1> DEFINE s == slots[idx]
<1>2. s \in Slot
  BY <1>1, SlotTyped
<1>3. CASE TickIdle(idx)
  <2> DEFINE t == [s EXCEPT !.last = FALSE, !.count = 0]
  <2>1. WantedIfStarted(s, t)
    BY <1>2 DEF Slot, WantedIfStarted
  <2>2. slots' = [slots EXCEPT ![idx] = t] \/ UNCHANGED slots
    BY <1>3 DEF TickIdle
  <2> HIDE DEF t
  <2> QED  BY <1>1, <2>1, <2>2, ReplacedWanted, NoStartIsWanted
<1>4. CASE TickWanted(idx)
  <2> DEFINE t == IF s.running THEN s ELSE [s EXCEPT !.count = 0]
             u(ok) == IF RestartDue(s) THEN StartNoSleep(StopProc(t), ok) ELSE t
             v(ok, still) == [u(ok) EXCEPT !.running = u(ok).running /\ still,
                                           !.last = u(ok).running]
  <2>1. PICK ok \in Survives(s.name), still \in Survives(s.name) :
          /\ s.present /\ s.enabled
          /\ IF u(ok).running # s.last
             THEN slots' = [slots EXCEPT ![idx] = v(ok, still)]
             ELSE slots' = [slots EXCEPT ![idx] = u(ok)]
    BY <1>4, Zenon DEF TickWanted
  <2>2. ok \in BOOLEAN
    BY SurvivesType
  <2>3. t \in Slot /\ t.enabled /\ t.present
    BY <1>2, <2>1 DEF Slot
  <2>4. u(ok) \in Slot /\ u(ok).enabled /\ u(ok).present
    <3> HIDE DEF t, s
    <3> QED  BY <2>2, <2>3 DEF StopProc, StartNoSleep, Slot
  <2>5. v(ok, still).enabled /\ v(ok, still).present
    <3> HIDE DEF u
    <3> QED  BY <2>4 DEF Slot
  <2> HIDE DEF u, v
  <2> QED  BY <1>1, <2>1, <2>4, <2>5, ReplacedWanted DEF WantedIfStarted
<1> QED  BY <1>3, <1>4 DEF TickSlot

LEMMA DiffWanted ==
  ASSUME TypeOK, Diff
  PROVE  StartsWanted
<1> DEFINE listed == {scan.current[k] : k \in DOMAIN scan.current}
<1>1. PICK ok \in [DOMAIN slots -> BOOLEAN] :
        slots' = [i \in DOMAIN slots |->
          CASE slots[i].present /\ slots[i].name \notin listed
                 -> MarkAbsent(slots[i])
            [] Returned(slots[i], listed) -> MarkPresent(slots[i], ok[i])
            [] OTHER -> slots[i]]
  BY DEF Diff
<1> HIDE DEF listed
<1>2. ASSUME NEW i \in DOMAIN slots
      PROVE  WantedIfStarted(slots[i], slots'[i])
  <2> DEFINE t == [slots[i] EXCEPT !.present = TRUE]
             r == RebuildSlot(t)
  <2>1. /\ slots[i] \in Slot /\ ok[i] \in BOOLEAN
        /\ t \in Slot /\ t.running = slots[i].running
        /\ t.present /\ t.enabled = slots[i].enabled
    BY SlotTyped DEF Slot
  <2>2. ~MarkAbsent(slots[i]).running
    BY <2>1, StopProcType, StopProcStops DEF MarkAbsent, Slot
  <2>3. WantedIfStarted(slots[i], MarkPresent(slots[i], ok[i]))
    <3>1. CASE slots[i].enabled
      <4>1. MarkPresent(slots[i], ok[i]) = StartNoSleep(r, ok[i])
        BY <3>1 DEF MarkPresent
      <4>2. r \in Slot /\ r.present /\ r.enabled
        <5> HIDE DEF t
        <5> QED  BY <2>1, <3>1 DEF RebuildSlot, Slot
      <4> HIDE DEF r, t
      <4>3. StartNoSleep(r, ok[i]).present /\ StartNoSleep(r, ok[i]).enabled
        BY <2>1, <4>2 DEF StartNoSleep, Slot
      <4> QED  BY <4>1, <4>3 DEF WantedIfStarted
    <3>2. CASE ~slots[i].enabled
      <4>1. MarkPresent(slots[i], ok[i]) = t
        BY <3>2 DEF MarkPresent
      <4> HIDE DEF t
      <4> QED  BY <2>1, <4>1 DEF WantedIfStarted
    <3> QED  BY <3>1, <3>2
  <2>4. \/ slots'[i] = MarkAbsent(slots[i])
        \/ slots'[i] = MarkPresent(slots[i], ok[i])
        \/ slots'[i] = slots[i]
    <3>1. CASE slots[i].present /\ slots[i].name \notin listed
      BY <1>1, <3>1 DEF Returned
    <3>2. CASE Returned(slots[i], listed)
      BY <1>1, <3>2 DEF Returned
    <3>3. CASE /\ ~(slots[i].present /\ slots[i].name \notin listed)
               /\ ~Returned(slots[i], listed)
      BY <1>1, <3>3
    <3> QED  BY <3>1, <3>2, <3>3
  <2> QED  BY <2>2, <2>3, <2>4 DEF WantedIfStarted
<1>3. DOMAIN slots' = DOMAIN slots
  BY <1>1
<1> QED  BY <1>2, <1>3 DEF StartsWanted, WantedIfStarted

LEMMA AppendDeviceWanted ==
  ASSUME TypeOK, AppendDevice
  PROVE  StartsWanted
<1>1. CASE UNCHANGED slots
  BY <1>1, NoStartIsWanted
<1>2. CASE ~UNCHANGED slots
  <2>1. PICK n \in Names, p \in Nat, ok \in BOOLEAN :
          slots' = Append(slots, StartIfEnabled(NewSlot(n, p, dflt), ok))
    <3>1. PICK k \in scan.fresh, p \in 0..Len(slots) :
            \E ok \in Survives(scan.current[k]) :
              slots' = Append(slots, StartIfEnabled(
                                NewSlot(scan.current[k], p, dflt), ok))
      BY <1>2 DEF AppendDevice
    <3>2. scan.current[k] \in Names /\ p \in Nat
      BY DEF TypeOK
    <3> QED  BY <3>1, <3>2, SurvivesType
  <2> DEFINE s == NewSlot(n, p, dflt)
             t == StartIfEnabled(s, ok)
  <2>2. s \in Slot /\ s.present /\ ~s.running
    BY NewSlotType DEF NewSlot, TypeOK
  <2> HIDE DEF s
  <2>3. t.running => t.enabled /\ t.present
    BY <2>2 DEF StartIfEnabled, StartNoSleep, Slot
  <2> HIDE DEF t
  <2>4. slots' = Append(slots, t) /\ slots \in Seq(Slot)
    BY <2>1 DEF s, t, TypeOK
  <2>5. /\ DOMAIN slots' = DOMAIN slots \cup {Len(slots) + 1}
        /\ slots'[Len(slots) + 1] = t
        /\ \A i \in DOMAIN slots : slots'[i] = slots[i]
    BY <2>4
  <2> QED  BY <2>3, <2>5 DEF StartsWanted
<1> QED  BY <1>1, <1>2

LEMMA LaunchWanted ==
  ASSUME TypeOK, Launch
  PROVE  StartsWanted
<1>1. PICK seen \in {bus, <<>>}, ok \in [DOMAIN bus -> BOOLEAN] :
        /\ seen # <<>>
        /\ slots' = [i \in DOMAIN seen |->
             LET s == NewSlot(seen[i], i - 1, diskDflt)
                 up == s.enabled /\ ok[i]
             IN  [s EXCEPT !.running = up, !.last = up, !.due = ~s.enabled]]
  BY Zenon DEF Launch
<1>2. seen = bus /\ seen \in Seq(Names)
  BY <1>1, Zenon DEF TypeOK
<1>3. ASSUME NEW i \in DOMAIN slots', slots'[i].running
      PROVE  slots'[i].enabled /\ slots'[i].present
  <2> DEFINE s == NewSlot(seen[i], i - 1, diskDflt)
             up == s.enabled /\ ok[i]
  <2>1. i \in DOMAIN seen
    BY <1>1, Zenon
  <2>2. seen[i] \in Names /\ i - 1 \in Nat /\ diskDflt \in BOOLEAN
    BY <1>2, <2>1 DEF TypeOK
  <2>3. s \in Slot /\ s.present
    BY <2>2, NewSlotType DEF NewSlot
  <2>4. slots'[i] = [s EXCEPT !.running = up, !.last = up, !.due = ~s.enabled]
    BY <1>1, <2>1, Zenon
  <2>5. up => s.enabled
    OBVIOUS
  <2> HIDE DEF s, up
  <2>6. /\ slots'[i].running = up /\ slots'[i].present
        /\ slots'[i].enabled = s.enabled
    BY <2>3, <2>4 DEF Slot
  <2> QED  BY <1>3, <2>5, <2>6
<1> QED  BY <1>3 DEF StartsWanted

LEMMA StepStartsWanted ==
  ASSUME TypeOK, [Next]_vars
  PROVE  StartsWanted
<1>1. CASE Lifecycle
  <2>1. CASE LaunchFails \/ Kill
    <3>1. slots' = <<>>
      BY <2>1 DEF LaunchFails, Kill
    <3> QED  BY <3>1 DEF StartsWanted
  <2> QED  BY <1>1, <2>1, LaunchWanted DEF Lifecycle
<1>2. CASE Requests
  <2>1. ASSUME NEW n \in Addressed, NEW want \in BOOLEAN, SetStreamEnabled(n, want)
        PROVE  StartsWanted
    BY <2>1, ConstantsAssumption, SetStreamEnabledWanted
  <2>2. CASE SetViewerCredentials \/ CredentialsApplied
    BY <2>2, NoStartIsWanted DEF SetViewerCredentials, CredentialsApplied
  <2>3. CASE ReloadSettings
    BY <2>3, NoStartIsWanted DEF ReloadSettings
  <2>4. CASE ShutdownRequest \/ ConsoleCtrl
    BY <2>4, NoStartIsWanted DEF ShutdownRequest, ConsoleCtrl
  <2> QED  BY <1>2, <2>1, <2>2, <2>3, <2>4, RelaunchWanted DEF Requests
<1>3. CASE Loop
  <2>1. CASE LoopTop \/ Tick \/ MtxWaitEnds \/ TickEnds \/ SkipEnumeration
    BY <2>1, NoStartIsWanted
    DEF LoopTop, Tick, MtxWaitEnds, TickEnds, SkipEnumeration
  <2>2. CASE Enumerate \/ NothingNew \/ AppendBegins \/ AppendEnds
    BY <2>2, NoStartIsWanted DEF Enumerate, NothingNew, AppendBegins, AppendEnds
  <2>3. CASE StopIpc \/ StopEvents
    BY <2>3, NoStartIsWanted DEF StopIpc, StopEvents
  <2>4. CASE StopChildren
    BY <2>4, StopChildrenStops DEF StartsWanted
  <2> QED
    BY <1>3, <2>1, <2>2, <2>3, <2>4, TickSlotWanted, DiffWanted, AppendDeviceWanted
    DEF Loop
<1>4. CASE Environment \/ Hooks
  BY <1>4, EnvironmentStartsNothing, HooksStartNothing, NoStartIsWanted
<1>5. CASE UNCHANGED vars
  BY <1>5, NoStartIsWanted DEF vars
<1> QED  BY <1>1, <1>2, <1>3, <1>4, <1>5 DEF Next

\* Launch, tick, hot-plug and set-stream-enabled start enabled, present cameras
\* only; restart-camera and set-mode may start the one they name, wanted or not
\* (main.cpp:955-968, 1022-1030, 1075-1077).
THEOREM OnlyWantedStarted == Spec => LoopStartsOnlyWanted
<1>1. TypeOK /\ [Next]_vars =>
        [\A i \in DOMAIN slots' :
          (slots'[i].running /\ (i \in DOMAIN slots => ~slots[i].running))
          => \/ slots'[i].enabled /\ slots'[i].present
             \/ RestartCamera(slots'[i].name) \/ SetMode(slots'[i].name)]_vars
  BY StepStartsWanted DEF StartsWanted
<1> QED
  BY <1>1, TypeCorrect, PTL DEF Spec, LoopStartsOnlyWanted
-----------------------------------------------------------------------------
(* What clients were told.                                                   *)

\* The slots keep what a client sees of them, but for the running flag.
ShownKept ==
  /\ DOMAIN slots' = DOMAIN slots
  /\ \A i \in DOMAIN slots : /\ slots'[i].name = slots[i].name
                             /\ slots'[i].enabled = slots[i].enabled
                             /\ slots'[i].count = slots[i].count

\* A change of the bus waits for cameras-changed until the loop has appended, and
\* the events thread holds one snapshot at a time.
ScanInv == scan.changed => loopPc \in {"formats", "append"}
OneSnapshot == \A e, f \in inflight : e = f

RowsInv == RowsAgree /\ ScanInv /\ OneSnapshot

LEMMA ReplacedShown ==
  ASSUME TypeOK, NEW i \in DOMAIN slots, NEW t, t.name = slots[i].name,
         slots' = [slots EXCEPT ![i] = t]
  PROVE  /\ DOMAIN slots' = DOMAIN slots /\ slots'[i] = t
         /\ \A j \in DOMAIN slots : j # i => slots'[j] = slots[j]
         /\ \A j \in DOMAIN slots : slots'[j].name = slots[j].name
<1>1. slots \in Seq(Slot)
  BY DEF TypeOK
<1> QED  BY <1>1

LEMMA OnlySlotKept ==
  ASSUME DOMAIN slots' = DOMAIN slots,
         \A j \in DOMAIN slots : slots'[j].name = slots[j].name,
         NEW i, NEW n, OnlySlotOf(i, n)'
  PROVE  OnlySlotOf(i, n)
BY DEF OnlySlotOf

\* A step that changes nothing a client was told about.
LEMMA ShownAgree ==
  ASSUME RowsAgree, ShownKept, UNCHANGED <<told, drift>>,
         scan'.changed = scan.changed, inflight' = inflight
  PROVE  RowsAgree'
<1>1. ASSUME NEW i \in DOMAIN slots', NEW n \in Names, OnlySlotOf(i, n)', drift'[n] = {},
             ~scan'.changed, \A ev \in inflight' : ev.name # n
      PROVE  \A r \in told'[n] : r.enabled = slots'[i].enabled /\ r.count = slots'[i].count
  <2>1. i \in DOMAIN slots /\ OnlySlotOf(i, n)
    BY <1>1, OnlySlotKept DEF ShownKept
  <2>2. \A r \in told[n] : r.enabled = slots[i].enabled /\ r.count = slots[i].count
    BY <1>1, <2>1 DEF RowsAgree
  <2> QED
    BY <2>1, <2>2 DEF ShownKept
<1> QED
  BY <1>1 DEF RowsAgree

LEMMA SlotsShownAgree ==
  ASSUME RowsAgree, UNCHANGED <<slots, told, drift>>,
         scan'.changed = scan.changed, inflight' = inflight
  PROVE  RowsAgree'
BY ShownAgree DEF ShownKept

\* A slot is changed and the row published that shows it.
LEMMA ToldAgree ==
  ASSUME TypeOK, RowsAgree, NEW i \in DOMAIN slots, NEW t, NEW row,
         t.name = slots[i].name, slots' = [slots EXCEPT ![i] = t],
         row.enabled = t.enabled, row.count = t.count, Tell(t.name, row),
         scan'.changed = scan.changed, inflight' = inflight
  PROVE  RowsAgree'
<1>1. /\ DOMAIN slots' = DOMAIN slots /\ slots'[i] = t
      /\ \A j \in DOMAIN slots : j # i => slots'[j] = slots[j]
      /\ \A j \in DOMAIN slots : slots'[j].name = slots[j].name
  BY ReplacedShown
<1>2. told \in [Names -> SUBSET Row] /\ drift \in [Names -> SUBSET {"overtaken", "wiped"}]
  BY DEF TypeOK
<1>3. ASSUME NEW j \in DOMAIN slots', NEW n \in Names, OnlySlotOf(j, n)', drift'[n] = {},
             ~scan'.changed, \A ev \in inflight' : ev.name # n
      PROVE  \A r \in told'[n] : r.enabled = slots'[j].enabled /\ r.count = slots'[j].count
  <2>1. j \in DOMAIN slots /\ OnlySlotOf(j, n)
    BY <1>1, <1>3, OnlySlotKept
  <2>2. CASE j = i
    <3>1. n = t.name
      BY <2>1, <2>2 DEF OnlySlotOf
    <3>2. told'[n] \in {{}, {row}}
      BY <1>2, <3>1 DEF Tell
    <3> QED
      BY <1>1, <2>2, <3>2
  <2>3. CASE j # i
    <3>1. n # t.name
      BY <2>1, <2>3 DEF OnlySlotOf
    <3>2. told'[n] = told[n] /\ drift'[n] = drift[n] /\ slots'[j] = slots[j]
      BY <1>1, <1>2, <2>1, <2>3, <3>1 DEF Tell
    <3> QED
      BY <1>3, <2>1, <3>2 DEF RowsAgree
  <2> QED
    BY <2>2, <2>3
<1> QED
  BY <1>3 DEF RowsAgree

\* cameras-changed tells all.
LEMMA AllToldAgree ==
  ASSUME TellAll(slots')
  PROVE  RowsAgree'
<1>1. ASSUME NEW i \in DOMAIN slots', NEW n \in Names, OnlySlotOf(i, n)', NEW r \in told'[n]
      PROVE  r.enabled = slots'[i].enabled /\ r.count = slots'[i].count
  <2>1. told'[n] = {CamToJson(slots'[j]) : j \in {k \in DOMAIN slots' : slots'[k].name = n}}
    BY DEF TellAll
  <2>2. PICK j \in DOMAIN slots' : slots'[j].name = n /\ r = CamToJson(slots'[j])
    BY <1>1, <2>1
  <2>3. j = i
    BY <1>1, <2>2 DEF OnlySlotOf
  <2> QED
    BY <2>2, <2>3 DEF CamToJson
<1> QED
  BY <1>1 DEF RowsAgree

\* Nobody is connected, or there is no camera.
LEMMA NothingShownAgrees ==
  ASSUME DOMAIN slots' = {} \/ \A n \in Names : told'[n] = {}
  PROVE  RowsAgree'
BY DEF RowsAgree

-----------------------------------------------------------------------------
\* What the operations on a slot leave of what a client sees.
SameShown(s, t) == t.name = s.name /\ t.enabled = s.enabled /\ t.count = s.count

LEMMA OperationsShow ==
  ASSUME NEW s \in Slot, NEW ok \in BOOLEAN
  PROVE  SameShown(s, StopProc(s)) /\ SameShown(s, StartNoSleep(s, ok))
BY DEF StopProc, StartNoSleep, Slot, SameShown

LEMMA PublishRows ==
  ASSUME TypeOK, RowsAgree, NEW i \in DOMAIN slots, NEW t \in Slot, t.name = slots[i].name,
         NEW still, PublishThenRecord(i, t, still), UNCHANGED <<scan, inflight>>
  PROVE  RowsAgree'
<1> DEFINE u == [t EXCEPT !.running = t.running /\ still, !.last = t.running /\ still]
           row == CamToJson(t)
<1>1. slots' = [slots EXCEPT ![i] = u] /\ Tell(t.name, row)
  BY DEF PublishThenRecord
<1>2. /\ u.name = t.name /\ row.enabled = u.enabled /\ row.count = u.count
  BY DEF Slot, CamToJson
<1> HIDE DEF u, row
<1> QED
  BY <1>1, <1>2, ToldAgree

LEMMA RelaunchRows ==
  ASSUME TypeOK, RowsAgree, NEW i \in DOMAIN slots, Relaunch(i), UNCHANGED <<scan, inflight>>
  PROVE  RowsAgree'
<1>1. PICK ok \in Survives(slots[i].name), still \in Survives(slots[i].name) :
        PublishThenRecord(i, StartNoSleep(RebuildSlot(slots[i]), ok), still)
  BY DEF Relaunch
<1> DEFINE r == RebuildSlot(slots[i])
           t == StartNoSleep(r, ok)
<1>2. r \in Slot /\ r.name = slots[i].name
  BY SlotTyped, RebuildType DEF SameKey
<1>3. t \in Slot /\ t.name = slots[i].name
  BY <1>2, SurvivesType, StartType DEF SameKey
<1>4. PublishThenRecord(i, t, still)
  BY <1>1
<1> HIDE DEF t
<1> QED
  BY <1>3, <1>4, PublishRows

LEMMA SetStreamEnabledRows ==
  ASSUME TypeOK, RowsAgree, NEW n \in Names, NEW want \in BOOLEAN, SetStreamEnabled(n, want)
  PROVE  RowsAgree'
<1>1. PICK i \in DOMAIN slots, ok \in Survives(n), still \in Survives(n) :
        LET s == [slots[i] EXCEPT !.enabled = want]
            t == CASE want /\ s.present -> StartNoSleep(RebuildSlot(s), ok)
                   [] want /\ ~s.present -> s
                   [] OTHER -> StopProc(s)
        IN  PublishThenRecord(i, t, still)
  BY DEF SetStreamEnabled
<1> DEFINE s == [slots[i] EXCEPT !.enabled = want]
           r == StartNoSleep(RebuildSlot(s), ok)
           t == CASE want /\ s.present -> r
                  [] want /\ ~s.present -> s
                  [] OTHER -> StopProc(s)
<1>2. ok \in BOOLEAN /\ s \in Slot /\ s.name = slots[i].name
  BY SurvivesType, SlotTyped DEF Slot
<1>3. /\ r \in Slot /\ r.name = slots[i].name
      /\ StopProc(s) \in Slot /\ StopProc(s).name = slots[i].name
  <2> HIDE DEF s
  <2>1. RebuildSlot(s) \in Slot /\ RebuildSlot(s).name = slots[i].name
    BY <1>2, RebuildType DEF SameKey
  <2> QED
    BY <1>2, <2>1, StartType, StopProcType DEF SameKey
<1>4. t = r \/ t = s \/ t = StopProc(s)
  <2>1. CASE want /\ s.present
    BY <2>1
  <2>2. CASE want /\ ~s.present
    BY <2>2
  <2>3. CASE ~want
    BY <2>3
  <2> QED
    BY <2>1, <2>2, <2>3
<1>5. PublishThenRecord(i, t, still) /\ UNCHANGED <<scan, inflight>>
  BY <1>1 DEF SetStreamEnabled
<1> HIDE DEF s, r, t
<1>6. t \in Slot /\ t.name = slots[i].name
  BY <1>2, <1>3, <1>4
<1> QED
  BY <1>5, <1>6, PublishRows

LEMMA RequestsRows ==
  ASSUME TypeOK, RowsAgree, Requests
  PROVE  RowsAgree'
<1>1. ASSUME NEW n \in Addressed, RestartCamera(n) \/ SetMode(n)
      PROVE  RowsAgree'
  BY <1>1, RelaunchRows DEF RestartCamera, SetMode
<1>2. ASSUME NEW n \in Addressed, NEW want \in BOOLEAN, SetStreamEnabled(n, want)
      PROVE  RowsAgree'
  BY <1>2, ConstantsAssumption, SetStreamEnabledRows
<1>3. CASE CredentialsApplied
  <2>1. slots' = slots /\ TellAll(slots)
    BY <1>3 DEF CredentialsApplied
  <2>2. TellAll(slots')
    BY <2>1
  <2> QED
    BY <2>2, AllToldAgree
<1>4. CASE SetViewerCredentials \/ ReloadSettings \/ ShutdownRequest \/ ConsoleCtrl
  BY <1>4, SlotsShownAgree
  DEF SetViewerCredentials, ReloadSettings, ShutdownRequest, ConsoleCtrl, history
<1> QED
  BY <1>1, <1>2, <1>3, <1>4 DEF Requests

LEMMA EnvironmentRows ==
  ASSUME TypeOK, RowsAgree, Environment
  PROVE  RowsAgree'
<1>1. ASSUME NEW i \in DOMAIN slots, NEW t, SameShown(slots[i], t),
             slots' = [slots EXCEPT ![i] = t], UNCHANGED <<scan, inflight, told, drift>>
      PROVE  RowsAgree'
  BY <1>1, ReplacedShown, ShownAgree DEF ShownKept, SameShown
<1>2. ASSUME NEW i \in DOMAIN slots, PublisherExits(i)
      PROVE  RowsAgree'
  BY <1>1, <1>2, SlotTyped, OperationsShow DEF PublisherExits, history
<1>3. ASSUME NEW i \in DOMAIN slots, BackoffElapses(i)
      PROVE  RowsAgree'
  <2>1. slots' = [slots EXCEPT ![i] = [slots[i] EXCEPT !.due = TRUE]]
    BY <1>3 DEF BackoffElapses
  <2>2. SameShown(slots[i], [slots[i] EXCEPT !.due = TRUE])
    BY SlotTyped DEF Slot, SameShown
  <2> QED
    BY <1>1, <1>3, <2>1, <2>2 DEF BackoffElapses, history
<1> QED
  BY <1>2, <1>3, SlotsShownAgree
  DEF Environment, Plug, Unplug, MtxExits, MtxBackoffElapses, HostSavesDefault, history

\* While a snapshot is under way its name is exempt; publishing it tells the truth
\* or is an overtaking.
LEMMA HooksRows ==
  ASSUME TypeOK, RowsAgree, OneSnapshot, Hooks
  PROVE  RowsAgree' /\ OneSnapshot'
<1>1. ASSUME NEW kind, NEW p, Hook(kind, p)
      PROVE  RowsAgree' /\ OneSnapshot'
  <2>1. PICK i \in DOMAIN slots :
          LET s == ViewerCount(slots[i], kind)
          IN  /\ slots' = [slots EXCEPT ![i] = s]
              /\ inflight' = {[name |-> s.name, row |-> CamToJson(s)]}
    BY <1>1 DEF Hook
  <2> DEFINE s == ViewerCount(slots[i], kind)
  <2>2. s.name = slots[i].name
    BY SlotTyped DEF ViewerCount, Slot
  <2>3. /\ slots' = [slots EXCEPT ![i] = s]
        /\ inflight' = {[name |-> s.name, row |-> CamToJson(s)]}
        /\ inflight = {} /\ UNCHANGED <<scan, told, drift>>
    BY <1>1, <2>1 DEF Hook, history
  <2> HIDE DEF s
  <2>4. /\ DOMAIN slots' = DOMAIN slots
        /\ \A j \in DOMAIN slots : j # i => slots'[j] = slots[j]
        /\ \A j \in DOMAIN slots : slots'[j].name = slots[j].name
    BY <2>2, <2>3, ReplacedShown
  <2>5. ASSUME NEW j \in DOMAIN slots', NEW n \in Names, OnlySlotOf(j, n)', drift'[n] = {},
               ~scan'.changed, \A ev \in inflight' : ev.name # n
        PROVE  \A r \in told'[n] : r.enabled = slots'[j].enabled /\ r.count = slots'[j].count
    <3>1. j \in DOMAIN slots /\ OnlySlotOf(j, n)
      BY <2>4, <2>5, OnlySlotKept
    <3>2. j # i
      BY <2>2, <2>3, <2>5, <3>1 DEF OnlySlotOf
    <3>3. slots'[j] = slots[j]
      BY <2>4, <3>1, <3>2
    <3> QED
      BY <2>3, <2>5, <3>1, <3>3 DEF RowsAgree
  <2> QED
    BY <2>3, <2>5 DEF RowsAgree, OneSnapshot
<1>2. CASE HookPublish
  <2>1. PICK ev \in inflight :
          /\ told' = [told EXCEPT ![ev.name] = IF @ = {} THEN {} ELSE {ev.row}]
          /\ drift' = [drift EXCEPT ![ev.name] =
               IF \E i \in DOMAIN slots :
                    /\ slots[i].name = ev.name
                    /\ slots[i].enabled = ev.row.enabled
                    /\ slots[i].count = ev.row.count
               THEN {} ELSE {"overtaken"}]
    BY <1>2 DEF HookPublish
  <2>2. inflight' = {} /\ UNCHANGED <<slots, scan>>
    BY <1>2 DEF HookPublish
  <2>3. told \in [Names -> SUBSET Row] /\ drift \in [Names -> SUBSET {"overtaken", "wiped"}]
    BY DEF TypeOK
  <2>4. ASSUME NEW j \in DOMAIN slots, NEW n \in Names, OnlySlotOf(j, n), drift'[n] = {},
               ~scan.changed
        PROVE  \A r \in told'[n] : r.enabled = slots[j].enabled /\ r.count = slots[j].count
    <3>1. CASE n = ev.name
      <4>1. told'[n] \in {{}, {ev.row}}
        BY <2>1, <2>3, <3>1
      <4>2. \E i \in DOMAIN slots : /\ slots[i].name = ev.name
                                    /\ slots[i].enabled = ev.row.enabled
                                    /\ slots[i].count = ev.row.count
        BY <2>1, <2>3, <2>4, <3>1
      <4> QED
        BY <2>4, <3>1, <4>1, <4>2 DEF OnlySlotOf
    <3>2. CASE n # ev.name
      <4>1. told'[n] = told[n] /\ drift'[n] = drift[n]
        BY <2>1, <2>3, <3>2
      <4>2. \A e \in inflight : e.name # n
        BY <2>1, <3>2 DEF OneSnapshot
      <4> QED
        BY <2>4, <4>1, <4>2 DEF RowsAgree
    <3> QED
      BY <3>1, <3>2
  <2> QED
    BY <2>2, <2>4 DEF RowsAgree, OneSnapshot, OnlySlotOf
<1> QED
  BY <1>1, <1>2 DEF Hooks

\* The tick tells, keeps, or records that it wiped a count.
LEMMA TickSlotRows ==
  ASSUME TypeOK, RowsAgree, TickSlot
  PROVE  RowsAgree'
<1>1. idx \in DOMAIN slots /\ UNCHANGED <<scan, inflight>>
  BY DEF TickSlot
<1> DEFINE s == slots[idx]
<1>2. s \in Slot
  BY <1>1, SlotTyped
<1>3. CASE TickIdle(idx)
  <2> DEFINE t == [s EXCEPT !.last = FALSE, !.count = 0]
             row == CamToJson(t)
  <2>1. t.name = s.name /\ row.enabled = t.enabled /\ row.count = t.count
    BY <1>2 DEF Slot, CamToJson
  <2>2. \/ slots' = [slots EXCEPT ![idx] = t] /\ Tell(t.name, row)
        \/ UNCHANGED slots /\ TellNothing
    BY <1>3 DEF TickIdle
  <2> HIDE DEF t, row
  <2> QED
    BY <1>1, <2>1, <2>2, ToldAgree, SlotsShownAgree DEF TellNothing
<1>4. CASE TickWanted(idx)
  <2> DEFINE wiped == ~s.running /\ s.count # 0
             t == IF s.running THEN s ELSE [s EXCEPT !.count = 0]
             u(ok) == IF RestartDue(s) THEN StartNoSleep(StopProc(t), ok) ELSE t
             v(ok, still) == [u(ok) EXCEPT !.running = u(ok).running /\ still,
                                           !.last = u(ok).running]
             w(ok, still) == [u(ok) EXCEPT !.running = u(ok).running /\ still]
  <2>1. PICK ok \in Survives(s.name), still \in Survives(s.name) :
          IF u(ok).running # s.last
          THEN slots' = [slots EXCEPT ![idx] = v(ok, still)]
               /\ Tell(s.name, CamToJson(w(ok, still)))
          ELSE /\ slots' = [slots EXCEPT ![idx] = u(ok)]
               /\ drift' = IF wiped THEN [drift EXCEPT ![s.name] = @ \cup {"wiped"}] ELSE drift
               /\ UNCHANGED told
    BY <1>4, Zenon DEF TickWanted
  <2>2. ok \in BOOLEAN
    BY SurvivesType
  <2>3. /\ t \in Slot /\ t.name = s.name /\ t.enabled = s.enabled
        /\ ~wiped => t.count = s.count
    BY <1>2 DEF Slot
  <2>4. /\ u(ok) \in Slot /\ u(ok).name = s.name /\ u(ok).enabled = s.enabled
        /\ ~wiped => u(ok).count = s.count
    <3> HIDE DEF t, s, wiped
    <3>1. StopProc(t) \in Slot /\ SameShown(t, StopProc(t))
      BY <2>2, <2>3, StopProcType, OperationsShow
    <3>2. /\ StartNoSleep(StopProc(t), ok) \in Slot
          /\ SameShown(StopProc(t), StartNoSleep(StopProc(t), ok))
      BY <2>2, <3>1, StartType, OperationsShow
    <3> QED
      BY <2>3, <3>1, <3>2 DEF SameShown
  <2> DEFINE row == CamToJson(w(ok, still))
  <2>5. /\ v(ok, still).name = s.name
        /\ row.enabled = v(ok, still).enabled /\ row.count = v(ok, still).count
    <3> HIDE DEF u
    <3> QED  BY <2>4 DEF Slot, CamToJson
  <2> HIDE DEF t, u, v, w, wiped
  <2>6. CASE u(ok).running # s.last
    <3>1. slots' = [slots EXCEPT ![idx] = v(ok, still)] /\ Tell(v(ok, still).name, row)
      BY <2>1, <2>5, <2>6
    <3> HIDE DEF row
    <3> QED
      BY <1>1, <2>5, <3>1, ToldAgree
  <2>7. CASE u(ok).running = s.last
    <3>1. /\ slots' = [slots EXCEPT ![idx] = u(ok)] /\ UNCHANGED told
          /\ drift' = IF wiped THEN [drift EXCEPT ![s.name] = @ \cup {"wiped"}] ELSE drift
      BY <2>1, <2>7
    <3>2. /\ DOMAIN slots' = DOMAIN slots /\ slots'[idx] = u(ok)
          /\ \A j \in DOMAIN slots : j # idx => slots'[j] = slots[j]
          /\ \A j \in DOMAIN slots : slots'[j].name = slots[j].name
      BY <1>1, <2>4, <3>1, ReplacedShown
    <3>3. CASE ~wiped
      BY <1>1, <2>4, <3>1, <3>2, <3>3, ShownAgree DEF ShownKept
    <3>4. CASE wiped
      <4>1. drift' = [drift EXCEPT ![s.name] = @ \cup {"wiped"}] /\ s.name \in Names
        BY <1>2, <3>1, <3>4 DEF Slot
      <4>2. drift'[s.name] # {} /\ \A n \in Names : n # s.name => drift'[n] = drift[n]
        BY <4>1 DEF TypeOK
      <4>3. ASSUME NEW j \in DOMAIN slots', NEW n \in Names, OnlySlotOf(j, n)', drift'[n] = {},
                   ~scan'.changed, \A ev \in inflight' : ev.name # n
            PROVE  \A r \in told'[n] : /\ r.enabled = slots'[j].enabled
                                       /\ r.count = slots'[j].count
        <5>1. j \in DOMAIN slots /\ OnlySlotOf(j, n)
          BY <3>2, <4>3, OnlySlotKept
        <5>2. n # s.name /\ drift[n] = {}
          BY <4>2, <4>3
        <5>3. j # idx
          BY <5>1, <5>2 DEF OnlySlotOf
        <5>4. slots'[j] = slots[j] /\ told' = told
          BY <3>1, <3>2, <5>1, <5>3
        <5> QED
          BY <1>1, <4>3, <5>1, <5>2, <5>4 DEF RowsAgree
      <4> QED
        BY <4>3 DEF RowsAgree
    <3> QED
      BY <3>3, <3>4
  <2> QED
    BY <2>6, <2>7
<1> QED
  BY <1>3, <1>4 DEF TickSlot

\* The comparison with the bus changes nothing, or leaves it to cameras-changed.
LEMMA DiffRows ==
  ASSUME TypeOK, RowsAgree, ScanInv, Diff
  PROVE  RowsAgree'
<1> DEFINE listed == {scan.current[k] : k \in DOMAIN scan.current}
           moved(i) == \/ slots[i].present /\ slots[i].name \notin listed
                       \/ Returned(slots[i], listed)
<1>1. PICK ok \in [DOMAIN slots -> BOOLEAN] :
        slots' = [i \in DOMAIN slots |->
          CASE slots[i].present /\ slots[i].name \notin listed
                 -> MarkAbsent(slots[i])
            [] Returned(slots[i], listed) -> MarkPresent(slots[i], ok[i])
            [] OTHER -> slots[i]]
  BY DEF Diff
<1>2. ~scan.changed /\ UNCHANGED <<told, drift, inflight>>
  BY DEF Diff, ScanInv, TypeOK, history
<1>3. scan'.changed = \E i \in DOMAIN slots : moved(i)
  BY DEF Diff, TypeOK
<1> HIDE DEF listed
<1>4. CASE scan'.changed
  BY <1>4 DEF RowsAgree
<1>5. CASE ~scan'.changed
  <2>1. \A i \in DOMAIN slots : ~moved(i)
    BY <1>3, <1>5
  <2>2. DOMAIN slots' = DOMAIN slots /\ \A i \in DOMAIN slots : slots'[i] = slots[i]
    BY <1>1, <2>1
  <2>3. scan'.changed = scan.changed
    BY <1>2, <1>3, <1>5 DEF TypeOK
  <2> QED
    BY <1>2, <2>2, <2>3, ShownAgree DEF ShownKept
<1> QED
  BY <1>4, <1>5

LEMMA AppendDeviceRows ==
  ASSUME TypeOK, RowsAgree, AppendDevice
  PROVE  RowsAgree'
<1>1. scan \in [current : Seq(Names), fresh : SUBSET Nat, known : SUBSET Names,
                changed : BOOLEAN]
  BY DEF TypeOK
<1>2. \/ scan'.changed
      \/ UNCHANGED slots /\ scan'.changed = scan.changed
  BY <1>1 DEF AppendDevice
<1>3. UNCHANGED <<told, drift, inflight>>
  BY DEF AppendDevice, history
<1>4. CASE scan'.changed
  BY <1>4 DEF RowsAgree
<1>5. CASE UNCHANGED slots /\ scan'.changed = scan.changed
  BY <1>3, <1>5, SlotsShownAgree
<1> QED
  BY <1>2, <1>4, <1>5

LEMMA LoopRows ==
  ASSUME TypeOK, RowsAgree, ScanInv, Loop
  PROVE  RowsAgree'
<1>1. CASE LoopTop \/ Tick \/ MtxWaitEnds \/ TickEnds \/ SkipEnumeration
  BY <1>1, SlotsShownAgree
  DEF LoopTop, Tick, MtxWaitEnds, TickEnds, SkipEnumeration, history
<1>2. CASE Enumerate
  <2>1. ~scan.changed /\ ~scan'.changed
    BY <1>2 DEF Enumerate, NoScan, ScanInv
  <2>2. scan'.changed = scan.changed
    BY <1>2, <2>1 DEF Enumerate, NoScan, TypeOK
  <2> QED
    BY <1>2, <2>2, SlotsShownAgree DEF Enumerate, history
<1>3. CASE NothingNew
  <2>1. scan'.changed = scan.changed
    BY <1>3 DEF NothingNew, NoScan, TypeOK
  <2> QED
    BY <1>3, <2>1, SlotsShownAgree DEF NothingNew, history
<1>4. CASE AppendBegins
  <2>1. scan'.changed = scan.changed
    BY <1>4 DEF AppendBegins, TypeOK
  <2> QED
    BY <1>4, <2>1, SlotsShownAgree DEF AppendBegins, history
<1>5. CASE AppendEnds
  <2>1. CASE scan.changed
    <3>1. TellAll(slots')
      BY <1>5, <2>1 DEF AppendEnds
    <3> QED
      BY <3>1, AllToldAgree
  <2>2. CASE ~scan.changed
    <3>1. scan'.changed = scan.changed
      BY <1>5, <2>2 DEF AppendEnds, NoScan, TypeOK
    <3> QED
      BY <1>5, <2>2, <3>1, SlotsShownAgree DEF AppendEnds, TellNothing
  <2> QED
    BY <2>1, <2>2
<1>6. CASE StopIpc
  <2>1. \A n \in Names : told'[n] = {}
    BY <1>6 DEF StopIpc, TellAll
  <2> QED
    BY <2>1, NothingShownAgrees
<1>7. CASE StopEvents
  BY <1>7, SlotsShownAgree DEF StopEvents, history
<1>8. CASE StopChildren
  <2>1. slots' = [i \in DOMAIN slots |-> StopProc(slots[i])]
        /\ UNCHANGED <<scan, inflight, told, drift>>
    BY <1>8 DEF StopChildren, history
  <2>2. \A i \in DOMAIN slots : SameShown(slots[i], slots'[i])
    BY <2>1, SlotTyped, OperationsShow
  <2> QED
    BY <2>1, <2>2, ShownAgree DEF ShownKept, SameShown
<1> QED
  BY <1>1, <1>2, <1>3, <1>4, <1>5, <1>6, <1>7, <1>8, TickSlotRows, DiffRows, AppendDeviceRows
  DEF Loop

LEMMA LifecycleRows ==
  ASSUME Lifecycle, RowsAgree
  PROVE  RowsAgree'
<1>1. CASE Launch
  <2>1. TellAll(slots')
    BY <1>1, Zenon DEF Launch
  <2> QED
    BY <2>1, AllToldAgree
<1>2. CASE LaunchFails \/ Kill
  <2>1. slots' = <<>>
    BY <1>2 DEF LaunchFails, Kill
  <2>2. DOMAIN slots' = {}
    BY <2>1
  <2> QED
    BY <2>2, NothingShownAgrees
<1> QED
  BY <1>1, <1>2 DEF Lifecycle

LEMMA ScanStep ==
  ASSUME TypeOK, ScanInv, [Next]_vars
  PROVE  ScanInv'
<1>1. CASE UNCHANGED <<scan, loopPc>>
  BY <1>1 DEF ScanInv
<1>2. CASE Lifecycle
  <2>1. \/ loopPc \in Down /\ scan' = scan
        \/ scan' = NoScan
    BY <1>2, Zenon DEF Lifecycle, Launch, LaunchFails, Kill
  <2> QED
    BY <2>1 DEF NoScan, ScanInv, Down
<1>3. CASE Environment
  BY <1>1, <1>3 DEF Environment, Plug, Unplug, PublisherExits, BackoffElapses, MtxExits,
                    MtxBackoffElapses, HostSavesDefault
<1>4. CASE Requests
  BY <1>1, <1>4 DEF Requests, RestartCamera, SetMode, SetStreamEnabled, SetViewerCredentials,
                    CredentialsApplied, ReloadSettings, ShutdownRequest, ConsoleCtrl
<1>5. CASE Hooks
  BY <1>1, <1>5 DEF Hooks, Hook, HookPublish
<1>6. CASE LoopTop \/ Tick \/ MtxWaitEnds \/ TickSlot \/ TickEnds \/ SkipEnumeration
  BY <1>6 DEF LoopTop, Tick, MtxWaitEnds, TickSlot, TickEnds, SkipEnumeration, ScanInv
<1>7. CASE Enumerate \/ NothingNew \/ AppendEnds
  BY <1>7 DEF Enumerate, NothingNew, AppendEnds, NoScan, ScanInv
<1>8. CASE Diff \/ AppendBegins \/ AppendDevice
  <2>1. loopPc' \in {"formats", "append"}
    <3>1. CASE Diff
      BY <3>1 DEF Diff
    <3>2. CASE AppendBegins
      BY <3>2 DEF AppendBegins
    <3>3. CASE AppendDevice
      BY <3>3 DEF AppendDevice
    <3> QED
      BY <1>8, <3>1, <3>2, <3>3
  <2> QED
    BY <2>1 DEF ScanInv
<1>9. CASE StopIpc \/ StopEvents \/ StopChildren
  BY <1>9 DEF StopIpc, StopEvents, StopChildren, ScanInv
<1> QED
  BY <1>1, <1>2, <1>3, <1>4, <1>5, <1>6, <1>7, <1>8, <1>9 DEF Next, Loop, vars

LEMMA SnapshotStep ==
  ASSUME TypeOK, RowsAgree, OneSnapshot, [Next]_vars
  PROVE  OneSnapshot'
<1>1. CASE Hooks
  BY <1>1, HooksRows
<1>2. CASE ~Hooks
  <2>1. inflight' = inflight \/ inflight' = {}
    <3>1. CASE Lifecycle
      BY <3>1, Zenon DEF Lifecycle, Launch, LaunchFails, Kill
    <3>2. CASE Environment
      BY <3>2 DEF Environment, Plug, Unplug, PublisherExits, BackoffElapses, MtxExits,
                  MtxBackoffElapses, HostSavesDefault
    <3>3. CASE Requests
      BY <3>3 DEF Requests, RestartCamera, SetMode, SetStreamEnabled, SetViewerCredentials,
                  CredentialsApplied, ReloadSettings, ShutdownRequest, ConsoleCtrl
    <3>4. CASE Loop
      <4>1. CASE LoopTop \/ Tick \/ MtxWaitEnds \/ TickSlot \/ TickEnds \/ SkipEnumeration
        BY <4>1 DEF LoopTop, Tick, MtxWaitEnds, TickSlot, TickEnds, SkipEnumeration
      <4>2. CASE Enumerate \/ NothingNew \/ AppendBegins \/ AppendEnds
        BY <4>2 DEF Enumerate, NothingNew, AppendBegins, AppendEnds
      <4>3. CASE Diff \/ AppendDevice \/ StopIpc \/ StopEvents \/ StopChildren
        BY <4>3, Zenon DEF Diff, AppendDevice, StopIpc, StopEvents, StopChildren
      <4> QED
        BY <3>4, <4>1, <4>2, <4>3 DEF Loop
    <3> QED
      BY <1>2, <3>1, <3>2, <3>3, <3>4 DEF Next, vars
  <2> QED
    BY <2>1 DEF OneSnapshot
<1> QED
  BY <1>1, <1>2

LEMMA RowsStep ==
  ASSUME TypeOK, RowsInv, [Next]_vars
  PROVE  RowsInv'
<1> USE DEF RowsInv
<1>1. CASE UNCHANGED vars
  <2>1. UNCHANGED <<slots, told, drift, scan, inflight, loopPc>>
    BY <1>1 DEF vars
  <2> QED
    BY <2>1, SlotsShownAgree DEF ScanInv, OneSnapshot
<1>2. RowsAgree'
  BY <1>1, EnvironmentRows, RequestsRows, HooksRows, LoopRows, LifecycleRows DEF Next
<1> QED
  BY <1>2, ScanStep, SnapshotStep

\* Whatever the order in which the loop, requests and viewer hooks mutate and
\* publish, a client's row has the flag and the count of its slot, unless one of the
\* two documented drifts was recorded (main.cpp:907, 972).
THEOREM RowsAlwaysAgree == Spec => []RowsAgree
<1>1. Init => RowsInv
  <2> SUFFICES ASSUME Init PROVE RowsInv
    OBVIOUS
  <2>1. \A n \in Names : told[n] = {}
    BY DEF Init
  <2> QED
    BY <2>1 DEF Init, NoScan, RowsInv, RowsAgree, ScanInv, OneSnapshot
<1>2. TypeOK /\ RowsInv /\ [Next]_vars => RowsInv'
  BY RowsStep
<1>3. RowsInv => RowsAgree
  BY DEF RowsInv
<1> QED
  BY <1>1, <1>2, <1>3, TypeCorrect, PTL DEF Spec
=============================================================================
