------------------------- MODULE ViewerHooks_proofs -------------------------
(* Proofs about ViewerHooks, for any number of readers.                      *)
EXTENDS ViewerHooks, FiniteSetTheorems, TLAPS

\* The readers whose read, and whose unread, was handled.
Joined == {r \in Readers : <<r, "read">> \in handled}
Left == {r \in Readers : <<r, "unread">> \in handled}

\* A line is in one place at a time, the pipe, the accept thread or the
\* history, and in none before its hook has written it.
OnePlace ==
  /\ inst.data \subseteq inst.client /\ \A g, h \in inst.client : g = h
  /\ \A g, h \in line : g = h
  /\ line # {} => pc = "handle"
  /\ inst.data \cap line = {} /\ handled \cap (inst.data \cup line) = {}
  /\ \A h \in Hooks :
       hook[h] \in {"none", "trying", "open"} => h \notin inst.data \cup line \cup handled

\* A line that was written and is no more in the pipe was read, as long as its
\* hook still holds its end.
Flushed == \A h \in Hooks :
  hook[h] = "flush" /\ h \in inst.client => h \in inst.data \cup line \cup handled

\* mediamtx reports a reader's end after its beginning.
ReadFirst == \A r \in Readers :
  hook[<<r, "unread">>] # "none" => hook[<<r, "read">>] # "none"

LineInv == OnePlace /\ Flushed /\ ReadFirst /\ DoneIsCounted

\* The count is at least the readers joined and not left; unless an unread came
\* too early it is exactly that.
CountInv ==
  /\ IsFiniteSet(Joined) /\ IsFiniteSet(Left)
  /\ count + Cardinality(Left) >= Cardinality(Joined)
  /\ swapped = {} => /\ Left \subseteq Joined
                     /\ count + Cardinality(Left) = Cardinality(Joined)

-----------------------------------------------------------------------------
(* Type correctness.                                                         *)

Instances == [exists : BOOLEAN, client : SUBSET Hooks, here : BOOLEAN, data : SUBSET Hooks]

LEMMA InstancesTyped == NoPipe \in Instances /\ Listening \in Instances
BY DEF NoPipe, Listening, Instances

LEMMA TypeInit == Init => TypeOK
<1> SUFFICES ASSUME Init PROVE TypeOK
  OBVIOUS
<1>1. hook \in [Hooks -> HookStates]
  BY DEF Init, HookStates
<1>2. inst \in Instances
  BY InstancesTyped DEF Init
<1> QED
  BY <1>1, <1>2 DEF Init, TypeOK, Instances

LEMMA TypeNext ==
  ASSUME TypeOK, [Next]_vars
  PROVE  TypeOK'
<1> USE DEF TypeOK, HookStates, server, counts
<1>1. CASE UNCHANGED vars
  BY <1>1 DEF vars
<1>2. ASSUME NEW r \in Readers, ReaderConnects(r) \/ ReaderLeaves(r)
      PROVE  TypeOK'
  BY <1>2 DEF ReaderConnects, ReaderLeaves
<1>3. ASSUME NEW h \in Hooks, HookConnects(h)
      PROVE  TypeOK'
  BY <1>3 DEF HookConnects
<1>4. ASSUME NEW h \in Hooks, HookGivesUp(h)
      PROVE  TypeOK'
  BY <1>4 DEF HookGivesUp
<1>5. ASSUME NEW h \in Hooks, HookWrites(h)
      PROVE  TypeOK'
  BY <1>5 DEF HookWrites
<1>6. ASSUME NEW h \in Hooks, HookEnds(h) \/ HookBreaks(h) \/ HookDies(h)
      PROVE  TypeOK'
  <2>1. PICK how \in {"done", "broken"} : Leave(h, how)
    BY <1>6 DEF HookEnds, HookBreaks, HookDies
  <2> QED
    BY <2>1 DEF Leave
<1>7. CASE Create \/ Publish \/ Connect \/ Unblocked
  BY <1>7, InstancesTyped DEF Create, Publish, Connect, Unblocked, Instances
<1>8. CASE Returned \/ ConnectFailed \/ Close
  BY <1>8, InstancesTyped DEF Returned, ConnectFailed, Close, CloseCurrent, Instances
<1>9. CASE Read
  BY <1>9 DEF Read
<1>10. CASE Handle
  <2>1. CASE line = {}
    BY <1>10, <2>1 DEF Handle
  <2>2. CASE line # {}
    <3>1. PICK h \in line :
            /\ count' = ViewerCount(h[2]) /\ handled' = handled \cup {h}
            /\ swapped' = IF h[2] = "unread" /\ <<h[1], "read">> \notin handled
                          THEN swapped \cup {h[1]} ELSE swapped
      BY <1>10, <2>2 DEF Handle
    <3>2. h \in Hooks /\ h[1] \in Readers
      BY DEF Hooks
    <3>3. ViewerCount(h[2]) \in Nat
      BY DEF ViewerCount
    <3> QED
      BY <1>10, <3>1, <3>2, <3>3 DEF Handle
  <2> QED
    BY <2>1, <2>2
<1>11. CASE Stop
  <2>1. CASE StopCloses
    BY <2>1, InstancesTyped DEF StopCloses, CloseCurrent, Instances
  <2>2. CASE StopBegins \/ Cancel \/ Join
    BY <2>2 DEF StopBegins, Cancel, Join
  <2> QED
    BY <1>11, <2>1, <2>2 DEF Stop
<1> QED
  BY <1>1, <1>2, <1>3, <1>4, <1>5, <1>6, <1>7, <1>8, <1>9, <1>10, <1>11
  DEF Next, HookSteps, Accept

\* Every reachable state is well typed.
THEOREM TypeCorrect == Spec => []TypeOK
BY TypeInit, TypeNext, PTL DEF Spec

-----------------------------------------------------------------------------
(* Lines: nothing that was taken is lost, nothing is handled twice.          *)

LEMMA LineInit == Init => LineInv
<1> SUFFICES ASSUME Init PROVE LineInv
  OBVIOUS
<1>1. inst.client = {} /\ inst.data = {} /\ line = {} /\ handled = {}
  BY DEF Init, NoPipe
<1>2. \A h \in Hooks : hook[h] = "none"
  BY DEF Init
<1>3. ReadFirst
  BY <1>2 DEF ReadFirst, Hooks
<1> QED
  BY <1>1, <1>2, <1>3 DEF LineInv, OnePlace, Flushed, DoneIsCounted

\* Steps that leave hooks, line and history alone keep the invariant when the
\* instance stays as it is or becomes one without a client.
LEMMA InstanceChange ==
  ASSUME LineInv, UNCHANGED <<hook, handled>>,
         inst' = inst \/ (inst'.client = {} /\ inst'.data = {}),
         line' = line, line # {} => pc' = "handle"
  PROVE  LineInv'
BY DEF LineInv, OnePlace, Flushed, ReadFirst, DoneIsCounted

LEMMA LineNext ==
  ASSUME TypeOK, LineInv, [Next]_vars
  PROVE  LineInv'
<1> USE DEF server, counts
<1>1. CASE UNCHANGED vars
  BY <1>1, InstanceChange DEF vars, LineInv, OnePlace
<1>2. ASSUME NEW r \in Readers, ReaderConnects(r) \/ ReaderLeaves(r)
      PROVE  LineInv'
  BY <1>2 DEF ReaderConnects, ReaderLeaves, Watching, TypeOK, Hooks,
              LineInv, OnePlace, Flushed, ReadFirst, DoneIsCounted
<1>3. ASSUME NEW h \in Hooks, HookConnects(h)
      PROVE  LineInv'
  BY <1>3 DEF HookConnects, TypeOK, Hooks,
              LineInv, OnePlace, Flushed, ReadFirst, DoneIsCounted
<1>4. ASSUME NEW h \in Hooks, HookGivesUp(h)
      PROVE  LineInv'
  BY <1>4 DEF HookGivesUp, TypeOK, Hooks,
              LineInv, OnePlace, Flushed, ReadFirst, DoneIsCounted
<1>5. ASSUME NEW h \in Hooks, HookWrites(h)
      PROVE  LineInv'
  BY <1>5 DEF HookWrites, Connected, TypeOK, Hooks,
              LineInv, OnePlace, Flushed, ReadFirst, DoneIsCounted
<1>6. ASSUME NEW h \in Hooks, HookEnds(h) \/ HookBreaks(h) \/ HookDies(h)
      PROVE  LineInv'
  BY <1>6 DEF HookEnds, HookBreaks, HookDies, Leave, Connected, TypeOK, Hooks,
              LineInv, OnePlace, Flushed, ReadFirst, DoneIsCounted
<1>7. CASE Create \/ Publish \/ Connect \/ Unblocked \/ Returned \/ ConnectFailed \/ Close
  <2>1. line = {}
    BY <1>7 DEF LineInv, OnePlace, Create, Publish, Connect, Unblocked, Returned,
                ConnectFailed, Close
  <2> QED
    BY <1>7, <2>1, InstanceChange
    DEF Create, Publish, Connect, Unblocked, Returned, ConnectFailed, Close,
        CloseCurrent, Listening, NoPipe
<1>8. CASE Read
  BY <1>8 DEF Read, TypeOK, LineInv, OnePlace, Flushed, ReadFirst, DoneIsCounted
<1>9. CASE Handle
  <2>1. handled' = handled \cup line
    BY <1>9 DEF Handle, LineInv, OnePlace
  <2> QED
    BY <1>9, <2>1 DEF Handle, LineInv, OnePlace, Flushed, ReadFirst, DoneIsCounted
<1>10. CASE Stop
  <2>1. line # {} => pc' = "handle"
    BY <1>10 DEF Stop, StopBegins, Cancel, StopCloses, Join, LineInv, OnePlace
  <2> QED
    BY <1>10, <2>1, InstanceChange
    DEF Stop, StopBegins, Cancel, StopCloses, Join, CloseCurrent, NoPipe
<1> QED
  BY <1>1, <1>2, <1>3, <1>4, <1>5, <1>6, <1>7, <1>8, <1>9, <1>10
  DEF Next, HookSteps, Accept

\* The event of a hook that saw its line taken is handled, whatever other hooks
\* and Stop do meanwhile (mtx_event_hook.cpp:110; events_pipe.cpp:91-98).
THEOREM DoneAlwaysCounted == Spec => []DoneIsCounted
<1>1. LineInv => DoneIsCounted
  BY DEF LineInv
<1> QED
  BY <1>1, TypeInit, TypeNext, LineInit, LineNext, PTL DEF Spec

-----------------------------------------------------------------------------
(* The count.                                                                *)

LEMMA CountInit == Init => CountInv
<1> SUFFICES ASSUME Init PROVE CountInv
  OBVIOUS
<1>1. Joined = {} /\ Left = {} /\ count = 0
  BY DEF Init, Joined, Left
<1> QED
  BY <1>1, FS_EmptySet DEF CountInv

\* The one step that counts: an event that was not handled before.
LEMMA HandleCounts ==
  ASSUME TypeOK, LineInv, CountInv, Handle
  PROVE  CountInv'
<1>1. CASE line = {}
  BY <1>1 DEF Handle, counts, CountInv, Joined, Left
<1>2. CASE line # {}
  <2>1. PICK h \in line :
          /\ count' = ViewerCount(h[2]) /\ handled' = handled \cup {h}
          /\ swapped' = IF h[2] = "unread" /\ <<h[1], "read">> \notin handled
                        THEN swapped \cup {h[1]} ELSE swapped
    BY <1>2 DEF Handle
  <2>2. h \notin handled
    BY DEF LineInv, OnePlace
  <2>3. PICK r \in Readers : h = <<r, "read">> \/ h = <<r, "unread">>
    BY DEF TypeOK, Hooks
  <2>4. count \in Nat /\ Cardinality(Joined) \in Nat /\ Cardinality(Left) \in Nat
    BY FS_CardinalityType DEF TypeOK, CountInv
  <2>5. CASE h = <<r, "read">>
    <3>1. Joined' = Joined \cup {r} /\ r \notin Joined /\ Left' = Left
      BY <2>1, <2>2, <2>5 DEF Joined, Left
    <3>2. IsFiniteSet(Joined') /\ Cardinality(Joined') = Cardinality(Joined) + 1
      BY <3>1, FS_AddElement DEF CountInv
    <3>3. count' = count + 1 /\ swapped' = swapped
      BY <2>1, <2>5 DEF ViewerCount
    <3> QED
      BY <2>4, <3>1, <3>2, <3>3 DEF CountInv
  <2>6. CASE h = <<r, "unread">>
    <3>1. Left' = Left \cup {r} /\ r \notin Left /\ Joined' = Joined
      BY <2>1, <2>2, <2>6 DEF Joined, Left
    <3>2. IsFiniteSet(Left') /\ Cardinality(Left') = Cardinality(Left) + 1
      BY <3>1, FS_AddElement DEF CountInv
    <3>3. count' = IF count > 0 THEN count - 1 ELSE 0
      BY <2>1, <2>6 DEF ViewerCount
    <3>4. ASSUME swapped' = {}
          PROVE  swapped = {} /\ r \in Joined /\ count > 0
      <4>1. swapped = {} /\ r \in Joined
        BY <2>1, <2>6, <3>4 DEF Joined
      <4>2. Left \subseteq Joined /\ count + Cardinality(Left) = Cardinality(Joined)
        BY <4>1 DEF CountInv
      <4>3. Cardinality(Left) # Cardinality(Joined)
        BY <3>1, <4>1, <4>2, FS_Subset DEF CountInv
      <4> QED
        BY <2>4, <4>1, <4>2, <4>3
    <3>5. count' + Cardinality(Left') >= Cardinality(Joined')
      BY <2>4, <3>1, <3>2, <3>3 DEF CountInv
    <3>6. swapped' = {} => /\ Left' \subseteq Joined'
                           /\ count' + Cardinality(Left') = Cardinality(Joined')
      BY <2>4, <3>1, <3>2, <3>3, <3>4 DEF CountInv
    <3> QED
      BY <3>1, <3>2, <3>5, <3>6 DEF CountInv
  <2> QED
    BY <2>3, <2>5, <2>6
<1> QED
  BY <1>1, <1>2

LEMMA CountNext ==
  ASSUME TypeOK, LineInv, CountInv, [Next]_vars
  PROVE  CountInv'
<1>1. CASE UNCHANGED counts
  BY <1>1 DEF counts, CountInv, Joined, Left
<1>2. UNCHANGED counts \/ Handle
  BY DEF Next, vars, HookSteps, Accept, Stop, server, counts,
         ReaderConnects, ReaderLeaves, HookConnects, HookGivesUp, HookWrites, HookEnds,
         HookBreaks, HookDies, Leave, Create, Publish, Connect, Unblocked, Returned,
         ConnectFailed, Read, Close, StopBegins, Cancel, StopCloses, Join
<1> QED
  BY <1>1, <1>2, HandleCounts

\* When every event there was is handled the count is not too low, and exact if
\* no unread overtook its read (main.cpp:896-897).
THEOREM CountAlwaysTracks == Spec => []CountTracksReaders
<1>1. TypeOK /\ LineInv /\ CountInv => CountTracksReaders
  <2> SUFFICES ASSUME TypeOK, LineInv, CountInv, Settled
               PROVE  /\ count >= Cardinality(Watching)
                      /\ swapped = {} => count = Cardinality(Watching)
    BY DEF CountTracksReaders
  <2>1. \A r \in Readers : /\ r \in Joined <=> hook[<<r, "read">>] # "none"
                           /\ r \in Left <=> hook[<<r, "unread">>] # "none"
    BY DEF Settled, Hooks, LineInv, OnePlace, Joined, Left
  <2>2. Watching = Joined \ Left /\ Left \subseteq Joined
    BY <2>1 DEF Watching, Joined, Left, LineInv, ReadFirst
  <2>3. Joined \cap Left = Left
    BY <2>2
  <2>4. Cardinality(Watching) = Cardinality(Joined) - Cardinality(Left)
    <3>1. Cardinality(Joined \ Left) = Cardinality(Joined) - Cardinality(Joined \cap Left)
      BY FS_Difference, Zenon DEF CountInv
    <3> QED
      BY <2>2, <2>3, <3>1
  <2>5. count \in Nat /\ Cardinality(Joined) \in Nat /\ Cardinality(Left) \in Nat
    BY FS_CardinalityType DEF TypeOK, CountInv
  <2> QED
    BY <2>4, <2>5 DEF CountInv
<1> QED
  BY <1>1, TypeInit, TypeNext, LineInit, LineNext, CountInit, CountNext, PTL DEF Spec
=============================================================================
