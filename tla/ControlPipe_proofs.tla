-------------------------- MODULE ControlPipe_proofs --------------------------
(* Proofs about ControlPipe, for any number of publishers, instances,        *)
(* requests and events and any buffer.                                       *)
EXTENDS ControlPipe, TLAPS

\* pipe_ is empty where the accept thread is about to create an instance or has
\* just created one; elsewhere it is empty or holds the instance there is.
HandleInv ==
  /\ inst = [id |-> inst.id, came |-> inst.came, here |-> inst.here,
             in |-> inst.in, out |-> inst.out]
  /\ pc \in {"check", "created", "ended"} => pipe = 0
  /\ pc = "created" => inst.id = made
  /\ pc = "terminated" \/ pipe = 0 \/ inst.id = pipe

LEMMA HandleInit == Init => HandleInv
BY DEF Init, NoInst, HandleInv

\* The client changes what is in the instance, not which one it is.
LEMMA ClientKeeps ==
  ASSUME HandleInv,
         ClientConnects \/ ClientReads \/ ClientLeaves \/ (\E k \in Kinds : ClientSends(k))
  PROVE  HandleInv'
<1>1. UNCHANGED <<pc, made, pipe>>
  BY DEF ClientConnects, ClientReads, ClientLeaves, ClientSends, handle
<1>2. /\ inst'.id = inst.id
      /\ inst' = [id |-> inst'.id, came |-> inst'.came, here |-> inst'.here,
                  in |-> inst'.in, out |-> inst'.out]
  BY DEF HandleInv, ClientConnects, ClientReads, ClientLeaves, ClientSends
<1> QED  BY <1>1, <1>2 DEF HandleInv

\* A writer moves the accept thread from its answer to the next line or to the
\* end of the connection, and leaves the handle alone.
LEMMA WritersKeep ==
  ASSUME HandleInv, pc # "terminated", NEW t \in Threads, PublishEvent(t) \/ WritePipe(t)
  PROVE  HandleInv'
<1>1. UNCHANGED <<made, pipe>> /\ pc' \in {pc, "head", "cleanup"}
  BY DEF PublishEvent, WritePipe, TakeHandle, Write, Returns, handle
<1>2. /\ inst'.id = inst.id
      /\ inst' = [id |-> inst'.id, came |-> inst'.came, here |-> inst'.here,
                  in |-> inst'.in, out |-> inst'.out]
  BY DEF HandleInv, PublishEvent, WritePipe, TakeHandle, Write
<1> QED  BY <1>1, <1>2 DEF HandleInv

LEMMA AcceptKeeps ==
  ASSUME HandleInv, pc # "terminated", Accept
  PROVE  HandleInv'
<1> USE DEF HandleInv, handle
<1>1. CASE Create
  BY <1>1 DEF Create, NoInst
<1>2. CASE Publish
  BY <1>2 DEF Publish, NoInst
<1>3. CASE Connect \/ LoopHead \/ FlagClient
  BY <1>3 DEF Connect, LoopHead, FlagClient
<1>4. CASE ConnectReturned
  BY <1>4 DEF ConnectReturned, ClosePipe, NoInst
<1>5. CASE NextLine
  <2>1. UNCHANGED <<made, pipe>> /\ pc' \in {"handle", "cleanup"}
    BY <1>5 DEF NextLine
  <2>2. /\ inst'.id = inst.id
        /\ inst' = [id |-> inst'.id, came |-> inst'.came, here |-> inst'.here,
                    in |-> inst'.in, out |-> inst'.out]
    BY <1>5 DEF NextLine
  <2> QED  BY <2>1, <2>2
<1>6. CASE Garbled \/ HandlerBegins \/ HandlerReturns
  BY <1>6 DEF Garbled, HandlerBegins, HandlerReturns, Reply
<1>7. CASE NotAnObject
  BY <1>7 DEF NotAnObject, NoInst
<1>8. CASE Cleanup
  BY <1>8 DEF Cleanup, ClosePipe, NoInst
<1> QED
  BY <1>1, <1>2, <1>3, <1>4, <1>5, <1>6, <1>7, <1>8 DEF Accept

\* Stop closes what is published, and only that: an instance just created is
\* left to the accept thread, which sees stop_ before it publishes it.
LEMMA StopKeeps ==
  ASSUME HandleInv, StopBegins \/ StopCloses \/ Join
  PROVE  HandleInv'
<1>1. CASE StopBegins \/ Join
  BY <1>1 DEF StopBegins, Join, handle, HandleInv
<1>2. CASE StopCloses
  BY <1>2 DEF StopCloses, ClosePipe, NoInst, HandleInv
<1> QED  BY <1>1, <1>2

LEMMA HandleNext == HandleInv /\ [Next]_vars => HandleInv'
<1> SUFFICES ASSUME HandleInv, [Next]_vars
             PROVE  HandleInv'
  OBVIOUS
<1>1. CASE UNCHANGED vars
  BY <1>1 DEF vars, HandleInv
<1>2. CASE Next
  BY <1>2, ClientKeeps, WritersKeep, AcceptKeeps, StopKeeps DEF Next
<1> QED  BY <1>1, <1>2

\* Wherever Stop falls among the steps of the accept thread, and whatever is
\* being written, the handle in pipe_ is open until it is forgotten: nobody
\* closes the handle of an instance that is gone.
THEOREM PublishedAlwaysOpen == Spec => []PublishedHandleOpen
<1>1. HandleInv => PublishedHandleOpen
  BY DEF HandleInv, PublishedHandleOpen
<1> QED
  BY <1>1, HandleInit, HandleNext, PTL DEF Spec

-----------------------------------------------------------------------------
(* Answers: what is under way on a connection, from the client's line to the *)
(* answer it reads.                                                          *)

Messages == [conn : Nat, n : Nat]
Requests == [conn : Nat, n : Nat \ {0}, kind : Kinds]
Instances == [id : Nat, came : BOOLEAN, here : BOOLEAN, in : Seq(Requests), out : Seq(Messages)]

TypeOK ==
  /\ inst \in Instances /\ made \in Nat
  /\ buffer \in Seq(Requests) /\ request \in Seq(Requests)
  /\ wr \in [Threads -> [at : {"idle", "lock", "write"}, p : Nat, msg : Messages]]
  /\ pipe \in Nat /\ sent \in Nat /\ got \in Seq(Messages)

\* The states of the accept thread in which it has a line to answer, and those in
\* which it serves a client.
Answering == {"handle", "handler", "answer"}
ServingPcs == Answering \cup {"head", "read"}

\* Lines of the client that are under way: the one worked on, those the
\* LineReader holds, those in the pipe.
Taken == IF pc \in Answering THEN 1 ELSE 0
Held == IF pc \in ServingPcs THEN Len(buffer) ELSE 0
Answered == sent - Len(inst.in) - Held - Taken

\* A request of the client that is there, with its number.
IsRequest(rq, n) == rq.conn = inst.id /\ rq.n = n

\* What is under way are the last requests the client sent, in their order, and
\* what it was answered are the others.
LinesInv == inst.here /\ pc # "cleanup" =>
  /\ Answered \in Nat
  /\ AnswersOf(inst.id, got \o inst.out, Answered)
  /\ pc \in Answering => IsRequest(request[1], Answered + 1)
  /\ pc \in ServingPcs =>
       \A k \in 1..Len(buffer) : IsRequest(buffer[k], Answered + Taken + k)
  /\ \A k \in 1..Len(inst.in) : IsRequest(inst.in[k], Answered + Taken + Held + k)

\* An instance without a client is empty; one that is gone is not served on.
ClientInv ==
  /\ inst.here => inst.came
  /\ ~inst.came => inst.in = <<>> /\ inst.out = <<>>
  /\ pc \in ServingPcs \cup {"flag", "cleanup"} => inst.came \/ inst.id = 0
  /\ pipe = 0 /\ pc # "created" => inst.id = 0 /\ ~inst.here
  /\ pc = "came" => inst.came \/ inst.id = 0 \/ stop
  /\ pc = "created" => made > 0

\* An answer is written by the accept thread only, to the request it works on.
WriterInv ==
  /\ \A t \in Threads \ {"ipc"} : wr[t].msg = Event
  /\ wr["ipc"].msg = IF pc = "answer" THEN [conn |-> request[1].conn, n |-> request[1].n]
                     ELSE Event
  /\ pc \in Answering => Len(request) = 1

AnswerInv == LinesInv /\ ClientInv /\ WriterInv

-----------------------------------------------------------------------------
(* Sequences.                                                                *)

LEMMA EmptyTyped == ASSUME NEW S PROVE <<>> \in Seq(S)
OBVIOUS

LEMMA AppendTyped ==
  ASSUME NEW S, NEW s \in Seq(S), NEW x \in S
  PROVE  Append(s, x) \in Seq(S)
OBVIOUS

LEMMA HeadTail ==
  ASSUME NEW S, NEW s \in Seq(S), s # <<>>
  PROVE  /\ Head(s) \in S /\ Head(s) = s[1]
         /\ Tail(s) \in Seq(S) /\ Len(s) \in Nat /\ Len(s) > 0 /\ Len(Tail(s)) = Len(s) - 1
         /\ \A k \in 1..Len(Tail(s)) : Tail(s)[k] = s[k + 1]
OBVIOUS

LEMMA WrittenLast ==
  ASSUME NEW S, NEW s \in Seq(S), NEW r \in Seq(S), NEW x \in S
  PROVE  s \o Append(r, x) = Append(s \o r, x)
OBVIOUS

LEMMA ReadFirst ==
  ASSUME NEW S, NEW s \in Seq(S), NEW r \in Seq(S), r # <<>>
  PROVE  Append(s, Head(r)) \o Tail(r) = s \o r
OBVIOUS

LEMMA NoAnswers ==
  ASSUME NEW conn
  PROVE  AnswersOf(conn, <<>> \o <<>>, 0)
BY DEF AnswersOf

LEMMA EventAppended ==
  ASSUME NEW conn, NEW s \in Seq(Messages), NEW count \in Nat, AnswersOf(conn, s, count)
  PROVE  AnswersOf(conn, Append(s, Event), count)
BY DEF AnswersOf, IsAnswer

LEMMA AnswerAppended ==
  ASSUME NEW conn \in Nat, NEW s \in Seq(Messages), NEW count \in Nat,
         AnswersOf(conn, s, count)
  PROVE  AnswersOf(conn, Append(s, [conn |-> conn, n |-> count + 1]), count + 1)
<1> DEFINE m == [conn |-> conn, n |-> count + 1]
           t == Append(s, m)
<1>1. Len(s) \in Nat /\ DOMAIN s = 1..Len(s) /\ DOMAIN t = 1..(Len(s) + 1)
  OBVIOUS
<1>2. t[Len(s) + 1] = m /\ \A i \in 1..Len(s) : t[i] = s[i]
  OBVIOUS
<1>3. IsAnswer(m) /\ m.conn = conn /\ m.n = count + 1
  BY DEF IsAnswer, Event
<1> HIDE DEF m, t
<1>4. \A i \in DOMAIN t : IsAnswer(t[i]) => t[i].conn = conn /\ t[i].n \in 1..(count + 1)
  BY <1>1, <1>2, <1>3 DEF AnswersOf
<1>5. \A i, j \in DOMAIN t : i < j /\ IsAnswer(t[i]) /\ IsAnswer(t[j]) => t[i].n < t[j].n
  BY <1>1, <1>2, <1>3 DEF AnswersOf
<1>6. ASSUME NEW n \in 1..(count + 1)
      PROVE  \E i \in DOMAIN t : IsAnswer(t[i]) /\ t[i].n = n
  <2>1. CASE n = count + 1
    BY <1>1, <1>2, <1>3, <2>1
  <2>2. CASE n \in 1..count
    BY <1>1, <1>2, <2>2 DEF AnswersOf
  <2> QED
    BY <2>1, <2>2
<1>7. AnswersOf(conn, t, count + 1)
  BY <1>4, <1>5, <1>6 DEF AnswersOf
<1> QED
  BY <1>7 DEF t, m

-----------------------------------------------------------------------------
(* Type correctness.                                                         *)

LEMMA NoInstTyped == NoInst \in Instances /\ \A k \in Nat : [NoInst EXCEPT !.id = k] \in Instances
BY EmptyTyped DEF NoInst, Instances

LEMMA EventTyped == Event \in Messages
BY DEF Event, Messages

LEMMA TypeInit == Init => TypeOK
<1> SUFFICES ASSUME Init PROVE TypeOK
  OBVIOUS
<1>1. Idle \in [at : {"idle", "lock", "write"}, p : Nat, msg : Messages]
  BY EventTyped DEF Idle
<1>2. inst \in Instances
  BY NoInstTyped DEF Init
<1> QED
  BY <1>1, <1>2, EmptyTyped DEF Init, TypeOK

\* What changes the instance changes one part of it.
LEMMA InstTyped ==
  ASSUME NEW i \in Instances
  PROVE  /\ i.id \in Nat /\ i.came \in BOOLEAN /\ i.here \in BOOLEAN
         /\ i.in \in Seq(Requests) /\ i.out \in Seq(Messages)
         /\ [i EXCEPT !.came = TRUE, !.here = TRUE] \in Instances
         /\ \A s \in Seq(Requests) : [i EXCEPT !.in = s] \in Instances
         /\ \A s \in Seq(Messages) : /\ [i EXCEPT !.out = s] \in Instances
                                     /\ [i EXCEPT !.here = FALSE, !.out = s] \in Instances
BY DEF Instances

LEMMA ClientTyped ==
  ASSUME TypeOK,
         ClientConnects \/ ClientReads \/ ClientLeaves \/ (\E k \in Kinds : ClientSends(k))
  PROVE  TypeOK'
<1> USE DEF handle, client
<1>1. CASE ClientConnects
  BY <1>1, InstTyped, EmptyTyped DEF ClientConnects, TypeOK
<1>2. ASSUME NEW k \in Kinds, ClientSends(k)
      PROVE  TypeOK'
  <2>0. sent \in Nat /\ inst \in Instances
    BY DEF TypeOK
  <2>1. sent' \in Nat \ {0} /\ inst.id \in Nat /\ inst.in \in Seq(Requests)
    <3>1. sent' = sent + 1
      BY <1>2 DEF ClientSends
    <3>2. sent' \in Nat \ {0}
      BY <2>0, <3>1
    <3>3. inst.id \in Nat /\ inst.in \in Seq(Requests)
      BY <2>0, InstTyped
    <3> QED
      BY <3>2, <3>3
  <2>2. [conn |-> inst.id, n |-> sent', kind |-> k] \in Requests
    BY <2>1 DEF Requests
  <2>3. inst' \in Instances
    BY <1>2, <2>1, <2>2, AppendTyped, InstTyped DEF ClientSends, TypeOK
  <2> QED
    BY <1>2, <2>1, <2>3 DEF ClientSends, TypeOK
<1>3. CASE ClientReads
  <2>1. Head(inst.out) \in Messages /\ Tail(inst.out) \in Seq(Messages)
    BY <1>3, InstTyped, HeadTail DEF ClientReads, TypeOK
  <2>2. got' \in Seq(Messages) /\ inst' \in Instances
    BY <1>3, <2>1, AppendTyped, InstTyped DEF ClientReads, TypeOK
  <2> QED
    BY <1>3, <2>2 DEF ClientReads, TypeOK
<1>4. CASE ClientLeaves
  <2>1. inst \in Instances /\ <<>> \in Seq(Messages)
    BY EmptyTyped DEF TypeOK
  <2>2. inst' \in Instances
    BY <1>4, <2>1, InstTyped DEF ClientLeaves
  <2> QED
    BY <1>4, <2>2 DEF ClientLeaves, TypeOK
<1> QED
  BY <1>1, <1>2, <1>3, <1>4

LEMMA WritersTyped ==
  ASSUME TypeOK, NEW t \in Threads, PublishEvent(t) \/ WritePipe(t)
  PROVE  TypeOK'
<1> USE DEF handle, client
<1>1. Idle \in [at : {"idle", "lock", "write"}, p : Nat, msg : Messages]
  BY EventTyped DEF Idle
<1>2. wr' \in [Threads -> [at : {"idle", "lock", "write"}, p : Nat, msg : Messages]]
  <2>1. wr \in [Threads -> [at : {"idle", "lock", "write"}, p : Nat, msg : Messages]] /\ pipe \in Nat
    BY DEF TypeOK
  <2>2. wr' = [wr EXCEPT ![t] = Idle] \/ wr' = [wr EXCEPT ![t].at = "write", ![t].p = pipe]
        \/ wr' = [wr EXCEPT ![t] = [Idle EXCEPT !.at = "lock"]]
    BY DEF PublishEvent, WritePipe, TakeHandle, Write, Returns
  <2> QED
    BY <1>1, <2>1, <2>2
<1>3. wr[t].msg \in Messages
  BY DEF TypeOK
<1>4. inst' \in Instances
  <2>1. inst \in Instances
    BY DEF TypeOK
  <2>2. inst' = inst \/ inst' = [inst EXCEPT !.out = Append(@, wr[t].msg)]
    BY DEF PublishEvent, WritePipe, TakeHandle, Write
  <2>3. Append(inst.out, wr[t].msg) \in Seq(Messages)
    BY <1>3, <2>1, AppendTyped, InstTyped
  <2>4. [inst EXCEPT !.out = Append(inst.out, wr[t].msg)] \in Instances
    BY <2>1, <2>3, InstTyped
  <2> QED
    BY <2>1, <2>2, <2>4
<1>5. UNCHANGED <<made, pipe, buffer, request, sent, got>>
  BY DEF PublishEvent, WritePipe, TakeHandle, Write
<1> QED
  BY <1>2, <1>4, <1>5 DEF TypeOK

LEMMA AcceptTyped ==
  ASSUME TypeOK, WriterInv, Accept
  PROVE  TypeOK'
<1> USE DEF handle, client
<1>1. CASE Create
  <2>1. made + 1 \in Nat
    BY DEF TypeOK
  <2> QED
    BY <1>1, <2>1, NoInstTyped DEF Create, TypeOK
<1>2. CASE Publish \/ Connect \/ ConnectReturned \/ FlagClient \/ LoopHead \/ NotAnObject \/ Cleanup
  <2>1. /\ inst' = inst \/ inst' = NoInst
        /\ pipe' \in {pipe, made, 0}
        /\ buffer' = buffer \/ buffer' = <<>>
        /\ UNCHANGED <<made, request, wr, sent, got>>
    BY <1>2 DEF Publish, Connect, ConnectReturned, FlagClient, LoopHead, NotAnObject, Cleanup,
                ClosePipe
  <2>2. NoInst \in Instances /\ <<>> \in Seq(Requests)
    BY NoInstTyped, EmptyTyped
  <2>3. inst' \in Instances /\ buffer' \in Seq(Requests) /\ pipe' \in Nat
    <3>1. inst \in Instances /\ buffer \in Seq(Requests) /\ pipe \in Nat /\ made \in Nat
      BY DEF TypeOK
    <3>2. pipe' \in Nat
      BY <2>1, <3>1
    <3>3. buffer' \in Seq(Requests)
      BY <2>1, <2>2, <3>1
    <3> QED
      BY <2>1, <2>2, <3>1, <3>2, <3>3
  <2> QED
    BY <2>1, <2>3 DEF TypeOK
<1>3. CASE NextLine
  <2>1. inst.in \in Seq(Requests) /\ <<>> \in Seq(Requests)
    BY InstTyped, EmptyTyped DEF TypeOK
  <2> DEFINE chunk == IF buffer = <<>> THEN inst.in ELSE buffer
  <2>2. chunk \in Seq(Requests)
    BY <2>1 DEF TypeOK
  <2>3. chunk # <<>> => Head(chunk) \in Requests /\ Tail(chunk) \in Seq(Requests)
    BY <2>2, HeadTail
  <2>4. chunk # <<>> => <<Head(chunk)>> \in Seq(Requests)
    BY <2>3
  <2>5. [inst EXCEPT !.in = <<>>] \in Instances
    BY <2>1, InstTyped DEF TypeOK
  <2>6. \/ /\ chunk # <<>> /\ request' = <<Head(chunk)>> /\ buffer' = Tail(chunk)
           /\ inst' = IF buffer = <<>> THEN [inst EXCEPT !.in = <<>>] ELSE inst
        \/ UNCHANGED <<inst, buffer, request>>
    BY <1>3 DEF NextLine
  <2>7. inst' \in Instances /\ buffer' \in Seq(Requests) /\ request' \in Seq(Requests)
    BY <2>3, <2>4, <2>5, <2>6 DEF TypeOK
  <2> QED
    BY <1>3, <2>7 DEF NextLine, TypeOK
<1>4. CASE Garbled \/ HandlerBegins \/ HandlerReturns
  <2>1. pc \in Answering => request[1] \in Requests
    <3>1. request \in Seq(Requests)
      BY DEF TypeOK
    <3> QED
      BY <3>1 DEF WriterInv
  <2>2. wr' \in [Threads -> [at : {"idle", "lock", "write"}, p : Nat, msg : Messages]]
    <3>1. wr \in [Threads -> [at : {"idle", "lock", "write"}, p : Nat, msg : Messages]]
      BY DEF TypeOK
    <3>2. pc \in Answering => [conn |-> request[1].conn, n |-> request[1].n] \in Messages
      BY <2>1 DEF Requests, Messages
    <3>3. wr' = wr \/ wr' = [wr EXCEPT !["ipc"] = [at |-> "lock", p |-> 0,
                               msg |-> [conn |-> request[1].conn, n |-> request[1].n]]]
      BY <1>4 DEF Garbled, HandlerBegins, HandlerReturns, Reply
    <3>4. pc \in Answering
      BY <1>4 DEF Garbled, HandlerBegins, HandlerReturns, Answering
    <3> QED
      BY <3>1, <3>2, <3>3, <3>4
  <2> QED
    BY <1>4, <2>2 DEF Garbled, HandlerBegins, HandlerReturns, TypeOK
<1> QED
  BY <1>1, <1>2, <1>3, <1>4 DEF Accept

LEMMA TypeNext == TypeOK /\ WriterInv /\ [Next]_vars => TypeOK'
<1> SUFFICES ASSUME TypeOK, WriterInv, [Next]_vars PROVE TypeOK'
  OBVIOUS
<1>1. CASE UNCHANGED vars
  BY <1>1 DEF vars, TypeOK
<1>2. CASE StopBegins \/ StopCloses \/ Join
  <2>1. /\ inst' \in {inst, NoInst} /\ pipe' \in {pipe, 0}
        /\ UNCHANGED <<made, buffer, request, wr, sent, got>>
    BY <1>2 DEF StopBegins, StopCloses, Join, ClosePipe, handle, client
  <2> QED
    BY <2>1, NoInstTyped DEF TypeOK
<1> QED
  BY <1>1, <1>2, ClientTyped, WritersTyped, AcceptTyped DEF Next

-----------------------------------------------------------------------------
(* The answers.                                                              *)

LEMMA RequestTyped == ASSUME TypeOK, WriterInv, pc \in Answering
                      PROVE  request[1] \in Requests
<1>1. request \in Seq(Requests)
  BY DEF TypeOK
<1> QED
  BY <1>1 DEF WriterInv

LEMMA WriterInit == Init => WriterInv
BY DEF Init, WriterInv, Idle, Threads, Answering

LEMMA WriterNext ==
  ASSUME TypeOK, WriterInv, [Next]_vars
  PROVE  WriterInv'
<1>1. wr \in [Threads -> [at : {"idle", "lock", "write"}, p : Nat, msg : Messages]]
  BY DEF TypeOK
<1>2. "ipc" \in Threads
  BY DEF Threads
<1>3. CASE UNCHANGED <<wr, request>> /\ (pc' = pc \/ (pc' \notin Answering /\ pc # "answer")
                                        \/ (pc = "handle" /\ pc' = "handler"))
  BY <1>3 DEF WriterInv, Answering
<1>4. ASSUME NEW t \in Threads, PublishEvent(t) \/ WritePipe(t)
      PROVE  WriterInv'
  <2>1. wr[t].msg # Event => t = "ipc" /\ pc = "answer"
    BY DEF WriterInv
  <2>2. pc = "answer" => wr["ipc"].msg # Event
    <3>1. pc = "answer" => request[1].n # 0
      BY RequestTyped DEF Answering, Requests
    <3> QED
      BY <3>1 DEF WriterInv, Event
  <2> DEFINE Moved ==
        \/ /\ wr'[t].msg = Event /\ pc' = pc /\ (t # "ipc" \/ pc # "answer")
        \/ wr'[t].msg = wr[t].msg /\ pc' = pc
        \/ t = "ipc" /\ pc = "answer" /\ wr'[t].msg = Event /\ pc' \in {"head", "cleanup"}
  <2>3. Moved
    <3>1. CASE PublishEvent(t)
      <4>1. wr'[t] = [Idle EXCEPT !.at = "lock"] /\ pc' = pc
        BY <1>1, <3>1 DEF PublishEvent
      <4>2. t # "ipc" \/ pc # "answer"
        BY <3>1, ControlPipeAssumption DEF PublishEvent
      <4> QED
        BY <4>1, <4>2 DEF Idle
    <3>2. ASSUME NEW ok \in BOOLEAN, Returns(t, ok)
          PROVE  Moved
      <4>1. /\ wr'[t].msg = Event
            /\ pc' = IF wr[t].msg = Event THEN pc ELSE IF ok THEN "head" ELSE "cleanup"
        BY <1>1, <3>2 DEF Returns, Idle
      <4> QED
        BY <2>1, <2>2, <4>1
    <3>3. CASE TakeHandle(t)
      <4>1. CASE connected /\ pipe # 0
        <5>1. pc' = pc /\ wr' = [wr EXCEPT ![t].at = "write", ![t].p = pipe]
          BY <3>3, <4>1 DEF TakeHandle
        <5> QED
          BY <1>1, <5>1
      <4> QED
        BY <3>2, <3>3, <4>1 DEF TakeHandle
    <3>4. CASE Write(t)
      BY <3>2, <3>4 DEF Write
    <3> QED
      BY <1>4, <3>1, <3>3, <3>4 DEF WritePipe
  <2>4. /\ \A u \in Threads : u # t => wr'[u] = wr[u]
        /\ request' = request
    BY <1>1, <1>4 DEF PublishEvent, WritePipe, TakeHandle, Write, Returns
  <2> QED
    BY <1>2, <2>3, <2>4 DEF WriterInv, Answering
<1>5. CASE NextLine
  <2>1. /\ wr' = wr /\ pc = "read"
        /\ \/ pc' = "handle" /\ Len(request') = 1
           \/ pc' = "cleanup"
    BY <1>5 DEF NextLine
  <2> QED
    BY <2>1 DEF WriterInv, Answering
<1>6. CASE Garbled \/ HandlerReturns
  <2>1. pc \in Answering /\ pc' = "answer" /\ request' = request
    BY <1>6 DEF Garbled, HandlerReturns, Reply, Answering
  <2>2. wr' = [wr EXCEPT !["ipc"] = [at |-> "lock", p |-> 0,
                msg |-> [conn |-> request[1].conn, n |-> request[1].n]]]
    BY <1>6 DEF Garbled, HandlerReturns, Reply
  <2>3. /\ wr'["ipc"].msg = [conn |-> request[1].conn, n |-> request[1].n]
        /\ \A u \in Threads : u # "ipc" => wr'[u] = wr[u]
    BY <1>1, <1>2, <2>2
  <2> QED
    BY <2>1, <2>3 DEF WriterInv
<1>7. CASE UNCHANGED vars
  BY <1>3, <1>7 DEF vars
<1>8. CASE ClientConnects \/ ClientReads \/ ClientLeaves \/ (\E k \in Kinds : ClientSends(k))
           \/ StopBegins \/ StopCloses \/ Join
  BY <1>3, <1>8 DEF ClientConnects, ClientReads, ClientLeaves, ClientSends,
                    StopBegins, StopCloses, Join
<1>9. CASE Create \/ Publish \/ Connect \/ ConnectReturned \/ FlagClient \/ LoopHead
           \/ NotAnObject \/ HandlerBegins \/ Cleanup
  BY <1>3, <1>9 DEF Create, Publish, Connect, ConnectReturned, FlagClient, LoopHead,
                    NotAnObject, HandlerBegins, Cleanup, Answering
<1> QED
  BY <1>4, <1>5, <1>6, <1>7, <1>8, <1>9 DEF Next, Accept

LEMMA ClientInit == Init => ClientInv
BY DEF Init, NoInst, ClientInv, ServingPcs, Answering

LEMMA ClientNext ==
  ASSUME TypeOK, HandleInv, ClientInv, WriterInv, [Next]_vars
  PROVE  ClientInv'
<1> USE DEF handle, stopping, ServingPcs, Answering
<1>0. inst \in Instances /\ made \in Nat
  BY DEF TypeOK
<1>1. CASE UNCHANGED vars
  BY <1>1 DEF vars, ClientInv
<1>2. CASE ClientConnects \/ ClientReads \/ ClientLeaves \/ (\E k \in Kinds : ClientSends(k))
  BY <1>0, <1>2 DEF ClientConnects, ClientReads, ClientLeaves, ClientSends, ClientInv, Instances
<1>3. ASSUME NEW t \in Threads, PublishEvent(t) \/ WritePipe(t)
      PROVE  ClientInv'
  <2>1. UNCHANGED <<made, pipe, stop>> /\ (pc' = pc \/ (pc' \in {"head", "cleanup"} /\ wr[t].msg # Event))
    BY <1>3 DEF PublishEvent, WritePipe, TakeHandle, Write, Returns
  <2>2. inst' = inst \/ (inst.here /\ inst' = [inst EXCEPT !.out = Append(@, wr[t].msg)])
    BY <1>3 DEF PublishEvent, WritePipe, TakeHandle, Write
  <2> QED
    <3>1. /\ inst'.id = inst.id /\ inst'.here = inst.here /\ inst'.came = inst.came
          /\ inst'.in = inst.in /\ (inst'.out = inst.out \/ inst.here)
      BY <1>0, <2>2 DEF Instances
    <3>2. wr[t].msg # Event => t = "ipc" /\ pc = "answer"
      BY DEF WriterInv
    <3> QED
      BY <2>1, <3>1, <3>2 DEF ClientInv
<1>4. CASE Connect \/ FlagClient \/ LoopHead
  BY <1>4 DEF Connect, FlagClient, LoopHead, ClientInv
<1>5. CASE Create
  <2>1. \/ pc' = "ended" /\ UNCHANGED <<inst, pipe>>
        \/ /\ inst'.came = FALSE /\ inst'.here = FALSE /\ inst'.in = <<>> /\ inst'.out = <<>>
           /\ pc' = "created" /\ made' > 0
    BY <1>0, <1>5 DEF Create, NoInst
  <2> QED
    BY <1>5, <2>1 DEF Create, ClientInv
<1>6. ASSUME pipe' = 0, inst' = NoInst, pc' \notin {"flag", "created"} \cup ServingPcs
      PROVE  ClientInv'
  BY <1>6 DEF ClientInv, NoInst
<1>7. CASE Publish
  <2>1. CASE stop
    BY <1>6, <1>7, <2>1 DEF Publish, HandleInv
  <2>2. CASE ~stop
    <3>1. pc' = "connect" /\ pipe' = made /\ inst' = inst /\ pc = "created" /\ inst.id = made
      BY <1>7, <2>2 DEF Publish, HandleInv
    <3> QED
      BY <3>1 DEF ClientInv
  <2> QED
    BY <2>1, <2>2
<1>8. ASSUME ClosePipe, pc # "created", pc' \notin {"flag", "created", "cleanup"} \cup ServingPcs
      PROVE  ClientInv'
  <2>1. CASE pipe = 0
    BY <1>8, <2>1 DEF ClosePipe, ClientInv
  <2>2. CASE pipe # 0
    BY <1>6, <1>8, <2>2 DEF ClosePipe
  <2> QED
    BY <2>1, <2>2
<1>9. CASE ConnectReturned
  <2>1. CASE stop \/ pc = "failed"
    BY <1>8, <1>9, <2>1 DEF ConnectReturned
  <2>2. CASE ~stop /\ pc = "came"
    BY <1>9, <2>2 DEF ConnectReturned, ClientInv
  <2> QED
    BY <1>9, <2>1, <2>2 DEF ConnectReturned
<1>10. CASE Cleanup
  BY <1>8, <1>10 DEF Cleanup
<1>11. CASE NotAnObject
  <2>1. inst' = NoInst /\ pc' = "terminated"
    BY <1>11 DEF NotAnObject
  <2> QED
    BY <2>1 DEF ClientInv, NoInst
<1>12. CASE StopCloses
  <2>1. CASE pipe = 0
    BY <1>12, <2>1 DEF StopCloses, ClosePipe, ClientInv
  <2>2. CASE pipe # 0
    <3>1. pipe' = 0 /\ inst' = NoInst /\ pc' = pc /\ made' = made
      BY <1>12, <2>2 DEF StopCloses, ClosePipe
    <3> QED
      BY <3>1 DEF ClientInv, NoInst
  <2> QED
    BY <2>1, <2>2
<1>13. CASE NextLine
  BY <1>0, <1>13 DEF NextLine, ClientInv, Instances
<1>14. CASE Garbled \/ HandlerBegins \/ HandlerReturns \/ StopBegins \/ Join
  BY <1>14 DEF Garbled, HandlerBegins, HandlerReturns, Reply, StopBegins, Join, ClientInv
<1> QED
  BY <1>1, <1>2, <1>3, <1>4, <1>5, <1>7, <1>9, <1>10, <1>11, <1>12, <1>13, <1>14 DEF Next, Accept


-----------------------------------------------------------------------------
\* The lengths LinesInv counts with.
LEMMA LengthsTyped ==
  ASSUME TypeOK
  PROVE  /\ sent \in Nat /\ Len(inst.in) \in Nat /\ Len(buffer) \in Nat
         /\ Held \in Nat /\ Taken \in Nat
<1>1. sent \in Nat /\ inst.in \in Seq(Requests) /\ buffer \in Seq(Requests)
  BY DEF TypeOK, Instances
<1>2. Len(inst.in) \in Nat /\ Len(buffer) \in Nat
  BY <1>1
<1> QED
  BY <1>1, <1>2 DEF Held, Taken

\* A step of the accept thread that leaves the lines where they are.
LEMMA LinesStay ==
  ASSUME LinesInv, pc # "cleanup",
         UNCHANGED <<inst, sent, got, request>>,
         pc' \in Answering <=> pc \in Answering,
         pc' \in ServingPcs <=> pc \in ServingPcs,
         buffer' = buffer
  PROVE  LinesInv'
<1>1. Taken' = Taken /\ Held' = Held
  BY DEF Taken, Held
<1>2. Answered' = Answered
  BY <1>1 DEF Answered
<1> QED
  BY <1>1, <1>2 DEF LinesInv, IsRequest

LEMMA LinesInit == Init => LinesInv
BY DEF Init, NoInst, LinesInv

LEMMA ClientLines ==
  ASSUME TypeOK, ClientInv, LinesInv, pc # "cleanup",
         ClientConnects \/ ClientReads \/ ClientLeaves \/ (\E k \in Kinds : ClientSends(k))
  PROVE  LinesInv'
<1> USE DEF handle
<1>0. /\ inst.id \in Nat /\ inst.in \in Seq(Requests) /\ inst.out \in Seq(Messages)
      /\ inst \in Instances /\ got \in Seq(Messages)
  BY DEF TypeOK, Instances
<1>1. CASE ClientConnects
  <2>1. /\ inst.id # 0 /\ ~inst.came /\ inst.in = <<>> /\ inst.out = <<>>
        /\ pc \notin ServingPcs /\ pc \notin Answering
    BY <1>1 DEF ClientConnects, ClientInv, ServingPcs
  <2>2. /\ inst'.in = <<>> /\ inst'.out = <<>> /\ sent' = 0 /\ got' = <<>> /\ pc' = pc
    BY <1>0, <1>1, <2>1 DEF ClientConnects, Instances
  <2>3. Taken' = 0 /\ Held' = 0 /\ Len(inst'.in) = 0 /\ sent' = 0
    BY <2>1, <2>2 DEF Taken, Held
  <2>4. Answered' = 0
    BY <2>3 DEF Answered
  <2>5. AnswersOf(inst'.id, got' \o inst'.out, Answered')
    BY <2>2, <2>4, NoAnswers
  <2> QED
    BY <2>1, <2>2, <2>3, <2>4, <2>5 DEF LinesInv
<1>2. CASE ClientReads
  <2>1. /\ inst'.id = inst.id /\ inst'.here = inst.here /\ inst'.in = inst.in
        /\ inst'.out = Tail(inst.out) /\ got' = Append(got, Head(inst.out)) /\ inst.out # <<>>
        /\ UNCHANGED <<pc, buffer, request, sent>>
    BY <1>0, <1>2 DEF ClientReads, Instances
  <2>2. got' \o inst'.out = got \o inst.out
    BY <1>0, <2>1, ReadFirst
  <2>3. Taken' = Taken /\ Held' = Held
    BY <2>1 DEF Taken, Held
  <2>4. Answered' = Answered
    BY <2>1, <2>3 DEF Answered
  <2> QED
    BY <2>1, <2>2, <2>3, <2>4 DEF LinesInv, IsRequest
<1>3. CASE ClientLeaves
  BY <1>0, <1>3 DEF ClientLeaves, Instances, LinesInv
<1>4. ASSUME NEW kind \in Kinds, ClientSends(kind)
      PROVE  LinesInv'
  <2> DEFINE rq == [conn |-> inst.id, n |-> sent + 1, kind |-> kind]
  <2>1. /\ inst.here /\ inst'.id = inst.id /\ inst'.here /\ inst'.in = Append(inst.in, rq)
        /\ inst'.out = inst.out /\ sent' = sent + 1
        /\ UNCHANGED <<pc, buffer, request, got>>
    BY <1>0, <1>4 DEF ClientSends, Instances
  <2>2. Taken' = Taken /\ Held' = Held
    BY <2>1 DEF Taken, Held
  <2>3. /\ Len(inst'.in) = Len(inst.in) + 1 /\ inst'.in[Len(inst.in) + 1] = rq
        /\ \A k \in 1..Len(inst.in) : inst'.in[k] = inst.in[k]
    BY <1>0, <2>1
  <2>4. Answered' = Answered
    BY <2>1, <2>2, <2>3, LengthsTyped DEF Answered
  <2>5. sent + 1 = Answered + Taken + Held + (Len(inst.in) + 1)
    BY LengthsTyped DEF Answered
  <2>6. rq.conn = inst.id /\ rq.n = sent + 1
    OBVIOUS
  <2> HIDE DEF rq
  <2>7. \A k \in 1..Len(inst'.in) :
           inst'.in[k].conn = inst'.id /\ inst'.in[k].n = Answered + Taken + Held + k
    <3> SUFFICES ASSUME NEW k \in 1..(Len(inst.in) + 1)
                 PROVE  inst'.in[k].conn = inst.id /\ inst'.in[k].n = Answered + Taken + Held + k
      BY <2>1, <2>3
    <3>1. CASE k = Len(inst.in) + 1
      BY <2>3, <2>5, <2>6, <3>1
    <3>2. CASE k \in 1..Len(inst.in)
      BY <2>1, <2>3, <3>2 DEF LinesInv, IsRequest
    <3> QED
      BY <3>1, <3>2, LengthsTyped
  <2>8. /\ Answered \in Nat
        /\ AnswersOf(inst.id, got \o inst.out, Answered)
        /\ pc \in Answering => IsRequest(request[1], Answered + 1)
        /\ pc \in ServingPcs =>
             \A k \in 1..Len(buffer) : IsRequest(buffer[k], Answered + Taken + k)
    BY <2>1 DEF LinesInv
  <2>9. UNCHANGED <<pc, buffer, request, got>> /\ inst'.id = inst.id /\ inst'.out = inst.out
    BY <2>1
  <2> QED
    BY <2>2, <2>4, <2>7, <2>8, <2>9 DEF LinesInv, IsRequest
<1> QED
  BY <1>1, <1>2, <1>3, <1>4

LEMMA WriterLines ==
  ASSUME TypeOK, WriterInv, LinesInv, pc # "cleanup", NEW t \in Threads,
         PublishEvent(t) \/ WritePipe(t)
  PROVE  LinesInv'
<1> USE DEF client, handle
<1>0. /\ inst.id \in Nat /\ inst.out \in Seq(Messages) /\ inst \in Instances
      /\ got \in Seq(Messages) /\ wr[t].msg \in Messages /\ got \o inst.out \in Seq(Messages)
  BY DEF TypeOK, Instances
<1>1. UNCHANGED <<buffer, request, sent, got>>
  BY DEF PublishEvent, WritePipe, TakeHandle, Write
<1>2. CASE UNCHANGED inst /\ pc' \in {pc, "cleanup"}
  <2>1. CASE pc' = pc
    BY <1>1, <1>2, <2>1, LinesStay
  <2>2. CASE pc' = "cleanup"
    BY <2>2 DEF LinesInv
  <2> QED
    BY <1>2, <2>1, <2>2
<1>3. CASE /\ inst.here /\ inst' = [inst EXCEPT !.out = Append(@, wr[t].msg)]
           /\ pc' = IF wr[t].msg = Event THEN pc ELSE "head"
  <2>1. /\ inst'.id = inst.id /\ inst'.here = inst.here /\ inst'.in = inst.in
        /\ got' \o inst'.out = Append(got \o inst.out, wr[t].msg)
    <3>1. inst'.id = inst.id /\ inst'.here = inst.here /\ inst'.in = inst.in
          /\ inst'.out = Append(inst.out, wr[t].msg)
      BY <1>0, <1>3 DEF Instances
    <3> QED
      BY <1>0, <1>1, <3>1, WrittenLast
  <2>2. /\ Answered \in Nat
        /\ AnswersOf(inst.id, got \o inst.out, Answered)
        /\ pc \in Answering => IsRequest(request[1], Answered + 1)
        /\ pc \in ServingPcs =>
             \A k \in 1..Len(buffer) : IsRequest(buffer[k], Answered + Taken + k)
        /\ \A k \in 1..Len(inst.in) : IsRequest(inst.in[k], Answered + Taken + Held + k)
    BY <1>3 DEF LinesInv
  <2>3. CASE wr[t].msg = Event
    <3>1. pc' = pc /\ AnswersOf(inst.id, got' \o inst'.out, Answered)
      BY <1>0, <1>3, <2>1, <2>2, <2>3, EventAppended
    <3>2. Taken' = Taken /\ Held' = Held
      BY <1>1, <3>1 DEF Taken, Held
    <3>3. Answered' = Answered
      BY <1>1, <2>1, <3>2 DEF Answered
    <3> QED
      BY <1>1, <2>1, <2>2, <3>1, <3>2, <3>3 DEF LinesInv, IsRequest
  <2>4. CASE wr[t].msg # Event
    <3>1. pc = "answer" /\ wr[t].msg = [conn |-> request[1].conn, n |-> request[1].n] /\ pc' = "head"
      BY <1>3, <2>4 DEF WriterInv
    <3>2. wr[t].msg = [conn |-> inst.id, n |-> Answered + 1]
      BY <2>2, <3>1 DEF IsRequest, Answering
    <3>3. AnswersOf(inst.id, got' \o inst'.out, Answered + 1)
      BY <1>0, <2>1, <2>2, <3>2, AnswerAppended
    <3>4. Taken = 1 /\ Taken' = 0 /\ Held' = Held
      BY <1>1, <3>1 DEF Taken, Held, Answering, ServingPcs
    <3>5. Answered' = Answered + 1
      BY <1>1, <2>1, <3>4, LengthsTyped DEF Answered
    <3>6. Answered' + Taken' = Answered + Taken
      BY <2>2, <3>4, <3>5
    <3>7. pc \in ServingPcs /\ pc' \notin Answering
      BY <3>1 DEF ServingPcs, Answering
    <3> QED
      BY <1>1, <2>1, <2>2, <3>3, <3>4, <3>5, <3>6, <3>7 DEF LinesInv, IsRequest
  <2> QED
    BY <2>3, <2>4
<1> QED
  BY <1>2, <1>3 DEF PublishEvent, WritePipe, TakeHandle, Write, Returns

LEMMA NextLineLines ==
  ASSUME TypeOK, LinesInv, NextLine
  PROVE  LinesInv'
<1> USE DEF handle, client
<1>0. /\ inst \in Instances /\ inst.in \in Seq(Requests) /\ buffer \in Seq(Requests)
      /\ pc = "read" /\ UNCHANGED <<sent, got>>
  BY DEF TypeOK, Instances, NextLine
<1>1. CASE pc' = "cleanup"
  BY <1>1 DEF LinesInv
<1> DEFINE chunk == IF buffer = <<>> THEN inst.in ELSE buffer
<1>2. CASE /\ chunk # <<>> /\ request' = <<Head(chunk)>> /\ buffer' = Tail(chunk)
           /\ pc' = "handle"
           /\ inst' = IF buffer = <<>> THEN [inst EXCEPT !.in = <<>>] ELSE inst
  <2> SUFFICES ASSUME inst'.here
               PROVE  LinesInv'
    BY DEF LinesInv
  <2>1. /\ inst'.id = inst.id /\ inst'.here = inst.here /\ inst'.out = inst.out
        /\ inst'.in = IF buffer = <<>> THEN <<>> ELSE inst.in
    BY <1>0, <1>2 DEF Instances
  <2>2. /\ Answered \in Nat
        /\ AnswersOf(inst.id, got \o inst.out, Answered)
        /\ \A k \in 1..Len(buffer) : IsRequest(buffer[k], Answered + k)
        /\ \A k \in 1..Len(inst.in) : IsRequest(inst.in[k], Answered + Held + k)
    <3>1. Taken = 0 /\ pc \in ServingPcs
      BY <1>0 DEF Taken, Answering, ServingPcs
    <3>2. inst.here /\ pc # "cleanup"
      BY <1>0, <2>1
    <3>3. Answered \in Nat
      BY <3>2 DEF LinesInv
    <3>4. Answered + Taken = Answered
      BY <3>1, <3>3
    <3> QED
      BY <3>1, <3>2, <3>3, <3>4 DEF LinesInv
  <2>3. /\ chunk \in Seq(Requests) /\ Head(chunk) = chunk[1]
        /\ Len(chunk) \in Nat /\ Len(chunk) > 0 /\ Len(Tail(chunk)) = Len(chunk) - 1
        /\ \A k \in 1..Len(Tail(chunk)) : Tail(chunk)[k] = chunk[k + 1]
    BY <1>0, <1>2, HeadTail
  <2>4. \A k \in 1..Len(chunk) : IsRequest(chunk[k], Answered + k)
    <3>1. CASE buffer = <<>>
      <4>1. Held = 0
        BY <1>0, <3>1 DEF Held
      <4> QED
        BY <2>2, <3>1, <4>1
    <3>2. CASE buffer # <<>>
      BY <2>2, <3>2
    <3> QED
      BY <3>1, <3>2
  <2>5. Taken' = 1 /\ Held' = Len(chunk) - 1 /\ Taken = 0 /\ Held = Len(buffer)
    BY <1>0, <1>2, <2>3 DEF Taken, Held, Answering, ServingPcs
  <2>6. Len(inst'.in) + Len(chunk) = Len(inst.in) + Len(buffer)
    <3>1. CASE buffer = <<>>
      <4>1. Len(inst'.in) = 0 /\ Len(buffer) = 0
        BY <2>1, <3>1
      <4> QED
        BY <3>1, <4>1, <2>3
    <3>2. CASE buffer # <<>>
      BY <2>1, <3>2, LengthsTyped
    <3> QED
      BY <3>1, <3>2
  <2>7. Len(inst'.in) \in Nat
    BY <1>0, <2>1
  <2> HIDE DEF chunk
  <2>8. Answered' = Answered
    <3>1. Answered = sent - Len(inst.in) - Len(buffer) - 0
      BY <2>5 DEF Answered
    <3>2. Answered' = sent - Len(inst'.in) - (Len(chunk) - 1) - 1
      BY <1>0, <2>5 DEF Answered
    <3> DEFINE i == Len(inst.in)
               b == Len(buffer)
               j == Len(inst'.in)
               c == Len(chunk)
    <3>3. sent \in Nat /\ i \in Nat /\ b \in Nat /\ c \in Nat /\ j \in Nat
      BY <2>3, <2>7, LengthsTyped
    <3>4. j + c = i + b
      BY <2>6
    <3>5. sent - j - (c - 1) - 1 = sent - i - b - 0
      <4> HIDE DEF i, b, j, c
      <4> QED
        BY <3>3, <3>4
    <3> QED
      BY <3>1, <3>2, <3>5, Zenon
  <2>9. request'[1] = chunk[1]
    BY <1>2, <2>3
  <2>10. IsRequest(request[1], Answered + 1)'
    <3>1. IsRequest(chunk[1], Answered + 1)
      BY <2>3, <2>4
    <3> QED
      BY <2>1, <2>8, <2>9, <3>1 DEF IsRequest
  <2>11. \A k \in 1..Len(buffer') : IsRequest(buffer[k], Answered + Taken + k)'
    <3> SUFFICES ASSUME NEW k \in 1..(Len(chunk) - 1)
                 PROVE  IsRequest(buffer[k], Answered + Taken + k)'
      BY <1>2, <2>3
    <3>1. buffer'[k] = chunk[k + 1] /\ k + 1 \in 1..Len(chunk)
      BY <1>2, <2>3
    <3>2. Answered' + Taken' + k = Answered + (k + 1)
      BY <2>2, <2>3, <2>5, <2>8
    <3>3. IsRequest(chunk[k + 1], Answered + (k + 1))
      BY <2>4, <3>1
    <3> QED
      BY <2>1, <3>1, <3>2, <3>3 DEF IsRequest
  <2>12. \A k \in 1..Len(inst'.in) : IsRequest(inst.in[k], Answered + Taken + Held + k)'
    <3>1. CASE buffer = <<>>
      BY <2>1, <3>1
    <3>2. CASE buffer # <<>>
      <4>1. Answered' + Taken' + Held' = Answered + Held
        <5>1. chunk = buffer
          BY <3>2 DEF chunk
        <5> QED
          BY <2>2, <2>3, <2>5, <2>8, <5>1
      <4> QED
        BY <2>1, <2>2, <3>2, <4>1 DEF IsRequest
    <3> QED
      BY <3>1, <3>2
  <2> QED
    BY <1>0, <2>1, <2>2, <2>8, <2>10, <2>11, <2>12 DEF LinesInv
<1> QED
  BY <1>1, <1>2 DEF NextLine

LEMMA LinesNext ==
  ASSUME TypeOK, HandleInv, ClientInv, WriterInv, LinesInv, [Next]_vars
  PROVE  LinesInv'
<1> USE DEF handle, client
<1>1. CASE UNCHANGED vars
  BY <1>1 DEF vars, LinesInv, Answered, Held, Taken, IsRequest
<1>2. CASE pc = "cleanup"
  <2>1. CASE pc' = "cleanup"
    BY <2>1 DEF LinesInv
  <2>2. ASSUME NEW t \in Threads, PublishEvent(t) \/ WritePipe(t)
        PROVE  pc' = "cleanup"
    <3>1. wr[t].msg = Event
      BY <1>2 DEF WriterInv
    <3> QED
      BY <1>2, <2>2, <3>1 DEF PublishEvent, WritePipe, TakeHandle, Write, Returns
  <2>3. CASE Cleanup
    <3>1. ~inst'.here
      BY <1>2, <2>3 DEF Cleanup, ClosePipe, ClientInv, NoInst
    <3> QED
      BY <3>1 DEF LinesInv
  <2>4. CASE \/ ClientConnects \/ ClientReads \/ ClientLeaves \/ (\E k \in Kinds : ClientSends(k))
             \/ StopBegins \/ StopCloses \/ Join
    <3>1. pc' = "cleanup"
      BY <1>2, <2>4 DEF ClientConnects, ClientReads, ClientLeaves, ClientSends, StopBegins,
                        StopCloses, Join
    <3> QED
      BY <2>1, <3>1
  <2>5. Accept => Cleanup
    BY <1>2 DEF Accept, Create, Publish, Connect, ConnectReturned, FlagClient, LoopHead,
                NextLine, Garbled, NotAnObject, HandlerBegins, HandlerReturns
  <2> QED
    BY <1>1, <2>1, <2>2, <2>3, <2>4, <2>5 DEF Next
<1>3. CASE pc # "cleanup"
  <2> USE <1>3
  <2>0. ASSUME ~inst'.here \/ pc' = "cleanup"
        PROVE  LinesInv'
    BY <2>0 DEF LinesInv
  <2>1. CASE StopBegins \/ Join
    BY <2>1, LinesStay DEF StopBegins, Join
  <2>2. CASE StopCloses
    <3>1. CASE pipe = 0
      BY <2>2, <3>1, LinesStay DEF StopCloses, ClosePipe
    <3>2. CASE pipe # 0
      BY <2>0, <2>2, <3>2 DEF StopCloses, ClosePipe, NoInst
    <3> QED
      BY <3>1, <3>2
  <2>3. CASE Create
    <3>1. \/ inst' = inst /\ pc' = "ended"
          \/ ~inst'.here
      BY <2>3 DEF Create, NoInst
    <3>2. pc = "check" /\ pc' \in {"ended", "created"} /\ UNCHANGED <<buffer, request, client>>
      BY <2>3 DEF Create
    <3> QED
      BY <2>0, <3>1, <3>2, LinesStay DEF Answering, ServingPcs
  <2>4. CASE Publish
    <3>1. inst' = inst \/ ~inst'.here
      BY <2>4 DEF Publish, NoInst
    <3>2. pc = "created" /\ pc' \in {"ended", "connect"} /\ UNCHANGED <<buffer, request, client>>
      BY <2>4 DEF Publish
    <3> QED
      BY <2>0, <3>1, <3>2, LinesStay DEF Answering, ServingPcs
  <2>5. CASE Connect \/ ConnectReturned
    <3>1. inst' = inst \/ ~inst'.here
      BY <2>5 DEF Connect, ConnectReturned, ClosePipe, NoInst
    <3>2. /\ pc \in {"connect", "came", "failed"}
          /\ pc' \in {"came", "failed", "ended", "check", "flag"}
          /\ UNCHANGED <<buffer, request, client>>
      BY <2>5 DEF Connect, ConnectReturned
    <3> QED
      BY <2>0, <3>1, <3>2, LinesStay DEF Answering, ServingPcs
  <2>6. CASE FlagClient
    <3>1. /\ pc = "flag" /\ pc' = "head" /\ buffer' = <<>>
          /\ UNCHANGED <<inst, request, sent, got>>
      BY <2>6 DEF FlagClient
    <3>2. Taken = 0 /\ Taken' = 0 /\ Held = 0 /\ Held' = 0
      BY <3>1 DEF Taken, Held, Answering, ServingPcs
    <3>3. Answered' = Answered
      BY <3>1, <3>2 DEF Answered
    <3>4. pc' \notin Answering /\ Len(buffer') = 0
      BY <3>1 DEF Answering
    <3> QED
      BY <3>1, <3>2, <3>3, <3>4 DEF LinesInv, IsRequest
  <2>7. CASE LoopHead
    BY <2>0, <2>7, LinesStay DEF LoopHead, Answering, ServingPcs
  <2>8. CASE Garbled \/ HandlerBegins \/ HandlerReturns
    <3>1. /\ pc \in Answering /\ pc' \in Answering
          /\ UNCHANGED <<inst, buffer, request, sent, got>>
      BY <2>8 DEF Garbled, HandlerBegins, HandlerReturns, Reply, Answering
    <3> QED
      BY <3>1, LinesStay DEF ServingPcs
  <2>9. CASE NotAnObject
    BY <2>0, <2>9 DEF NotAnObject, NoInst
  <2>10. ~Cleanup
    BY DEF Cleanup
  <2> QED
    BY <1>1, <2>1, <2>2, <2>3, <2>4, <2>5, <2>6, <2>7, <2>8, <2>9, <2>10,
       ClientLines, WriterLines, NextLineLines DEF Next, Accept
<1> QED
  BY <1>2, <1>3

\* A connection that ends keeps the answers it got, also while an event is written.
LEMMA BelongNext ==
  ASSUME TypeOK, HandleInv, ClientInv, WriterInv, LinesInv, AnswersBelong, [Next]_vars
  PROVE  AnswersBelong'
<1> USE DEF handle, client
<1> SUFFICES ASSUME inst'.here
             PROVE  (\E count \in 0..sent : AnswersOf(inst.id, got \o inst.out, count))'
  BY DEF AnswersBelong
<1>0. /\ inst.id \in Nat /\ inst.out \in Seq(Messages) /\ inst \in Instances
      /\ got \in Seq(Messages) /\ got \o inst.out \in Seq(Messages) /\ sent \in Nat
  BY DEF TypeOK, Instances
<1>1. CASE pc' # "cleanup"
  <2>1. LinesInv' /\ TypeOK'
    BY LinesNext, TypeNext
  <2>2. Answered' \in Nat /\ AnswersOf(inst.id, got \o inst.out, Answered)'
    BY <1>1, <2>1 DEF LinesInv
  <2>3. (sent \in Nat /\ Len(inst.in) \in Nat /\ Held \in Nat /\ Taken \in Nat)'
    BY <2>1, LengthsTyped, PTL
  <2>4. Answered' \in 0..sent'
    BY <2>2, <2>3 DEF Answered
  <2> QED
    BY <2>2, <2>4
<1>2. ASSUME UNCHANGED <<inst, got, sent>>
      PROVE  (\E count \in 0..sent : AnswersOf(inst.id, got \o inst.out, count))'
  BY <1>2 DEF AnswersBelong
<1>3. CASE pc' = "cleanup" /\ pc # "cleanup"
  <2>1. ASSUME NEW t \in Threads, PublishEvent(t) \/ WritePipe(t)
        PROVE  UNCHANGED <<inst, got, sent>>
    BY <1>3, <2>1 DEF PublishEvent, WritePipe, TakeHandle, Write, Returns
  <2>2. Accept => UNCHANGED <<inst, got, sent>>
    BY <1>3 DEF Accept, Create, Publish, Connect, ConnectReturned, FlagClient, LoopHead,
                NextLine, Garbled, NotAnObject, HandlerBegins, HandlerReturns, Reply, Cleanup
  <2> QED
    BY <1>2, <1>3, <2>1, <2>2
       DEF Next, vars, ClientConnects, ClientReads, ClientLeaves, ClientSends, StopBegins,
           StopCloses, Join
<1>4. CASE pc' = "cleanup" /\ pc = "cleanup"
  <2>1. CASE ClientConnects \/ ClientLeaves
    BY <1>0, <1>4, <2>1 DEF ClientConnects, ClientLeaves, ClientInv, Instances
  <2>2. ASSUME inst.here, inst'.id = inst.id, got' \o inst'.out = got \o inst.out,
               sent' = sent \/ sent' = sent + 1
        PROVE  (\E count \in 0..sent : AnswersOf(inst.id, got \o inst.out, count))'
    <3>1. PICK count \in 0..sent : AnswersOf(inst.id, got \o inst.out, count)
      BY <2>2 DEF AnswersBelong
    <3>2. count \in 0..sent'
      BY <1>0, <2>2, <3>1
    <3> QED
      BY <2>2, <3>1, <3>2
  <2>3. CASE ClientReads
    <3>1. /\ inst.here /\ inst'.id = inst.id /\ inst'.out = Tail(inst.out) /\ inst.out # <<>>
          /\ got' = Append(got, Head(inst.out)) /\ sent' = sent
      BY <1>0, <2>3 DEF ClientReads, Instances
    <3> QED
      BY <1>0, <2>2, <3>1, ReadFirst
  <2>4. ASSUME NEW kind \in Kinds, ClientSends(kind)
        PROVE  (\E count \in 0..sent : AnswersOf(inst.id, got \o inst.out, count))'
    <3>1. inst.here /\ inst'.id = inst.id /\ inst'.out = inst.out /\ got' = got /\ sent' = sent + 1
      BY <1>0, <2>4 DEF ClientSends, Instances
    <3> QED
      BY <2>2, <3>1
  <2>5. ASSUME NEW t \in Threads, PublishEvent(t) \/ WritePipe(t)
        PROVE  (\E count \in 0..sent : AnswersOf(inst.id, got \o inst.out, count))'
    <3>1. wr[t].msg = Event /\ UNCHANGED <<got, sent>>
      BY <1>4, <2>5 DEF WriterInv, PublishEvent, WritePipe, TakeHandle, Write
    <3>2. CASE inst' = inst
      BY <1>2, <3>1, <3>2
    <3>3. CASE inst.here /\ inst' = [inst EXCEPT !.out = Append(@, wr[t].msg)]
      <4>1. inst'.id = inst.id /\ inst'.out = Append(inst.out, Event)
        BY <1>0, <3>1, <3>3 DEF Instances
      <4>2. got' \o inst'.out = Append(got \o inst.out, Event)
        BY <1>0, <3>1, <4>1, EventTyped, WrittenLast
      <4>3. PICK count \in 0..sent : AnswersOf(inst.id, got \o inst.out, count)
        BY <3>3 DEF AnswersBelong
      <4>4. AnswersOf(inst.id, got' \o inst'.out, count)
        <5>1. count \in Nat
          BY <1>0, <4>3
        <5> QED
          BY <1>0, <4>2, <4>3, <5>1, EventAppended
      <4> QED
        BY <3>1, <4>1, <4>3, <4>4
    <3> QED
      BY <2>5, <3>2, <3>3 DEF PublishEvent, WritePipe, TakeHandle, Write
  <2>6. CASE StopBegins \/ Join
    BY <1>2, <2>6 DEF StopBegins, Join
  <2>7. CASE StopCloses
    BY <1>2, <2>7 DEF StopCloses, ClosePipe, NoInst
  <2>8. ~Accept
    BY <1>4 DEF Accept, Create, Publish, Connect, ConnectReturned, FlagClient, LoopHead,
                NextLine, Garbled, NotAnObject, HandlerBegins, HandlerReturns, Cleanup
  <2>9. CASE UNCHANGED vars
    BY <1>2, <2>9 DEF vars
  <2> QED
    BY <2>1, <2>3, <2>4, <2>5, <2>6, <2>7, <2>8, <2>9 DEF Next
<1> QED
  BY <1>1, <1>3, <1>4

LEMMA BelongInit == Init => AnswersBelong
BY DEF Init, NoInst, AnswersBelong

\* Whatever events come between, whoever was the client before and wherever the
\* connection ends, a client gets the answers to the first requests it sent, in
\* their order and each once.
THEOREM AnswersAlwaysBelong == Spec => []AnswersBelong
<1> DEFINE IInv == TypeOK /\ HandleInv /\ AnswerInv /\ AnswersBelong
<1>1. Init => IInv
  BY TypeInit, HandleInit, LinesInit, ClientInit, WriterInit, BelongInit DEF AnswerInv
<1>2. IInv /\ [Next]_vars => IInv'
  BY TypeNext, HandleNext, LinesNext, ClientNext, WriterNext, BelongNext DEF AnswerInv
<1> QED
  BY <1>1, <1>2, PTL DEF Spec

=============================================================================
