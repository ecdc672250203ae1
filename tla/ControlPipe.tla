---------------------------- MODULE ControlPipe ----------------------------
(***************************************************************************)
(* The control pipe: ipc_server.cpp.  One accept thread serves one client  *)
(* at a time and answers its requests; PublishEvent writes to the same     *)
(* pipe from the supervision loop, which holds state_mutex, from a request *)
(* handler, which holds it too, and from threads that hold nothing (events *)
(* pipe, mediamtx's stdout, probe).  The loop calls Stop at the end.       *)
(*                                                                         *)
(* A handle is the number of the pipe instance it was opened for.  Closing *)
(* it frees the handle value, and the next instance may get the same one.  *)
(* A section under pipe_mutex_ is one action; write_mutex_ is held by the  *)
(* thread whose write is in flight.                                        *)
(***************************************************************************)
EXTENDS Naturals, Sequences, FiniteSets

CONSTANTS
  Publishers,    \* threads that publish events and hold no lock
  MaxInstances,  \* bound: pipe instances created
  MaxRequests,   \* bound: requests per connection
  MaxEvents,     \* bound: events published
  Capacity       \* messages the outbound buffer holds before a write waits

ASSUME ControlPipeAssumption ==
  /\ MaxInstances \in Nat \ {0} /\ MaxRequests \in Nat /\ MaxEvents \in Nat
  /\ Capacity \in Nat \ {0} /\ {"ipc", "loop"} \cap Publishers = {}

VARIABLES
  inst,       \* the instance the kernel has: number, client, bytes each way
  made,       \* instances created; the accept thread's own handle p
  pipe,       \* pipe_, 0 is INVALID_HANDLE_VALUE
  connected,  \* client_connected_
  stop,       \* stop_
  stopPc,     \* the loop, in Stop()
  pc,         \* the accept thread
  buffer,     \* lines its LineReader has read and not returned
  request,    \* the line it is working on
  wr,         \* per thread, its WritePipe
  state,      \* who holds state_mutex
  events,     \* events published so far
  sent, got   \* the client: requests sent, messages received

vars == <<inst, made, pipe, connected, stop, stopPc, pc, buffer, request, wr,
          state, events, sent, got>>
client == <<sent, got>>
handle == <<made, pipe, connected>>
stopping == <<stop, stopPc>>

Threads == {"ipc", "loop"} \cup Publishers

\* What a line is to the accept loop: a call of a handler, text that is no
\* JSON, or JSON that is not an object.
Kinds == {"call", "garbled", "scalar"}

\* What is written: the connection and number of the request it answers, or an
\* event.
Event == [conn |-> 0, n |-> 0]

NoInst == [id |-> 0, came |-> FALSE, here |-> FALSE, in |-> <<>>, out |-> <<>>]
Idle == [at |-> "idle", p |-> 0, msg |-> Event]

Init ==
  /\ inst = NoInst /\ made = 0 /\ pipe = 0 /\ connected = FALSE
  /\ stop = FALSE /\ stopPc = "no" /\ pc = "check" /\ buffer = <<>>
  /\ request = <<>> /\ wr = [t \in Threads |-> Idle] /\ state = {}
  /\ events = 0 /\ sent = 0 /\ got = <<>>

-----------------------------------------------------------------------------
(* The client (IpcClient.cs): its pump reads whatever comes.               *)

ClientConnects ==
  /\ inst.id # 0 /\ ~inst.came
  /\ inst' = [inst EXCEPT !.came = TRUE, !.here = TRUE]
  /\ sent' = 0 /\ got' = <<>>
  /\ UNCHANGED <<handle, stopping, pc, buffer, request, wr, state, events>>

ClientSends(kind) ==
  /\ inst.here /\ sent < MaxRequests
  /\ sent' = sent + 1
  /\ inst' = [inst EXCEPT !.in = Append(@, [conn |-> inst.id, n |-> sent', kind |-> kind])]
  /\ UNCHANGED <<handle, stopping, pc, buffer, request, wr, state, events, got>>

ClientReads ==
  /\ inst.here /\ inst.out # <<>>
  /\ got' = Append(got, Head(inst.out))
  /\ inst' = [inst EXCEPT !.out = Tail(@)]
  /\ UNCHANGED <<handle, stopping, pc, buffer, request, wr, state, events, sent>>

\* What it sent stays readable, what it did not read is lost.
ClientLeaves ==
  /\ inst.here
  /\ inst' = [inst EXCEPT !.here = FALSE, !.out = <<>>]
  /\ UNCHANGED <<handle, stopping, pc, buffer, request, wr, state, events, client>>

-----------------------------------------------------------------------------
(* WritePipe.                                                              *)

\* A thread wants to publish; the loop does so with state_mutex held.
PublishEvent(t) ==
  /\ events < MaxEvents /\ wr[t].at = "idle"
  /\ \/ t \in Publishers /\ UNCHANGED state
     \/ t = "loop" /\ stopPc = "no" /\ state = {} /\ state' = {t}
     \/ t = "ipc" /\ pc = "handler" /\ UNCHANGED state
  /\ events' = events + 1
  /\ wr' = [wr EXCEPT ![t] = [Idle EXCEPT !.at = "lock"]]
  /\ UNCHANGED <<inst, handle, stopping, pc, buffer, request, client>>

\* WritePipe returns; for an answer, false ends the connection.
Returns(t, ok) ==
  /\ wr' = [wr EXCEPT ![t] = Idle]
  /\ state' = IF t = "loop" THEN {} ELSE state
  /\ pc' = IF wr[t].msg = Event THEN pc ELSE IF ok THEN "head" ELSE "cleanup"

\* write_mutex_ is free: take it and the handle, or drop the message.
TakeHandle(t) ==
  /\ wr[t].at = "lock" /\ \A u \in Threads : wr[u].at # "write"
  /\ IF connected /\ pipe # 0
     THEN /\ wr' = [wr EXCEPT ![t].at = "write", ![t].p = pipe]
          /\ UNCHANGED <<state, pc>>
     ELSE Returns(t, FALSE)
  /\ UNCHANGED <<inst, handle, stopping, buffer, request, events, client>>

\* The handle was closed meanwhile: the write fails, or reaches the client of
\* the next instance if that got the same handle value.  A client that is gone
\* fails it, a full buffer makes it wait.
WriteSerialised(t) ==                               \* mutant
  /\ pc # "read" /\ wr[t].at = "write"
  /\ IF inst.here THEN Len(inst.out) < Capacity /\ Returns(t, TRUE)
                       /\ inst' = [inst EXCEPT !.out = Append(@, wr[t].msg)]
     ELSE Returns(t, FALSE) /\ UNCHANGED inst
  /\ UNCHANGED <<handle, stopping, buffer, request, events, client>>
Write(t) ==
  /\ wr[t].at = "write"
  /\ \/ /\ inst.here /\ Len(inst.out) < Capacity
        /\ inst' = [inst EXCEPT !.out = Append(@, wr[t].msg)]
        /\ Returns(t, TRUE)
     \/ /\ inst.id # wr[t].p \/ ~inst.here
        /\ Returns(t, FALSE) /\ UNCHANGED inst
  /\ UNCHANGED <<handle, stopping, buffer, request, events, client>>

-----------------------------------------------------------------------------
(* The accept thread.                                                      *)

Create ==
  /\ pc = "check"
  /\ IF stop THEN pc' = "ended" /\ UNCHANGED <<inst, made>>
     ELSE /\ made < MaxInstances
          /\ made' = made + 1 /\ inst' = [NoInst EXCEPT !.id = made']
          /\ pc' = "created"
  /\ UNCHANGED <<pipe, connected, stopping, buffer, request, wr, state, events, client>>

Publish ==
  /\ pc = "created"
  /\ IF stop THEN pc' = "ended" /\ inst' = NoInst /\ UNCHANGED pipe
     ELSE pc' = "connect" /\ pipe' = made /\ UNCHANGED inst
  /\ UNCHANGED <<made, connected, stopping, buffer, request, wr, state, events, client>>

\* The overlapped ConnectNamedPipe completes, with a client or because the
\* handle was closed; or stop_ is seen; or the client came and went before.
Connect ==
  /\ pc = "connect"
  /\ \/ (inst.came \/ inst.id = 0 \/ stop) /\ pc' = "came"
     \/ inst.came /\ ~inst.here /\ pc' = "failed"
  /\ UNCHANGED <<inst, handle, stopping, buffer, request, wr, state, events, client>>

\* CloseHandle(pipe_) and forget it, if there is one.
ClosePipe == pipe' = 0 /\ inst' = IF pipe = 0 THEN inst ELSE NoInst

\* stop_ first, then the result.
ConnectReturned ==
  /\ pc \in {"came", "failed"}
  /\ IF stop THEN pc' = "ended" /\ ClosePipe
     ELSE IF pc = "failed" THEN pc' = "check" /\ ClosePipe
     ELSE pc' = "flag" /\ UNCHANGED <<pipe, inst>>
  /\ UNCHANGED <<made, connected, stopping, buffer, request, wr, state, events, client>>

\* client_connected_, and a LineReader with an empty buffer.
FlagClientKeepsBuffer ==                            \* mutant
  /\ pc = "flag" /\ connected' = TRUE /\ pc' = "head"
  /\ UNCHANGED <<inst, made, pipe, stopping, buffer, request, wr, state, events, client>>
FlagClient ==
  /\ pc = "flag"
  /\ connected' = TRUE /\ buffer' = <<>> /\ pc' = "head"
  /\ UNCHANGED <<inst, made, pipe, stopping, request, wr, state, events, client>>

LoopHead ==
  /\ pc = "head"
  /\ pc' = IF stop THEN "cleanup" ELSE "read"
  /\ UNCHANGED <<inst, handle, stopping, buffer, request, wr, state, events, client>>

\* LineReader::Next: a line of the buffer, else of what the pipe holds; an
\* empty one when the client is gone, the handle closed, or stop_ set.
NextLine ==
  /\ pc = "read"
  /\ LET chunk == IF buffer = <<>> THEN inst.in ELSE buffer
     IN \/ /\ chunk # <<>>
           /\ request' = <<Head(chunk)>> /\ buffer' = Tail(chunk) /\ pc' = "handle"
           /\ inst' = IF buffer = <<>> THEN [inst EXCEPT !.in = <<>>] ELSE inst
        \/ /\ chunk = <<>> /\ (stop \/ ~inst.here)
           /\ pc' = "cleanup" /\ UNCHANGED <<inst, buffer, request>>
  /\ UNCHANGED <<handle, stopping, wr, state, events, client>>

Reply ==
  /\ pc' = "answer"
  /\ wr' = [wr EXCEPT !["ipc"] = [at |-> "lock", p |-> 0,
              msg |-> [conn |-> request[1].conn, n |-> request[1].n]]]

\* parse failed: an error is the answer.
GarbledSkipped ==                                   \* mutant
  /\ pc = "handle" /\ request[1].kind = "garbled" /\ pc' = "head"
  /\ UNCHANGED <<inst, handle, stopping, buffer, request, wr, state, events, client>>
Garbled ==
  /\ pc = "handle" /\ request[1].kind = "garbled"
  /\ Reply
  /\ UNCHANGED <<inst, handle, stopping, buffer, request, state, events, client>>

\* value("id") of a JSON text that is no object throws outside the try: the
\* exception leaves the thread and the process ends.
NotAnObject ==
  /\ pc = "handle" /\ request[1].kind = "scalar"
  /\ pc' = "terminated" /\ inst' = NoInst
  /\ UNCHANGED <<handle, stopping, buffer, request, wr, state, events, client>>

\* handler_ runs with state_mutex held; a throw becomes an error answer.
HandlerBegins ==
  /\ pc = "handle" /\ request[1].kind = "call" /\ state = {}
  /\ state' = {"ipc"} /\ pc' = "handler"
  /\ UNCHANGED <<inst, handle, stopping, buffer, request, wr, events, client>>

HandlerReturns ==
  /\ pc = "handler" /\ wr["ipc"].at = "idle"
  /\ state' = {} /\ Reply
  /\ UNCHANGED <<inst, handle, stopping, buffer, request, events, client>>

Cleanup ==
  /\ pc = "cleanup"
  /\ connected' = FALSE /\ ClosePipe /\ pc' = "check"
  /\ UNCHANGED <<made, stopping, buffer, request, wr, state, events, client>>

-----------------------------------------------------------------------------
(* Stop(), called by the loop.  Nothing here waits in a way                *)
(* CancelSynchronousIo would end: reads and connects are overlapped.       *)

StopBeginsUnset ==                                  \* mutant
  /\ stopPc = "no" /\ wr["loop"].at = "idle" /\ stopPc' = "close"
  /\ UNCHANGED <<inst, handle, stop, pc, buffer, request, wr, state, events, client>>
StopBegins ==
  /\ stopPc = "no" /\ wr["loop"].at = "idle"
  /\ stop' = TRUE /\ stopPc' = "close"
  /\ UNCHANGED <<inst, handle, pc, buffer, request, wr, state, events, client>>

StopClosesKeepsHandle ==                            \* mutant
  /\ stopPc = "close" /\ stopPc' = "join"
  /\ connected' = FALSE /\ inst' = IF pipe = 0 THEN inst ELSE NoInst
  /\ UNCHANGED <<made, pipe, stop, pc, buffer, request, wr, state, events, client>>
StopCloses ==
  /\ stopPc = "close" /\ stopPc' = "join"
  /\ ClosePipe /\ connected' = IF pipe = 0 THEN connected ELSE FALSE
  /\ UNCHANGED <<made, stop, pc, buffer, request, wr, state, events, client>>

Join ==
  /\ stopPc = "join" /\ pc = "ended"
  /\ stopPc' = "returned"
  /\ UNCHANGED <<inst, handle, stop, pc, buffer, request, wr, state, events, client>>

-----------------------------------------------------------------------------
Accept ==
  \/ Create \/ Publish \/ Connect \/ ConnectReturned \/ FlagClient \/ LoopHead
  \/ NextLine \/ Garbled \/ NotAnObject \/ HandlerBegins \/ HandlerReturns \/ Cleanup

WritePipe(t) == TakeHandle(t) \/ Write(t)

Next ==
  \/ ClientConnects \/ ClientReads \/ ClientLeaves
  \/ \E k \in Kinds : ClientSends(k)
  \/ /\ pc # "terminated"
     /\ \/ Accept \/ StopBegins \/ StopCloses \/ Join
        \/ \E t \in Threads : PublishEvent(t) \/ WritePipe(t)

Running(A) == pc # "terminated" /\ A

\* Threads are scheduled and the client's pump reads (IpcClient.cs:57-65);
\* nobody has to call, publish or stop.
Fairness ==
  /\ WF_vars(Running(Accept)) /\ WF_vars(Running(StopCloses \/ Join))
  /\ WF_vars(ClientReads)
  /\ \A t \in Threads : WF_vars(Running(WritePipe(t)))

Spec == Init /\ [][Next]_vars
FairSpec == Spec /\ Fairness

-----------------------------------------------------------------------------
(* Properties.                                                             *)

\* The handle other threads find in pipe_ is open: whoever closes it, the accept
\* thread or Stop, forgets it under the same lock, so no handle is closed twice
\* (ipc_server.cpp:128-135, 209-221, 279-286).
PublishedHandleOpen == pipe # 0 /\ pc # "terminated" => inst.id = pipe

\* A client gets the answers to its own requests, each once and in their order,
\* whatever events come between and whatever the client before it had asked
\* (ipc_server.cpp:233-274).
IsAnswer(m) == m # Event
AnswersOf(conn, msgs, count) ==
  /\ \A i \in DOMAIN msgs : IsAnswer(msgs[i]) =>
       msgs[i].conn = conn /\ msgs[i].n \in 1..count
  /\ \A i, j \in DOMAIN msgs : i < j /\ IsAnswer(msgs[i]) /\ IsAnswer(msgs[j]) =>
       msgs[i].n < msgs[j].n
  /\ \A n \in 1..count : \E i \in DOMAIN msgs : IsAnswer(msgs[i]) /\ msgs[i].n = n
AnswersBelong ==
  inst.here => \E count \in 0..sent : AnswersOf(inst.id, got \o inst.out, count)

\* PublishEvent returns, although a read is pending on the same handle all the
\* time (ipc_server.cpp:12-18) and the buffer may be full.
PublishReturns == \A t \in Threads :
  (wr[t].at # "idle") ~> (wr[t].at = "idle" \/ pc = "terminated")

\* Stop returns wherever the accept thread is and whatever is being written
\* (ipc_server.cpp:114-137).
StopReturns == (stopPc # "no") ~> (stopPc = "returned" \/ pc = "terminated")

\* Every request is answered unless the connection or the server ends: also a
\* line that is no JSON (ipc_server.cpp:243-250, 265-274).
Answers == Cardinality({k \in 1..Len(got) : IsAnswer(got[k])})
RequestsAnswered == \A k \in 1..MaxRequests :
  (inst.here /\ sent = k) ~> (~inst.here \/ stop \/ Answers >= k)

=============================================================================
