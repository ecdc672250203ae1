------------------------------ MODULE Children ------------------------------
(***************************************************************************)
(* How the supervisor starts, stops and runs other programs:               *)
(* process_supervisor.cpp (mediamtx, whose output a thread reads),         *)
(* job_object.cpp and run_command.cpp (ffmpeg -list_devices, the probe).   *)
(*                                                                         *)
(* mediamtx is started and stopped under state_mutex by one thread at a    *)
(* time; commands are run by the loop or the probe thread without it, so   *)
(* the two overlap.  CreateProcess with bInheritHandles gives the child    *)
(* every inheritable handle the supervisor has open at that moment: all    *)
(* write ends, the other thread's too.  A pipe is at its end when nobody   *)
(* holds its write end and what was written is read.                       *)
(***************************************************************************)
EXTENDS Naturals, FiniteSets

CONSTANTS
  MaxStarts,    \* bound: times mediamtx is started
  MaxCommands,  \* bound: commands run, one after the other
  MaxLines      \* bound: lines a command writes to each of its pipes

ASSUME ChildrenAssumption == MaxStarts \in Nat /\ MaxCommands \in Nat /\ MaxLines \in Nat

VARIABLES
  up,          \* the supervisor process is alive
  selfInJob,   \* it could put itself in its job, so its children are born there
  proc,        \* per process, its state
  job,         \* processes in the job
  unassigned,  \* history: those AssignProcessToJobObject failed for
  ends,        \* per pipe, who holds its write end
  data,        \* per pipe, lines written and not read; the buffer holds one
  left,        \* per pipe of a command, lines the command has yet to write
  starts,      \* mediamtx incarnations so far; the last is the current one
  proc_,       \* proc_ is a handle
  spc, then,   \* the thread in Start or Stop, and what follows the Stop
  reader,      \* per incarnation, its StdoutReaderLoop
  commands,    \* commands so far; the last is the current one
  rpc          \* the thread in RunCommand

vars == <<up, selfInJob, proc, job, unassigned, ends, data, left, starts, proc_,
          spc, then, reader, commands, rpc>>
starter == <<starts, proc_, spc, then, unassigned>>
runner == <<commands, rpc>>

Mtx == {"mtx"} \X (1..MaxStarts)
Cmd == {"cmd"} \X (1..MaxCommands)
Procs == Mtx \cup Cmd
Self == <<"self", 0>>

\* mediamtx's stdout and stderr share a pipe, a command has two.
Pipes == (Mtx \X {"out"}) \cup (Cmd \X {"out", "err"})
PipesOf(p) == {q \in Pipes : q[1] = p}
Current == <<"mtx", starts>>
Command == <<"cmd", commands>>

Init ==
  /\ up = TRUE /\ selfInJob \in BOOLEAN
  /\ proc = [p \in Procs |-> "none"] /\ job = {} /\ unassigned = {}
  /\ ends = [q \in Pipes |-> {}] /\ data = [q \in Pipes |-> 0]
  /\ left = [q \in Pipes |-> MaxLines]
  /\ starts = 0 /\ proc_ = FALSE /\ spc = "idle" /\ then = "idle"
  /\ reader = [m \in Mtx |-> "none"] /\ commands = 0 /\ rpc = "idle"

AtEnd(q) == ends[q] = {} /\ data[q] = 0

-----------------------------------------------------------------------------
(* The programs, followed for as long as the supervisor is alive.          *)

Ends(p) ==
  /\ up
  /\ proc' = [proc EXCEPT ![p] = "dead"] /\ job' = job \ {p}
  /\ ends' = [q \in Pipes |-> ends[q] \ {p}]
  /\ UNCHANGED <<up, selfInJob, data, left, starter, reader, runner>>

\* A program exits by itself, or at last after TerminateProcess.
Exits(p) == proc[p] = "running" /\ Ends(p)
Dies(p) == proc[p] = "dying" /\ Ends(p)

\* A line; a full pipe makes the writer wait.
Writes(q) ==
  /\ up /\ proc[q[1]] = "running" /\ q[1] \in ends[q] /\ data[q] = 0 /\ left[q] > 0
  /\ data' = [data EXCEPT ![q] = 1]
  /\ left' = IF q[1] \in Cmd THEN [left EXCEPT ![q] = @ - 1] ELSE left
  /\ UNCHANGED <<up, selfInJob, proc, job, ends, starter, reader, runner>>

\* A command that has written everything may close its output and live on.
ClosesOutput(c) ==
  /\ up /\ proc[c] = "running" /\ \A q \in PipesOf(c) : left[q] = 0
  /\ ends' = [q \in Pipes |-> IF q \in PipesOf(c) THEN ends[q] \ {c} ELSE ends[q]]
  /\ UNCHANGED <<up, selfInJob, proc, job, data, left, starter, reader, runner>>

-----------------------------------------------------------------------------
(* CreateProcess, for both.                                                *)

BornRunning(p) ==                                   \* mutant
  /\ proc' = [proc EXCEPT ![p] = "running"]
  /\ job' = IF selfInJob THEN job \cup {p} ELSE job
Born(p) ==
  /\ proc' = [proc EXCEPT ![p] = IF p \in Mtx THEN "suspended" ELSE "running"]
  /\ job' = IF selfInJob THEN job \cup {p} ELSE job

Inherit(p) == [q \in Pipes |-> IF Self \in ends[q] THEN ends[q] \cup {p} ELSE ends[q]]

\* The supervisor closes its own write ends of p's pipes.
CloseOwn(e, p) == [q \in Pipes |-> IF q \in PipesOf(p) THEN e[q] \ {Self} ELSE e[q]]

-----------------------------------------------------------------------------
(* SupervisedProcess::Stop, alone or as the first step of Start.           *)

Begin(next) ==
  /\ spc = "idle"
  /\ spc' = IF proc_ THEN "terminate" ELSE next
  /\ then' = next
  /\ UNCHANGED <<up, selfInJob, proc, job, unassigned, ends, data, left, starts, proc_,
                 reader, runner>>

Terminate ==
  /\ spc = "terminate" /\ spc' = "wait"
  /\ proc' = IF proc[Current] = "running" THEN [proc EXCEPT ![Current] = "dying"] ELSE proc
  /\ UNCHANGED <<up, selfInJob, job, unassigned, ends, data, left, starts, proc_, then,
                 reader, runner>>

\* The process is dead or 5 s have passed: its handle is closed either way,
\* and so is the read end.  A ReadFile that is blocked on it may return.
Forget ==
  /\ spc = "wait" /\ spc' = "join"
  /\ proc_' = FALSE
  /\ \/ UNCHANGED reader
     \/ reader[Current] = "reading" /\ reader' = [reader EXCEPT ![Current] = "ended"]
  /\ UNCHANGED <<up, selfInJob, proc, job, unassigned, ends, data, left, starts, then, runner>>

JoinNot ==                                          \* mutant
  /\ spc = "join" /\ spc' = then
  /\ UNCHANGED <<up, selfInJob, proc, job, unassigned, ends, data, left, starts, proc_, then,
                 reader, runner>>
Join ==
  /\ spc = "join" /\ reader[Current] # "reading" /\ spc' = then
  /\ UNCHANGED <<up, selfInJob, proc, job, unassigned, ends, data, left, starts, proc_, then,
                 reader, runner>>

\* StdoutReaderLoop: hand over what there is; end when Stop has set its flag or
\* the pipe is at its end.
Reads(m) ==
  LET q == <<m, "out">>
  IN /\ reader[m] = "reading" /\ (data[q] > 0 \/ AtEnd(q))
     /\ data' = [data EXCEPT ![q] = 0]
     /\ reader' = IF data[q] = 0 \/ (spc = "join" /\ m = Current)
                  THEN [reader EXCEPT ![m] = "ended"] ELSE reader
     /\ UNCHANGED <<up, selfInJob, proc, job, ends, left, starter, runner>>

-----------------------------------------------------------------------------
(* SupervisedProcess::Start.                                               *)

MakePipe ==
  /\ spc = "pipe" /\ starts < MaxStarts
  /\ \/ /\ starts' = starts + 1 /\ spc' = "create"
        /\ ends' = [ends EXCEPT ![<<<<"mtx", starts'>>, "out">>] = {Self}]
     \/ spc' = "idle" /\ UNCHANGED <<starts, ends>>
  /\ UNCHANGED <<up, selfInJob, proc, job, unassigned, data, left, proc_, then, reader, runner>>

CreateProcess ==
  /\ spc = "create"
  /\ \/ /\ Born(Current) /\ ends' = Inherit(Current)
        /\ proc_' = TRUE /\ spc' = "assign"
     \/ /\ spc' = "idle" /\ ends' = CloseOwn(ends, Current) /\ UNCHANGED <<proc, job, proc_>>
  /\ UNCHANGED <<up, selfInJob, unassigned, data, left, starts, then, reader, runner>>

\* A failure is a warning.
Assign ==
  /\ spc = "assign" /\ spc' = "resume"
  /\ \/ job' = job \cup {Current} /\ UNCHANGED unassigned
     \/ unassigned' = unassigned \cup {Current} /\ UNCHANGED job
  /\ UNCHANGED <<up, selfInJob, proc, ends, data, left, starts, proc_, then, reader, runner>>

Resume ==
  /\ spc = "resume" /\ spc' = "close"
  /\ proc' = IF proc[Current] = "suspended" THEN [proc EXCEPT ![Current] = "running"] ELSE proc
  /\ UNCHANGED <<up, selfInJob, job, unassigned, ends, data, left, starts, proc_, then,
                 reader, runner>>

\* Close the supervisor's copy of the write end, start the reader.
StartReaderKeepsEnd ==                              \* mutant
  /\ spc = "close" /\ spc' = "idle"
  /\ reader' = [reader EXCEPT ![Current] = "reading"]
  /\ UNCHANGED <<up, selfInJob, proc, job, unassigned, ends, data, left, starts, proc_, then,
                 runner>>
StartReader ==
  /\ spc = "close" /\ spc' = "idle"
  /\ ends' = CloseOwn(ends, Current)
  /\ reader' = [reader EXCEPT ![Current] = "reading"]
  /\ UNCHANGED <<up, selfInJob, proc, job, unassigned, data, left, starts, proc_, then, runner>>

-----------------------------------------------------------------------------
(* RunCommand.                                                             *)

\* Two pipes, or an error.
Run ==
  /\ rpc = "idle" /\ commands < MaxCommands
  /\ commands' = commands + 1 /\ rpc' = "create"
  /\ ends' = [q \in Pipes |-> IF q \in PipesOf(<<"cmd", commands'>>) THEN {Self} ELSE ends[q]]
  /\ UNCHANGED <<up, selfInJob, proc, job, data, left, starter, reader>>

RunCreate ==
  /\ rpc = "create"
  /\ \/ Born(Command) /\ ends' = Inherit(Command) /\ rpc' = "close"
     \/ rpc' = "idle" /\ ends' = CloseOwn(ends, Command) /\ UNCHANGED <<proc, job>>
  /\ UNCHANGED <<up, selfInJob, data, left, starter, reader, commands>>

RunClose ==
  /\ rpc = "close" /\ rpc' = "drain"
  /\ ends' = CloseOwn(ends, Command)
  /\ UNCHANGED <<up, selfInJob, proc, job, data, left, starter, reader, commands>>

\* stdout by this thread, stderr by one of its own.
DrainInTurn(q) ==                                   \* mutant
  /\ rpc = "drain" /\ q \in PipesOf(Command) /\ data[q] > 0
  /\ q[2] = "out" \/ AtEnd(<<Command, "out">>)
  /\ data' = [data EXCEPT ![q] = 0]
  /\ UNCHANGED <<up, selfInJob, proc, job, ends, left, starter, reader, runner>>
Drain(q) ==
  /\ rpc = "drain" /\ q \in PipesOf(Command) /\ data[q] > 0
  /\ data' = [data EXCEPT ![q] = 0]
  /\ UNCHANGED <<up, selfInJob, proc, job, ends, left, starter, reader, runner>>

Drained ==
  /\ rpc = "drain" /\ \A q \in PipesOf(Command) : AtEnd(q)
  /\ rpc' = "wait"
  /\ UNCHANGED <<up, selfInJob, proc, job, ends, data, left, starter, reader, commands>>

\* The wait with the timeout; on timeout the command is terminated.
Waited ==
  /\ rpc = "wait" /\ rpc' = "idle"
  /\ proc' = IF proc[Command] = "running" THEN [proc EXCEPT ![Command] = "dying"] ELSE proc
  /\ UNCHANGED <<up, selfInJob, job, ends, data, left, starter, reader, commands>>

-----------------------------------------------------------------------------
\* The supervisor ends, however: its handles close, the job with them.
SupervisorDies ==
  /\ up /\ up' = FALSE
  /\ proc' = [p \in Procs |-> IF p \in job THEN "dead" ELSE proc[p]] /\ job' = {}
  /\ ends' = [q \in Pipes |-> {p \in ends[q] \ {Self} : p \notin job}]
  /\ UNCHANGED <<selfInJob, data, left, starter, reader, runner>>

Stopping == Terminate \/ Forget \/ Join
Starting == MakePipe \/ CreateProcess \/ Assign \/ Resume \/ StartReader
Running == RunCreate \/ RunClose \/ (\E q \in Pipes : Drain(q)) \/ Drained \/ Waited

Next ==
  \/ SupervisorDies
  \/ \E p \in Procs : Exits(p) \/ Dies(p)
  \/ \E q \in Pipes : Writes(q)
  \/ \E c \in Cmd : ClosesOutput(c)
  \/ up /\ (Begin("pipe") \/ Begin("idle") \/ Run)
  \/ up /\ (Stopping \/ Starting \/ Running)
  \/ up /\ \E m \in Mtx : Reads(m)

\* Threads are scheduled, a terminated process dies, a command comes to its end.
Fairness ==
  /\ WF_vars(up /\ (Stopping \/ Starting))
  /\ WF_vars(up /\ (RunCreate \/ RunClose \/ Drained \/ Waited))
  /\ \A q \in Pipes : WF_vars(up /\ Drain(q))
  /\ \A m \in Mtx : WF_vars(up /\ Reads(m))
  /\ \A p \in Procs : WF_vars(Dies(p))
  /\ \A c \in Cmd : /\ \A q \in PipesOf(c) : WF_vars(Writes(q))
                    /\ WF_vars((\A q \in PipesOf(c) : left[q] = 0) /\ Exits(c))

Spec == Init /\ [][Next]_vars
FairSpec == Spec /\ Fairness

-----------------------------------------------------------------------------
(* Properties.                                                             *)

\* mediamtx does not outlive the supervisor, at whatever step of Start that
\* died, unless the job refused it: it is not let run before it is in the job
\* (process_supervisor.cpp:87-112).
NoOrphanRuns ==
  ~up => \A m \in Mtx : proc[m] = "running" => m \in unassigned

\* The reader of an earlier incarnation is gone before the next one has a pipe:
\* both use stdout_read_, and no line of a stopped mediamtx is reported as the
\* new one's (process_supervisor.cpp:166-175).
OldReaderGone ==
  \A m \in Mtx : m # Current => reader[m] # "reading"

\* Stop returns although a command may have inherited mediamtx's write end
\* (process_supervisor.cpp:114-120, 166-175).
StopReturns == (spc \in {"terminate", "wait", "join"}) ~> (spc \in {"idle", "pipe"} \/ ~up)

\* A command that ends is reported, however much it writes to which pipe, unless
\* a mediamtx started meanwhile holds one of its write ends
\* (run_command.cpp:89-116).
Leaked == \E q \in PipesOf(Command) : ends[q] \cap Mtx # {}
CommandReturns == (rpc = "drain") ~> (rpc # "drain" \/ Leaked \/ ~up)

\* "timeout_ms is total wall-clock" (run_command.h:15): RunCommand returns,
\* whatever happens to its pipes.
CommandTimesOut == (rpc = "drain") ~> (rpc # "drain" \/ ~up)

=============================================================================
