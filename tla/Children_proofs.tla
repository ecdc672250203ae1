--------------------------- MODULE Children_proofs ---------------------------
(* Proofs about Children, for any number of starts, commands and lines.      *)
EXTENDS Children, TLAPS

ProcStates == {"none", "suspended", "running", "dying", "dead"}
StopPcs == {"terminate", "wait", "join"}
StartPcs == {"pipe", "create", "assign", "resume", "close"}

TypeOK ==
  /\ up \in BOOLEAN /\ selfInJob \in BOOLEAN
  /\ proc \in [Procs -> ProcStates] /\ job \subseteq Procs /\ unassigned \subseteq Mtx
  /\ starts \in 0..MaxStarts /\ commands \in 0..MaxCommands /\ proc_ \in BOOLEAN
  /\ spc \in {"idle"} \cup StopPcs \cup StartPcs /\ then \in {"idle", "pipe"}
  /\ reader \in [Mtx -> {"none", "reading", "ended"}]
  /\ rpc \in {"idle", "create", "close", "drain", "wait"}

\* Where the thread in Start or Stop is and what the current mediamtx is then,
\* until the supervisor dies.  One that has no number yet was never created.
CurrentInv == up =>
  /\ proc_ \/ spc \in StopPcs \/ spc \in StartPcs \ {"pipe"} => starts > 0
  /\ \A m \in Mtx : m[2] > starts => proc[m] = "none"
  /\ spc = "create" => proc[Current] = "none"
  /\ spc \in {"assign", "resume"} => proc[Current] = "suspended"
  /\ spc \in {"assign", "resume", "close"} => proc_
  /\ rpc # "idle" => commands > 0

\* While the supervisor lives no mediamtx runs that is neither in the job nor
\* refused by it; Start has dealt with the job before it lets one run.
JobInv ==
  IF up THEN /\ \A m \in Mtx : proc[m] = "running" => m \in job \cup unassigned
             /\ spc = "resume" => Current \in job \cup unassigned
  ELSE NoOrphanRuns

\* Only the current mediamtx has a reader, from the end of Start to the join of
\* Stop.
ReaderInv == \A m \in Mtx :
  reader[m] = "reading" => m = Current /\ (spc \in StopPcs \/ (spc = "idle" /\ proc_))

IInv == TypeOK /\ CurrentInv /\ JobInv /\ ReaderInv

LEMMA CurrentIsMtx == ASSUME TypeOK, starts > 0 PROVE Current \in Mtx
BY ChildrenAssumption DEF TypeOK, Current, Mtx

LEMMA CommandIsCmd == ASSUME TypeOK, commands > 0 PROVE Command \in Cmd
BY ChildrenAssumption DEF TypeOK, Command, Cmd

LEMMA Apart == Mtx \cap Cmd = {} /\ Procs = Mtx \cup Cmd
BY DEF Mtx, Cmd, Procs

LEMMA ChildrenInit == Init => IInv
<1> SUFFICES ASSUME Init PROVE IInv
  OBVIOUS
<1>1. TypeOK
  <2>1. proc \in [Procs -> ProcStates] /\ reader \in [Mtx -> {"none", "reading", "ended"}]
    BY DEF Init, ProcStates
  <2>2. 0 \in 0..MaxStarts /\ 0 \in 0..MaxCommands
    BY ChildrenAssumption
  <2> QED
    BY <2>1, <2>2 DEF Init, TypeOK, StopPcs, StartPcs
<1>2. CurrentInv /\ JobInv /\ ReaderInv
  BY Apart DEF Init, CurrentInv, JobInv, ReaderInv, StopPcs, StartPcs
<1> QED
  BY <1>1, <1>2 DEF IInv

\* Steps that neither create nor let run anything: a process ends or is
\* terminated, pipes and readers move.
LEMMA NothingRuns ==
  ASSUME IInv, up, up' = up,
         UNCHANGED <<selfInJob, starts, proc_, spc, then, unassigned>>,
         proc' \in [Procs -> ProcStates], job' \subseteq Procs,
         \A p \in Procs : proc'[p] = proc[p] \/ (proc[p] \in {"running", "dying"}
                                                 /\ proc'[p] \in {"dying", "dead"}),
         \A p \in job : p \in job' \/ proc'[p] = "dead",
         reader' \in [Mtx -> {"none", "reading", "ended"}],
         \A m \in Mtx : reader'[m] = "reading" => reader[m] = "reading",
         commands' = commands, rpc' \in {"idle", "create", "close", "drain", "wait"},
         rpc' # "idle" => rpc # "idle"
  PROVE  IInv'
<1>1. starts > 0 => Current \in Procs
  BY CurrentIsMtx, Apart DEF IInv
<1>2. TypeOK'
  BY DEF IInv, TypeOK
<1>3. CurrentInv'
  BY <1>1, Apart DEF IInv, CurrentInv, Current, StopPcs, StartPcs
<1>4. JobInv'
  BY <1>1, Apart DEF IInv, CurrentInv, JobInv, Current, StopPcs, StartPcs
<1>5. ReaderInv'
  BY DEF IInv, ReaderInv, Current
<1> QED
  BY <1>2, <1>3, <1>4, <1>5 DEF IInv

LEMMA ProgramsKeep ==
  ASSUME IInv,
         \/ \E p \in Procs : Exits(p) \/ Dies(p)
         \/ \E q \in Pipes : Writes(q)
         \/ \E c \in Cmd : ClosesOutput(c)
         \/ up /\ \E m \in Mtx : Reads(m)
  PROVE  IInv'
<1> USE DEF starter, runner
<1>0. TypeOK
  BY DEF IInv
<1>1. ASSUME NEW p \in Procs, Exits(p) \/ Dies(p)
      PROVE  IInv'
  <2>1. /\ up /\ proc[p] \in {"running", "dying"} /\ proc' = [proc EXCEPT ![p] = "dead"]
        /\ job' = job \ {p} /\ UNCHANGED <<up, selfInJob, starter, reader, runner>>
    BY <1>1 DEF Exits, Dies, Ends
  <2> QED
    BY <1>0, <2>1, NothingRuns DEF TypeOK, ProcStates
<1>2. ASSUME NEW q \in Pipes, Writes(q)
      PROVE  IInv'
  BY <1>0, <1>2, NothingRuns DEF Writes, TypeOK
<1>3. ASSUME NEW c \in Cmd, ClosesOutput(c)
      PROVE  IInv'
  BY <1>0, <1>3, NothingRuns DEF ClosesOutput, TypeOK
<1>4. ASSUME NEW m \in Mtx, up, Reads(m)
      PROVE  IInv'
  <2>1. /\ reader' = [reader EXCEPT ![m] = "ended"] \/ reader' = reader
        /\ UNCHANGED <<up, selfInJob, proc, job, starter, runner>>
    BY <1>4 DEF Reads
  <2> QED
    BY <1>0, <1>4, <2>1, NothingRuns DEF TypeOK
<1> QED
  BY <1>1, <1>2, <1>3, <1>4

LEMMA StopKeeps ==
  ASSUME IInv, up, Begin("pipe") \/ Begin("idle") \/ Stopping
  PROVE  IInv'
<1> USE DEF runner, StopPcs, StartPcs
<1>1. ASSUME NEW next \in {"pipe", "idle"}, Begin(next)
      PROVE  IInv'
  BY <1>1 DEF Begin, IInv, TypeOK, CurrentInv, JobInv, ReaderInv, Current
<1>2. CASE Terminate
  <2>1. Current \in Mtx
    BY <1>2, CurrentIsMtx DEF Terminate, IInv, CurrentInv
  <2>2. TypeOK' /\ ReaderInv'
    BY <1>2 DEF Terminate, IInv, TypeOK, ReaderInv, Current, ProcStates
  <2>3. CurrentInv' /\ JobInv'
    BY <1>2, <2>1, Apart
    DEF Terminate, IInv, TypeOK, CurrentInv, JobInv, Current, ProcStates
  <2> QED
    BY <2>2, <2>3 DEF IInv
<1>3. CASE Forget
  BY <1>3 DEF Forget, IInv, TypeOK, CurrentInv, JobInv, ReaderInv, Current
<1>4. CASE Join
  BY <1>4 DEF Join, IInv, TypeOK, CurrentInv, JobInv, ReaderInv, Current
<1> QED
  BY <1>1, <1>2, <1>3, <1>4 DEF Stopping

LEMMA StartKeeps ==
  ASSUME IInv, up, Starting
  PROVE  IInv'
<1> USE DEF runner, StopPcs, StartPcs
<1>0. spc # "pipe" => Current \in Mtx
  BY CurrentIsMtx DEF Starting, MakePipe, CreateProcess, Assign, Resume, StartReader,
                      IInv, CurrentInv
<1>1. CASE MakePipe
  <2>1. CASE spc' = "idle"
    BY <1>1, <2>1 DEF MakePipe, IInv, TypeOK, CurrentInv, JobInv, ReaderInv, Current
  <2>2. CASE spc' = "create"
    <3>1. starts' = starts + 1 /\ starts' \in 0..MaxStarts /\ starts' > 0
      BY <1>1, <2>2, ChildrenAssumption DEF MakePipe, IInv, TypeOK
    <3>2. TypeOK'
      BY <1>1, <3>1 DEF MakePipe, IInv, TypeOK
    <3>3. Current' \in Mtx /\ Current'[2] > starts
      BY <3>1, <3>2, ChildrenAssumption DEF Current, Mtx, IInv, TypeOK
    <3>4. \A m \in Mtx : m[2] > starts' => m[2] > starts
      BY <3>1, ChildrenAssumption DEF Mtx, IInv, TypeOK
    <3>5. CurrentInv'
      BY <1>1, <2>2, <3>1, <3>3, <3>4 DEF MakePipe, IInv, CurrentInv
    <3>6. JobInv'
      BY <1>1, <2>2 DEF MakePipe, IInv, JobInv
    <3>7. ReaderInv'
      BY <1>1, <2>2 DEF MakePipe, IInv, ReaderInv
    <3> QED
      BY <3>2, <3>5, <3>6, <3>7 DEF IInv
  <2> QED
    BY <1>1, <2>1, <2>2 DEF MakePipe
<1>2. CASE CreateProcess
  <2>1. CASE Born(Current) /\ proc_' = TRUE /\ spc' = "assign"
    <3>1. proc' = [proc EXCEPT ![Current] = "suspended"]
          /\ (job' = job \/ job' = job \cup {Current})
      BY <1>0, <1>2, <2>1 DEF CreateProcess, Born
    <3>2. TypeOK'
      BY <1>0, <1>2, <2>1, <3>1, Apart DEF CreateProcess, IInv, TypeOK, ProcStates
    <3>3. CurrentInv'
      BY <1>0, <1>2, <2>1, <3>1, Apart
      DEF CreateProcess, IInv, TypeOK, CurrentInv, Current, Mtx
    <3>4. JobInv' /\ ReaderInv'
      BY <1>0, <1>2, <2>1, <3>1, Apart
      DEF CreateProcess, IInv, TypeOK, JobInv, ReaderInv, Current
    <3> QED
      BY <3>2, <3>3, <3>4 DEF IInv
  <2>2. CASE spc' = "idle" /\ UNCHANGED <<proc, job, proc_>>
    BY <1>2, <2>2 DEF CreateProcess, IInv, TypeOK, CurrentInv, JobInv, ReaderInv, Current
  <2> QED
    BY <1>2, <2>1, <2>2 DEF CreateProcess
<1>3. CASE Assign
  <2>1. TypeOK'
    BY <1>0, <1>3, Apart DEF Assign, IInv, TypeOK
  <2>2. CurrentInv' /\ JobInv' /\ ReaderInv'
    BY <1>0, <1>3 DEF Assign, IInv, CurrentInv, JobInv, ReaderInv, Current
  <2> QED
    BY <2>1, <2>2 DEF IInv
<1>4. CASE Resume
  <2>1. proc' = [proc EXCEPT ![Current] = "running"] /\ proc_
    BY <1>4 DEF Resume, IInv, CurrentInv
  <2>2. TypeOK'
    BY <1>4, <2>1 DEF Resume, IInv, TypeOK, ProcStates
  <2>3. CurrentInv'
    BY <1>0, <1>4, <2>1, Apart DEF Resume, IInv, TypeOK, CurrentInv, Current, Mtx
  <2>4. JobInv' /\ ReaderInv'
    BY <1>0, <1>4, <2>1, Apart DEF Resume, IInv, TypeOK, JobInv, ReaderInv, Current
  <2> QED
    BY <2>2, <2>3, <2>4 DEF IInv
<1>5. CASE StartReader
  <2>1. TypeOK'
    BY <1>0, <1>5 DEF StartReader, IInv, TypeOK
  <2>2. CurrentInv' /\ JobInv'
    BY <1>5 DEF StartReader, IInv, CurrentInv, JobInv, Current
  <2>3. ReaderInv'
    BY <1>0, <1>5 DEF StartReader, IInv, TypeOK, CurrentInv, ReaderInv, Current
  <2> QED
    BY <2>1, <2>2, <2>3 DEF IInv
<1> QED
  BY <1>1, <1>2, <1>3, <1>4, <1>5 DEF Starting

LEMMA RunKeeps ==
  ASSUME IInv, up, Run \/ Running
  PROVE  IInv'
<1> USE DEF starter
<1>0. TypeOK
  BY DEF IInv
<1>1. CASE Run
  <2>1. commands' = commands + 1 /\ commands' \in 0..MaxCommands /\ commands' > 0
    BY <1>1, <1>0, ChildrenAssumption DEF Run, TypeOK
  <2> QED
    BY <1>1, <2>1 DEF Run, IInv, TypeOK, CurrentInv, JobInv, ReaderInv, Current, NoOrphanRuns
<1>2. CASE RunCreate
  <2>1. Command \in Cmd
    BY <1>0, <1>2, CommandIsCmd DEF RunCreate, IInv, CurrentInv
  <2>2. CASE Born(Command)
    <3>1. proc' = [proc EXCEPT ![Command] = "running"]
          /\ (job' = job \/ job' = job \cup {Command})
      BY <2>1, <2>2, Apart DEF Born
    <3>2. \A m \in Mtx : proc'[m] = proc[m]
      BY <1>0, <2>1, <3>1, Apart DEF TypeOK
    <3>3. TypeOK'
      BY <1>2, <2>1, <3>1, Apart DEF RunCreate, IInv, TypeOK, ProcStates
    <3>4. spc \in StartPcs \ {"pipe"} => Current \in Mtx
      BY <1>0, CurrentIsMtx DEF IInv, CurrentInv
    <3>5. CurrentInv' /\ JobInv' /\ ReaderInv'
      BY <1>2, <3>1, <3>2, <3>4
      DEF RunCreate, IInv, CurrentInv, JobInv, ReaderInv, Current, StartPcs
    <3> QED
      BY <3>3, <3>5 DEF IInv
  <2>3. CASE rpc' = "idle" /\ UNCHANGED <<proc, job>>
    BY <1>0, <1>2, <2>3, NothingRuns DEF RunCreate, TypeOK
  <2> QED
    BY <1>2, <2>2, <2>3 DEF RunCreate
<1>3. CASE RunClose \/ Drained \/ (\E q \in Pipes : Drain(q))
  BY <1>0, <1>3, NothingRuns DEF RunClose, Drained, Drain, TypeOK, runner
<1>4. CASE Waited
  <2>1. Command \in Procs
    BY <1>0, <1>4, CommandIsCmd, Apart DEF Waited, IInv, CurrentInv
  <2>2. \/ proc' = proc
        \/ proc[Command] = "running" /\ proc' = [proc EXCEPT ![Command] = "dying"]
    BY <1>4 DEF Waited
  <2> QED
    BY <1>0, <1>4, <2>1, <2>2, NothingRuns DEF Waited, TypeOK, ProcStates
<1> QED
  BY <1>1, <1>2, <1>3, <1>4 DEF Running

LEMMA ChildrenNext == IInv /\ [Next]_vars => IInv'
<1> SUFFICES ASSUME IInv, [Next]_vars PROVE IInv'
  OBVIOUS
<1>1. CASE UNCHANGED vars
  BY <1>1 DEF vars, IInv, TypeOK, CurrentInv, JobInv, ReaderInv, Current, NoOrphanRuns
<1>2. CASE SupervisorDies
  <2>1. TypeOK'
    BY <1>2 DEF SupervisorDies, starter, runner, IInv, TypeOK, ProcStates
  <2>2. \A m \in Mtx : proc'[m] = IF m \in job THEN "dead" ELSE proc[m]
    BY <1>2, Apart DEF SupervisorDies
  <2>3. JobInv'
    BY <1>2, <2>2 DEF SupervisorDies, starter, IInv, JobInv, NoOrphanRuns
  <2>4. CurrentInv' /\ ReaderInv'
    BY <1>2 DEF SupervisorDies, starter, IInv, CurrentInv, ReaderInv, Current
  <2> QED
    BY <2>1, <2>3, <2>4 DEF IInv
<1> QED
  BY <1>1, <1>2, ProgramsKeep, StopKeeps, StartKeeps, RunKeeps DEF Next
LEMMA ChildrenInvariant == Spec => []IInv
BY ChildrenInit, ChildrenNext, PTL DEF Spec

\* No mediamtx outlives the supervisor, at whatever step of Start or Stop that
\* dies, unless the job refused it (process_supervisor.cpp:87-112).
THEOREM NoOrphanEver == Spec => []NoOrphanRuns
<1>1. IInv => NoOrphanRuns
  BY DEF IInv, JobInv, NoOrphanRuns
<1> QED
  BY <1>1, ChildrenInvariant, PTL

\* Of all incarnations only the current one has a reader
\* (process_supervisor.cpp:166-175).
THEOREM OldReaderAlwaysGone == Spec => []OldReaderGone
<1>1. IInv => OldReaderGone
  BY DEF IInv, ReaderInv, OldReaderGone
<1> QED
  BY <1>1, ChildrenInvariant, PTL
=============================================================================
