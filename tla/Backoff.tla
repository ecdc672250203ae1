------------------------------ MODULE Backoff ------------------------------
(***************************************************************************)
(* The restart clock of one supervised child: struct Backoff and           *)
(* StartNoSleep (main.cpp:96-106, 133-148) with their three callers: the   *)
(* tick, which waits for earliest_next; rebuildSlot + StartNoSleep, which  *)
(* forgets the past (slots); and set-viewer-credentials, which starts      *)
(* mediamtx at once without forgetting it.                                 *)
(*                                                                         *)
(* Time is in seconds and relative to last_start: `age` is now -           *)
(* last_start, saturating where no comparison can tell any more, and       *)
(* `used` is earliest_next - last_start.  Of `restarts` the code only      *)
(* reads whether it is positive (`started`).                               *)
(***************************************************************************)
EXTENDS Naturals, Sequences

CONSTANTS
  InitialDelay,  \* 1 (main.cpp:104)
  MaxDelay,      \* 30 (main.cpp:143)
  StableAfter,   \* 60 (main.cpp:136)
  MaxStarts      \* restarts the tick may make in a window of StableAfter

ASSUME DelaysAssumption ==
  /\ InitialDelay \in Nat \ {0} /\ MaxDelay \in Nat /\ StableAfter \in Nat
  /\ MaxStarts \in Nat
  /\ InitialDelay <= MaxDelay /\ MaxDelay <= StableAfter

VARIABLES
  running,   \* the child
  started,   \* restarts > 0
  age,       \* now - last_start, at most StableAfter + 1
  used,      \* earliest_next - last_start
  delay,     \* delay
  log        \* history: ages of the tick's starts in the last StableAfter s

vars == <<running, started, age, used, delay, log>>

Least(m, n) == IF m <= n THEN m ELSE n
Saturated == StableAfter + 1

Init ==
  /\ running = FALSE /\ started = FALSE
  /\ age = Saturated /\ used = 0 /\ delay = InitialDelay
  /\ log = <<>>

DoubledUncapped(d) == 2 * d                         \* mutant
DoubledNever(d) == d                                \* mutant
Doubled(d) == Least(2 * d, MaxDelay)

\* The delay that counts at a start: reset if the last start is long ago.
DelayIfReset(past, seconds, d) ==
  IF past /\ seconds > StableAfter THEN InitialDelay ELSE d

\* StartNoSleep with the bookkeeping (past, seconds, d) it finds.
StartNoSleepAlwaysReset(past, seconds, d) ==        \* mutant
  /\ running' \in BOOLEAN /\ started' = TRUE /\ age' = 0
  /\ used' = InitialDelay /\ delay' = Doubled(InitialDelay)
StartNoSleep(past, seconds, d) ==
  LET e == DelayIfReset(past, seconds, d) IN
  /\ running' \in BOOLEAN                           \* p.Start() may fail
  /\ started' = TRUE /\ age' = 0
  /\ used' = e
  /\ delay' = Doubled(e)

\* Supervision tick: now >= earliest_next.
TickRestart ==
  /\ ~running /\ age >= used
  /\ StartNoSleep(started, age, delay)
  /\ log' = Append(log, 0)

\* rebuildSlot: Backoff{} first.
RebuildAndStart ==
  /\ StartNoSleep(FALSE, Saturated, InitialDelay)
  /\ log' = <<>>

\* set-viewer-credentials: stop and start, whatever earliest_next says.
StartNow ==
  /\ StartNoSleep(started, age, delay)
  /\ log' = <<>>

ChildExits ==
  /\ running /\ running' = FALSE
  /\ UNCHANGED <<started, age, used, delay, log>>

\* A second passes.  No two starts of the tick fall into the same second, so at
\* most one, the oldest, leaves the window.
Second ==
  /\ age' = Least(age + 1, Saturated)
  /\ log' = LET older == [k \in DOMAIN log |-> log[k] + 1]
            IN  IF log # <<>> /\ older[1] > StableAfter THEN Tail(older) ELSE older
  /\ UNCHANGED <<running, started, used, delay>>

Next == TickRestart \/ RebuildAndStart \/ StartNow \/ ChildExits \/ Second

Spec == Init /\ [][Next]_vars

-----------------------------------------------------------------------------
TypeOK ==
  /\ running \in BOOLEAN /\ started \in BOOLEAN
  /\ age \in 0..Saturated /\ used \in 0..MaxDelay /\ delay \in InitialDelay..MaxDelay

\* The wait in force is smaller than the next one unless both are MaxDelay: a
\* child that flaps is retried ever more rarely, yet at least once per MaxDelay
\* (main.cpp:136-143).
DelayLadder == used < delay \/ (used = MaxDelay /\ delay = MaxDelay)

\* However a child flaps, the tick starts it at most MaxStarts times in any
\* StableAfter seconds without a user asking: 6 times in a minute for the
\* delays 1, 2, 4, 8, 16, 30.
StormBounded == Len(log) <= MaxStarts
=============================================================================
