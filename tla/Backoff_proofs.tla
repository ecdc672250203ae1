--------------------------- MODULE Backoff_proofs ---------------------------
(* Proofs about Backoff, for every choice of its delays.                   *)
EXTENDS Backoff, TLAPS

\* Doubling stays within the bounds and grows below the cap.
LEMMA DoubledBounds ==
  ASSUME NEW d \in InitialDelay..MaxDelay
  PROVE  /\ Doubled(d) \in InitialDelay..MaxDelay
         /\ d < Doubled(d) \/ (d = MaxDelay /\ Doubled(d) = MaxDelay)
  BY DelaysAssumption DEF Doubled, Least

\* Whatever bookkeeping a caller hands to StartNoSleep, it leaves delays in
\* range and in the ladder.
LEMMA StartKeepsLadder ==
  ASSUME NEW past \in BOOLEAN, NEW seconds \in Nat,
         NEW d \in InitialDelay..MaxDelay, StartNoSleep(past, seconds, d)
  PROVE  TypeOK' /\ DelayLadder'
<1> DEFINE e == DelayIfReset(past, seconds, d)
<1>1. e \in InitialDelay..MaxDelay
  BY DelaysAssumption DEF DelayIfReset
<1>2. /\ Doubled(e) \in InitialDelay..MaxDelay
      /\ e < Doubled(e) \/ (e = MaxDelay /\ Doubled(e) = MaxDelay)
  BY <1>1, DoubledBounds
<1>3. /\ running' \in BOOLEAN /\ started' = TRUE /\ age' = 0
      /\ used' = e /\ delay' = Doubled(e)
  BY DEF StartNoSleep
<1> HIDE DEF e
<1>4. TypeOK'
  BY <1>1, <1>2, <1>3, DelaysAssumption DEF TypeOK, Saturated
<1>5. DelayLadder'
  BY <1>2, <1>3 DEF DelayLadder
<1> QED  BY <1>4, <1>5

\* The type invariant and the ladder are inductive together.
LEMMA LadderStep ==
  ASSUME TypeOK, DelayLadder, [Next]_vars
  PROVE  TypeOK' /\ DelayLadder'
<1>1. age \in Nat /\ started \in BOOLEAN /\ delay \in InitialDelay..MaxDelay
  BY DelaysAssumption DEF TypeOK, Saturated
<1>2. CASE TickRestart
  BY <1>1, <1>2, StartKeepsLadder DEF TickRestart
<1>3. CASE RebuildAndStart
  <2>1. Saturated \in Nat /\ InitialDelay \in InitialDelay..MaxDelay
    BY DelaysAssumption DEF Saturated
  <2> QED  BY <1>3, <2>1, StartKeepsLadder DEF RebuildAndStart
<1>4. CASE StartNow
  BY <1>1, <1>4, StartKeepsLadder DEF StartNow
<1>5. CASE ChildExits
  BY <1>5 DEF ChildExits, TypeOK, DelayLadder
<1>6. CASE Second
  <2>1. age' \in 0..Saturated
    BY <1>1, <1>6, DelaysAssumption DEF Second, Least, Saturated
  <2>2. UNCHANGED <<running, started, used, delay>>
    BY <1>6 DEF Second
  <2> QED  BY <2>1, <2>2 DEF TypeOK, DelayLadder
<1>7. CASE UNCHANGED vars
  BY <1>7 DEF vars, TypeOK, DelayLadder
<1> QED  BY <1>2, <1>3, <1>4, <1>5, <1>6, <1>7 DEF Next

\* For every choice of the delays, a flapping child is retried ever more
\* rarely and at least once per MaxDelay (main.cpp:133-148).
THEOREM LadderAlways == Spec => [](TypeOK /\ DelayLadder)
<1>1. Init => TypeOK /\ DelayLadder
  <2> SUFFICES ASSUME Init PROVE TypeOK /\ DelayLadder
    OBVIOUS
  <2>1. running \in BOOLEAN /\ started \in BOOLEAN
    BY DEF Init
  <2>2. /\ age \in 0..Saturated /\ used \in 0..MaxDelay
        /\ delay \in InitialDelay..MaxDelay /\ used < delay
    BY DelaysAssumption DEF Init, Saturated
  <2> QED  BY <2>1, <2>2 DEF TypeOK, DelayLadder
<1>2. TypeOK /\ DelayLadder /\ [Next]_vars => TypeOK' /\ DelayLadder'
  BY LadderStep
<1> QED  BY <1>1, <1>2, PTL DEF Spec

\* Every reachable state is well typed: no wait is longer than MaxDelay
\* (main.cpp:143).
THEOREM TypeCorrect == Spec => []TypeOK
BY LadderAlways, PTL

-----------------------------------------------------------------------------
(* How often the tick restarts a child.                                      *)

\* wait[k] is the wait after the k-th start of a row that began with the initial
\* delay, total[k] the time the first k of them take together.
IsLadder(wait, total) ==
  /\ wait \in [1..MaxStarts -> Nat] /\ total \in [0..MaxStarts -> Nat]
  /\ MaxStarts > 0 => wait[1] = InitialDelay
  /\ \A k \in 1..MaxStarts : k > 1 => wait[k] = Doubled(wait[k - 1])
  /\ total[0] = 0 /\ \A k \in 1..MaxStarts : total[k] = total[k - 1] + wait[k]

\* The starts of the window are a part of such a row: since the k-th last there
\* was time for the first k - 1 waits, and the wait in force is none of the
\* smaller ones.
WindowInv(wait, total) ==
  /\ log \in Seq(0..StableAfter) /\ Len(log) <= MaxStarts
  /\ \A i, j \in 1..Len(log) : i < j => log[j] < log[i]
  /\ \A k \in 1..Len(log) : log[k] >= age + total[Len(log) - k]
  /\ log # <<>> => used >= InitialDelay
  /\ \A k \in 1..Len(log) : used >= wait[k]
  /\ \A k \in 1..MaxStarts : k <= Len(log) + 1 => delay >= wait[k]

LEMMA Elements ==
  ASSUME NEW S, NEW s \in Seq(S)
  PROVE  \A k \in 1..Len(s) : s[k] \in S
OBVIOUS

LEMMA Retyped ==
  ASSUME NEW S, NEW T, NEW s \in Seq(T), \A k \in 1..Len(s) : s[k] \in S
  PROVE  s \in Seq(S)
OBVIOUS

LEMMA DoubledMonotone ==
  ASSUME NEW d \in Nat, NEW e \in Nat, d <= e
  PROVE  Doubled(d) \in Nat /\ Doubled(e) \in Nat /\ Doubled(d) <= Doubled(e)
BY DelaysAssumption DEF Doubled, Least

LEMMA EmptyWindow ==
  ASSUME NEW wait, NEW total, IsLadder(wait, total), log' = <<>>,
         delay' \in InitialDelay..MaxDelay
  PROVE  WindowInv(wait, total)'
<1>1. Len(log') = 0
  OBVIOUS
<1>2. \A k \in 1..MaxStarts : k <= 1 => delay' >= wait[k]
  BY DelaysAssumption DEF IsLadder
<1> QED
  BY <1>1, <1>2, DelaysAssumption DEF WindowInv

\* The tick waits at least as long as the row says, so that its start number
\* MaxStarts + 1 falls out of the window of the first.
LEMMA TickWindow ==
  ASSUME NEW wait, NEW total, IsLadder(wait, total), total[MaxStarts] > StableAfter,
         TypeOK, WindowInv(wait, total), TickRestart
  PROVE  WindowInv(wait, total)'
<1> DEFINE n == Len(log)
<1>0. /\ age \in Nat /\ used \in Nat /\ delay \in InitialDelay..MaxDelay
      /\ StableAfter \in Nat /\ MaxStarts \in Nat /\ InitialDelay \in Nat \ {0} /\ MaxDelay \in Nat
      /\ InitialDelay <= MaxDelay
  BY DelaysAssumption DEF TypeOK, Saturated
<1>1. /\ log \in Seq(0..StableAfter) /\ n \in Nat /\ n <= MaxStarts
      /\ \A k \in 1..n : log[k] \in 0..StableAfter
  <2>1. log \in Seq(0..StableAfter) /\ Len(log) <= MaxStarts
    BY DEF WindowInv
  <2>2. n \in Nat
    BY <2>1
  <2>3. \A k \in 1..Len(log) : log[k] \in 0..StableAfter
    BY <2>1, Elements, Zenon
  <2> QED
    BY <2>1, <2>2, <2>3
<1>2. /\ age >= used /\ age' = 0 /\ log' = Append(log, 0)
      /\ used' = DelayIfReset(started, age, delay) /\ delay' = Doubled(used')
  BY DEF TickRestart, StartNoSleep
<1>3. /\ log' \in Seq(0..StableAfter) /\ Len(log') = n + 1 /\ log'[n + 1] = 0
      /\ \A k \in 1..n : log'[k] = log[k]
  BY <1>0, <1>1, <1>2
<1>4. MaxStarts > 0
  BY <1>0 DEF IsLadder
<1>5. /\ wait \in [1..MaxStarts -> Nat] /\ total \in [0..MaxStarts -> Nat]
      /\ total[0] = 0 /\ \A k \in 1..MaxStarts : total[k] = total[k - 1] + wait[k]
  BY DEF IsLadder
<1> HIDE DEF n
<1>6. \A k \in 1..n : log[k] >= age + total[n - k] /\ age >= wait[k] /\ age >= InitialDelay
  <2> SUFFICES ASSUME NEW k \in 1..n
               PROVE  log[k] >= age + total[n - k] /\ age >= wait[k] /\ age >= InitialDelay
    OBVIOUS
  <2>1. log # <<>> /\ wait[k] \in Nat
    BY <1>0, <1>1, <1>5 DEF n
  <2>2. log[k] >= age + total[n - k] /\ used >= wait[k] /\ used >= InitialDelay
    BY <2>1 DEF WindowInv, n
  <2> QED
    BY <1>0, <1>2, <2>1, <2>2
<1>7. \A k \in 1..n : log[k] >= total[n + 1 - k]
  <2> SUFFICES ASSUME NEW k \in 1..n
               PROVE  log[k] >= total[n + 1 - k]
    OBVIOUS
  <2>1. n + 1 - k \in 1..n /\ n - k \in 0..MaxStarts /\ n + 1 - k \in 1..MaxStarts
        /\ (n + 1 - k) - 1 = n - k
    BY <1>0, <1>1
  <2>2. total[n + 1 - k] = total[n - k] + wait[n + 1 - k]
    BY <1>5, <2>1
  <2>3. age >= wait[n + 1 - k] /\ log[k] >= age + total[n - k]
    BY <1>6, <2>1
  <2>4. total[n - k] \in Nat /\ wait[n + 1 - k] \in Nat /\ log[k] \in Nat
    <3>1. log[k] \in 0..StableAfter
      BY <1>1
    <3> QED
      BY <1>0, <1>5, <2>1, <3>1
  <2> QED
    BY <1>0, <2>2, <2>3, <2>4
<1>8. n + 1 <= MaxStarts
  <2> SUFFICES ASSUME n = MaxStarts
               PROVE  FALSE
    BY <1>0, <1>1
  <2>1. 1 \in 1..n /\ n + 1 - 1 = MaxStarts
    BY <1>0, <1>1, <1>4
  <2>2. log[1] >= total[MaxStarts]
    BY <1>7, <2>1
  <2>3. log[1] \in 0..StableAfter
    BY <1>1, <2>1
  <2>4. total[MaxStarts] \in Nat
    BY <1>0, <1>5
  <2> QED
    BY <1>0, <2>2, <2>3, <2>4
<1>9. \A i, j \in 1..(n + 1) : i < j => log'[j] < log'[i]
  <2> SUFFICES ASSUME NEW i \in 1..(n + 1), NEW j \in 1..(n + 1), i < j
               PROVE  log'[j] < log'[i]
    OBVIOUS
  <2>1. i \in 1..n /\ log'[i] = log[i]
    BY <1>1, <1>3
  <2>2. CASE j = n + 1
    <3>1. log[i] >= age + total[n - i] /\ age >= InitialDelay
      BY <1>6, <2>1
    <3>2. total[n - i] \in Nat /\ log[i] \in 0..StableAfter
      <4>1. n - i \in 0..MaxStarts
        BY <1>0, <1>1, <2>1
      <4> QED
        BY <1>1, <1>5, <2>1, <4>1
    <3> QED
      BY <1>0, <1>3, <2>1, <2>2, <3>1, <3>2
  <2>3. CASE j \in 1..n
    BY <1>3, <2>1, <2>3 DEF WindowInv, n
  <2> QED
    BY <1>1, <2>2, <2>3
<1>10. \A k \in 1..(n + 1) : log'[k] >= age' + total[n + 1 - k]
  <2> SUFFICES ASSUME NEW k \in 1..(n + 1)
               PROVE  log'[k] >= age' + total[n + 1 - k]
    OBVIOUS
  <2>1. CASE k = n + 1
    <3>1. n + 1 - k = 0
      BY <1>1, <2>1
    <3> QED
      BY <1>2, <1>3, <1>5, <2>1, <3>1
  <2>2. CASE k \in 1..n
    <3>1. total[n + 1 - k] \in Nat
      BY <1>0, <1>1, <1>5, <1>8, <2>2
    <3> QED
      BY <1>2, <1>3, <1>7, <2>2, <3>1
  <2> QED
    BY <1>1, <2>1, <2>2
\* The delay is reset only after the window has emptied.
<1>11. /\ used' \in InitialDelay..MaxDelay
       /\ \A k \in 1..(n + 1) : used' >= wait[k]
  <2>1. CASE n = 0
    <3>1. used' \in InitialDelay..MaxDelay
      BY <1>0, <1>2 DEF DelayIfReset
    <3>2. wait[1] = InitialDelay
      BY <1>4 DEF IsLadder
    <3> QED
      BY <1>0, <2>1, <3>1, <3>2
  <2>2. CASE n > 0
    <3>1. log[n] \in 0..StableAfter /\ log[n] >= age + total[n - n] /\ n - n = 0
      BY <1>1, <1>6, <2>2
    <3>2. age <= StableAfter
      BY <1>0, <1>5, <3>1
    <3>3. used' = delay
      BY <1>0, <1>2, <3>2 DEF DelayIfReset
    <3>4. \A k \in 1..MaxStarts : k <= n + 1 => delay >= wait[k]
      BY DEF WindowInv, n
    <3> QED
      BY <1>0, <1>1, <1>8, <3>3, <3>4
  <2> QED
    BY <1>1, <2>1, <2>2
<1>12. \A k \in 1..MaxStarts : k <= (n + 1) + 1 => delay' >= wait[k]
  <2> SUFFICES ASSUME NEW k \in 1..MaxStarts, k <= (n + 1) + 1
               PROVE  delay' >= wait[k]
    OBVIOUS
  <2>1. CASE k = 1
    <3>1. wait[1] = InitialDelay
      BY <1>4 DEF IsLadder
    <3>2. Doubled(used') \in InitialDelay..MaxDelay
      BY <1>11, DoubledBounds
    <3> QED
      BY <1>0, <1>2, <2>1, <3>1, <3>2
  <2>2. CASE k > 1
    <3>1. k - 1 \in 1..(n + 1) /\ k - 1 \in 1..MaxStarts
      BY <1>0, <1>1, <2>2
    <3>2. wait[k] = Doubled(wait[k - 1]) /\ wait[k - 1] \in Nat
      BY <1>5, <2>2, <3>1 DEF IsLadder
    <3>3. used' >= wait[k - 1] /\ used' \in Nat
      BY <1>0, <1>11, <3>1
    <3>4. /\ Doubled(wait[k - 1]) <= Doubled(used')
          /\ Doubled(used') \in Nat /\ Doubled(wait[k - 1]) \in Nat
      <4>1. wait[k - 1] <= used'
        BY <3>2, <3>3
      <4> QED
        BY <3>2, <3>3, <4>1, DoubledMonotone
    <3> QED
      BY <1>2, <3>2, <3>4
  <2> QED
    BY <2>1, <2>2
<1>13. used' >= InitialDelay
  BY <1>0, <1>11
<1>14. Len(log') = n + 1
  BY <1>3
<1>15. \A k \in 1..Len(log') : log'[k] >= age' + total[Len(log') - k]
  <2> SUFFICES ASSUME NEW k \in 1..(n + 1)
               PROVE  log'[k] >= age' + total[Len(log') - k]
    BY <1>14
  <2> QED
    BY <1>1, <1>10, <1>14
<1> QED
  BY <1>3, <1>8, <1>9, <1>11, <1>12, <1>13, <1>14, <1>15 DEF WindowInv

LEMMA OneOlder ==
  \A a, b, c, d \in Nat : a >= c + b /\ d <= c + 1 => a + 1 >= d + b
OBVIOUS

\* A second later every start of the window is a second older, and the oldest may
\* have left it.
LEMMA SecondWindow ==
  ASSUME NEW wait, NEW total, IsLadder(wait, total), TypeOK, WindowInv(wait, total), Second
  PROVE  WindowInv(wait, total)'
<1> DEFINE n == Len(log)
           older == [k \in DOMAIN log |-> log[k] + 1]
<1>0. /\ age \in Nat /\ used \in Nat /\ delay \in Nat /\ StableAfter \in Nat /\ MaxStarts \in Nat
      /\ wait \in [1..MaxStarts -> Nat] /\ total \in [0..MaxStarts -> Nat] /\ total[0] = 0
  BY DelaysAssumption DEF TypeOK, Saturated, IsLadder
<1>1. /\ log \in Seq(0..StableAfter) /\ n \in Nat /\ n <= MaxStarts
      /\ \A k \in 1..n : log[k] \in 0..StableAfter
  <2>1. log \in Seq(0..StableAfter) /\ Len(log) <= MaxStarts
    BY DEF WindowInv
  <2>2. n \in Nat
    BY <2>1
  <2>3. \A k \in 1..Len(log) : log[k] \in 0..StableAfter
    BY <2>1, Elements, Zenon
  <2> QED
    BY <2>1, <2>2, <2>3
<1>2. /\ older \in Seq(Nat) /\ Len(older) = n /\ \A k \in 1..n : older[k] = log[k] + 1
  <2>1. DOMAIN log = 1..n
    BY <1>1
  <2>2. older \in [1..n -> Nat] /\ \A k \in 1..n : older[k] = log[k] + 1
    BY <1>0, <1>1, <2>1
  <2> HIDE DEF n, older
  <2> QED
    BY <1>1, <2>2
<1>3. UNCHANGED <<used, delay>> /\ age' = Least(age + 1, Saturated)
      /\ log' = IF log # <<>> /\ older[1] > StableAfter THEN Tail(older) ELSE older
  BY DEF Second
<1> HIDE DEF n, older
<1>4. \A i, j \in 1..n : i < j => log[j] < log[i]
  BY DEF WindowInv, n
<1>5. \A k \in 1..n : log[k] >= age + total[n - k]
  BY DEF WindowInv, n
<1>6. age' \in Nat /\ age' <= age + 1
  BY <1>0, <1>3 DEF Least, Saturated
<1>7. \E m \in {0, 1} :
        /\ Len(log') = n - m /\ m <= n /\ log' \in Seq(0..StableAfter)
        /\ \A k \in 1..(n - m) : log'[k] = log[k + m] + 1
  <2>1. CASE log # <<>> /\ older[1] > StableAfter
    <3>1. log' = Tail(older) /\ older # <<>> /\ n > 0
      BY <1>1, <1>2, <1>3, <2>1 DEF n
    <3>2. /\ Len(log') = n - 1 /\ \A k \in 1..(n - 1) : log'[k] = older[k + 1]
          /\ log' \in Seq(Nat)
      BY <1>2, <3>1
    <3>3. \A k \in 1..(n - 1) : log'[k] = log[k + 1] + 1 /\ log[k + 1] < log[1]
      BY <1>1, <1>2, <1>4, <3>1, <3>2
    <3>4. \A k \in 1..(n - 1) : log'[k] \in 0..StableAfter
      <4> SUFFICES ASSUME NEW k \in 1..(n - 1)
                   PROVE  log'[k] \in 0..StableAfter
        OBVIOUS
      <4>1. k + 1 \in 1..n /\ 1 \in 1..n
        BY <1>1, <3>1
      <4>2. log[k + 1] \in 0..StableAfter /\ log[1] \in 0..StableAfter
        BY <1>1, <4>1
      <4> QED
        BY <1>0, <3>3, <4>2
    <3>5. log' \in Seq(0..StableAfter)
      BY <3>2, <3>4, Retyped
    <3> QED
      BY <1>1, <3>1, <3>2, <3>3, <3>5
  <2>2. CASE ~(log # <<>> /\ older[1] > StableAfter)
    <3>1. log' = older
      BY <1>3, <2>2
    <3>2. \A k \in 1..n : older[k] \in 0..StableAfter
      <4> SUFFICES ASSUME NEW k \in 1..n
                   PROVE  older[k] \in 0..StableAfter
        OBVIOUS
      <4>1. log # <<>> /\ 1 \in 1..n
        BY <1>1 DEF n
      <4>2. older[1] <= StableAfter /\ older[1] = log[1] + 1 /\ older[k] = log[k] + 1
        BY <1>0, <1>1, <1>2, <2>2, <4>1
      <4>3. log[k] <= log[1]
        BY <1>1, <1>4, <4>1
      <4> QED
        <5>1. log[k] \in 0..StableAfter /\ log[1] \in 0..StableAfter
          BY <1>1, <4>1
        <5> QED
          BY <1>0, <4>2, <4>3, <5>1
    <3>3. older \in Seq(0..StableAfter)
      BY <1>2, <3>2, Retyped
    <3> QED
      BY <1>1, <1>2, <3>1, <3>3
  <2> QED
    BY <2>1, <2>2
<1>8. PICK m \in {0, 1} :
        /\ Len(log') = n - m /\ m <= n /\ log' \in Seq(0..StableAfter)
        /\ \A k \in 1..(n - m) : log'[k] = log[k + m] + 1
  BY <1>7
<1>9. \A i, j \in 1..(n - m) : i < j => log'[j] < log'[i]
  <2> SUFFICES ASSUME NEW i \in 1..(n - m), NEW j \in 1..(n - m), i < j
               PROVE  log'[j] < log'[i]
    OBVIOUS
  <2>1. i + m \in 1..n /\ j + m \in 1..n /\ i + m < j + m
    BY <1>1, <1>8
  <2>2. log[j + m] < log[i + m] /\ log[j + m] \in Nat /\ log[i + m] \in Nat
    BY <1>0, <1>1, <1>4, <2>1
  <2> QED
    BY <1>8, <2>2
<1>10. \A k \in 1..(n - m) : log'[k] >= age' + total[(n - m) - k]
  <2> SUFFICES ASSUME NEW k \in 1..(n - m)
               PROVE  log'[k] >= age' + total[(n - m) - k]
    OBVIOUS
  <2>1. k + m \in 1..n /\ (n - m) - k = n - (k + m) /\ n - (k + m) \in 0..MaxStarts
    BY <1>0, <1>1, <1>8
  <2>2. log[k + m] >= age + total[n - (k + m)] /\ log[k + m] \in Nat
        /\ total[n - (k + m)] \in Nat
    BY <1>0, <1>1, <1>5, <2>1
  <2>3. log'[k] = log[k + m] + 1
    BY <1>8
  <2>4. total[(n - m) - k] = total[n - (k + m)]
    BY <2>1
  <2>5. age \in Nat /\ age' \in Nat /\ age' <= age + 1
    BY <1>0, <1>6
  <2> DEFINE a == log[k + m]
             b == total[n - (k + m)]
  <2>6. a \in Nat /\ b \in Nat /\ a >= age + b
    BY <2>2
  <2>7. a + 1 >= age' + b
    <3> HIDE DEF a, b
    <3> QED
      BY <2>5, <2>6, OneOlder, Zenon
  <2> QED
    BY <2>3, <2>4, <2>7, Zenon
<1>11. n > 0 => used' >= InitialDelay
  BY <1>1, <1>3 DEF WindowInv, n
<1>12. \A k \in 1..(n - m) : used' >= wait[k]
  <2>1. used' = used /\ \A k \in 1..n : used >= wait[k]
    BY <1>3 DEF WindowInv, n
  <2>2. 1..(n - m) \subseteq 1..n
    BY <1>1, <1>8
  <2> QED
    BY <2>1, <2>2
<1>13. \A k \in 1..MaxStarts : k <= (n - m) + 1 => delay' >= wait[k]
  <2>1. delay' = delay /\ \A k \in 1..MaxStarts : k <= n + 1 => delay >= wait[k]
    BY <1>3 DEF WindowInv, n
  <2>2. \A k \in 1..MaxStarts : k <= (n - m) + 1 => k <= n + 1
    BY <1>0, <1>1, <1>8
  <2> QED
    BY <2>1, <2>2, Zenon
<1>14. n - m <= MaxStarts /\ (log' # <<>> => n > 0)
  BY <1>0, <1>1, <1>8
<1> QED
  BY <1>8, <1>9, <1>10, <1>11, <1>12, <1>13, <1>14 DEF WindowInv

\* However a child flaps, the tick starts it at most as often in StableAfter
\* seconds as it takes the waits of one row to add up to more than that
\* (main.cpp:133-148, 973-984).
THEOREM StormAlwaysBounded ==
  ASSUME NEW wait, NEW total, IsLadder(wait, total), total[MaxStarts] > StableAfter
  PROVE  Spec => []StormBounded
<1> DEFINE IInv == TypeOK /\ DelayLadder /\ WindowInv(wait, total)
<1>1. Init => WindowInv(wait, total)
  <2> SUFFICES ASSUME Init PROVE WindowInv(wait, total)
    OBVIOUS
  <2>1. log = <<>> /\ Len(log) = 0 /\ delay = InitialDelay
    BY DEF Init
  <2>2. \A k \in 1..MaxStarts : k <= 1 => delay >= wait[k]
    BY <2>1, DelaysAssumption DEF IsLadder
  <2> QED
    BY <2>1, <2>2, DelaysAssumption DEF WindowInv
<1>2. TypeOK /\ TypeOK' /\ WindowInv(wait, total) /\ [Next]_vars => WindowInv(wait, total)'
  <2> SUFFICES ASSUME TypeOK, TypeOK', WindowInv(wait, total), [Next]_vars
               PROVE  WindowInv(wait, total)'
    OBVIOUS
  <2>1. CASE TickRestart
    BY <2>1, TickWindow
  <2>2. CASE RebuildAndStart \/ StartNow
    BY <2>2, EmptyWindow DEF RebuildAndStart, StartNow, TypeOK
  <2>3. CASE ChildExits \/ UNCHANGED vars
    BY <2>3 DEF ChildExits, vars, WindowInv
  <2>4. CASE Second
    BY <2>4, SecondWindow
  <2> QED
    BY <2>1, <2>2, <2>3, <2>4 DEF Next
<1>3. WindowInv(wait, total) => StormBounded
  BY DEF WindowInv, StormBounded
<1> QED
  BY <1>1, <1>2, <1>3, TypeCorrect, PTL DEF Spec

\* With the delays of the source a child is restarted at most six times a minute
\* (main.cpp:104, 136, 143).
THEOREM SixStartsAMinute ==
  ASSUME InitialDelay = 1, MaxDelay = 30, StableAfter = 60, MaxStarts = 6
  PROVE  Spec => []StormBounded
<1> DEFINE wait == [k \in 1..6 |-> CASE k = 1 -> 1 [] k = 2 -> 2 [] k = 3 -> 4
                                     [] k = 4 -> 8 [] k = 5 -> 16 [] OTHER -> 30]
           total == [k \in 0..6 |-> CASE k = 0 -> 0 [] k = 1 -> 1 [] k = 2 -> 3 [] k = 3 -> 7
                                      [] k = 4 -> 15 [] k = 5 -> 31 [] OTHER -> 61]
<1>1. /\ wait \in [1..6 -> Nat] /\ wait[1] = 1 /\ wait[2] = 2 /\ wait[3] = 4
      /\ wait[4] = 8 /\ wait[5] = 16 /\ wait[6] = 30
  OBVIOUS
<1>2. /\ total \in [0..6 -> Nat] /\ total[0] = 0 /\ total[1] = 1 /\ total[2] = 3
      /\ total[3] = 7 /\ total[4] = 15 /\ total[5] = 31 /\ total[6] = 61
  OBVIOUS
<1> HIDE DEF wait, total
<1>3. \A k \in 1..6 : k > 1 => wait[k] = Doubled(wait[k - 1])
  <2>1. /\ Doubled(1) = 2 /\ Doubled(2) = 4 /\ Doubled(4) = 8 /\ Doubled(8) = 16
        /\ Doubled(16) = 30
    BY DEF Doubled, Least
  <2> SUFFICES ASSUME NEW k \in 1..6, k > 1
               PROVE  wait[k] = Doubled(wait[k - 1])
    OBVIOUS
  <2>2. k = 2 \/ k = 3 \/ k = 4 \/ k = 5 \/ k = 6
    OBVIOUS
  <2> QED
    BY <1>1, <2>1, <2>2
<1>4. \A k \in 1..6 : total[k] = total[k - 1] + wait[k]
  <2> SUFFICES ASSUME NEW k \in 1..6
               PROVE  total[k] = total[k - 1] + wait[k]
    OBVIOUS
  <2>1. k = 1 \/ k = 2 \/ k = 3 \/ k = 4 \/ k = 5 \/ k = 6
    OBVIOUS
  <2> QED
    BY <1>1, <1>2, <2>1
<1>5. IsLadder(wait, total)
  BY <1>1, <1>2, <1>3, <1>4 DEF IsLadder
<1>6. total[MaxStarts] > StableAfter
  BY <1>2
<1> QED
  BY <1>5, <1>6, StormAlwaysBounded
=============================================================================
