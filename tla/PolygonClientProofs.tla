------------------------ MODULE PolygonClientProofs -------------------------
(***************************************************************************)
(* Proofs about the rate limiter, for any number of tasks, any limit, any  *)
(* window and any reading of the clock, and that the client, which uses    *)
(* it from calls that retry and are cancelled, keeps what it guarantees.   *)
(***************************************************************************)
EXTENDS PolygonClient, OrderFacts, SequenceTheorems

-----------------------------------------------------------------------------
\* The limiter's inductive invariant.

\* asyncio.Lock is never free while a task waits, and no one waits twice.
LockHandedOver ==
  /\ holder = None => queue = << >> /\ sleepUntil = None
  /\ \A i, j \in DOMAIN queue : i # j => queue[i] # queue[j]
  /\ \A i \in DOMAIN queue : queue[i] # holder

\* The log of permits, and the deque as its end.
LogInv ==
  /\ \A i \in 1 .. Len(granted) : granted[i] <= clock
  /\ Len(times) <= Len(granted)
  /\ Len(times) <= Limit
  /\ \A i \in 1 .. Len(times) : times[i] = granted[Len(granted) - Len(times) + i]

\* Permits that are no longer in the deque have aged out.
ForgottenInv ==
  \A i \in 1 .. Len(granted) - Len(times) : granted[i] <= clock - Window

SleepInv ==
  sleepUntil # None => Len(times) = Limit /\ sleepUntil = times[1] + Window

LInv ==
  /\ LimiterTypeOK
  /\ LogInv
  /\ ForgottenInv
  /\ SleepInv
  /\ WindowRespected
  /\ LockHandedOver

\* What only time, the lock or a timer changes.
LEMMA LockStepKeepsLInv ==
  ASSUME LInv, LimiterTypeOK', LockHandedOver', SleepInv',
         UNCHANGED <<clock, times, granted>>
  PROVE  LInv'
  BY DEF LInv, LogInv, ForgottenInv, WindowRespected

LEMMA HandOverKeepsLock ==
  ASSUME LimiterTypeOK, LockHandedOver, HandOver, sleepUntil' = None
  PROVE  LockHandedOver' /\ queue' \in Seq(Tasks) /\ holder' \in Tasks \cup {None}
<1>0. queue \in Seq(Tasks)
  BY DEF LimiterTypeOK
<1>1. CASE queue = << >>
  BY <1>0, <1>1 DEF HandOver, LockHandedOver
<1>2. CASE queue # << >>
  <2>1. holder' = Head(queue) /\ queue' = Tail(queue)
    BY <1>2 DEF HandOver
  <2>2. /\ holder' \in Tasks
        /\ queue' \in Seq(Tasks)
        /\ Len(queue) \in Nat \ {0}
        /\ Len(queue') = Len(queue) - 1
        /\ \A i \in 1 .. Len(queue') : queue'[i] = queue[i + 1]
    BY <1>0, <1>2, <2>1, HeadTailProperties, EmptySeq
  <2>3. holder' = queue[1] /\ DOMAIN queue = 1 .. Len(queue)
        /\ DOMAIN queue' = 1 .. Len(queue')
    BY <1>0, <1>2, <2>1, <2>2
  <2>4. \A i, j \in 1 .. Len(queue) : i # j => queue[i] # queue[j]
    BY <2>3 DEF LockHandedOver
  <2>5. \A i, j \in DOMAIN queue' : i # j => queue'[i] # queue'[j]
    BY <2>2, <2>3, <2>4
  <2>6. \A i \in DOMAIN queue' : queue'[i] # holder'
    BY <2>2, <2>3, <2>4
  <2> QED BY <2>2, <2>5, <2>6, LimiterConstants DEF LockHandedOver
<1> QED BY <1>1, <1>2

LEMMA AcquireKeepsLInv ==
  ASSUME LInv, NEW t \in Tasks, Acquire(t)
  PROVE  LInv'
<1>0. queue \in Seq(Tasks) /\ holder \in Tasks \cup {None} /\ LockHandedOver
  BY DEF LInv, LimiterTypeOK
<1>1. UNCHANGED <<clock, times, granted, sleepUntil>>
  BY DEF Acquire
<1>2. queue' \in Seq(Tasks) /\ holder' \in Tasks \cup {None} /\ LockHandedOver'
  <2>1. CASE holder = None
    <3>1. holder' = t /\ queue' = queue /\ queue = << >>
      BY <2>1, <1>0 DEF Acquire, LockHandedOver
    <3> QED BY <3>1, <1>0, LimiterConstants DEF LockHandedOver
  <2>2. CASE holder # None
    <3>1. /\ holder' = holder /\ holder # t /\ queue' = Append(queue, t)
          /\ \A i \in DOMAIN queue : queue[i] # t
      BY <2>2 DEF Acquire, Waits
    <3>2. /\ queue' \in Seq(Tasks)
          /\ Len(queue') = Len(queue) + 1
          /\ \A i \in 1 .. Len(queue) : queue'[i] = queue[i]
          /\ queue'[Len(queue) + 1] = t
      BY <1>0, <3>1, AppendProperties
    <3>3. /\ DOMAIN queue = 1 .. Len(queue) /\ Len(queue) \in Nat
          /\ DOMAIN queue' = 1 .. Len(queue) + 1
      BY <1>0, <3>2
    <3>4. \A i, j \in DOMAIN queue' : i # j => queue'[i] # queue'[j]
      BY <1>0, <3>1, <3>2, <3>3 DEF LockHandedOver
    <3>5. \A i \in DOMAIN queue' : queue'[i] # holder'
      BY <1>0, <3>1, <3>2, <3>3 DEF LockHandedOver
    <3> QED BY <2>2, <1>0, <3>1, <3>2, <3>4, <3>5 DEF LockHandedOver
  <2> QED BY <2>1, <2>2
<1>3. LimiterTypeOK' /\ SleepInv'
  BY <1>1, <1>2 DEF LInv, LimiterTypeOK, SleepInv
<1> QED BY <1>1, <1>2, <1>3, LockStepKeepsLInv

LEMMA RemoveAtFacts ==
  ASSUME NEW S, NEW q \in Seq(S), NEW k \in 1 .. Len(q)
  PROVE  /\ RemoveAt(q, k) \in Seq(S)
         /\ Len(RemoveAt(q, k)) = Len(q) - 1
         /\ \A i \in 1 .. Len(q) - 1 :
              RemoveAt(q, k)[i] = IF i < k THEN q[i] ELSE q[i + 1]
<1> DEFINE before == SubSeq(q, 1, k - 1)
           after == SubSeq(q, k + 1, Len(q))
<1>1. Len(q) \in Nat /\ \A i \in 1 .. Len(q) : q[i] \in S
  BY LenProperties, ElementOfSeq
<1>2. /\ before \in Seq(S) /\ Len(before) = k - 1
      /\ \A i \in 1 .. k - 1 : before[i] = q[i]
  BY <1>1, SubSeqProperties
<1>3. /\ after \in Seq(S) /\ Len(after) = Len(q) - k
      /\ \A i \in 1 .. Len(q) - k : after[i] = q[k + i]
  BY <1>1, SubSeqProperties
<1>4. RemoveAt(q, k) = before \o after
  BY DEF RemoveAt
<1> HIDE DEF before, after
<1>5. /\ before \o after \in Seq(S)
      /\ Len(before \o after) = Len(before) + Len(after)
      /\ \A i \in 1 .. Len(before) + Len(after) :
           (before \o after)[i] =
             IF i <= Len(before) THEN before[i] ELSE after[i - Len(before)]
  BY <1>2, <1>3, ConcatProperties
<1>6. Len(before) + Len(after) = Len(q) - 1
  BY <1>1, <1>2, <1>3
<1>7. ASSUME NEW i \in 1 .. Len(q) - 1
      PROVE  RemoveAt(q, k)[i] = IF i < k THEN q[i] ELSE q[i + 1]
  <2>1. RemoveAt(q, k)[i] = IF i < k THEN before[i] ELSE after[i - (k - 1)]
    BY <1>1, <1>2, <1>4, <1>5, <1>6
  <2>2. CASE i < k
    <3>1. i \in 1 .. k - 1 /\ before[i] = q[i]
      BY <1>1, <1>2, <2>2
    <3> QED BY <2>1, <2>2, <3>1
  <2>3. CASE ~(i < k)
    <3>1. i - (k - 1) \in 1 .. Len(q) - k /\ k + (i - (k - 1)) = i + 1
      BY <1>1, <2>3
    <3>2. after[i - (k - 1)] = q[k + (i - (k - 1))]
      BY <1>3, <3>1
    <3> QED BY <2>1, <2>3, <3>1, <3>2
  <2> QED BY <2>2, <2>3
<1> QED BY <1>4, <1>5, <1>6, <1>7

LEMMA CancelKeepsLInv ==
  ASSUME LInv, NEW t \in Tasks, Cancel(t)
  PROVE  LInv'
<1>0. queue \in Seq(Tasks) /\ LockHandedOver /\ LimiterTypeOK
  BY DEF LInv, LimiterTypeOK
<1>1. UNCHANGED <<clock, times, granted>>
  BY DEF Cancel
<1>2. CASE holder = t
  <2>1. HandOver /\ sleepUntil' = None
    BY <1>2 DEF Cancel
  <2>2. LockHandedOver' /\ queue' \in Seq(Tasks) /\ holder' \in Tasks \cup {None}
    BY <1>0, <2>1, HandOverKeepsLock
  <2>3. LimiterTypeOK' /\ SleepInv'
    BY <1>0, <1>1, <2>1, <2>2 DEF LimiterTypeOK, SleepInv
  <2> QED BY <1>1, <2>2, <2>3, LockStepKeepsLInv
<1>3. CASE holder # t
  <2>1. PICK k \in DOMAIN queue : queue[k] = t /\ queue' = RemoveAt(queue, k)
    BY <1>3 DEF Cancel
  <2>2. UNCHANGED <<holder, sleepUntil>>
    BY <1>3 DEF Cancel
  <2>3. /\ Len(queue) \in Nat /\ k \in 1 .. Len(queue)
        /\ DOMAIN queue = 1 .. Len(queue)
        /\ \A i \in 1 .. Len(queue) : queue[i] \in Tasks
    BY <1>0, ElementOfSeq
  <2>4. /\ queue' \in Seq(Tasks)
        /\ Len(queue') = Len(queue) - 1
        /\ \A i \in 1 .. Len(queue) - 1 :
             queue'[i] = IF i < k THEN queue[i] ELSE queue[i + 1]
    BY <1>0, <2>1, <2>3, RemoveAtFacts
  <2>5. DOMAIN queue' = 1 .. Len(queue) - 1
    BY <2>4
  <2> DEFINE old(i) == IF i < k THEN i ELSE i + 1
  <2>6. \A i \in DOMAIN queue' : old(i) \in DOMAIN queue /\ queue'[i] = queue[old(i)]
    BY <2>3, <2>4, <2>5
  <2>7. \A i, j \in DOMAIN queue' : i # j => old(i) # old(j)
    BY <2>3, <2>5
  <2> HIDE DEF old
  <2>8. \A i, j \in DOMAIN queue' : i # j => queue'[i] # queue'[j]
    BY <1>0, <2>6, <2>7 DEF LockHandedOver
  <2>9. \A i \in DOMAIN queue' : queue'[i] # holder'
    BY <1>0, <2>2, <2>6 DEF LockHandedOver
  <2>10. holder # None
    BY <1>0, <2>3 DEF LockHandedOver
  <2>11. LockHandedOver'
    BY <2>2, <2>8, <2>9, <2>10 DEF LockHandedOver
  <2>12. LimiterTypeOK' /\ SleepInv'
    BY <1>1, <2>2, <2>4 DEF LInv, LimiterTypeOK, SleepInv
  <2> QED BY <1>1, <2>11, <2>12, LockStepKeepsLInv
<1> QED BY <1>2, <1>3

\* Popping aged permits keeps the deque an end of the log.
LEMMA PoppedKeepsLog ==
  ASSUME LInv, NEW n \in 0 .. Len(times), Popped(n)
  PROVE  /\ Kept(n) \in Seq(Nat)
         /\ Len(Kept(n)) = Len(times) - n
         /\ \A i \in 1 .. Len(times) - n :
              /\ Kept(n)[i] = times[n + i]
              /\ Kept(n)[i] = granted[Len(granted) - (Len(times) - n) + i]
         /\ \A i \in 1 .. Len(granted) - (Len(times) - n) :
              granted[i] <= clock - Window
<1> USE DEF LInv, LimiterTypeOK
<1>1. /\ Kept(n) \in Seq(Nat)
      /\ Len(Kept(n)) = Len(times) - n
      /\ \A i \in 1 .. Len(times) - n : Kept(n)[i] = times[n + i]
  BY DEF Kept
<1>2. \A i \in 1 .. Len(times) - n :
        times[n + i] = granted[Len(granted) - (Len(times) - n) + i]
  BY DEF LogInv
<1>3. ASSUME NEW i \in 1 .. Len(granted) - (Len(times) - n)
      PROVE  granted[i] <= clock - Window
  <2>1. CASE i <= Len(granted) - Len(times)
    BY <2>1 DEF ForgottenInv, LogInv
  <2>2. CASE i > Len(granted) - Len(times)
    <3> DEFINE d == Len(granted) - Len(times)
    <3>1. d \in Nat /\ i - d \in 1 .. n /\ i - d \in 1 .. Len(times) /\ d + (i - d) = i
      <4> DEFINE len == Len(times)
                 all == Len(granted)
      <4>1. len \in Nat /\ all \in Nat
        BY LenProperties
      <4>2. len <= all
        BY DEF LogInv
      <4>3. n \in 0 .. len /\ i \in 1 .. all - (len - n) /\ i > all - len
        BY <2>2
      <4> HIDE DEF len, all
      <4>4. /\ all - len \in Nat /\ i - (all - len) \in 1 .. n
            /\ i - (all - len) \in 1 .. len /\ (all - len) + (i - (all - len)) = i
        BY ONLY <4>1, <4>2, <4>3
      <4> QED BY ONLY <4>4 DEF len, all
    <3>2. times[i - d] = granted[d + (i - d)]
      <4>1. \A j \in 1 .. Len(times) : times[j] = granted[d + j]
        BY DEF LogInv
      <4> DEFINE j == i - d
      <4>2. j \in 1 .. Len(times)
        BY <3>1
      <4> HIDE DEF d, j
      <4>3. times[j] = granted[d + j]
        BY ONLY <4>1, <4>2
      <4> QED BY <4>3 DEF j
    <3>3. times[i - d] <= clock - Window
      BY <3>1 DEF Popped, AgedOut
    <3> QED BY <3>1, <3>2, <3>3
  <2> QED BY <2>1, <2>2
<1> QED BY <1>1, <1>2, <1>3

LEMMA GrantKeepsLInv ==
  ASSUME LInv, NEW t \in Tasks, Grant(t)
  PROVE  LInv'
<1> USE LimiterConstants DEF LInv, LimiterTypeOK
<1>1. PICK n \in 0 .. Len(times) :
        /\ Popped(n)
        /\ Len(times) - n < Limit
        /\ times' = Append(Kept(n), clock)
  BY DEF Grant
<1>2. /\ granted' = Append(granted, clock) /\ clock' = clock
      /\ sleepUntil' = None /\ sleepUntil = None
  BY DEF Grant
<1> DEFINE m == Len(times) - n
<1>3. /\ Kept(n) \in Seq(Nat) /\ Len(Kept(n)) = m
      /\ \A i \in 1 .. m : Kept(n)[i] = granted[Len(granted) - m + i]
      /\ \A i \in 1 .. Len(granted) - m : granted[i] <= clock - Window
  BY <1>1, PoppedKeepsLog
<1>4. m \in Nat /\ m < Limit /\ m <= Len(granted)
  BY <1>1 DEF LogInv
<1> HIDE DEF m
<1>5. /\ times' \in Seq(Nat) /\ Len(times') = m + 1
      /\ \A i \in 1 .. m : times'[i] = Kept(n)[i]
      /\ times'[m + 1] = clock
  <2>1. clock \in Nat
    BY LimiterConstants
  <2> QED BY <1>1, <1>3, <1>4, <2>1, AppendProperties
<1>6. /\ granted' \in Seq(Nat) /\ Len(granted') = Len(granted) + 1
      /\ \A i \in 1 .. Len(granted) : granted'[i] = granted[i]
      /\ granted'[Len(granted) + 1] = clock
  <2>1. clock \in Nat /\ granted \in Seq(Nat)
    BY LimiterConstants
  <2> QED BY <1>2, <2>1, AppendProperties
<1>7. LimiterTypeOK' /\ LockHandedOver'
  BY <1>2, <1>5, <1>6, HandOverKeepsLock DEF Grant
<1>8. LogInv'
  <2>1. ASSUME NEW i \in 1 .. m + 1
        PROVE  times'[i] = granted'[Len(granted) - m + i]
    <3>1. CASE i = m + 1
      BY <1>4, <1>5, <1>6, <3>1
    <3>2. CASE i \in 1 .. m
      <4>1. Len(granted) - m + i \in 1 .. Len(granted)
        BY <1>4, <3>2
      <4> QED BY <1>3, <1>5, <1>6, <3>2, <4>1
    <3> QED BY <1>4, <3>1, <3>2
  <2>2. Len(granted') - Len(times') = Len(granted) - m
    BY <1>4, <1>5, <1>6
  <2>3. ASSUME NEW i \in 1 .. Len(granted') PROVE granted'[i] <= clock'
    <3>1. CASE i = Len(granted) + 1
      BY <1>2, <1>6, <3>1
    <3>2. CASE i \in 1 .. Len(granted)
      BY <1>2, <1>6, <3>2 DEF LogInv
    <3> QED BY <1>6, <3>1, <3>2
  <2>4. \A i \in 1 .. Len(times') :
          times'[i] = granted'[Len(granted') - Len(times') + i]
    BY <1>5, <2>1, <2>2
  <2>5. Len(times') <= Len(granted') /\ Len(times') <= Limit
    BY <1>4, <1>5, <1>6
  <2> QED BY <2>3, <2>4, <2>5 DEF LogInv
<1>9. ForgottenInv'
  BY <1>2, <1>3, <1>4, <1>5, <1>6 DEF ForgottenInv
<1>10. WindowRespected'
  <2> SUFFICES ASSUME NEW i \in 1 .. Len(granted) + 1,
                      i + Limit \in 1 .. Len(granted) + 1
               PROVE  granted'[i + Limit] - granted'[i] >= Window
    <3>1. DOMAIN granted' = 1 .. Len(granted) + 1 /\ Limit' = Limit /\ Window' = Window
      BY <1>6
    <3> QED BY <3>1 DEF WindowRespected
  <2>0. Len(granted) \in Nat /\ DOMAIN granted = 1 .. Len(granted)
    OBVIOUS
  <2>1. CASE i + Limit <= Len(granted)
    <3>1. i \in 1 .. Len(granted) /\ i + Limit \in 1 .. Len(granted)
      BY <2>0, <2>1
    <3>2. granted[i + Limit] - granted[i] >= Window
      BY <2>0, <3>1 DEF WindowRespected
    <3> QED BY <1>6, <3>1, <3>2
  <2>2. CASE i + Limit = Len(granted) + 1
    <3>1. i \in 1 .. Len(granted) - m /\ i \in 1 .. Len(granted)
      BY <1>4, <2>2
    <3>2. granted[i] <= clock - Window /\ granted[i] \in Nat
      BY <1>3, <3>1, ElementOfSeq
    <3>3. clock \in Nat /\ Window \in Nat
      BY LimiterConstants
    <3>4. granted'[i + Limit] = clock /\ granted'[i] = granted[i]
      BY <1>6, <2>2, <3>1
    <3> QED BY <3>2, <3>3, <3>4
  <2>3. i + Limit <= Len(granted) \/ i + Limit = Len(granted) + 1
    <3> DEFINE last == i + Limit
               len == Len(granted)
    <3>1. last \in Int /\ len \in Int /\ last <= len + 1
      BY <2>0
    <3> HIDE DEF last, len
    <3>2. last <= len \/ last = len + 1
      BY <3>1
    <3> QED BY <3>2 DEF last, len
  <2> QED BY <2>1, <2>2, <2>3
<1> QED BY <1>2, <1>7, <1>8, <1>9, <1>10 DEF SleepInv

LEMMA SleepKeepsLInv ==
  ASSUME LInv, NEW t \in Tasks, Sleep(t)
  PROVE  LInv'
<1> USE LimiterConstants DEF LInv, LimiterTypeOK
<1>1. PICK n \in 0 .. Len(times) :
        /\ Popped(n)
        /\ Len(times) - n >= Limit
        /\ times' = Kept(n)
        /\ sleepUntil' = times[n + 1] + Window
  BY DEF Sleep
<1>2. UNCHANGED <<clock, holder, queue, granted>> /\ holder = t
  BY DEF Sleep
<1>3. n = 0 /\ Len(times) = Limit
  BY <1>1 DEF LogInv
<1>4. /\ times' \in Seq(Nat) /\ Len(times') = Len(times)
      /\ \A i \in 1 .. Len(times) : times'[i] = times[i]
  BY <1>1, <1>3, PoppedKeepsLog
<1>5. SleepInv' /\ sleepUntil' \in Nat
  BY <1>1, <1>3, <1>4 DEF SleepInv
<1>6. LimiterTypeOK' /\ LockHandedOver'
  BY <1>2, <1>4, <1>5 DEF LockHandedOver
<1>7. LogInv' /\ ForgottenInv' /\ WindowRespected'
  BY <1>2, <1>4 DEF LogInv, ForgottenInv, WindowRespected
<1> QED BY <1>5, <1>6, <1>7

LEMMA WakeUpKeepsLInv == LInv /\ WakeUp => LInv'
<1> SUFFICES ASSUME LInv, WakeUp PROVE LInv'
  OBVIOUS
<1>1. LimiterTypeOK' /\ LockHandedOver' /\ SleepInv'
  BY DEF WakeUp, LInv, LimiterTypeOK, LockHandedOver, SleepInv
<1> QED BY <1>1, LockStepKeepsLInv DEF WakeUp

LEMMA TimeKeepsLInv == LInv /\ TimePasses => LInv'
<1> SUFFICES ASSUME LInv, TimePasses PROVE LInv'
  OBVIOUS
<1>1. /\ clock' = clock + 1 /\ clock \in Nat /\ clock' \in 0 .. MaxClock
      /\ UNCHANGED <<times, holder, queue, sleepUntil, granted>>
  BY LimiterConstants DEF TimePasses, LInv, LimiterTypeOK
<1>2. LimiterTypeOK' /\ LockHandedOver' /\ WindowRespected'
  <2>1. LimiterTypeOK'
    BY <1>1 DEF LInv, LimiterTypeOK
  <2> QED BY <1>1, <2>1 DEF LInv, LockHandedOver, WindowRespected
<1>3. LogInv'
  BY <1>1 DEF LInv, LimiterTypeOK, LogInv
<1>4. ForgottenInv'
  <2> SUFFICES ASSUME NEW i \in 1 .. Len(granted') - Len(times')
               PROVE  granted'[i] <= clock' - Window
    BY DEF ForgottenInv
  <2>1. i \in 1 .. Len(granted) - Len(times)
    BY <1>1
  <2>2. granted[i] <= clock - Window
    BY <2>1 DEF LInv, ForgottenInv
  <2>3. i \in 1 .. Len(granted) /\ granted \in Seq(Nat)
    BY <2>1, LenProperties DEF LInv, LimiterTypeOK
  <2>4. granted[i] \in Nat
    BY <2>3, ElementOfSeq
  <2> QED BY <1>1, <2>2, <2>4, LimiterConstants
<1>5. SleepInv'
  BY <1>1, LimiterConstants DEF LInv, LimiterTypeOK, SleepInv
<1> QED BY <1>2, <1>3, <1>4, <1>5 DEF LInv

LEMMA InitLInv == LimiterInit => LInv
  BY LimiterConstants
     DEF LInv, LimiterInit, LimiterTypeOK, LogInv, ForgottenInv, SleepInv,
         WindowRespected, LockHandedOver

LEMMA NextLInv == LInv /\ [LimiterNext]_limiterVars => LInv'
<1> SUFFICES ASSUME LInv, [LimiterNext]_limiterVars PROVE LInv'
  OBVIOUS
<1>1. CASE UNCHANGED limiterVars
  BY <1>1 DEF limiterVars, LInv, LimiterTypeOK, LogInv, ForgottenInv, SleepInv,
              WindowRespected, LockHandedOver
<1> QED
  BY <1>1, AcquireKeepsLInv, GrantKeepsLInv, SleepKeepsLInv, CancelKeepsLInv,
     WakeUpKeepsLInv, TimeKeepsLInv DEF LimiterNext

LEMMA LimiterInvariant == LimiterSpec => []LInv
  BY InitLInv, NextLInv, PTL DEF LimiterSpec

-----------------------------------------------------------------------------
\* The client and its limiter.

\* Whatever calls do, the limiter in them behaves as a limiter.
THEOREM ClientImplementsLimiter == Spec => ImplementsLimiter
<1>1. Init => LimiterInit
  BY DEF Init
<1>2. [Next]_vars => [LimiterNext]_limiterVars
  BY DEF Next, vars, LimiterNext, StartGet, GetsPermit, FindsWindowFull,
         SendRequest, EndGet, BackOff, Retry, CancelGet
<1> QED BY <1>1, <1>2, PTL DEF Spec, ImplementsLimiter, LimiterSpec

\* Any rolling window holds at most Limit permits.
THEOREM PermitsRespectWindow == Spec => []WindowRespected
<1>1. LInv => WindowRespected
  BY DEF LInv
<1> QED BY <1>1, ClientImplementsLimiter, LimiterInvariant, PTL DEF ImplementsLimiter

\* The holder of the lock sleeps exactly until a permit leaves a full window.
THEOREM NobodySleepsNeedlessly == Spec => []NoNeedlessSleep
<1>1. ASSUME LInv PROVE NoNeedlessSleep
  <2> SUFFICES ASSUME sleepUntil # None
               PROVE  /\ Len(granted) >= Limit
                      /\ granted[Len(granted) - Limit + 1] + Window = sleepUntil
    BY DEF NoNeedlessSleep
  <2>1. Len(times) = Limit /\ sleepUntil = times[1] + Window /\ 1 \in 1 .. Len(times)
    BY <1>1, LimiterConstants DEF LInv, SleepInv
  <2>2. Len(granted) >= Limit /\ times[1] = granted[Len(granted) - Limit + 1]
    BY <1>1, <2>1 DEF LInv, LogInv, LimiterTypeOK
  <2> QED BY <2>1, <2>2
<1> QED BY <1>1, ClientImplementsLimiter, LimiterInvariant, PTL DEF ImplementsLimiter

-----------------------------------------------------------------------------
\* Numbers.

\* The first n + 1 values of a function that doubles from 1.
DoublesTo(g, n) ==
  g \in [0 .. n -> Nat] /\ g[0] = 1 /\ \A i \in 1 .. n : g[i] = 2 * g[i - 1]

LEMMA DoublesToExists == \A n \in Nat : \E g : DoublesTo(g, n)
<1> DEFINE T == {n \in Nat : ~ \E g : DoublesTo(g, n)}
<1>1. SUFFICES ASSUME T # {}
               PROVE  FALSE
  OBVIOUS
<1>2. PICK x \in T : \A y \in T : x <= y
  <2>1. T \in SUBSET Nat
    OBVIOUS
  <2> HIDE DEF T
  <2> QED BY <1>1, <2>1, LeastNumber
<1>3. x \in Nat /\ ~ \E g : DoublesTo(g, x)
  OBVIOUS
<1>4. x # 0
  <2>1. DoublesTo([i \in 0 .. 0 |-> 1], 0)
    BY DEF DoublesTo
  <2> QED BY <1>3, <2>1
<1>5. PICK g : DoublesTo(g, x - 1)
  <2>1. x - 1 \in Nat /\ ~ x <= x - 1
    BY <1>3, <1>4
  <2> QED BY <1>2, <2>1
<1>6. DoublesTo([i \in 0 .. x |-> IF i = x THEN 2 * g[x - 1] ELSE g[i]], x)
  BY <1>3, <1>4, <1>5 DEF DoublesTo
<1> QED BY <1>3, <1>6

LEMMA DoublesToAgree ==
  ASSUME NEW n \in Nat, NEW m \in Nat, n <= m, NEW g, NEW h, DoublesTo(g, n), DoublesTo(h, m)
  PROVE  \A i \in 0 .. n : g[i] = h[i]
<1> DEFINE T == {i \in 0 .. n : g[i] # h[i]}
<1>1. SUFFICES ASSUME T # {}
               PROVE  FALSE
  OBVIOUS
<1>2. PICK x \in T : \A y \in T : x <= y
  <2>1. T \in SUBSET Nat
    OBVIOUS
  <2> HIDE DEF T
  <2> QED BY <1>1, <2>1, LeastNumber
<1>3. x \in 0 .. n /\ g[x] # h[x] /\ x # 0
  BY DEF DoublesTo
<1>4. x - 1 \in 0 .. n /\ ~ x <= x - 1
  BY <1>3
<1>5. g[x - 1] = h[x - 1]
  BY <1>2, <1>4
<1> QED BY <1>3, <1>5 DEF DoublesTo

\* There is a function that doubles from 1, so Doubling is one.
LEMMA DoublingIsOne == Doubling = [n \in Nat |-> IF n = 0 THEN 1 ELSE 2 * Doubling[n - 1]]
<1> DEFINE Chosen(n) == CHOOSE g : DoublesTo(g, n)
           f == [n \in Nat |-> Chosen(n)[n]]
<1>1. \A n \in Nat : DoublesTo(Chosen(n), n)
  BY DoublesToExists
<1> HIDE DEF Chosen
<1>2. f[0] = 1
  BY <1>1 DEF DoublesTo
<1>3. ASSUME NEW n \in Nat, n # 0
      PROVE  f[n] = 2 * f[n - 1]
  <2>1. n - 1 \in Nat /\ n - 1 <= n /\ n - 1 \in 0 .. n - 1 /\ n \in 1 .. n
    BY <1>3
  <2>2. Chosen(n - 1)[n - 1] = Chosen(n)[n - 1]
    BY <1>1, <2>1, DoublesToAgree
  <2>3. Chosen(n)[n] = 2 * Chosen(n)[n - 1]
    BY <1>1, <2>1 DEF DoublesTo
  <2> QED BY <2>1, <2>2, <2>3
<1>4. f = [n \in Nat |-> IF n = 0 THEN 1 ELSE 2 * f[n - 1]]
  <2>1. \A n \in Nat : f[n] = IF n = 0 THEN 1 ELSE 2 * f[n - 1]
    BY <1>2, <1>3
  <2>2. f = [n \in Nat |-> f[n]]
    OBVIOUS
  <2> HIDE DEF f
  <2> QED BY <2>1, <2>2
<1> HIDE DEF f
<1> QED BY <1>4 DEF Doubling

LEMMA DoublingFacts ==
  /\ Doubling[0] = 1
  /\ \A n \in Nat : Doubling[n] \in Nat \ {0} /\ Doubling[n + 1] = 2 * Doubling[n]
<1>1. Doubling[0] = 1 /\ \A n \in Nat : n # 0 => Doubling[n] = 2 * Doubling[n - 1]
  BY DoublingIsOne
<1>2. \A n \in Nat : Doubling[n + 1] = 2 * Doubling[n]
  <2> SUFFICES ASSUME NEW n \in Nat
               PROVE  Doubling[n + 1] = 2 * Doubling[n]
    OBVIOUS
  <2>1. n + 1 \in Nat /\ n + 1 # 0 /\ (n + 1) - 1 = n
    OBVIOUS
  <2> QED BY <1>1, <2>1
<1> DEFINE T == {n \in Nat : Doubling[n] \notin Nat \ {0}}
<1>3. ASSUME T # {}
      PROVE  FALSE
  <2>1. PICK x \in T : \A y \in T : x <= y
    <3>1. T \in SUBSET Nat
      OBVIOUS
    <3> HIDE DEF T
    <3> QED BY <1>3, <3>1, LeastNumber
  <2>2. x \in Nat /\ x # 0 /\ Doubling[x] \notin Nat \ {0}
    BY <1>1
  <2>3. x - 1 \in Nat /\ ~ x <= x - 1
    BY <2>2
  <2>4. Doubling[x - 1] \in Nat \ {0}
    BY <2>1, <2>3
  <2> QED BY <1>1, <2>2, <2>4
<1> QED BY <1>1, <1>2, <1>3

-----------------------------------------------------------------------------
\* The calls of the client.

\* The pause that the i-th attempt of a call asks for.
Pause(a, i) == Min({IF a.header = None THEN Doubling[i - 1] ELSE a.header, Cap})

\* Where a call is, with its delay d, end of backoff r and attempts s, at the
\* time now: the delay fits the number of attempts, every attempt but one that
\* waits has its answer, and the pause after the last one is over, but for the
\* timer's resolution, when the next may leave.
CallOK(p, d, r, s, now) ==
  /\ p \in {"idle", "acquire", "send", "wait", "backoff"}
  /\ d \in 1 .. Cap /\ r \in Nat /\ s \in Seq(Attempt) /\ now \in Nat
  /\ p = "idle" => s = << >>
  /\ p = "wait" => /\ Len(s) \in 1 .. MaxRetries + 1
                   /\ d = Min({Doubling[Len(s) - 1], Cap})
  /\ p # "wait" => /\ Len(s) <= MaxRetries
                   /\ d = Min({Doubling[Len(s)], Cap})
  /\ p = "backoff" => Len(s) >= 1 /\ r = s[Len(s)].answered + Pause(s[Len(s)], Len(s))
  /\ p \in {"acquire", "send"} /\ Len(s) >= 1 =>
       now + Resolution >= s[Len(s)].answered + Pause(s[Len(s)], Len(s))
  /\ \A i \in 1 .. Len(s) : i < Len(s) \/ p # "wait" => s[i].answered \in Nat
  /\ \A i \in 1 .. Len(s) - 1 : s[i + 1].sent + Resolution >= s[i].answered + Pause(s[i], i)

LEMMA PauseInNat ==
  ASSUME NEW a \in Attempt, NEW i \in Nat \ {0}
  PROVE  Pause(a, i) \in Nat
<1>1. i - 1 \in Nat /\ Cap \in Nat
  BY ClientConstants
<1>2. Doubling[i - 1] \in Nat
  BY <1>1, DoublingFacts
<1>3. a.header \in Nat \cup {None}
  BY DEF Attempt
<1>4. (IF a.header = None THEN Doubling[i - 1] ELSE a.header) \in Nat
  BY <1>2, <1>3
<1> QED BY <1>1, <1>4, MinOfTwo DEF Pause

LEMMA CallBegins ==
  ASSUME NEW p \in {"idle", "acquire"}, NEW now \in Nat
  PROVE  CallOK(p, 1, 0, << >>, now)
<1>1. Doubling[0] = 1 /\ Min({1, Cap}) = 1
  BY DoublingFacts, MinOfTwo, ClientConstants
<1>2. << >> \in Seq(Attempt) /\ Len(<< >>) = 0
  BY EmptySeq
<1> QED BY <1>1, <1>2, ClientConstants DEF CallOK

LEMMA CallLater ==
  ASSUME NEW p, NEW d, NEW r, NEW s, NEW now, CallOK(p, d, r, s, now),
         NEW later \in Nat, later >= now
  PROVE  CallOK(p, d, r, s, later)
<1>1. ASSUME p \in {"acquire", "send"}, Len(s) >= 1
      PROVE  later + Resolution >= s[Len(s)].answered + Pause(s[Len(s)], Len(s))
  <2>1. Len(s) \in Nat \ {0} /\ Len(s) \in 1 .. Len(s) /\ s[Len(s)] \in Attempt
    BY <1>1, LenProperties, ElementOfSeq DEF CallOK
  <2>2. s[Len(s)].answered \in Nat /\ Pause(s[Len(s)], Len(s)) \in Nat /\ now \in Nat
    BY <1>1, <2>1, PauseInNat DEF CallOK
  <2>3. now + Resolution >= s[Len(s)].answered + Pause(s[Len(s)], Len(s))
    BY <1>1 DEF CallOK
  <2> QED BY <2>2, <2>3, LimiterConstants
<1> QED BY <1>1 DEF CallOK

LEMMA CallStarts ==
  ASSUME NEW d, NEW r, NEW s, NEW now, CallOK("idle", d, r, s, now)
  PROVE  CallOK("acquire", d, r, s, now)
<1>1. s = << >> /\ Len(s) = 0
  BY DEF CallOK
<1> QED BY <1>1 DEF CallOK

LEMMA CallGetsPermit ==
  ASSUME NEW d, NEW r, NEW s, NEW now, CallOK("acquire", d, r, s, now)
  PROVE  CallOK("send", d, r, s, now)
BY DEF CallOK

LEMMA CallSends ==
  ASSUME NEW d, NEW r, NEW s, NEW now, CallOK("send", d, r, s, now)
  PROVE  CallOK("wait", d, r, Append(s, [sent |-> now, answered |-> None, header |-> None]), now)
<1> DEFINE a == [sent |-> now, answered |-> None, header |-> None]
           q == Append(s, a)
<1>1. /\ s \in Seq(Attempt) /\ now \in Nat /\ Len(s) \in Nat /\ Len(s) <= MaxRetries
      /\ d = Min({Doubling[Len(s)], Cap}) /\ d \in 1 .. Cap /\ r \in Nat
  BY LenProperties DEF CallOK
<1>2. a \in Attempt /\ a.sent = now
  BY <1>1 DEF Attempt
<1> HIDE DEF a
<1>3. /\ q \in Seq(Attempt) /\ Len(q) = Len(s) + 1 /\ q[Len(s) + 1] = a
      /\ \A i \in 1 .. Len(s) : q[i] = s[i]
  BY <1>1, <1>2, AppendProperties
<1> HIDE DEF q
<1>4. Len(q) \in 1 .. MaxRetries + 1 /\ Len(q) - 1 = Len(s)
  BY <1>1, <1>3, ClientConstants
<1>5. \A i \in 1 .. Len(q) : i < Len(q) => q[i].answered \in Nat
  BY <1>1, <1>3 DEF CallOK
<1>6. ASSUME NEW i \in 1 .. Len(q) - 1
      PROVE  q[i + 1].sent + Resolution >= q[i].answered + Pause(q[i], i)
  <2>1. CASE i = Len(s)
    <3>1. now + Resolution >= s[i].answered + Pause(s[i], i)
      BY <1>1, <1>6, <2>1 DEF CallOK
    <3>2. q[i] = s[i] /\ q[i + 1].sent = now
      BY <1>2, <1>3, <1>6, <2>1
    <3> QED BY <3>1, <3>2
  <2>2. CASE i # Len(s)
    <3>1. i \in 1 .. Len(s) - 1 /\ i \in 1 .. Len(s) /\ i + 1 \in 1 .. Len(s)
      BY <1>1, <1>4, <1>6, <2>2
    <3>2. s[i + 1].sent + Resolution >= s[i].answered + Pause(s[i], i)
      BY <3>1 DEF CallOK
    <3>3. q[i] = s[i] /\ q[i + 1] = s[i + 1]
      BY <1>3, <3>1
    <3> QED BY <3>2, <3>3
  <2> QED BY <2>1, <2>2
<1>7. CallOK("wait", d, r, q, now)
  BY <1>1, <1>3, <1>4, <1>5, <1>6 DEF CallOK
<1> QED BY <1>7 DEF q, a

LEMMA CallRetries ==
  ASSUME NEW d, NEW r, NEW s, NEW now, CallOK("backoff", d, r, s, now), now + Resolution >= r
  PROVE  CallOK("acquire", d, r, s, now)
BY DEF CallOK

\* The doubled delay, cut off, is the cut-off double.
LEMMA DelayGrows ==
  ASSUME NEW n \in Nat \ {0}, NEW d, d = Min({Doubling[n - 1], Cap})
  PROVE  /\ Min({2 * d, Cap}) = Min({Doubling[n], Cap})
         /\ Min({2 * d, Cap}) \in 1 .. Cap
         /\ Min({d, Cap}) = d
<1> DEFINE x == Doubling[n - 1]
<1>1. x \in Nat \ {0} /\ Doubling[n] = 2 * x /\ Cap \in Nat \ {0}
  <2>1. n - 1 \in Nat /\ (n - 1) + 1 = n
    OBVIOUS
  <2> QED BY <2>1, DoublingFacts, ClientConstants
<1> HIDE DEF x
<1>2. d = IF x <= Cap THEN x ELSE Cap
  BY <1>1, MinOfTwo DEF x
<1>3. d \in Nat /\ 2 * d \in Nat /\ 2 * x \in Nat
  BY <1>1, <1>2
<1>4. /\ Min({2 * d, Cap}) = IF 2 * d <= Cap THEN 2 * d ELSE Cap
      /\ Min({2 * x, Cap}) = IF 2 * x <= Cap THEN 2 * x ELSE Cap
      /\ Min({d, Cap}) = IF d <= Cap THEN d ELSE Cap
  BY <1>1, <1>3, MinOfTwo
<1> QED BY <1>1, <1>2, <1>3, <1>4

LEMMA CallBacksOff ==
  ASSUME NEW d, NEW r, NEW s, NEW now, CallOK("wait", d, r, s, now),
         NEW h \in RetryAfters, Len(s) <= MaxRetries
  PROVE  CallOK("backoff", Min({2 * d, Cap}),
                now + Min({IF h = None THEN d ELSE h, Cap}),
                [s EXCEPT ![Len(s)] = [@ EXCEPT !.answered = now, !.header = h]], now)
<1> DEFINE n == Len(s)
           a == [s[n] EXCEPT !.answered = now, !.header = h]
           q == [s EXCEPT ![n] = a]
           wait == Min({IF h = None THEN d ELSE h, Cap})
<1>1. /\ s \in Seq(Attempt) /\ now \in Nat /\ n \in Nat \ {0} /\ n <= MaxRetries
      /\ d = Min({Doubling[n - 1], Cap}) /\ n \in 1 .. n /\ n - 1 \in Nat
  BY LenProperties DEF CallOK
<1>2. s[n] \in Attempt /\ h \in Nat \cup {None}
  BY <1>1, ElementOfSeq, ClientConstants
<1>3. a \in Attempt /\ a.answered = now /\ a.header = h /\ a.sent = s[n].sent
  BY <1>1, <1>2 DEF Attempt
<1> HIDE DEF a
<1>4. /\ q \in Seq(Attempt) /\ Len(q) = n /\ q[n] = a
      /\ \A i \in 1 .. n : i # n => q[i] = s[i]
  BY <1>1, <1>3, ExceptSeq
<1>5. /\ Min({2 * d, Cap}) = Min({Doubling[n], Cap}) /\ Min({2 * d, Cap}) \in 1 .. Cap
      /\ Min({d, Cap}) = d
  <2> HIDE DEF n
  <2> QED BY <1>1, DelayGrows
<1>6. wait = Pause(a, n)
  BY <1>1, <1>3, <1>5 DEF Pause
<1>7. wait \in Nat
  BY <1>1, <1>3, <1>6, PauseInNat
<1> HIDE DEF wait
<1>8. ASSUME NEW i \in 1 .. n
      PROVE  q[i].answered \in Nat
  <2>1. CASE i = n
    BY <1>1, <1>3, <1>4, <2>1
  <2>2. CASE i # n
    <3>1. i < Len(s) /\ i \in 1 .. Len(s)
      BY <1>1, <1>8, <2>2
    <3>2. s[i].answered \in Nat
      BY <3>1 DEF CallOK
    <3> QED BY <1>4, <1>8, <2>2, <3>2
  <2> QED BY <2>1, <2>2
<1>9. ASSUME NEW i \in 1 .. n - 1
      PROVE  q[i + 1].sent + Resolution >= q[i].answered + Pause(q[i], i)
  <2>1. s[i + 1].sent + Resolution >= s[i].answered + Pause(s[i], i)
    BY <1>9 DEF CallOK
  <2>2. q[i] = s[i]
    BY <1>1, <1>4, <1>9
  <2>3. q[i + 1].sent = s[i + 1].sent
    <3>1. CASE i + 1 = n
      BY <1>3, <1>4, <3>1
    <3>2. CASE i + 1 # n
      BY <1>1, <1>4, <1>9, <3>2
    <3> QED BY <3>1, <3>2
  <2> QED BY <2>1, <2>2, <2>3
<1> HIDE DEF q
<1>10. CallOK("backoff", Min({2 * d, Cap}), now + wait, q, now)
  <2>1. now + wait = q[Len(q)].answered + Pause(q[Len(q)], Len(q))
    BY <1>3, <1>4, <1>6
  <2>2. now + wait \in Nat /\ Len(q) >= 1 /\ Len(q) <= MaxRetries
    BY <1>1, <1>4, <1>7
  <2>3. \A i \in 1 .. Len(q) - 1 : q[i + 1].sent + Resolution >= q[i].answered + Pause(q[i], i)
    BY <1>4, <1>9
  <2>4. \A i \in 1 .. Len(q) : q[i].answered \in Nat
    BY <1>4, <1>8
  <2> HIDE DEF n
  <2> QED BY <1>1, <1>4, <1>5, <2>1, <2>2, <2>3, <2>4 DEF CallOK
<1> QED BY <1>10 DEF q, a, wait


CallsOK == \A t \in Tasks : CallOK(phase[t], delay[t], resumeAt[t], trail[t], clock)

Sending == {t \in Tasks : phase[t] = "send"}

ClientInv == TypeOK /\ CallsOK /\ EveryRequestHasAPermit

\* A call goes on to the place p with delay d, end of backoff r and attempts s.
GoesOn(t, p, d, r, s) ==
  /\ phase' = [phase EXCEPT ![t] = p]
  /\ delay' = [delay EXCEPT ![t] = d]
  /\ resumeAt' = [resumeAt EXCEPT ![t] = r]
  /\ trail' = [trail EXCEPT ![t] = s]
  /\ clock' = clock

LEMMA CallGoesOn ==
  ASSUME TypeOK, CallsOK, LimiterTypeOK', requests' \in Nat,
         NEW t \in Tasks, NEW p, NEW d, NEW r, NEW s,
         GoesOn(t, p, d, r, s), CallOK(p, d, r, s, clock)
  PROVE  TypeOK' /\ CallsOK' /\ Sending' = IF p = "send" THEN Sending \cup {t} ELSE Sending \ {t}
<1>1. /\ p \in {"idle", "acquire", "send", "wait", "backoff"}
      /\ d \in 1 .. Cap /\ r \in Nat /\ s \in Seq(Attempt)
  BY DEF CallOK
<1>2. TypeOK'
  BY <1>1 DEF TypeOK, GoesOn
<1>3. ASSUME NEW u \in Tasks
      PROVE  /\ CallOK(phase'[u], delay'[u], resumeAt'[u], trail'[u], clock')
             /\ phase'[u] = IF u = t THEN p ELSE phase[u]
  <2>1. CASE u = t
    <3>1. phase'[u] = p /\ delay'[u] = d /\ resumeAt'[u] = r /\ trail'[u] = s
      BY <2>1 DEF TypeOK, GoesOn
    <3> QED BY <2>1, <3>1 DEF GoesOn
  <2>2. CASE u # t
    <3>1. /\ phase'[u] = phase[u] /\ delay'[u] = delay[u]
          /\ resumeAt'[u] = resumeAt[u] /\ trail'[u] = trail[u]
      BY <2>2 DEF TypeOK, GoesOn
    <3> QED BY <2>2, <3>1 DEF CallsOK, GoesOn
  <2> QED BY <2>1, <2>2
<1>4. Sending' = IF p = "send" THEN Sending \cup {t} ELSE Sending \ {t}
  BY <1>3 DEF Sending
<1> QED BY <1>2, <1>3, <1>4 DEF CallsOK

\* A call that begins to send holds a new permit; one that sends gives it up.
LEMMA SendingCount ==
  ASSUME NEW t \in Tasks
  PROVE  /\ Cardinality(Sending) \in Nat
         /\ Cardinality(Sending \cup {t}) <= Cardinality(Sending) + 1
         /\ Cardinality(Sending \ {t}) \in Nat
         /\ Cardinality(Sending \ {t}) <= Cardinality(Sending)
         /\ t \in Sending => Cardinality(Sending \ {t}) = Cardinality(Sending) - 1
         /\ Cardinality(Sending \cup {t}) \in Nat
<1>1. IsFiniteSet(Sending)
  BY FS_Subset, ClientConstants DEF Sending
<1>2. /\ Cardinality(Sending) \in Nat
      /\ IsFiniteSet(Sending \cup {t}) /\ IsFiniteSet(Sending \ {t})
  BY <1>1, FS_AddElement, FS_RemoveElement, FS_CardinalityType
<1>3. Cardinality(Sending \cup {t}) \in Nat /\ Cardinality(Sending \ {t}) \in Nat
  BY <1>2, FS_CardinalityType
<1>4. Cardinality(Sending \cup {t}) =
        IF t \in Sending THEN Cardinality(Sending) ELSE Cardinality(Sending) + 1
  BY <1>1, FS_AddElement
<1>5. Cardinality(Sending \ {t}) =
        IF t \in Sending THEN Cardinality(Sending) - 1 ELSE Cardinality(Sending)
  BY <1>1, FS_RemoveElement
<1> QED BY <1>2, <1>3, <1>4, <1>5

LEMMA PermitsFacts ==
  ASSUME TypeOK, EveryRequestHasAPermit
  PROVE  /\ requests \in Nat /\ Len(granted) \in Nat
         /\ requests + Cardinality(Sending) <= Len(granted)
BY LenProperties DEF TypeOK, LimiterTypeOK, EveryRequestHasAPermit, Sending

\* The count of the next state, in which n calls hold a permit.
LEMMA PermitsSuffice ==
  ASSUME NEW n, Cardinality(Sending)' = n, requests' + n <= Len(granted')
  PROVE  EveryRequestHasAPermit'
BY DEF EveryRequestHasAPermit, Sending

LEMMA StartGetInv ==
  ASSUME ClientInv, LimiterTypeOK', NEW t \in Tasks, StartGet(t)
  PROVE  ClientInv'
<1>1. /\ phase[t] = "idle" /\ phase' = [phase EXCEPT ![t] = "acquire"] /\ delay' = delay
      /\ resumeAt' = resumeAt /\ trail' = trail /\ requests' = requests /\ clock' = clock
      /\ granted' = granted
  BY DEF StartGet, Goes, Acquire
<1>2. CallOK("acquire", delay[t], resumeAt[t], trail[t], clock)
  BY <1>1, CallStarts DEF ClientInv, CallsOK
<1>3. GoesOn(t, "acquire", delay[t], resumeAt[t], trail[t]) /\ requests' \in Nat
  BY <1>1 DEF ClientInv, TypeOK, GoesOn
<1>4. TypeOK' /\ CallsOK' /\ Sending' = Sending \ {t}
  BY <1>2, <1>3, CallGoesOn DEF ClientInv
<1>5. EveryRequestHasAPermit'
  BY <1>1, <1>4, SendingCount, PermitsFacts DEF ClientInv, EveryRequestHasAPermit, Sending
<1> QED BY <1>4, <1>5 DEF ClientInv


LEMMA GetsPermitInv ==
  ASSUME ClientInv, LimiterTypeOK', NEW t \in Tasks, GetsPermit(t)
  PROVE  ClientInv'
<1>1. /\ phase[t] = "acquire" /\ phase' = [phase EXCEPT ![t] = "send"] /\ delay' = delay
      /\ resumeAt' = resumeAt /\ trail' = trail /\ requests' = requests /\ clock' = clock
      /\ granted' = Append(granted, clock)
  BY DEF GetsPermit, Goes, Grant
<1>2. CallOK("send", delay[t], resumeAt[t], trail[t], clock)
  BY <1>1, CallGetsPermit DEF ClientInv, CallsOK
<1>3. GoesOn(t, "send", delay[t], resumeAt[t], trail[t]) /\ requests' \in Nat
  BY <1>1 DEF ClientInv, TypeOK, GoesOn
<1>4. TypeOK' /\ CallsOK' /\ Sending' = Sending \cup {t}
  BY <1>2, <1>3, CallGoesOn DEF ClientInv
<1>5. Len(granted') = Len(granted) + 1
  BY <1>1, LimiterConstants, AppendProperties DEF ClientInv, TypeOK, LimiterTypeOK
<1>6. EveryRequestHasAPermit'
  <2> DEFINE n == Cardinality(Sending \cup {t})
             m == Cardinality(Sending)
  <2>1. n \in Nat /\ m \in Nat /\ n <= m + 1
    BY SendingCount
  <2>2. requests \in Nat /\ Len(granted) \in Nat /\ requests + m <= Len(granted)
    BY PermitsFacts DEF ClientInv
  <2>3. Cardinality(Sending)' = n
    BY <1>4
  <2> HIDE DEF n, m
  <2>4. requests + n <= Len(granted) + 1
    BY <2>1, <2>2
  <2> QED BY <1>1, <1>5, <2>3, <2>4, PermitsSuffice
<1> QED BY <1>4, <1>6 DEF ClientInv

LEMMA SendRequestInv ==
  ASSUME ClientInv, LimiterTypeOK', NEW t \in Tasks, SendRequest(t)
  PROVE  ClientInv'
<1> DEFINE sent == Append(trail[t], [sent |-> clock, answered |-> None, header |-> None])
<1>1. /\ phase[t] = "send" /\ phase' = [phase EXCEPT ![t] = "wait"] /\ delay' = delay
      /\ resumeAt' = resumeAt /\ trail' = [trail EXCEPT ![t] = sent]
      /\ requests' = requests + 1 /\ clock' = clock /\ granted' = granted
  BY DEF SendRequest, Goes, limiterVars
<1>2. CallOK("wait", delay[t], resumeAt[t], sent, clock)
  BY <1>1, CallSends DEF ClientInv, CallsOK
<1> HIDE DEF sent
<1>3. GoesOn(t, "wait", delay[t], resumeAt[t], sent) /\ requests' \in Nat
  BY <1>1 DEF ClientInv, TypeOK, GoesOn
<1>4. TypeOK' /\ CallsOK' /\ Sending' = Sending \ {t} /\ t \in Sending
  BY <1>1, <1>2, <1>3, CallGoesOn DEF ClientInv, Sending
<1>5. EveryRequestHasAPermit'
  <2> DEFINE n == Cardinality(Sending \ {t})
             m == Cardinality(Sending)
  <2>1. n \in Nat /\ m \in Nat /\ n = m - 1
    BY <1>4, SendingCount
  <2>2. requests \in Nat /\ Len(granted) \in Nat /\ requests + m <= Len(granted)
    BY PermitsFacts DEF ClientInv
  <2>3. Cardinality(Sending)' = n
    BY <1>4
  <2> HIDE DEF n, m
  <2>4. (requests + 1) + n <= Len(granted)
    BY <2>1, <2>2
  <2> QED BY <1>1, <2>3, <2>4, PermitsSuffice
<1> QED BY <1>4, <1>5 DEF ClientInv

\* The end of a call, however it comes.
LEMMA EndsInv ==
  ASSUME ClientInv, LimiterTypeOK', NEW t \in Tasks, Ends(t), clock' = clock, granted' = granted
  PROVE  ClientInv'
<1>1. GoesOn(t, "idle", 1, 0, << >>) /\ requests' = requests /\ requests' \in Nat
  BY DEF Ends, ClientInv, TypeOK, GoesOn
<1>2. CallOK("idle", 1, 0, << >>, clock)
  BY CallBegins, LimiterConstants DEF ClientInv, TypeOK, LimiterTypeOK
<1>3. TypeOK' /\ CallsOK' /\ Sending' = Sending \ {t}
  BY <1>1, <1>2, CallGoesOn DEF ClientInv
<1>4. EveryRequestHasAPermit'
  <2> DEFINE n == Cardinality(Sending \ {t})
             m == Cardinality(Sending)
  <2>1. n \in Nat /\ m \in Nat /\ n <= m
    BY SendingCount
  <2>2. requests \in Nat /\ Len(granted) \in Nat /\ requests + m <= Len(granted)
    BY PermitsFacts DEF ClientInv
  <2>3. Cardinality(Sending)' = n
    BY <1>3
  <2> HIDE DEF n, m
  <2>4. requests + n <= Len(granted)
    BY <2>1, <2>2
  <2> QED BY <1>1, <2>3, <2>4, PermitsSuffice
<1> QED BY <1>3, <1>4 DEF ClientInv

LEMMA CancelGetInv ==
  ASSUME ClientInv, LimiterTypeOK', NEW t \in Tasks, CancelGet(t)
  PROVE  ClientInv'
<1>1. Ends(t) /\ clock' = clock /\ granted' = granted
  BY DEF CancelGet, Cancel, limiterVars
<1> QED BY <1>1, EndsInv

LEMMA EndGetInv ==
  ASSUME ClientInv, LimiterTypeOK', NEW t \in Tasks, EndGet(t)
  PROVE  ClientInv'
BY EndsInv DEF EndGet, limiterVars

LEMMA BackOffInv ==
  ASSUME ClientInv, LimiterTypeOK', NEW t \in Tasks, NEW h \in RetryAfters, BackOff(t, h)
  PROVE  ClientInv'
<1> DEFINE s == trail[t]
           until == clock + Min({IF h = None THEN delay[t] ELSE h, Cap})
           next == Min({2 * delay[t], Cap})
           q == [s EXCEPT ![Len(s)] = [@ EXCEPT !.answered = clock, !.header = h]]
<1>1. /\ phase[t] = "wait" /\ phase' = [phase EXCEPT ![t] = "backoff"]
      /\ Len(s) <= MaxRetries /\ resumeAt' = [resumeAt EXCEPT ![t] = until]
      /\ requests' = requests /\ clock' = clock /\ granted' = granted
  BY DEF BackOff, Goes, limiterVars
<1>2. delay' = [delay EXCEPT ![t] = next]
  BY DEF BackOff, ClientInv, TypeOK
<1>3. trail' = [trail EXCEPT ![t] = q]
  BY DEF BackOff, ClientInv, TypeOK
<1>4. CallOK("backoff", next, until, q, clock)
  <2>1. CallOK("wait", delay[t], resumeAt[t], s, clock)
    BY <1>1 DEF ClientInv, CallsOK
  <2> QED BY <1>1, <2>1, CallBacksOff
<1> HIDE DEF next, until, q
<1>5. GoesOn(t, "backoff", next, until, q) /\ requests' \in Nat
  BY <1>1, <1>2, <1>3 DEF ClientInv, TypeOK, GoesOn
<1>6. TypeOK' /\ CallsOK' /\ Sending' = Sending \ {t}
  BY <1>4, <1>5, CallGoesOn DEF ClientInv
<1>7. EveryRequestHasAPermit'
  BY <1>1, <1>6, SendingCount, PermitsFacts DEF ClientInv, EveryRequestHasAPermit, Sending
<1> QED BY <1>6, <1>7 DEF ClientInv

LEMMA RetryInv ==
  ASSUME ClientInv, LimiterTypeOK', NEW t \in Tasks, Retry(t)
  PROVE  ClientInv'
<1>1. /\ phase[t] = "backoff" /\ phase' = [phase EXCEPT ![t] = "acquire"] /\ delay' = delay
      /\ resumeAt' = resumeAt /\ trail' = trail /\ requests' = requests /\ clock' = clock
      /\ granted' = granted /\ clock + Resolution >= resumeAt[t]
  BY DEF Retry, Goes, Acquire
<1>2. CallOK("acquire", delay[t], resumeAt[t], trail[t], clock)
  BY <1>1, CallRetries DEF ClientInv, CallsOK
<1>3. GoesOn(t, "acquire", delay[t], resumeAt[t], trail[t]) /\ requests' \in Nat
  BY <1>1 DEF ClientInv, TypeOK, GoesOn
<1>4. TypeOK' /\ CallsOK' /\ Sending' = Sending \ {t}
  BY <1>2, <1>3, CallGoesOn DEF ClientInv
<1>5. EveryRequestHasAPermit'
  BY <1>1, <1>4, SendingCount, PermitsFacts DEF ClientInv, EveryRequestHasAPermit, Sending
<1> QED BY <1>4, <1>5 DEF ClientInv

\* What the limiter does by itself, and the clock.
LEMMA ClientStandsStill ==
  ASSUME ClientInv, LimiterTypeOK', UNCHANGED clientVars, clock' >= clock, granted' = granted
  PROVE  ClientInv'
<1>1. /\ phase' = phase /\ delay' = delay /\ resumeAt' = resumeAt /\ trail' = trail
      /\ requests' = requests
  BY DEF clientVars
<1>2. TypeOK'
  BY <1>1 DEF ClientInv, TypeOK
<1>3. CallsOK'
  <2>1. clock' \in Nat
    BY LimiterConstants DEF LimiterTypeOK
  <2> QED BY <1>1, <2>1, CallLater DEF ClientInv, CallsOK
<1>4. EveryRequestHasAPermit'
  BY <1>1 DEF ClientInv, EveryRequestHasAPermit
<1> QED BY <1>2, <1>3, <1>4 DEF ClientInv

LEMMA ClientNextInv ==
  ASSUME ClientInv, LimiterTypeOK', [Next]_vars
  PROVE  ClientInv'
<1> USE DEF ClientInv
<1>1. clock \in Int
  BY LimiterConstants DEF TypeOK, LimiterTypeOK
<1>2. ASSUME NEW t \in Tasks, FindsWindowFull(t)
      PROVE  ClientInv'
  <2>1. UNCHANGED clientVars /\ clock' = clock /\ granted' = granted
    BY <1>2 DEF FindsWindowFull, Sleep
  <2> QED BY <1>1, <2>1, ClientStandsStill
<1>3. CASE WakeUp /\ UNCHANGED clientVars
  BY <1>1, <1>3, ClientStandsStill DEF WakeUp
<1>4. CASE TimePasses /\ UNCHANGED clientVars
  BY <1>1, <1>4, ClientStandsStill DEF TimePasses
<1>5. CASE UNCHANGED vars
  BY <1>1, <1>5, ClientStandsStill DEF vars, limiterVars
<1> QED
  BY <1>2, <1>3, <1>4, <1>5, StartGetInv, GetsPermitInv, SendRequestInv, EndGetInv,
     BackOffInv, RetryInv, CancelGetInv DEF Next

LEMMA ClientInitInv ==
  ASSUME Init
  PROVE  ClientInv
<1>1. LimiterTypeOK
  BY LimiterConstants, EmptySeq DEF Init, LimiterInit, LimiterTypeOK
<1>2. CallOK("idle", 1, 0, << >>, 0)
  BY CallBegins
<1>3. TypeOK
  BY <1>1, ClientConstants, EmptySeq DEF Init, TypeOK
<1>4. CallsOK
  BY <1>2 DEF Init, LimiterInit, CallsOK
<1>5. EveryRequestHasAPermit
  <2>1. Sending = {} /\ requests = 0 /\ Len(granted) = 0
    BY DEF Init, LimiterInit, Sending
  <2>2. Cardinality(Sending) = 0
    BY <2>1, FS_EmptySet
  <2> QED BY <2>1, <2>2 DEF EveryRequestHasAPermit, Sending
<1> QED BY <1>3, <1>4, <1>5 DEF ClientInv

LEMMA ClientInvariant == Spec => []ClientInv
<1>1. LInv => LimiterTypeOK
  BY DEF LInv
<1>2. Init => ClientInv
  BY ClientInitInv
<1>3. ClientInv /\ LimiterTypeOK' /\ [Next]_vars => ClientInv'
  BY ClientNextInv
<1> QED BY <1>1, <1>2, <1>3, ClientImplementsLimiter, LimiterInvariant, PTL
        DEF Spec, ImplementsLimiter

\* The calls and the limiter under them stay well typed: in particular the
\* delay of a call never leaves 1 .. Cap.
THEOREM ClientTypeCorrect == Spec => []TypeOK
<1>1. ClientInv => TypeOK
  BY DEF ClientInv
<1> QED BY <1>1, ClientInvariant, PTL

\* For any number of retries, any cap and any Retry-After headers.
THEOREM RetriesKeepTheSchedule == Spec => []BackoffSchedule
<1>1. ASSUME ClientInv
      PROVE  BackoffSchedule
  <2> SUFFICES ASSUME NEW t \in Tasks
               PROVE  /\ Len(trail[t]) <= MaxRetries + 1
                      /\ \A i \in 1 .. Len(trail[t]) - 1 :
                           trail[t][i + 1].sent + Resolution >= trail[t][i].answered + Pause(trail[t][i], i)
    BY DEF BackoffSchedule, Pause
  <2>1. CallOK(phase[t], delay[t], resumeAt[t], trail[t], clock)
    BY <1>1 DEF ClientInv, CallsOK
  <2>2. Len(trail[t]) \in Nat /\ MaxRetries \in Nat
    BY <2>1, LenProperties, ClientConstants DEF CallOK
  <2>3. Len(trail[t]) <= MaxRetries + 1
    BY <2>1, <2>2 DEF CallOK
  <2>4. \A i \in 1 .. Len(trail[t]) - 1 :
          trail[t][i + 1].sent + Resolution >= trail[t][i].answered + Pause(trail[t][i], i)
    BY <2>1 DEF CallOK
  <2> QED BY <2>3, <2>4
<1> QED BY <1>1, ClientInvariant, PTL

\* However calls retry and are cancelled, a request has its own permit.
THEOREM RequestsHavePermits == Spec => []EveryRequestHasAPermit
<1>1. ClientInv => EveryRequestHasAPermit
  BY DEF ClientInv
<1> QED BY <1>1, ClientInvariant, PTL

-----------------------------------------------------------------------------
\* The calls that are inside acquire().

Locks(t) == holder = t \/ Waits(t)

CallsLock == \A t \in Tasks : phase[t] = "acquire" <=> Locks(t)

LEMMA AcquireLocks ==
  ASSUME LInv, NEW t \in Tasks, Acquire(t), NEW u \in Tasks
  PROVE  Locks(u)' <=> Locks(u) \/ u = t
<1>0. queue \in Seq(Tasks) /\ LockHandedOver /\ DOMAIN queue = 1 .. Len(queue) /\ Len(queue) \in Nat
  BY LenProperties DEF LInv, LimiterTypeOK
<1>1. CASE holder = None
  <2>1. holder' = t /\ queue' = queue /\ queue = << >>
    BY <1>0, <1>1 DEF Acquire, LockHandedOver
  <2>2. ~Waits(u) /\ ~Waits(u)'
    BY <2>1 DEF Waits
  <2>3. holder # u
    BY <1>1, LimiterConstants
  <2> QED BY <2>1, <2>2, <2>3 DEF Locks
<1>2. CASE holder # None
  <2>1. holder' = holder /\ queue' = Append(queue, t)
    BY <1>2 DEF Acquire
  <2>2. /\ Len(queue') = Len(queue) + 1 /\ DOMAIN queue' = 1 .. Len(queue) + 1
        /\ \A i \in 1 .. Len(queue) : queue'[i] = queue[i]
        /\ queue'[Len(queue) + 1] = t
    BY <1>0, <2>1, AppendProperties
  <2>3. Waits(u)' <=> Waits(u) \/ u = t
    BY <1>0, <2>2 DEF Waits
  <2> QED BY <2>1, <2>3 DEF Locks
<1> QED BY <1>1, <1>2

LEMMA HandOverLocks ==
  ASSUME LInv, NEW t \in Tasks, holder = t, HandOver, NEW u \in Tasks
  PROVE  Locks(u)' <=> Locks(u) /\ u # t
<1>0. queue \in Seq(Tasks) /\ LockHandedOver /\ DOMAIN queue = 1 .. Len(queue) /\ Len(queue) \in Nat
  BY LenProperties DEF LInv, LimiterTypeOK
<1>1. ~Waits(t)
  BY <1>0 DEF LockHandedOver, Waits
<1>2. Locks(u) /\ u # t <=> Waits(u)
  BY <1>1 DEF Locks
<1>3. Locks(u)' <=> Waits(u)
  <2>1. CASE queue = << >>
    <3>1. holder' = None /\ queue' = queue
      BY <2>1 DEF HandOver
    <3> QED BY <2>1, <3>1, LimiterConstants DEF Locks, Waits
  <2>2. CASE queue # << >>
    <3>1. holder' = Head(queue) /\ queue' = Tail(queue)
      BY <2>2 DEF HandOver
    <3>2. /\ Len(queue) \in Nat \ {0} /\ holder' = queue[1]
          /\ DOMAIN queue' = 1 .. Len(queue) - 1
          /\ \A i \in 1 .. Len(queue) - 1 : queue'[i] = queue[i + 1]
      BY <1>0, <2>2, <3>1, HeadTailProperties, EmptySeq
    <3>3. Waits(u)' <=> \E i \in 2 .. Len(queue) : queue[i] = u
      <4>1. ASSUME NEW i \in 2 .. Len(queue), queue[i] = u
            PROVE  Waits(u)'
        <5>1. i - 1 \in 1 .. Len(queue) - 1 /\ (i - 1) + 1 = i
          BY <3>2
        <5>2. queue'[i - 1] = u
          BY <3>2, <4>1, <5>1
        <5> QED BY <3>2, <5>1, <5>2 DEF Waits
      <4>2. ASSUME NEW i \in 1 .. Len(queue) - 1, queue'[i] = u
            PROVE  \E j \in 2 .. Len(queue) : queue[j] = u
        <5>1. i + 1 \in 2 .. Len(queue) /\ queue[i + 1] = u
          BY <3>2, <4>2
        <5> QED BY <5>1
      <4> QED BY <3>2, <4>1, <4>2 DEF Waits
    <3>4. 1 .. Len(queue) = {1} \cup (2 .. Len(queue))
      BY <3>2
    <3> QED BY <1>0, <3>2, <3>3, <3>4 DEF Locks, Waits
  <2> QED BY <2>1, <2>2
<1> QED BY <1>2, <1>3

LEMMA CancelLocks ==
  ASSUME LInv, NEW t \in Tasks, Cancel(t), NEW u \in Tasks
  PROVE  Locks(u)' <=> Locks(u) /\ u # t
<1>0. queue \in Seq(Tasks) /\ LockHandedOver /\ DOMAIN queue = 1 .. Len(queue) /\ Len(queue) \in Nat
  BY LenProperties DEF LInv, LimiterTypeOK
<1>1. CASE holder = t
  BY <1>1, HandOverLocks DEF Cancel
<1>2. CASE holder # t
  <2>1. PICK k \in DOMAIN queue : queue[k] = t /\ queue' = RemoveAt(queue, k)
    BY <1>2 DEF Cancel
  <2>2. holder' = holder
    BY <1>2 DEF Cancel
  <2>3. /\ DOMAIN queue' = 1 .. Len(queue) - 1 /\ k \in 1 .. Len(queue)
        /\ \A i \in 1 .. Len(queue) - 1 :
             queue'[i] = IF i < k THEN queue[i] ELSE queue[i + 1]
    <3>1. k \in 1 .. Len(queue)
      BY <1>0
    <3>2. /\ queue' \in Seq(Tasks) /\ Len(queue') = Len(queue) - 1
          /\ \A i \in 1 .. Len(queue) - 1 :
               queue'[i] = IF i < k THEN queue[i] ELSE queue[i + 1]
      BY <1>0, <2>1, <3>1, RemoveAtFacts
    <3>3. DOMAIN queue' = 1 .. Len(queue')
      BY <3>2
    <3> QED BY <3>1, <3>2, <3>3
  <2>4. ASSUME NEW i \in 1 .. Len(queue), queue[i] = u, u # t
        PROVE  \E j \in 1 .. Len(queue) - 1 : queue'[j] = u
    <3>1. i # k
      BY <2>1, <2>4
    <3>2. CASE i < k
      <4>1. i \in 1 .. Len(queue) - 1
        BY <1>0, <2>3, <2>4, <3>2
      <4> QED BY <2>3, <2>4, <3>2, <4>1
    <3>3. CASE i > k
      <4>1. i - 1 \in 1 .. Len(queue) - 1 /\ ~(i - 1 < k) /\ (i - 1) + 1 = i
        BY <1>0, <2>3, <2>4, <3>3
      <4>2. queue'[i - 1] = queue[i]
        BY <2>3, <4>1
      <4> QED BY <2>4, <4>1, <4>2
    <3> QED BY <2>3, <3>1, <3>2, <3>3
  <2>5. ASSUME NEW j \in 1 .. Len(queue) - 1, queue'[j] = u
        PROVE  u # t /\ \E i \in 1 .. Len(queue) : queue[i] = u
    <3> DEFINE i == IF j < k THEN j ELSE j + 1
    <3>1. i \in 1 .. Len(queue) /\ i # k
      BY <1>0, <2>3, <2>5
    <3>2. queue[i] = u
      BY <2>3, <2>5
    <3> HIDE DEF i
    <3>3. queue[i] # queue[k]
      BY <1>0, <2>3, <3>1 DEF LockHandedOver
    <3> QED BY <2>1, <3>1, <3>2, <3>3
  <2>6. Waits(u)' <=> Waits(u) /\ u # t
    BY <1>0, <2>3, <2>4, <2>5 DEF Waits
  <2>7. holder = u => u # t
    BY <1>2
  <2> QED BY <2>2, <2>6, <2>7 DEF Locks
<1> QED BY <1>1, <1>2

\* The call t goes to a place p that is not inside acquire(), and gives up the
\* lock or its place in the queue, if it had one.
LEMMA LeavesLock ==
  ASSUME CallsLock, TypeOK, NEW t \in Tasks, NEW p, p # "acquire",
         phase' = [phase EXCEPT ![t] = p],
         \A u \in Tasks : Locks(u)' <=> Locks(u) /\ u # t
  PROVE  CallsLock'
<1>1. \A u \in Tasks : phase'[u] = IF u = t THEN p ELSE phase[u]
  BY DEF TypeOK
<1> QED BY <1>1 DEF CallsLock

LEMMA EntersLock ==
  ASSUME CallsLock, TypeOK, LInv, NEW t \in Tasks, Acquire(t),
         phase' = [phase EXCEPT ![t] = "acquire"]
  PROVE  CallsLock'
<1>1. \A u \in Tasks : phase'[u] = IF u = t THEN "acquire" ELSE phase[u]
  BY DEF TypeOK
<1>2. \A u \in Tasks : Locks(u)' <=> Locks(u) \/ u = t
  BY AcquireLocks
<1> QED BY <1>1, <1>2 DEF CallsLock

LEMMA CallsLockNext ==
  ASSUME CallsLock, TypeOK, LInv, [Next]_vars
  PROVE  CallsLock'
<1>1. ASSUME NEW t \in Tasks, StartGet(t) \/ Retry(t)
      PROVE  CallsLock'
  BY <1>1, EntersLock DEF StartGet, Retry, Goes
<1>2. ASSUME NEW t \in Tasks, GetsPermit(t)
      PROVE  CallsLock'
  <2>1. holder = t /\ HandOver /\ phase' = [phase EXCEPT ![t] = "send"]
    BY <1>2 DEF GetsPermit, Grant, Goes
  <2>2. \A u \in Tasks : Locks(u)' <=> Locks(u) /\ u # t
    BY <2>1, HandOverLocks
  <2> QED BY <2>1, <2>2, LeavesLock
<1>3. ASSUME NEW t \in Tasks, CancelGet(t)
      PROVE  CallsLock'
  <2>1. \A u \in Tasks : Locks(u)' <=> Locks(u) /\ u # t
    <3>1. CASE phase[t] = "acquire"
      BY <1>3, <3>1, CancelLocks DEF CancelGet
    <3>2. CASE phase[t] # "acquire"
      BY <1>3, <3>2 DEF CancelGet, limiterVars, CallsLock, Locks, Waits
    <3> QED BY <3>1, <3>2
  <2> QED BY <1>3, <2>1, LeavesLock DEF CancelGet, Ends
<1>4. ASSUME NEW t \in Tasks, NEW p, p # "acquire", phase[t] # "acquire",
             phase' = [phase EXCEPT ![t] = p], UNCHANGED <<holder, queue>>
      PROVE  CallsLock'
  <2>1. \A u \in Tasks : Locks(u)' <=> Locks(u) /\ u # t
    BY <1>4 DEF CallsLock, Locks, Waits
  <2> QED BY <1>4, <2>1, LeavesLock
<1>5. ASSUME UNCHANGED <<holder, queue, phase>>
      PROVE  CallsLock'
  BY <1>5 DEF CallsLock, Locks, Waits
<1>6. ASSUME NEW t \in Tasks,
             SendRequest(t) \/ EndGet(t) \/ \E h \in RetryAfters : BackOff(t, h)
      PROVE  CallsLock'
  BY <1>4, <1>6 DEF SendRequest, EndGet, Ends, BackOff, Goes, limiterVars
<1>7. ASSUME \/ \E t \in Tasks : FindsWindowFull(t)
             \/ WakeUp /\ UNCHANGED clientVars
             \/ TimePasses /\ UNCHANGED clientVars
             \/ UNCHANGED vars
      PROVE  CallsLock'
  BY <1>5, <1>7 DEF FindsWindowFull, Sleep, WakeUp, TimePasses, vars, limiterVars, clientVars
<1> QED BY <1>1, <1>2, <1>3, <1>6, <1>7 DEF Next

LEMMA CallsLockInit == Init => CallsLock
  BY LimiterConstants DEF Init, LimiterInit, CallsLock, Locks, Waits

\* For any number of tasks and whenever they are cancelled: no one but the calls
\* inside acquire() has the lock or a place in its queue, and the lock is held
\* while anyone waits, by a task whose sleep ends within a window.
THEOREM LockIsUsable == Spec => []LockIsNeverStranded
<1>1. ASSUME LInv, CallsLock
      PROVE  LockIsNeverStranded
  <2>1. \A t \in Tasks : phase[t] = "acquire" <=> holder = t \/ Waits(t)
    BY <1>1 DEF CallsLock, Locks
  <2>2. queue # << >> => holder # None
    BY <1>1 DEF LInv, LockHandedOver
  <2>3. ASSUME sleepUntil # None
        PROVE  holder # None /\ sleepUntil <= clock + Window
    <3>1. holder # None
      BY <1>1, <2>3 DEF LInv, LockHandedOver
    <3>2. Len(times) = Limit /\ sleepUntil = times[1] + Window /\ 1 \in 1 .. Len(times)
      BY <1>1, <2>3, LimiterConstants DEF LInv, SleepInv
    <3>3. times[1] \in Nat /\ times[1] <= clock
      <4>1. /\ times[1] = granted[Len(granted) - Len(times) + 1]
            /\ Len(times) <= Len(granted)
        BY <1>1, <3>2 DEF LInv, LogInv
      <4>2. Len(granted) \in Nat /\ Len(times) \in Nat /\ times \in Seq(Nat)
        BY <1>1, LenProperties DEF LInv, LimiterTypeOK
      <4>3. Len(granted) - Len(times) + 1 \in 1 .. Len(granted)
        BY <3>2, <4>1, <4>2
      <4>4. times[1] <= clock
        BY <1>1, <4>1, <4>3 DEF LInv, LogInv
      <4>5. times[1] \in Nat
        BY <3>2, <4>2, ElementOfSeq
      <4> QED BY <4>4, <4>5
    <3>4. clock \in Int
      BY <1>1, LimiterConstants DEF LInv, LimiterTypeOK
    <3> QED BY <3>1, <3>2, <3>3, <3>4, LimiterConstants
  <2> QED BY <2>1, <2>2, <2>3 DEF LockIsNeverStranded
<1>2. CallsLock /\ TypeOK /\ LInv /\ [Next]_vars => CallsLock'
  BY CallsLockNext
<1> QED BY <1>1, <1>2, CallsLockInit, ClientTypeCorrect, ClientImplementsLimiter,
           LimiterInvariant, PTL DEF Spec, ImplementsLimiter

=============================================================================
