----------------------------- MODULE RateLimiter ----------------------------
(***************************************************************************)
(* The rolling-window limiter of core/ratelimit.py: acquire() holds an     *)
(* asyncio.Lock while it looks at the permits of the last window and       *)
(* sleeps with the lock held until the oldest of them ages out.            *)
(* asyncio.Lock hands itself over in FIFO order.  A limiter whose rate is  *)
(* not positive does nothing; this is the enabled one.                     *)
(***************************************************************************)
EXTENDS Integers, SequencesExt

CONSTANTS
  Tasks,       \* asyncio tasks that share the limiter
  Limit,       \* rate_per_minute: permits per window
  Window,      \* window_seconds
  Resolution,  \* how much too early a timer of the event loop may fire
  MaxClock,    \* bound: the last reading of the clock
  None

ASSUME LimiterConstants ==
  /\ Limit \in Nat \ {0}
  /\ Window \in Nat
  /\ Resolution \in Nat
  /\ MaxClock \in Nat
  /\ None \notin Tasks /\ None \notin Nat

VARIABLES
  clock,       \* time.monotonic
  times,       \* the deque of permits that may still be inside the window
  holder,      \* the task that holds the lock
  queue,       \* tasks that wait for the lock
  sleepUntil,  \* the holder sleeps until then, None when it does not
  granted      \* history: when each permit was given

limiterVars == <<clock, times, holder, queue, sleepUntil, granted>>

LimiterTypeOK ==
  /\ clock \in 0 .. MaxClock
  /\ times \in Seq(Nat)
  /\ holder \in Tasks \cup {None}
  /\ queue \in Seq(Tasks)
  /\ sleepUntil \in Nat \cup {None}
  /\ granted \in Seq(Nat)

LimiterInit ==
  /\ clock = 0
  /\ times = << >>
  /\ holder = None
  /\ queue = << >>
  /\ sleepUntil = None
  /\ granted = << >>

Waits(t) == \E i \in DOMAIN queue : queue[i] = t

\* async with self._lock: take the free lock or line up behind the others.
Acquire(t) ==
  /\ holder # t /\ ~Waits(t)
  /\ IF holder = None
       THEN holder' = t /\ UNCHANGED queue
       ELSE queue' = Append(queue, t) /\ UNCHANGED holder
  /\ UNCHANGED <<clock, times, sleepUntil, granted>>

\* asyncio.Lock's release: it passes to the task that has waited longest.
HandOver ==
  IF queue = << >>
    THEN holder' = None /\ UNCHANGED queue
    ELSE holder' = Head(queue) /\ queue' = Tail(queue)

\* Permits that age out one unit early.
AgedOutEarly(p) == p <= clock - Window + 1

\* The permit p has left the window (now - window, now].
AgedOut(p) == p <= clock - Window

\* The deque after popping aged permits off its left end, n of them.
Popped(n) ==
  /\ \A i \in 1 .. n : AgedOut(times[i])
  /\ n < Len(times) => ~AgedOut(times[n + 1])

Kept(n) == SubSeq(times, n + 1, Len(times))

\* There is room in the window: record the permit and release the lock.
Grant(t) ==
  /\ holder = t /\ sleepUntil = None
  /\ \E n \in 0 .. Len(times) :
       /\ Popped(n)
       /\ Len(times) - n < Limit
       /\ times' = Append(Kept(n), clock)
  /\ granted' = Append(granted, clock)
  /\ HandOver
  /\ UNCHANGED <<clock, sleepUntil>>

\* Sleeping a whole window from now.
SleepAWindow(t) ==
  /\ holder = t /\ sleepUntil = None
  /\ \E n \in 0 .. Len(times) :
       /\ Popped(n)
       /\ Len(times) - n >= Limit
       /\ times' = Kept(n)
       /\ sleepUntil' = clock + Window
  /\ UNCHANGED <<clock, holder, queue, granted>>

\* The window is full: sleep until the oldest permit in it ages out.
Sleep(t) ==
  /\ holder = t /\ sleepUntil = None
  /\ \E n \in 0 .. Len(times) :
       /\ Popped(n)
       /\ Len(times) - n >= Limit
       /\ times' = Kept(n)
       /\ sleepUntil' = times[n + 1] + Window
  /\ UNCHANGED <<clock, holder, queue, granted>>

\* The timer fires, and the loop looks at the window again.
WakeUp ==
  /\ sleepUntil # None
  /\ clock + Resolution >= sleepUntil
  /\ sleepUntil' = None
  /\ UNCHANGED <<clock, times, holder, queue, granted>>

\* A sleeper that is cancelled and does not release the lock.
CancelKeepingLock(t) ==
  /\ IF holder = t
       THEN sleepUntil' = None /\ UNCHANGED <<holder, queue>>
       ELSE /\ \E i \in DOMAIN queue :
                 queue[i] = t /\ queue' = RemoveAt(queue, i)
            /\ UNCHANGED <<holder, sleepUntil>>
  /\ UNCHANGED <<clock, times, granted>>

\* A task cancelled while it waits for the lock or sleeps holding it, or when
\* the lock has been handed to it but it has not run yet.
Cancel(t) ==
  /\ IF holder = t
       THEN HandOver /\ sleepUntil' = None
       ELSE /\ \E i \in DOMAIN queue :
                 queue[i] = t /\ queue' = RemoveAt(queue, i)
            /\ UNCHANGED <<holder, sleepUntil>>
  /\ UNCHANGED <<clock, times, granted>>

TimePasses ==
  /\ clock < MaxClock
  /\ clock' = clock + 1
  /\ UNCHANGED <<times, holder, queue, sleepUntil, granted>>

LimiterNext ==
  \/ \E t \in Tasks : Acquire(t) \/ Grant(t) \/ Sleep(t) \/ Cancel(t)
  \/ WakeUp
  \/ TimePasses

LimiterSpec == LimiterInit /\ [][LimiterNext]_limiterVars

-----------------------------------------------------------------------------
\* At most Limit permits in any rolling window, wherever the window starts:
\* permits that are Limit apart in the log are at least a window apart in time,
\* however tasks queue up, wake early and are cancelled (acquire's docstring).
WindowRespected ==
  \A i \in DOMAIN granted :
    i + Limit \in DOMAIN granted => granted[i + Limit] - granted[i] >= Window

\* A task sleeps no longer than it has to: just before its timer is due, Limit
\* permits are still inside the window (acquire's sleep expression).
NoNeedlessSleep ==
  sleepUntil # None =>
    /\ Len(granted) >= Limit
    /\ granted[Len(granted) - Limit + 1] + Window = sleepUntil

=============================================================================
