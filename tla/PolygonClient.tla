---------------------------- MODULE PolygonClient ---------------------------
(***************************************************************************)
(* PolygonMarketDataProvider._get (providers/market_data/polygon.py):      *)
(* every attempt takes a permit of the RateLimiter, and answers 429 and    *)
(* 5xx are retried after a backoff.  The API is external: it answers as it *)
(* likes and when it likes.                                                *)
(***************************************************************************)
EXTENDS RateLimiter, FiniteSetsExt

CONSTANTS
  MaxRetries,   \* max_retries
  Cap,          \* the longest backoff
  RetryAfters   \* Retry-After headers the API may send, None for no number

ASSUME ClientConstants ==
  /\ IsFiniteSet(Tasks)
  /\ MaxRetries \in Nat
  /\ Cap \in Nat \ {0}
  /\ RetryAfters \subseteq Nat \cup {None}

VARIABLES
  phase,    \* phase[t]: where the call of task t is
  delay,    \* delay[t]: the backoff it uses when the API names none
  resumeAt, \* resumeAt[t]: the end of its backoff
  trail,    \* trail[t]: the attempts of its current call
  requests  \* history: how many requests all calls have sent

clientVars == <<phase, delay, resumeAt, trail, requests>>
vars == <<limiterVars, clientVars>>

\* sent: when the request left; answered and header: its last answer.
Attempt == [sent: Nat, answered: Nat \cup {None}, header: Nat \cup {None}]

TypeOK ==
  /\ LimiterTypeOK
  /\ phase \in [Tasks -> {"idle", "acquire", "send", "wait", "backoff"}]
  /\ delay \in [Tasks -> 1 .. Cap]
  /\ resumeAt \in [Tasks -> Nat]
  /\ trail \in [Tasks -> Seq(Attempt)]
  /\ requests \in Nat

Init ==
  /\ LimiterInit
  /\ phase = [t \in Tasks |-> "idle"]
  /\ delay = [t \in Tasks |-> 1]
  /\ resumeAt = [t \in Tasks |-> 0]
  /\ trail = [t \in Tasks |-> << >>]
  /\ requests = 0

Goes(t, from, to) == phase[t] = from /\ phase' = [phase EXCEPT ![t] = to]

\* A call of _get begins.
StartGet(t) ==
  /\ Goes(t, "idle", "acquire")
  /\ Acquire(t)
  /\ UNCHANGED <<delay, resumeAt, trail, requests>>

GetsPermit(t) ==
  /\ Goes(t, "acquire", "send")
  /\ Grant(t)
  /\ UNCHANGED <<delay, resumeAt, trail, requests>>

FindsWindowFull(t) ==
  /\ phase[t] = "acquire"
  /\ Sleep(t)
  /\ UNCHANGED clientVars

\* The request leaves: at once, or when the connection is there.
SendRequest(t) ==
  /\ Goes(t, "send", "wait")
  /\ trail' = [trail EXCEPT ![t] =
                 Append(@, [sent |-> clock, answered |-> None, header |-> None])]
  /\ requests' = requests + 1
  /\ UNCHANGED <<limiterVars, delay, resumeAt>>

\* The call's local variables are gone.
Ends(t) ==
  /\ phase' = [phase EXCEPT ![t] = "idle"]
  /\ delay' = [delay EXCEPT ![t] = 1]
  /\ resumeAt' = [resumeAt EXCEPT ![t] = 0]
  /\ trail' = [trail EXCEPT ![t] = << >>]
  /\ UNCHANGED requests

\* Success, a status that is not retried, or an exception of the transport.
EndGet(t) ==
  /\ phase[t] = "wait"
  /\ Ends(t)
  /\ UNCHANGED limiterVars

\* A delay that grows without bound.
BackOffUncapped(t, header) ==
  /\ Len(trail[t]) <= MaxRetries
  /\ Goes(t, "wait", "backoff")
  /\ resumeAt' = [resumeAt EXCEPT ![t] =
                    clock + Min({IF header = None THEN delay[t] ELSE header, Cap})]
  /\ delay' = [delay EXCEPT ![t] = 2 * @]
  /\ trail' = [trail EXCEPT ![t][Len(trail[t])] =
                 [@ EXCEPT !.answered = clock, !.header = header]]
  /\ UNCHANGED <<limiterVars, requests>>

\* A backoff whose delay does not grow.
BackOffConstantly(t, header) ==
  /\ Len(trail[t]) <= MaxRetries
  /\ Goes(t, "wait", "backoff")
  /\ resumeAt' = [resumeAt EXCEPT ![t] =
                    clock + Min({IF header = None THEN delay[t] ELSE header, Cap})]
  /\ trail' = [trail EXCEPT ![t][Len(trail[t])] =
                 [@ EXCEPT !.answered = clock, !.header = header]]
  /\ UNCHANGED <<limiterVars, delay, requests>>

\* 429 or 5xx, and it was not the last attempt: back off as the header says,
\* or else for the current delay.
BackOff(t, header) ==
  /\ Len(trail[t]) <= MaxRetries
  /\ Goes(t, "wait", "backoff")
  /\ resumeAt' = [resumeAt EXCEPT ![t] =
                    clock + Min({IF header = None THEN delay[t] ELSE header, Cap})]
  /\ delay' = [delay EXCEPT ![t] = Min({2 * @, Cap})]
  /\ trail' = [trail EXCEPT ![t][Len(trail[t])] =
                 [@ EXCEPT !.answered = clock, !.header = header]]
  /\ UNCHANGED <<limiterVars, requests>>

\* A retry that is sent without asking the limiter.
RetryWithoutPermit(t) ==
  /\ clock + Resolution >= resumeAt[t]
  /\ Goes(t, "backoff", "send")
  /\ UNCHANGED <<limiterVars, delay, resumeAt, trail, requests>>

\* The backoff's timer fires, early at times as any of the loop's; the next attempt needs a permit of its own.
Retry(t) ==
  /\ clock + Resolution >= resumeAt[t]
  /\ Goes(t, "backoff", "acquire")
  /\ Acquire(t)
  /\ UNCHANGED <<delay, resumeAt, trail, requests>>

CancelGet(t) ==
  /\ phase[t] # "idle"
  /\ IF phase[t] = "acquire" THEN Cancel(t) ELSE UNCHANGED limiterVars
  /\ Ends(t)

Next ==
  \/ \E t \in Tasks :
       \/ StartGet(t) \/ GetsPermit(t) \/ FindsWindowFull(t)
       \/ SendRequest(t) \/ EndGet(t)
       \/ \E h \in RetryAfters : BackOff(t, h)
       \/ Retry(t) \/ CancelGet(t)
  \/ WakeUp /\ UNCHANGED clientVars
  \/ TimePasses /\ UNCHANGED clientVars

Spec == Init /\ [][Next]_vars

-----------------------------------------------------------------------------
\* 1, 2, 4, ...
Doubling[n \in Nat] == IF n = 0 THEN 1 ELSE 2 * Doubling[n - 1]

\* Retries keep to the schedule, whatever else delays them: between an answer
\* and the next attempt of the call lies the Retry-After it carried, or else
\* 1, 2, 4, ... by its attempt number, in each case up to Cap and less no more
\* than the timer's resolution; and a call makes no more than max_retries
\* further attempts (_get's docstring).
BackoffSchedule ==
  \A t \in Tasks :
    /\ Len(trail[t]) <= MaxRetries + 1
    /\ \A i \in 1 .. Len(trail[t]) - 1 :
         LET a == trail[t][i]
             asked == IF a.header = None THEN Doubling[i - 1] ELSE a.header
         IN  trail[t][i + 1].sent + Resolution >= a.answered + Min({asked, Cap})

\* Every request, a retry too, is sent on a permit of its own ("proactive
\* pacing", _get's docstring): calls that hold a permit and requests already
\* sent never outnumber the permits given.
EveryRequestHasAPermit ==
  requests + Cardinality({t \in Tasks : phase[t] = "send"}) <= Len(granted)

\* The limiter's lock is never stranded, although it is held across a sleep:
\* the calls inside acquire(), and no others, hold the lock or wait for it, so
\* one that was cancelled has neither; while any wait, one holds it; and the
\* holder's sleep is over within a window (ratelimit.py, "async with").
LockIsNeverStranded ==
  /\ \A t \in Tasks : phase[t] = "acquire" <=> holder = t \/ Waits(t)
  /\ queue # << >> => holder # None
  /\ sleepUntil # None => holder # None /\ sleepUntil <= clock + Window

\* The client uses the limiter only as its interface allows.
ImplementsLimiter == LimiterSpec

=============================================================================
