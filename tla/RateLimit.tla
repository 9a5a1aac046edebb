----------------------------- MODULE RateLimit -----------------------------
(***************************************************************************)
(* RateLimitMiddleware (services/rate_limit.py), for one address: the      *)
(* sliding window over the requests it let through.                        *)
(*                                                                         *)
(* The deque only grows at one end and shrinks at the other, so it is what *)
(* is left of the log of all admitted requests from index `first` on.      *)
(* Nothing is awaited while the lock is held: a request is one step.       *)
(***************************************************************************)
EXTENDS Integers, Sequences

CONSTANTS
    Limit,      \* requests per window
    Window,     \* length of the window, in ticks
    Second,     \* ticks in a second
    MaxTime     \* the clock stops there (bound of the model)

\* A limit of 0 switches the limiter off.
ASSUME RateAssumption ==
    /\ Limit \in Nat \ {0}
    /\ {Window, MaxTime} \subseteq Nat
    /\ Second \in Nat \ {0}

VARIABLES
    now,        \* time.monotonic()
    log,        \* when each admitted request came, in order
    first       \* the deque is log[first], log[first + 1], ...

rateVars == <<now, log, first>>

RateInit == now = 0 /\ log = <<>> /\ first = 1

Tick ==
    /\ now < MaxTime
    /\ now' = now + 1
    /\ UNCHANGED <<log, first>>

\* popleft() while the oldest entry is before the cutoff.
Prune ==
    /\ first' \in first .. Len(log) + 1
    /\ \A i \in 1 .. Len(log) : first <= i /\ i < first' => log[i] < now - Window
    /\ first' <= Len(log) => log[first'] >= now - Window

\* Mutant: the length is compared with > .
AdmitOneMore ==
    /\ Prune
    /\ Len(log) - first' + 1 <= Limit
    /\ log' = Append(log, now)
    /\ UNCHANGED now

Admit ==
    /\ Prune
    /\ Len(log) - first' + 1 < Limit
    /\ log' = Append(log, now)
    /\ UNCHANGED now

Refuse ==
    /\ Prune
    /\ Len(log) - first' + 1 >= Limit
    /\ UNCHANGED <<now, log>>

\* Mutant: without max(1, ...).
RetryAfterZero ==
    LET left == log[first'] + Window - now IN (left \div Second) * Second

\* Retry-After of a refusal, in ticks: int() rounds down to whole seconds.
RetryAfter ==
    LET left == log[first'] + Window - now IN
    IF left < Second THEN Second ELSE (left \div Second) * Second

RateNext == Tick \/ Admit \/ Refuse

RateSpec == RateInit /\ [][RateNext]_rateVars

-----------------------------------------------------------------------------
RateTypeOK ==
    /\ now \in 0 .. MaxTime
    /\ log \in Seq(0 .. MaxTime)
    /\ first \in 1 .. Len(log) + 1

\* No window of time, wherever it starts, holds more than Limit admitted
\* requests: any Limit + 1 consecutive ones are more than a window apart.
NeverTooMany ==
    \A i \in 1 .. Len(log) - Limit : log[i + Limit] - log[i] > Window
=============================================================================
