-------------------------- MODULE RateLimitProofs --------------------------
(***************************************************************************)
(* The limiter never lets through more than Limit requests in a window,    *)
(* for every limit, window and length of time.                             *)
(***************************************************************************)
EXTENDS RateLimit, TLAPS

\* The log is in the order of time, what was popped is out of the window for
\* good, and what is left is within the limit.
Ordered == \A i, j \in 1 .. Len(log) : i <= j => log[i] <= log[j]
InThePast == \A i \in 1 .. Len(log) : log[i] <= now
PoppedAreOld == \A i \in 1 .. Len(log) : i < first => log[i] < now - Window
WithinLimit == Len(log) - first + 1 <= Limit

RateInv ==
    /\ RateTypeOK
    /\ Ordered
    /\ InThePast
    /\ PoppedAreOld
    /\ WithinLimit
    /\ NeverTooMany

LEMMA InitRateInv ==
    ASSUME RateInit
    PROVE  RateInv
BY RateAssumption
   DEF RateInit, RateInv, RateTypeOK, Ordered, InThePast, PoppedAreOld,
       WithinLimit, NeverTooMany

\* Pruning pops only what is out of the window.
LEMMA PruneKeeps ==
    ASSUME RateInv, Prune
    PROVE  /\ first' \in first .. Len(log) + 1
           /\ first' \in Int
           /\ \A i \in 1 .. Len(log) : i < first' => log[i] < now - Window
<1>1. first' \in first .. Len(log) + 1
  BY DEF Prune
<1>2. \A i \in 1 .. Len(log) : first <= i /\ i < first' => log[i] < now - Window
  BY DEF Prune
<1>3. \A i \in 1 .. Len(log) : i < first => log[i] < now - Window
  BY DEF RateInv, PoppedAreOld
<1>4. first \in Int /\ Len(log) \in Nat
  BY DEF RateInv, RateTypeOK
<1>5. \A i \in 1 .. Len(log) : first <= i \/ i < first
  BY <1>4
<1>6. QED
  BY <1>1, <1>2, <1>3, <1>4, <1>5

LEMMA TickStep ==
    ASSUME RateInv, Tick
    PROVE  RateInv'
<1>1. now \in Nat /\ MaxTime \in Nat /\ Window \in Nat /\ now' = now + 1 /\ now < MaxTime
  BY RateAssumption DEF RateInv, RateTypeOK, Tick
<1>2. log' = log /\ first' = first
  BY DEF Tick
<1>3. log \in Seq(0 .. MaxTime) /\ first \in 1 .. Len(log) + 1
  BY DEF RateInv, RateTypeOK
<1>4. RateTypeOK'
  BY <1>1, <1>2, <1>3 DEF RateTypeOK
<1>5. Ordered' /\ WithinLimit' /\ NeverTooMany'
  BY <1>2 DEF RateInv, Ordered, WithinLimit, NeverTooMany
<1>6. InThePast'
  BY <1>1, <1>2, <1>3 DEF RateInv, InThePast
<1>7. PoppedAreOld'
  BY <1>1, <1>2, <1>3 DEF RateInv, PoppedAreOld
<1>8. QED
  BY <1>4, <1>5, <1>6, <1>7 DEF RateInv

LEMMA RefuseStep ==
    ASSUME RateInv, Refuse
    PROVE  RateInv'
<1>1. log' = log /\ now' = now
  BY DEF Refuse
<1>2. first' \in first .. Len(log) + 1 /\ \A i \in 1 .. Len(log) : i < first' => log[i] < now - Window
  BY PruneKeeps DEF Refuse
<1>3. first \in 1 .. Len(log) + 1 /\ Len(log) \in Nat
  BY DEF RateInv, RateTypeOK
<1>4. RateTypeOK'
  BY <1>1, <1>2, <1>3 DEF RateInv, RateTypeOK
<1>5. Ordered' /\ InThePast' /\ NeverTooMany'
  BY <1>1 DEF RateInv, Ordered, InThePast, NeverTooMany
<1>6. PoppedAreOld'
  BY <1>1, <1>2 DEF PoppedAreOld
<1>7. WithinLimit'
  BY <1>1, <1>2, <1>3, RateAssumption DEF RateInv, WithinLimit
<1>8. QED
  BY <1>4, <1>5, <1>6, <1>7 DEF RateInv

\* The request Limit places before the new one has been popped, because what
\* is left of the log is shorter than the limit: it is out of the window.
LEMMA AdmitStep ==
    ASSUME RateInv, Admit
    PROVE  RateInv'
<1> DEFINE n == Len(log)
<1>1. log' = Append(log, now) /\ now' = now /\ n - first' + 1 < Limit
  BY DEF Admit
<1>2. first' \in first .. n + 1 /\ first' \in Int /\ \A i \in 1 .. n : i < first' => log[i] < now - Window
  BY PruneKeeps DEF Admit
<1>3. /\ log \in Seq(0 .. MaxTime) /\ first \in 1 .. n + 1 /\ n \in Nat
      /\ now \in 0 .. MaxTime /\ MaxTime \in Nat /\ Limit \in Nat \ {0} /\ Window \in Nat
  BY RateAssumption DEF RateInv, RateTypeOK
<1>4. /\ Len(log') = n + 1 /\ log'[n + 1] = now
      /\ \A i \in 1 .. n : log'[i] = log[i]
      /\ log' \in Seq(0 .. MaxTime)
  BY <1>1, <1>3
<1>5. RateTypeOK'
  BY <1>1, <1>2, <1>3, <1>4 DEF RateTypeOK
<1>6. \A i \in 1 .. n : log[i] \in 0 .. MaxTime /\ log[i] <= now
  BY <1>3 DEF RateInv, InThePast
<1>7. InThePast'
  BY <1>1, <1>3, <1>4, <1>6 DEF InThePast
<1>8. Ordered'
  <2>1. SUFFICES ASSUME NEW i \in 1 .. n + 1, NEW j \in 1 .. n + 1, i <= j
                 PROVE  log'[i] <= log'[j]
    BY <1>4 DEF Ordered
  <2>2. CASE j \in 1 .. n
    <3>1. i \in 1 .. n
      BY <2>1, <2>2, <1>3
    <3>2. log[i] <= log[j]
      BY <3>1, <2>1, <2>2 DEF RateInv, Ordered
    <3>3. QED
      BY <3>1, <3>2, <2>2, <1>4
  <2>3. CASE j = n + 1 /\ i \in 1 .. n
    BY <2>3, <1>3, <1>4, <1>6
  <2>4. CASE j = n + 1 /\ i = n + 1
    BY <2>4, <1>3, <1>4
  <2>5. QED
    BY <2>1, <2>2, <2>3, <2>4, <1>3
<1>9. PoppedAreOld'
  <2>1. ASSUME NEW i \in 1 .. Len(log'), i < first'
        PROVE  log'[i] < now' - Window
    <3>1. first' <= n + 1
      BY <1>2, <1>3
    <3>2. i \in 1 .. n
      BY <2>1, <3>1, <1>2, <1>3, <1>4
    <3>3. log'[i] = log[i] /\ log[i] < now - Window
      BY <2>1, <3>2, <1>2, <1>4
    <3>4. QED
      BY <3>3, <1>1
  <2>2. QED
    BY <2>1 DEF PoppedAreOld
<1>10. WithinLimit'
  BY <1>1, <1>2, <1>3, <1>4 DEF WithinLimit
<1>11. NeverTooMany'
  <2>1. SUFFICES ASSUME NEW i \in 1 .. Len(log') - Limit
                 PROVE  log'[i + Limit] - log'[i] > Window
    BY DEF NeverTooMany
  <2> i \in Int /\ 1 <= i /\ i + Limit <= n + 1
    BY <2>1, <1>3, <1>4
  <2>2. CASE i + Limit <= n
    <3>1. i \in 1 .. n - Limit /\ i \in 1 .. n /\ i + Limit \in 1 .. n
      BY <2>2, <1>3
    <3>2. log[i + Limit] - log[i] > Window
      BY <3>1 DEF RateInv, NeverTooMany
    <3>3. QED
      BY <3>1, <3>2, <1>4
  <2>3. CASE i + Limit = n + 1
    <3>0. i < first'
      BY <2>3, <1>1, <1>2, <1>3
    <3>1. i \in 1 .. n
      BY <2>3, <1>3
    <3>2. log[i] < now - Window
      BY <3>0, <3>1, <1>2
    <3>3. log'[i + Limit] = now /\ log'[i] = log[i]
      BY <2>3, <3>1, <1>4
    <3>4. QED
      BY <3>1, <3>2, <3>3, <1>3, <1>6
  <2>4. QED
    BY <2>2, <2>3, <1>3
<1>12. QED
  BY <1>5, <1>7, <1>8, <1>9, <1>10, <1>11 DEF RateInv

LEMMA NextRateInv ==
    ASSUME RateInv, [RateNext]_rateVars
    PROVE  RateInv'
<1>1. CASE Tick
  BY <1>1, TickStep
<1>2. CASE Admit
  BY <1>2, AdmitStep
<1>3. CASE Refuse
  BY <1>3, RefuseStep
<1>4. CASE UNCHANGED rateVars
  BY <1>4 DEF rateVars, RateInv, RateTypeOK, Ordered, InThePast, PoppedAreOld,
              WithinLimit, NeverTooMany
<1>5. QED
  BY <1>1, <1>2, <1>3, <1>4 DEF RateNext

\* At no moment has any window of time, closed at both ends, seen more than
\* Limit requests pass (dispatch, rate_limit.py).
THEOREM WindowKept == RateSpec => []NeverTooMany
<1>1. RateInit => RateInv
  BY InitRateInv
<1>2. RateInv /\ [RateNext]_rateVars => RateInv'
  BY NextRateInv
<1>3. RateInv => NeverTooMany
  BY DEF RateInv
<1>4. QED
  BY <1>1, <1>2, <1>3, PTL DEF RateSpec
=============================================================================
