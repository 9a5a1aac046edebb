------------------------ MODULE DistributionProofs ------------------------
(***************************************************************************)
(* The safety of Distribution for any viewers, streams, broadcasting tasks *)
(* and limits.                                                             *)
(***************************************************************************)
EXTENDS Distribution, FiniteSetTheorems, FunctionTheorems, SequenceTheorems, TLAPS

-----------------------------------------------------------------------------
(* What the operators on sequences return                                  *)

\* The end of a sequence after its i-th element.
LEMMA SubSeqAfter ==
    ASSUME NEW S, NEW s \in Seq(S), NEW i \in 1..Len(s)
    PROVE  LET t == SubSeq(s, i + 1, Len(s)) IN
           /\ t \in Seq(S)
           /\ Len(t) = Len(s) - i
           /\ \A j \in 1..Len(s) - i : t[j] = s[i + j]
<1> DEFINE n == Len(s)
           m == i + 1
           t == SubSeq(s, m, n)
<1>1. n \in Nat /\ m \in 1..n + 1
  BY LenProperties
<1>2. \A k \in m..n : s[k] \in S
  BY ElementOfSeq
<1>3. t \in Seq(S) /\ Len(t) = (IF m <= n THEN n - m + 1 ELSE 0)
  BY <1>1, <1>2, SubSeqProperties
<1>4. \A j \in 1..n - m + 1 : t[j] = s[m + j - 1]
  BY <1>1, <1>2, SubSeqProperties
<1>5. n - m + 1 = n - i /\ \A j \in 1..n - i : m + j - 1 = i + j
  BY <1>1
<1>6. Len(t) = n - i
  BY <1>1, <1>3
<1> HIDE DEF t
<1>7. \A j \in 1..n - i : t[j] = s[i + j]
  <2>1. TAKE j \in 1..n - i
  <2>2. t[j] = s[m + j - 1]
    BY <1>4, <1>5
  <2>3. QED
    BY <1>5, <2>2
<1>8. QED
  BY <1>3, <1>6, <1>7 DEF t

\* A sequence without its i-th element.
LEMMA RemoveAtElements ==
    ASSUME NEW S, NEW s \in Seq(S), NEW i \in 1..Len(s)
    PROVE  LET t == RemoveAt(s, i) IN
           /\ t \in Seq(S)
           /\ Len(t) = Len(s) - 1
           /\ \A j \in 1..Len(t) : t[j] = IF j < i THEN s[j] ELSE s[j + 1]
<1> DEFINE a == SubSeq(s, 1, i - 1)
           b == SubSeq(s, i + 1, Len(s))
           t == a \o b
<1>1. /\ a \in Seq(S) /\ Len(a) = i - 1
      /\ \A j \in 1..i - 1 : a[j] = s[j]
  BY SubSeqProperties
<1>2. /\ b \in Seq(S) /\ Len(b) = Len(s) - i
      /\ \A j \in 1..Len(s) - i : b[j] = s[i + j]
  BY SubSeqAfter
<1>3. RemoveAt(s, i) = t
  BY DEF RemoveAt
<1> HIDE DEF a, b
<1>4. /\ t \in Seq(S) /\ Len(t) = Len(a) + Len(b)
      /\ \A j \in 1..Len(a) + Len(b) : t[j] = IF j <= Len(a) THEN a[j] ELSE b[j - Len(a)]
  BY <1>1, <1>2, ConcatProperties
<1> HIDE DEF t
<1>5. Len(s) \in Nat /\ i \in 1..Len(s)
  BY LenProperties
<1>6. Len(t) = Len(s) - 1
  BY <1>1, <1>2, <1>4, <1>5
<1>7. \A j \in 1..Len(t) : t[j] = IF j < i THEN s[j] ELSE s[j + 1]
  <2>1. TAKE j \in 1..Len(t)
  <2>2. CASE j < i
    BY <1>1, <1>2, <1>4, <1>5, <1>6, <2>2
  <2>3. CASE j >= i
    <3>1. j - (i - 1) \in 1..Len(s) - i /\ i + (j - (i - 1)) = j + 1
      BY <1>5, <1>6, <2>3
    <3>2. t[j] = b[j - (i - 1)]
      BY <1>1, <1>2, <1>4, <1>5, <1>6, <2>3
    <3>3. QED
      BY <1>2, <1>5, <2>3, <3>1, <3>2
  <2>4. QED
    BY <1>5, <1>6, <2>2, <2>3
<1>8. QED
  BY <1>3, <1>4, <1>6, <1>7 DEF t

\* The elements of a sequence are finitely many.
LEMMA ToSetFinite ==
    ASSUME NEW S, NEW s \in Seq(S)
    PROVE  IsFiniteSet(ToSet(s)) /\ ToSet(s) \subseteq S
<1>1. Len(s) \in Nat /\ s \in [1..Len(s) -> S] /\ DOMAIN s = 1..Len(s)
  BY LenProperties
<1>2. s \in Surjection(1..Len(s), ToSet(s))
  <2>1. s \in [1..Len(s) -> ToSet(s)]
    BY <1>1 DEF ToSet
  <2>2. \A x \in ToSet(s) : \E i \in 1..Len(s) : s[i] = x
    BY <1>1 DEF ToSet
  <2>3. QED
    BY <2>1, <2>2, Fun_IsSurj
<1>3. IsFiniteSet(1..Len(s))
  BY <1>1, FS_Interval
<1>4. QED
  BY <1>1, <1>2, <1>3, FS_Surjection DEF ToSet

Distinct(s) == \A i, j \in DOMAIN s : i # j => s[i] # s[j]

\* The orders in which the elements of a finite set can be iterated over.
LEMMA SetToSeqsElements ==
    ASSUME NEW S, IsFiniteSet(S), NEW f \in SetToSeqs(S)
    PROVE  f \in Seq(S) /\ ToSet(f) = S /\ Distinct(f)
<1> DEFINE n == Cardinality(S)
<1>1. n \in Nat
  BY FS_CardinalityType
<1>2. f \in [1..n -> S] /\ \A i, j \in 1..n : i # j => f[i] # f[j]
  BY DEF SetToSeqs
<1>3. f \in Injection(1..n, S)
  BY <1>2, Fun_IsInj
<1>4. Cardinality(1..n) = n
  BY <1>1, FS_Interval
<1>5. f \in Surjection(1..n, S)
  BY <1>3, <1>4, FS_Injection
<1>6. f \in Seq(S)
  BY <1>1, <1>2, SeqDef, Zenon
<1>7. DOMAIN f = 1..n /\ S = {f[i] : i \in 1..n}
  BY <1>2, <1>5 DEF Surjection
<1>8. QED
  BY <1>2, <1>6, <1>7 DEF ToSet, Distinct

\* What discard() leaves.
LEMMA DiscardElements ==
    ASSUME sockets \in Seq(Viewers), Distinct(sockets), NEW v, Discard(v)
    PROVE  /\ sockets' \in Seq(Viewers)
           /\ Distinct(sockets)'
           /\ ToSet(sockets') = ToSet(sockets) \ {v}
<1>1. CASE v \notin ToSet(sockets)
  BY <1>1 DEF Discard, Distinct
<1>2. CASE v \in ToSet(sockets)
  <2>1. PICK i \in DOMAIN sockets : sockets[i] = v /\ sockets' = RemoveAt(sockets, i)
    BY <1>2 DEF Discard
  <2> DEFINE t == sockets'
  <2>2. Len(sockets) \in Nat /\ DOMAIN sockets = 1..Len(sockets) /\ i \in 1..Len(sockets)
    BY <2>1, LenProperties
  <2>3. /\ t \in Seq(Viewers)
        /\ Len(t) = Len(sockets) - 1
        /\ \A j \in 1..Len(t) : t[j] = IF j < i THEN sockets[j] ELSE sockets[j + 1]
    BY <2>1, <2>2, RemoveAtElements
  <2>4. DOMAIN t = 1..Len(t)
    BY <2>3, LenProperties
  <2>5. \A j, k \in DOMAIN sockets : j # k => sockets[j] # sockets[k]
    BY DEF Distinct
  <2> HIDE DEF t
  <2>6. \A j \in 1..Len(t) : t[j] # v /\ \E k \in 1..Len(sockets) : t[j] = sockets[k]
    BY <2>1, <2>2, <2>3, <2>5
  <2>7. \A k \in 1..Len(sockets) : k # i => \E j \in 1..Len(t) : t[j] = sockets[k]
    <3>1. TAKE k \in 1..Len(sockets)
    <3>2. CASE k < i
      BY <2>2, <2>3, <3>2
    <3>3. CASE k > i
      <4>1. k - 1 \in 1..Len(t) /\ ~(k - 1 < i) /\ (k - 1) + 1 = k
        BY <2>2, <2>3, <3>3
      <4>2. QED
        BY <2>3, <4>1
    <3>4. QED
      BY <2>2, <3>2, <3>3
  <2>8. ToSet(t) = ToSet(sockets) \ {v}
    <3>1. \A x \in ToSet(t) : x # v /\ x \in ToSet(sockets)
      BY <2>2, <2>4, <2>6 DEF ToSet
    <3>2. \A x \in ToSet(sockets) : x # v => x \in ToSet(t)
      BY <2>1, <2>2, <2>4, <2>7 DEF ToSet
    <3>3. QED
      BY <3>1, <3>2
  <2>9. \A j, k \in 1..Len(t) : j # k => t[j] # t[k]
    BY <2>2, <2>3, <2>5
  <2>10. QED
    BY <2>3, <2>4, <2>8, <2>9 DEF t, Distinct
<1>3. QED
  BY <1>1, <1>2

-----------------------------------------------------------------------------
(* The viewers                                                             *)

StageNames == {"idle", "refused", "admitted", "unaccepted", "connecting", "subscribed",
               "open", "done"}

\* The handlers of the address that have a place: those that run, and those
\* that a raising accept() ended.
Holding == {v \in Viewers : pc[v] \in {"admitted", "connecting", "open", "unaccepted"}}

PlacesInv ==
    /\ pc \in [Clients -> StageNames]
    /\ IsFiniteSet(Holding)
    /\ places = Cardinality(Holding)
    /\ places <= MaxPerIp

SocketsInv ==
    /\ sockets \in Seq(Viewers)
    /\ Distinct(sockets)
    /\ NoGhostViewers

ViewersInv == PlacesInv /\ SocketsInv

LEMMA InitViewers ==
    ASSUME Init
    PROVE  ViewersInv
<1>1. PlacesInv
  <2>1. Holding = {}
    BY DEF Init, Holding, Clients
  <2>2. QED
    BY <2>1, FS_EmptySet, DistributionAssumption DEF Init, PlacesInv, StageNames
<1>2. SocketsInv
  BY DEF Init, SocketsInv, NoGhostViewers, Distinct, ToSet
<1>3. QED
  BY <1>1, <1>2 DEF ViewersInv

\* A handler takes a place only as it begins to run, and gives it back as it
\* ends, unless it ends in accept().
LEMMA PlacesKept ==
    ASSUME ViewersInv, [Next]_vars
    PROVE  PlacesInv'
<1> USE DEF StageNames, Goto
<1>1. /\ pc \in [Clients -> StageNames]
      /\ IsFiniteSet(Holding) /\ places = Cardinality(Holding) /\ places \in Nat
      /\ places <= MaxPerIp /\ MaxPerIp \in Nat
  BY DistributionAssumption, FS_CardinalityType DEF ViewersInv, PlacesInv
<1>2. Viewers \subseteq Clients /\ \A s \in Streams : s \in Clients /\ s \notin Viewers
  BY DistributionAssumption DEF Clients
<1>3. SUFFICES /\ pc' \in [Clients -> StageNames]
               /\ \/ Holding' = Holding /\ places' = places
                  \/ \E v \in Viewers : /\ v \notin Holding /\ Holding' = Holding \cup {v}
                                        /\ places' = places + 1 /\ places < MaxPerIp
                  \/ \E v \in Holding : /\ Holding' = Holding \ {v}
                                        /\ places' = (IF places > 0 THEN places - 1 ELSE 0)
  <2>1. CASE Holding' = Holding /\ places' = places
    BY <1>1, <1>3, <2>1 DEF PlacesInv
  <2>2. CASE \E v \in Viewers : /\ v \notin Holding /\ Holding' = Holding \cup {v}
                                /\ places' = places + 1 /\ places < MaxPerIp
    <3>1. IsFiniteSet(Holding)' /\ Cardinality(Holding)' = Cardinality(Holding) + 1
      BY <1>1, <2>2, FS_AddElement
    <3>2. QED
      BY <1>1, <1>3, <2>2, <3>1 DEF PlacesInv
  <2>3. CASE \E v \in Holding : /\ Holding' = Holding \ {v}
                                /\ places' = (IF places > 0 THEN places - 1 ELSE 0)
    <3>1. IsFiniteSet(Holding)' /\ Cardinality(Holding)' = Cardinality(Holding) - 1
      BY <1>1, <2>3, FS_RemoveElement
    <3>2. Cardinality(Holding)' \in Nat
      BY <3>1, FS_CardinalityType
    <3>3. QED
      BY <1>1, <1>3, <2>3, <3>1, <3>2 DEF PlacesInv
  <2>4. QED
    BY <1>3, <2>1, <2>2, <2>3
<1>4. ASSUME NEW v \in Viewers, Acquire(v)
      PROVE  /\ pc' \in [Clients -> StageNames]
             /\ \/ Holding' = Holding /\ places' = places
                \/ v \notin Holding /\ Holding' = Holding \cup {v}
                   /\ places' = places + 1 /\ places < MaxPerIp
  BY <1>1, <1>2, <1>4 DEF Acquire, Holding
<1>5. ASSUME NEW v \in Viewers, AcceptFails(v) \/ Subscribe(v) \/ Greet(v)
      PROVE  pc' \in [Clients -> StageNames] /\ Holding' = Holding /\ places' = places
  BY <1>1, <1>2, <1>5 DEF AcceptFails, Subscribe, Greet, viewerVars, Holding
<1>6. ASSUME NEW v \in Viewers, Leave(v)
      PROVE  /\ pc' \in [Clients -> StageNames]
             /\ v \in Holding /\ Holding' = Holding \ {v}
             /\ places' = (IF places > 0 THEN places - 1 ELSE 0)
  BY <1>1, <1>2, <1>6 DEF Leave, Release, Holding
<1>7. ASSUME NEW s \in Streams, StreamStep(s)
      PROVE  pc' \in [Clients -> StageNames] /\ Holding' = Holding /\ places' = places
  BY <1>1, <1>2, <1>7 DEF StreamStep, SubscribeSse, StartStream, PullStream, EndStream,
                          viewerVars, Holding
<1>8. CASE \E x \in Clients : Depart(x)
  BY <1>1, <1>8 DEF Depart, viewerVars, Holding
<1>9. CASE \E c \in Callers : Begin(c) \/ Settle(c)
  BY <1>1, <1>9 DEF Begin, Settle, Holding
<1>10. CASE \E c \in Callers, v \in Viewers : SendReturns(c, v)
  BY <1>1, <1>10 DEF SendReturns, viewerVars, Holding
<1>11. CASE UNCHANGED vars
  BY <1>1, <1>11 DEF vars, viewerVars, Holding
<1>12. QED
  BY <1>4, <1>5, <1>6, <1>7, <1>8, <1>9, <1>10, <1>11 DEF Next, ViewerStep

\* Whoever is subscribed was so before or has just been; whoever has left is
\* not, whichever broadcast is under way.
LEMMA SocketsKept ==
    ASSUME ViewersInv, [Next]_vars
    PROVE  SocketsInv'
<1> USE DEF StageNames, Goto
<1>1. /\ pc \in [Clients -> StageNames] /\ sockets \in Seq(Viewers) /\ Distinct(sockets)
      /\ NoGhostViewers
      /\ IsFiniteSet(ToSet(sockets)) /\ ToSet(sockets) \subseteq Viewers
  BY ToSetFinite DEF ViewersInv, PlacesInv, SocketsInv
<1>2. Viewers \subseteq Clients /\ \A s \in Streams : s \in Clients /\ s \notin Viewers
  BY DistributionAssumption DEF Clients
<1>3. ASSUME UNCHANGED sockets, \A v \in ToSet(sockets) : pc'[v] \in {"connecting", "open"}
      PROVE  SocketsInv'
  BY <1>1, <1>3 DEF SocketsInv, NoGhostViewers, Distinct
<1>4. ASSUME NEW v \in Viewers, Acquire(v) \/ AcceptFails(v) \/ Greet(v)
      PROVE  SocketsInv'
  BY <1>1, <1>2, <1>3, <1>4 DEF Acquire, AcceptFails, Greet, viewerVars, NoGhostViewers
<1>5. ASSUME NEW v \in Viewers, Subscribe(v)
      PROVE  SocketsInv'
  <2> DEFINE S == ToSet(sockets) \cup {v}
  <2>1. IsFiniteSet(S) /\ S \subseteq Viewers
    BY <1>1, FS_AddElement
  <2>2. sockets' \in Seq(S) /\ ToSet(sockets') = S /\ Distinct(sockets)'
    BY <1>5, <2>1, SetToSeqsElements DEF Subscribe, Distinct
  <2>3. sockets' \in Seq(Viewers)
    BY <2>1, <2>2, SeqMonotonic
  <2>4. \A w \in S : pc'[w] \in {"connecting", "open"}
    BY <1>1, <1>2, <1>5 DEF Subscribe, NoGhostViewers
  <2>5. QED
    BY <2>2, <2>3, <2>4 DEF SocketsInv, NoGhostViewers
<1>6. ASSUME NEW v \in Viewers, Leave(v)
      PROVE  SocketsInv'
  <2>1. /\ sockets' \in Seq(Viewers) /\ Distinct(sockets)'
        /\ ToSet(sockets') = ToSet(sockets) \ {v}
    BY <1>1, <1>6, DiscardElements DEF Leave
  <2>2. \A w \in ToSet(sockets) \ {v} : pc'[w] \in {"connecting", "open"}
    BY <1>1, <1>2, <1>6 DEF Leave, NoGhostViewers
  <2>3. QED
    BY <2>1, <2>2 DEF SocketsInv, NoGhostViewers
<1>7. ASSUME NEW s \in Streams, StreamStep(s)
      PROVE  SocketsInv'
  BY <1>1, <1>2, <1>3, <1>7 DEF StreamStep, SubscribeSse, StartStream, PullStream, EndStream,
                                viewerVars, NoGhostViewers
<1>8. ASSUME NEW x \in Clients, Depart(x)
      PROVE  SocketsInv'
  BY <1>1, <1>3, <1>8 DEF Depart, viewerVars, NoGhostViewers
<1>9. ASSUME NEW c \in Callers, Begin(c)
      PROVE  SocketsInv'
  BY <1>1, <1>3, <1>9 DEF Begin, NoGhostViewers
<1>10. ASSUME NEW c \in Callers, Settle(c)
      PROVE  SocketsInv'
  <2> DEFINE S == ToSet(sockets) \ Blamed(c)
  <2>1. CASE UNCHANGED sockets
    BY <1>1, <1>3, <1>10, <2>1 DEF Settle, NoGhostViewers
  <2>2. CASE sockets' \in SetToSeqs(S)
    <3>1. IsFiniteSet(S) /\ S \subseteq ToSet(sockets)
      BY <1>1, FS_Subset
    <3> HIDE DEF S
    <3>2. sockets' \in Seq(S) /\ ToSet(sockets') = S /\ Distinct(sockets)'
      BY <2>2, <3>1, SetToSeqsElements DEF Distinct
    <3>3. sockets' \in Seq(Viewers)
      BY <1>1, <3>1, <3>2, SeqMonotonic
    <3>4. UNCHANGED pc
      BY <1>10 DEF Settle
    <3>5. QED
      BY <1>1, <3>1, <3>2, <3>3, <3>4 DEF SocketsInv, NoGhostViewers
  <2>3. QED
    BY <1>10, <2>1, <2>2 DEF Settle
<1>11. ASSUME NEW c \in Callers, NEW v \in Viewers, SendReturns(c, v)
      PROVE  SocketsInv'
  BY <1>1, <1>3, <1>11 DEF SendReturns, viewerVars, NoGhostViewers
<1>12. CASE UNCHANGED vars
  BY <1>1, <1>3, <1>12 DEF vars, viewerVars, NoGhostViewers
<1>13. QED
  BY <1>4, <1>5, <1>6, <1>7, <1>8, <1>9, <1>10, <1>11, <1>12 DEF Next, ViewerStep

THEOREM ViewersInvariant == Spec => []ViewersInv
<1>1. Init => ViewersInv
  BY InitViewers
<1>2. ViewersInv /\ [Next]_vars => ViewersInv'
  BY PlacesKept, SocketsKept DEF ViewersInv
<1>3. QED
  BY <1>1, <1>2, PTL DEF Spec

\* Nobody is subscribed whose handler has ended.
THEOREM NobodyComesBack == Spec => []NoGhostViewers
<1>1. ViewersInv => NoGhostViewers
  BY DEF ViewersInv, SocketsInv
<1>2. QED
  BY <1>1, ViewersInvariant, PTL

\* The limiter counts the running handlers of an address and those that a
\* raising accept() ended, and they are never more than it allows.
THEOREM LimiterIsExact == Spec => []PlacesAreExact
<1>1. ViewersInv => PlacesAreExact
  BY DEF ViewersInv, PlacesInv, Holding, PlacesAreExact
<1>2. QED
  BY <1>1, ViewersInvariant, PTL

-----------------------------------------------------------------------------
(* The broadcasts and the streams                                          *)

CastRecords ==
    [n : Nat, to : Seq(Viewers), back : SUBSET Viewers, failed : SUBSET Viewers]

\* The number of the last message of a caller that the queues may hold.
Put(c) == IF cast[c] = Idle THEN casts[c] ELSE casts[c] - 1

CastInv ==
    /\ casts \in [Callers -> Nat]
    /\ cast \in [Callers -> CastRecords]
    /\ \A c \in Callers : cast[c] # Idle => cast[c].n = casts[c] /\ casts[c] > 0

OrderInv ==
    /\ queue \in [Streams -> Seq(Callers \X Nat)]
    /\ read \in [Streams -> [Callers -> Nat]]
    /\ \A s \in Streams, c \in Callers : read[s][c] <= Put(c)
    /\ \A s \in Streams : \A i \in DOMAIN queue[s] : queue[s][i][2] <= Put(queue[s][i][1])
    /\ SseKeepsOrder

CastsInv == SocketsInv /\ CastInv /\ OrderInv

LEMMA InitCasts ==
    ASSUME Init
    PROVE  CastsInv
<1>1. SocketsInv
  BY InitViewers DEF ViewersInv
<1>2. CastInv
  BY DEF Init, CastInv, CastRecords, Idle
<1>3. OrderInv
  BY DEF Init, OrderInv, Put, SseKeepsOrder
<1>4. QED
  BY <1>1, <1>2, <1>3 DEF CastsInv

\* A send that returns leaves its broadcast the same one, and under way.
LEMMA SendKeepsCast ==
    ASSUME CastsInv, NEW c \in Callers, NEW v \in Viewers, SendReturns(c, v)
    PROVE  /\ cast' \in [Callers -> CastRecords]
           /\ \A d \in Callers : cast'[d].n = cast[d].n /\ cast'[d].to = cast[d].to
           /\ \A d \in Callers : cast'[d] = Idle <=> cast[d] = Idle
<1>1. cast \in [Callers -> CastRecords]
  BY DEF CastsInv, CastInv
<1>2. PICK raised \in {{}, {v} \cap gone} :
         cast' = [cast EXCEPT ![c] = [n |-> cast[c].n, to |-> cast[c].to,
                                      back |-> cast[c].back \cup {v},
                                      failed |-> cast[c].failed \cup raised]]
  BY DEF SendReturns
<1> DEFINE r == [n |-> cast[c].n, to |-> cast[c].to,
                 back |-> cast[c].back \cup {v}, failed |-> cast[c].failed \cup raised]
<1>3. /\ cast' = [cast EXCEPT ![c] = r]
      /\ r \in CastRecords /\ r.n = cast[c].n /\ r.to = cast[c].to
  BY <1>1, <1>2 DEF CastRecords
<1> HIDE DEF r
<1>4. v \in ToSet(cast[c].to)
  BY DEF SendReturns
<1>5. cast[c].to # <<>>
  BY <1>4 DEF ToSet
<1>6. r # Idle /\ cast[c] # Idle
  BY <1>3, <1>5 DEF Idle
<1>7. QED
  BY <1>1, <1>3, <1>6

LEMMA CastKept ==
    ASSUME CastsInv, [Next]_vars
    PROVE  CastInv'
<1>1. /\ casts \in [Callers -> Nat] /\ cast \in [Callers -> CastRecords]
      /\ \A c \in Callers : cast[c] # Idle => cast[c].n = casts[c] /\ casts[c] > 0
      /\ sockets \in Seq(Viewers)
  BY DEF CastsInv, CastInv, SocketsInv
<1>2. CASE UNCHANGED castVars
  BY <1>1, <1>2 DEF castVars, CastInv
<1>3. ASSUME NEW c \in Callers, Begin(c)
      PROVE  CastInv'
  <2>1. casts' = [casts EXCEPT ![c] = @ + 1]
    BY <1>3 DEF Begin
  <2>2. CASE UNCHANGED cast /\ cast[c] = Idle
    BY <1>1, <2>1, <2>2 DEF CastInv
  <2>3. CASE cast' = [cast EXCEPT ![c] =
                         [n |-> casts'[c], to |-> sockets, back |-> {}, failed |-> {}]]
    BY <1>1, <2>1, <2>3 DEF CastInv, CastRecords
  <2>4. QED
    BY <1>3, <2>2, <2>3 DEF Begin
<1>4. ASSUME NEW c \in Callers, Settle(c)
      PROVE  CastInv'
  <2>1. casts' = casts /\ cast' = [cast EXCEPT ![c] = Idle]
    BY <1>4 DEF Settle
  <2>2. Idle \in CastRecords
    BY DEF Idle, CastRecords
  <2>3. QED
    BY <1>1, <2>1, <2>2 DEF CastInv
<1>5. ASSUME NEW c \in Callers, NEW v \in Viewers, SendReturns(c, v)
      PROVE  CastInv'
  <2>1. casts' = casts
    BY <1>5 DEF SendReturns
  <2>2. QED
    BY <1>1, <1>5, <2>1, SendKeepsCast DEF CastInv
<1>6. QED
  BY <1>2, <1>3, <1>4, <1>5
     DEF Next, vars, ViewerStep, StreamStep, Acquire, AcceptFails, Subscribe, Greet, Leave,
         SubscribeSse, StartStream, PullStream, EndStream, Depart

\* The queues take a message that is later than all they were given of its
\* caller.
LEMMA PutKeepsOrder ==
    ASSUME OrderInv, NEW c \in Callers, NEW n \in Nat, Put(c) < n,
           \A d \in Callers : Put(d) \in Nat,
           PutAll(<<c, n>>), read' = read,
           \A d \in Callers : Put(d)' = IF d = c THEN n ELSE Put(d)
    PROVE  OrderInv'
<1> DEFINE msg == <<c, n>>
           Top(d) == IF d = c THEN n ELSE Put(d)
<1>1. /\ queue \in [Streams -> Seq(Callers \X Nat)] /\ read \in [Streams -> [Callers -> Nat]]
      /\ \A s \in Streams, d \in Callers : read[s][d] <= Put(d)
      /\ \A s \in Streams : \A i \in DOMAIN queue[s] : queue[s][i][2] <= Put(queue[s][i][1])
      /\ SseKeepsOrder
  BY DEF OrderInv
<1>2. msg \in Callers \X Nat /\ msg[1] = c /\ msg[2] = n
  OBVIOUS
<1> HIDE DEF msg
<1>3. \A s \in Streams : queue'[s] = queue[s] \/ queue'[s] = Append(queue[s], msg)
  BY DEF PutAll, msg
<1>4. \A s \in Streams : Append(queue[s], msg) \in Seq(Callers \X Nat)
  BY <1>1, <1>2, AppendProperties
<1>5. queue' \in [Streams -> Seq(Callers \X Nat)]
  BY <1>1, <1>2, <1>4 DEF PutAll, msg
<1>6. \A d \in Callers : Top(d) \in Nat /\ Put(d) <= Top(d) /\ Put(d)' = Top(d)
  OBVIOUS
<1>7. \A s \in Streams, d \in Callers : read'[s][d] <= Top(d)
  BY <1>1, <1>6
<1>8. ASSUME NEW s \in Streams, NEW i \in DOMAIN queue'[s]
      PROVE  /\ queue'[s][i][1] \in Callers
             /\ queue'[s][i][2] <= Top(queue'[s][i][1])
             /\ read'[s][queue'[s][i][1]] < queue'[s][i][2]
             /\ \A j \in 1..i - 1 :
                    queue'[s][j][1] = queue'[s][i][1] => queue'[s][j][2] < queue'[s][i][2]
  <2> DEFINE q == queue[s]
             t == queue'[s]
  <2>1. /\ q \in Seq(Callers \X Nat) /\ DOMAIN q = 1..Len(q) /\ Len(q) \in Nat
        /\ \A j \in 1..Len(q) : q[j] \in Callers \X Nat /\ q[j][2] <= Put(q[j][1])
        /\ \A j \in 1..Len(q) : /\ read[s][q[j][1]] < q[j][2]
                               /\ \A k \in 1..j - 1 : q[k][1] = q[j][1] => q[k][2] < q[j][2]
    BY <1>1, LenProperties DEF SseKeepsOrder
  <2>2. CASE t = q
    <3>1. /\ i \in 1..Len(q)
          /\ queue'[s][i] = q[i] /\ \A j \in 1..i - 1 : queue'[s][j] = q[j]
      BY <2>1, <2>2
    <3>2. q[i] \in Callers \X Nat /\ q[i][2] <= Put(q[i][1])
      BY <2>1, <3>1
    <3>3. q[i][2] <= Top(q[i][1])
      BY <1>6, <3>2
    <3> HIDE DEF q, Top
    <3>4. QED
      BY <2>1, <3>1, <3>2, <3>3
  <2>3. CASE t = Append(q, msg)
    <3>1. /\ DOMAIN t = 1..Len(q) + 1 /\ t[Len(q) + 1] = msg
          /\ \A j \in 1..Len(q) : t[j] = q[j]
      BY <1>2, <2>1, <2>3, AppendProperties, LenProperties
    <3> HIDE DEF q, t
    <3>2. CASE i = Len(q) + 1
      <4>1. t[i] = msg
        BY <3>1, <3>2
      <4>2. read[s][c] < n
        BY <1>1
      <4>3. \A j \in 1..i - 1 : t[j] = q[j] /\ q[j] \in Callers \X Nat /\ q[j][2] <= Put(q[j][1])
        BY <2>1, <3>1, <3>2
      <4>4. \A j \in 1..i - 1 : q[j][1] = c => q[j][2] < n
        BY <2>1, <4>3
      <4>5. QED
        BY <1>2, <4>1, <4>2, <4>3, <4>4 DEF t
    <3>3. CASE i \in 1..Len(q)
      <4>1. t[i] = q[i] /\ \A j \in 1..i - 1 : t[j] = q[j]
        BY <2>1, <3>1, <3>3
      <4>2. q[i] \in Callers \X Nat /\ q[i][2] <= Top(q[i][1])
        BY <1>6, <2>1, <3>3
      <4>3. QED
        BY <2>1, <3>3, <4>1, <4>2 DEF t
    <3>4. QED
      BY <2>1, <3>1, <3>2, <3>3 DEF t
  <2>4. QED
    BY <1>3, <2>2, <2>3
<1>9. QED
  <2>1. \A s \in Streams : \A i \in DOMAIN queue'[s] :
            \A d \in Callers : d = queue'[s][i][1] => queue'[s][i][2] <= Put(d)'
    BY <1>6, <1>8
  <2>2. \A s \in Streams, d \in Callers : read'[s][d] <= Put(d)'
    BY <1>6, <1>7
  <2>3. SseKeepsOrder'
    BY <1>8 DEF SseKeepsOrder
  <2> HIDE DEF Top
  <2>4. (\A s \in Streams : \A i \in DOMAIN queue[s] : queue[s][i][2] <= Put(queue[s][i][1]))'
    BY <1>8, <2>1
  <2>5. QED
    BY <1>5, <2>2, <2>3, <2>4 DEF OrderInv

\* A client is sent the oldest message of its queue.
LEMMA PullKeepsOrder ==
    ASSUME OrderInv, NEW s \in Streams, PullStream(s),
           \A c \in Callers : Put(c) \in Nat /\ Put(c)' = Put(c)
    PROVE  OrderInv'
<1> DEFINE q == queue[s]
           msg == Head(q)
<1>1. /\ queue \in [Streams -> Seq(Callers \X Nat)] /\ read \in [Streams -> [Callers -> Nat]]
      /\ \A t \in Streams, d \in Callers : read[t][d] <= Put(d)
      /\ \A t \in Streams : \A i \in DOMAIN queue[t] : queue[t][i][2] <= Put(queue[t][i][1])
      /\ SseKeepsOrder
  BY DEF OrderInv
<1>2. /\ read' = [read EXCEPT ![s][msg[1]] = msg[2]]
      /\ queue' = [queue EXCEPT ![s] = Tail(q)]
      /\ q # <<>>
  BY DEF PullStream
<1>3. /\ q \in Seq(Callers \X Nat) /\ DOMAIN q = 1..Len(q) /\ Len(q) \in Nat \ {0}
      /\ \A j \in 1..Len(q) : q[j] \in Callers \X Nat /\ q[j][2] <= Put(q[j][1])
      /\ \A j \in 1..Len(q) : /\ read[s][q[j][1]] < q[j][2]
                             /\ \A k \in 1..j - 1 : q[k][1] = q[j][1] => q[k][2] < q[j][2]
  BY <1>1, <1>2, LenProperties, EmptySeq DEF SseKeepsOrder
<1>4. /\ msg = q[1] /\ msg \in Callers \X Nat
      /\ Tail(q) \in Seq(Callers \X Nat) /\ DOMAIN Tail(q) = 1..Len(q) - 1
      /\ \A j \in 1..Len(q) - 1 : Tail(q)[j] = q[j + 1]
  BY <1>2, <1>3, HeadTailProperties, LenProperties
<1> HIDE DEF msg
<1>5. /\ queue' \in [Streams -> Seq(Callers \X Nat)] /\ read' \in [Streams -> [Callers -> Nat]]
      /\ queue'[s] = Tail(q)
      /\ \A c \in Callers : read'[s][c] = IF c = msg[1] THEN msg[2] ELSE read[s][c]
      /\ \A t \in Streams : t # s => queue'[t] = queue[t] /\ read'[t] = read[t]
  BY <1>1, <1>2, <1>4
<1> HIDE DEF q
<1>6. ASSUME NEW t \in Streams, NEW c \in Callers
      PROVE  read'[t][c] <= Put(c)
  <2>1. msg[2] <= Put(msg[1])
    BY <1>3, <1>4
  <2>2. CASE t = s
    BY <1>1, <1>5, <2>1, <2>2
  <2>3. CASE t # s
    BY <1>1, <1>5, <2>3
  <2>4. QED
    BY <2>2, <2>3
<1>7. ASSUME NEW t \in Streams, NEW i \in DOMAIN queue'[t]
      PROVE  /\ queue'[t][i][1] \in Callers
             /\ queue'[t][i][2] <= Put(queue'[t][i][1])
             /\ read'[t][queue'[t][i][1]] < queue'[t][i][2]
             /\ \A j \in 1..i - 1 :
                    queue'[t][j][1] = queue'[t][i][1] => queue'[t][j][2] < queue'[t][i][2]
  <2>1. CASE t # s
    <3>1. queue'[t] = queue[t] /\ read'[t] = read[t]
      BY <1>5, <2>1
    <3>2. queue[t][i] \in Callers \X Nat
      BY <1>1, <3>1, LenProperties
    <3>3. QED
      BY <1>1, <3>1, <3>2 DEF SseKeepsOrder
  <2>2. CASE t = s
    <3>1. i \in 1..Len(q) - 1 /\ queue'[t] = Tail(q) /\ read'[t] = read'[s]
      BY <1>4, <1>5, <2>2
    <3>2. i + 1 \in 1..Len(q) /\ queue'[t][i] = q[i + 1]
      BY <1>3, <1>4, <3>1
    <3>3. q[i + 1] \in Callers \X Nat /\ q[i + 1][2] <= Put(q[i + 1][1])
      BY <1>3, <3>2
    <3>4. read'[s][q[i + 1][1]] < q[i + 1][2]
      <4>1. 1 \in 1..(i + 1) - 1
        BY <3>1, <1>3
      <4>2. CASE q[i + 1][1] = msg[1]
        <5>1. q[1][2] < q[i + 1][2]
          BY <1>3, <1>4, <3>2, <4>1, <4>2
        <5>2. QED
          BY <1>4, <1>5, <3>3, <4>2, <5>1
      <4>3. CASE q[i + 1][1] # msg[1]
        <5>1. read[s][q[i + 1][1]] < q[i + 1][2]
          BY <1>3, <3>2
        <5>2. QED
          BY <1>5, <3>3, <4>3, <5>1
      <4>4. QED
        BY <4>2, <4>3
    <3>5. ASSUME NEW j \in 1..i - 1, queue'[t][j][1] = queue'[t][i][1]
          PROVE  queue'[t][j][2] < queue'[t][i][2]
      <4>1. j \in 1..Len(q) - 1 /\ j + 1 \in 1..(i + 1) - 1
        <5>1. Len(q) \in Nat
          BY <1>3
        <5>2. QED
          BY <3>1, <5>1
      <4>2. queue'[t][j] = q[j + 1]
        BY <1>4, <3>1, <4>1
      <4>3. QED
        BY <1>3, <3>2, <3>5, <4>1, <4>2
    <3>6. QED
      BY <3>1, <3>2, <3>3, <3>4, <3>5
  <2>3. QED
    BY <2>1, <2>2
<1>8. (\A t \in Streams : \A i \in DOMAIN queue[t] : queue[t][i][2] <= Put(queue[t][i][1]))'
  <2>1. \A t \in Streams : \A i \in DOMAIN queue'[t] :
            \A d \in Callers : d = queue'[t][i][1] => queue'[t][i][2] <= Put(d)'
    BY <1>7
  <2>2. QED
    BY <1>7, <2>1
<1>9. \A t \in Streams, c \in Callers : read'[t][c] <= Put(c)'
  BY <1>6
<1>10. SseKeepsOrder'
  BY <1>7 DEF SseKeepsOrder
<1>11. QED
  BY <1>5, <1>8, <1>9, <1>10 DEF OrderInv

LEMMA OrderKept ==
    ASSUME CastsInv, [Next]_vars
    PROVE  OrderInv'
<1>1. /\ casts \in [Callers -> Nat] /\ cast \in [Callers -> CastRecords]
      /\ \A c \in Callers : cast[c] # Idle => cast[c].n = casts[c] /\ casts[c] > 0
      /\ OrderInv
  BY DEF CastsInv, CastInv
<1>2. \A c \in Callers : Put(c) \in Nat
  BY <1>1 DEF Put
<1>3. ASSUME UNCHANGED <<queue, read>>, \A c \in Callers : Put(c)' = Put(c)
      PROVE  OrderInv'
  <2>1. \A s \in Streams : \A i \in DOMAIN queue[s] : queue[s][i][1] \in Callers
    BY <1>1, LenProperties DEF OrderInv
  <2>2. QED
    BY <1>1, <1>3, <2>1 DEF OrderInv, SseKeepsOrder
<1>4. CASE UNCHANGED <<queue, read, castVars>>
  BY <1>3, <1>4 DEF castVars, Put
<1>5. ASSUME NEW s \in Streams, PullStream(s)
      PROVE  OrderInv'
  BY <1>1, <1>2, <1>5, PullKeepsOrder DEF PullStream, castVars, Put
<1>6. ASSUME NEW c \in Callers, Begin(c)
      PROVE  OrderInv'
  <2>1. casts' = [casts EXCEPT ![c] = @ + 1] /\ cast[c] = Idle /\ read' = read
    BY <1>6 DEF Begin
  <2>2. CASE PutAll(<<c, casts'[c]>>) /\ UNCHANGED cast
    <3>1. casts'[c] = casts[c] + 1 /\ Put(c) = casts[c] /\ casts'[c] \in Nat
      BY <1>1, <2>1 DEF Put
    <3>2. \A d \in Callers : Put(d)' = IF d = c THEN casts'[c] ELSE Put(d)
      BY <1>1, <2>1, <2>2 DEF Put
    <3>3. Put(c) < casts'[c]
      BY <1>1, <3>1
    <3>4. QED
      BY <1>1, <1>2, <2>1, <2>2, <3>1, <3>2, <3>3, PutKeepsOrder
  <2>3. CASE /\ cast' = [cast EXCEPT ![c] =
                            [n |-> casts'[c], to |-> sockets, back |-> {}, failed |-> {}]]
             /\ sockets # <<>> /\ queue' = queue
    <3>1. cast'[c] # Idle
      BY <1>1, <2>3 DEF Idle
    <3>2. \A d \in Callers : Put(d)' = Put(d)
      BY <1>1, <2>1, <2>3, <3>1 DEF Put
    <3>3. QED
      BY <1>3, <2>1, <2>3, <3>2
  <2>4. QED
    BY <1>6, <2>2, <2>3 DEF Begin
<1>7. ASSUME NEW c \in Callers, Settle(c)
      PROVE  OrderInv'
  <2>1. /\ PutAll(<<c, cast[c].n>>) /\ cast' = [cast EXCEPT ![c] = Idle]
        /\ casts' = casts /\ read' = read /\ cast[c] # Idle
    BY <1>7 DEF Settle, AllReturned
  <2>2. cast[c].n \in Nat /\ Put(c) < cast[c].n
    BY <1>1, <2>1 DEF Put
  <2>3. \A d \in Callers : Put(d)' = IF d = c THEN cast[c].n ELSE Put(d)
    BY <1>1, <2>1 DEF Put
  <2>4. QED
    BY <1>1, <1>2, <2>1, <2>2, <2>3, PutKeepsOrder
<1>8. ASSUME NEW c \in Callers, NEW v \in Viewers, SendReturns(c, v)
      PROVE  OrderInv'
  <2>1. UNCHANGED <<queue, read, casts>>
    BY <1>8 DEF SendReturns, streamVars
  <2>2. \A d \in Callers : Put(d)' = Put(d)
    BY <1>8, <2>1, SendKeepsCast DEF Put
  <2>3. QED
    BY <1>3, <2>1, <2>2
<1>9. QED
  BY <1>4, <1>5, <1>6, <1>7, <1>8
     DEF Next, vars, streamVars, ViewerStep, StreamStep, Acquire, AcceptFails, Subscribe, Greet, Leave,
         SubscribeSse, StartStream, EndStream, Depart

THEOREM CastsInvariant == Spec => [](ViewersInv /\ CastsInv)
<1>1. Init => ViewersInv /\ CastsInv
  BY InitViewers, InitCasts
<1>2. ViewersInv /\ CastsInv /\ [Next]_vars => (ViewersInv /\ CastsInv)'
  BY PlacesKept, SocketsKept, CastKept, OrderKept DEF ViewersInv, CastsInv
<1>3. QED
  BY <1>1, <1>2, PTL DEF Spec

\* What one task broadcasts reaches an SSE client in order, at most once.
THEOREM StreamsAreOrdered == Spec => []SseKeepsOrder
<1>1. CastsInv => SseKeepsOrder
  BY DEF CastsInv, OrderInv
<1>2. QED
  BY <1>1, CastsInvariant, PTL

\* The results of a broadcast are those of the sockets it drops, when nobody
\* came or went meanwhile.
LEMMA SettleDropsTheFailed ==
    ASSUME CastsInv, NEW c \in Callers, Settle(c), sockets = cast[c].to
    PROVE  ToSet(sockets') = ToSet(sockets) \ cast[c].failed
<1>1. sockets \in Seq(Viewers) /\ IsFiniteSet(ToSet(sockets))
  BY ToSetFinite DEF CastsInv, SocketsInv
<1>2. Blamed(c) = ToSet(sockets) \cap cast[c].failed
  BY DEF Blamed, ToSet
<1>3. CASE Blamed(c) = {}
  BY <1>2, <1>3 DEF Settle
<1>4. CASE sockets' \in SetToSeqs(ToSet(sockets) \ Blamed(c))
  <2> DEFINE S == ToSet(sockets) \ Blamed(c)
  <2>1. IsFiniteSet(S)
    BY <1>1, FS_Subset
  <2>2. ToSet(sockets') = S
    BY <1>4, <2>1, SetToSeqsElements
  <2>3. QED
    BY <1>2, <2>2
<1>5. QED
  BY <1>3, <1>4 DEF Settle

\* Only the end of a broadcast makes its task idle.
LEMMA OnlySettleEnds ==
    ASSUME CastsInv, [Next]_vars, NEW c \in Callers, cast[c] # Idle, cast'[c] = Idle
    PROVE  Settle(c)
<1>1. cast \in [Callers -> CastRecords]
  BY DEF CastsInv, CastInv
<1>2. ASSUME NEW d \in Callers, Begin(d)
      PROVE  FALSE
  BY <1>1, <1>2 DEF Begin, Idle
<1>3. ASSUME NEW d \in Callers, Settle(d)
      PROVE  d = c
  BY <1>1, <1>3 DEF Settle
<1>4. ASSUME NEW d \in Callers, NEW v \in Viewers, SendReturns(d, v)
      PROVE  FALSE
  BY <1>4, SendKeepsCast
<1>5. UNCHANGED cast => FALSE
  OBVIOUS
<1>6. QED
  BY <1>2, <1>3, <1>4, <1>5
     DEF Next, vars, castVars, ViewerStep, StreamStep, Acquire, AcceptFails, Subscribe, Greet, Leave,
         SubscribeSse, StartStream, PullStream, EndStream, Depart

\* A broadcast drops those it failed to reach and nobody else, unless the
\* subscribers changed while it waited.
THEOREM BroadcastDropsTheFailed == Spec => DropsTheFailed
<1>1. CastsInv /\ [Next]_vars =>
         [\A c \in Callers :
             cast[c] # Idle /\ cast'[c] = Idle /\ sockets = cast[c].to
                 => ToSet(sockets') = ToSet(sockets) \ cast[c].failed]_vars
  BY OnlySettleEnds, SettleDropsTheFailed
<1>2. QED
  BY <1>1, CastsInvariant, PTL DEF Spec, DropsTheFailed

=============================================================================
