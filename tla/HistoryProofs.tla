--------------------------- MODULE HistoryProofs ---------------------------
(***************************************************************************)
(* What an archive client can rely on, for any limit, window, retention    *)
(* and page size, and any number of sessions and captions: the limiter it  *)
(* shares with others keeps its window, no caption is without its session, *)
(* and waiting as told helps.                                              *)
(***************************************************************************)
EXTENDS HistoryWalk, RateLimitProofs, FiniteSetTheorems, FunctionTheorems, SequenceTheorems

-----------------------------------------------------------------------------
(* The limiter inside the composition                                      *)

LEMMA NextIsRateStep ==
    ASSUME [Next]_vars
    PROVE  [RateNext]_rateVars
BY DEF Next, Ask, Answer, Other, RateNext, vars, rateVars

\* The walk, the tables and the other client leave the limiter's window as it
\* is by itself: never more than Limit requests pass in it.
THEOREM WalkKeepsWindow == Spec => []NeverTooMany
<1>1. Init => RateInit
  BY DEF Init
<1>2. [Next]_vars => [RateNext]_rateVars
  BY NextIsRateStep
<1>3. Spec => RateSpec
  BY <1>1, <1>2, PTL DEF Spec, RateSpec
<1>4. QED
  BY <1>3, WindowKept, PTL

-----------------------------------------------------------------------------
(* No caption without its session                                          *)

Rows == [at : Nat, id : Ids, of : Sessions]

\* A receive task writes only while its session runs, and the session's end
\* comes after all its rows; so the cleanup, which compares both with the same
\* cutoff, never deletes the session of a row that it keeps.
TablesOK ==
    /\ now \in Nat
    /\ sessions \subseteq Sessions
    /\ segments \subseteq Rows
    /\ endedAt \in [Sessions -> Nat \cup {Alive}]
    /\ writing \in [Sessions -> [at : Nat, id : Ids] \cup {None}]
WritesWhileAlive ==
    \A s \in Sessions : writing[s] # None =>
        s \in sessions /\ endedAt[s] = Alive /\ writing[s].at <= now
RowsBeforeEnd ==
    \A r \in segments :
        r.at <= now /\ (endedAt[r.of] # Alive => r.at <= endedAt[r.of])

TablesInv == TablesOK /\ WritesWhileAlive /\ RowsBeforeEnd /\ NoOrphans

LEMMA InitTablesInv ==
    ASSUME Init
    PROVE  TablesInv
BY DEF Init, RateInit, TablesInit, TablesInv, TablesOK, WritesWhileAlive,
       RowsBeforeEnd, NoOrphans, Alive

LEMMA FlushStep ==
    ASSUME TablesInv, UNCHANGED rateVars, NEW s \in Sessions, Flush(s, now)
    PROVE  TablesInv'
<1>1. PICK id \in Ids : writing' = [writing EXCEPT ![s] = [at |-> now, id |-> id]]
  BY DEF Flush
<1>2. /\ UNCHANGED <<now, sessions, endedAt, segments>>
      /\ s \in sessions /\ endedAt[s] = Alive
  BY DEF Flush, rateVars
<1>3. TablesOK'
  BY <1>1, <1>2 DEF TablesInv, TablesOK
<1>4. WritesWhileAlive'
  <2>1. SUFFICES ASSUME NEW t \in Sessions, writing'[t] # None
                 PROVE  t \in sessions /\ endedAt[t] = Alive /\ writing'[t].at <= now
    BY <1>2 DEF WritesWhileAlive
  <2>2. CASE t = s
    BY <1>1, <1>2, <2>2 DEF TablesInv, TablesOK
  <2>3. CASE t # s
    BY <1>1, <2>1, <2>3 DEF TablesInv, TablesOK, WritesWhileAlive
  <2>4. QED
    BY <2>2, <2>3
<1>5. RowsBeforeEnd' /\ NoOrphans'
  BY <1>2 DEF TablesInv, RowsBeforeEnd, NoOrphans
<1>6. QED
  BY <1>3, <1>4, <1>5 DEF TablesInv

LEMMA EndWriteStep ==
    ASSUME TablesInv, UNCHANGED rateVars, NEW s \in Sessions, EndWrite(s)
    PROVE  TablesInv'
<1>1. /\ UNCHANGED <<now, sessions, endedAt>>
      /\ writing[s] # None
      /\ writing' = [writing EXCEPT ![s] = None]
  BY DEF EndWrite, rateVars
<1> DEFINE row == [at |-> writing[s].at, id |-> writing[s].id, of |-> s]
<1>2. segments' \subseteq segments \cup {row}
  BY DEF EndWrite
<1>3. row \in Rows /\ row.of \in sessions /\ row.at <= now /\ endedAt[row.of] = Alive
  BY <1>1 DEF TablesInv, TablesOK, WritesWhileAlive, Rows
<1>4. TablesOK'
  BY <1>1, <1>2, <1>3 DEF TablesInv, TablesOK
<1>5. WritesWhileAlive'
  BY <1>1 DEF TablesInv, TablesOK, WritesWhileAlive
<1>6. RowsBeforeEnd' /\ NoOrphans'
  BY <1>1, <1>2, <1>3 DEF TablesInv, RowsBeforeEnd, NoOrphans
<1>7. QED
  BY <1>4, <1>5, <1>6 DEF TablesInv

LEMMA EndSessionStep ==
    ASSUME TablesInv, UNCHANGED rateVars, NEW s \in Sessions, EndSession(s, now)
    PROVE  TablesInv'
<1>1. /\ UNCHANGED <<now, sessions, segments, writing>>
      /\ writing[s] = None
      /\ endedAt' = [endedAt EXCEPT ![s] = now]
  BY DEF EndSession, rateVars
<1>2. TablesOK'
  BY <1>1 DEF TablesInv, TablesOK
<1>3. WritesWhileAlive'
  BY <1>1 DEF TablesInv, TablesOK, WritesWhileAlive
<1>4. RowsBeforeEnd'
  <2>1. SUFFICES ASSUME NEW r \in segments
                 PROVE  r.at <= now /\ (endedAt'[r.of] # Alive => r.at <= endedAt'[r.of])
    BY <1>1 DEF RowsBeforeEnd
  <2>2. r.of \in Sessions /\ r.at <= now
    BY DEF TablesInv, TablesOK, RowsBeforeEnd, Rows
  <2>3. QED
    BY <1>1, <2>2 DEF TablesInv, TablesOK, RowsBeforeEnd
<1>5. NoOrphans'
  BY <1>1 DEF TablesInv, NoOrphans
<1>6. QED
  BY <1>2, <1>3, <1>4, <1>5 DEF TablesInv

LEMMA CleanupStep ==
    ASSUME TablesInv, UNCHANGED rateVars, Cleanup(now)
    PROVE  TablesInv'
<1> DEFINE cutoff == now - Retention
<1>1. /\ UNCHANGED <<now, endedAt, writing>>
      /\ segments' = {r \in segments : r.at >= cutoff}
      /\ sessions' = {s \in sessions : endedAt[s] = Alive \/ endedAt[s] >= cutoff}
  BY DEF Cleanup, rateVars
<1>2. TablesOK'
  BY <1>1 DEF TablesInv, TablesOK
<1>3. WritesWhileAlive'
  BY <1>1 DEF TablesInv, WritesWhileAlive
<1>4. RowsBeforeEnd'
  BY <1>1 DEF TablesInv, RowsBeforeEnd
<1>5. NoOrphans'
  <2>1. SUFFICES ASSUME NEW r \in segments, r.at >= cutoff
                 PROVE  r.of \in sessions'
    BY <1>1 DEF NoOrphans
  <2>2. r.of \in sessions /\ r.of \in Sessions /\ r.at \in Nat
    BY DEF TablesInv, TablesOK, NoOrphans, Rows
  <2>3. endedAt[r.of] # Alive => r.at <= endedAt[r.of]
    BY DEF TablesInv, RowsBeforeEnd
  <2>4. endedAt[r.of] = Alive \/ endedAt[r.of] >= cutoff
    BY <2>1, <2>2, <2>3, HistoryAssumption DEF TablesInv, TablesOK
  <2>5. QED
    BY <1>1, <2>2, <2>4
<1>6. QED
  BY <1>2, <1>3, <1>4, <1>5 DEF TablesInv

\* Steps of the clients, and time.
LEMMA ClockStep ==
    ASSUME TablesInv, UNCHANGED tables, now' = now \/ now' = now + 1
    PROVE  TablesInv'
<1>1. UNCHANGED <<sessions, endedAt, segments, writing>>
  BY DEF tables
<1>2. now \in Nat /\ now' \in Nat /\ now <= now'
  BY DEF TablesInv, TablesOK
<1>3. TablesOK' /\ NoOrphans'
  BY <1>1, <1>2 DEF TablesInv, TablesOK, NoOrphans
<1>4. WritesWhileAlive'
  <2>1. SUFFICES ASSUME NEW s \in Sessions, writing[s] # None
                 PROVE  s \in sessions /\ endedAt[s] = Alive /\ writing[s].at <= now'
    BY <1>1 DEF WritesWhileAlive
  <2>2. writing[s].at \in Nat /\ writing[s].at <= now
    BY <2>1 DEF TablesInv, TablesOK, WritesWhileAlive
  <2>3. QED
    BY <1>2, <2>1, <2>2 DEF TablesInv, WritesWhileAlive
<1>5. RowsBeforeEnd'
  <2>1. SUFFICES ASSUME NEW r \in segments
                 PROVE  r.at <= now' /\ (endedAt[r.of] # Alive => r.at <= endedAt[r.of])
    BY <1>1 DEF RowsBeforeEnd
  <2>2. r.at \in Nat /\ r.at <= now
    BY DEF TablesInv, TablesOK, RowsBeforeEnd, Rows
  <2>3. QED
    BY <1>2, <2>2 DEF TablesInv, RowsBeforeEnd
<1>6. QED
  BY <1>3, <1>4, <1>5 DEF TablesInv

LEMMA NextTablesInv ==
    ASSUME TablesInv, [Next]_vars
    PROVE  TablesInv'
<1>1. CASE Ask \/ Answer \/ Other
  BY <1>1, ClockStep DEF Ask, Answer, Other, Admit, Refuse, rateVars
<1>2. CASE Tick /\ UNCHANGED <<tables, walkVars, others>>
  BY <1>2, ClockStep DEF Tick
<1>3. CASE TablesNext(now) /\ UNCHANGED <<rateVars, walkVars, others>>
  BY <1>3, FlushStep, EndWriteStep, EndSessionStep, CleanupStep DEF TablesNext
<1>4. CASE UNCHANGED vars
  BY <1>4, ClockStep DEF vars, rateVars
<1>5. QED
  BY <1>1, <1>2, <1>3, <1>4 DEF Next

\* However storing, ending and cleaning up interleave, a stored caption has
\* its session's row, without which the history would not show it
\* (cleanup_old_data, admin.py; get_caption_history, captions.py).
THEOREM RowsKeepTheirSession == Spec => []NoOrphans
<1>1. Init => TablesInv
  BY InitTablesInv
<1>2. TablesInv /\ [Next]_vars => TablesInv'
  BY NextTablesInv
<1>3. TablesInv => NoOrphans
  BY DEF TablesInv
<1>4. QED
  BY <1>1, <1>2, <1>3, PTL DEF Spec

-----------------------------------------------------------------------------
(* Waiting helps                                                           *)

\* The admitted request whose age decides over the next one.
Oldest == log[Len(log) - Limit + 1]

\* As long as nobody is let through, a refused client is told to wait until
\* less than a second before the oldest request leaves the window, and if it
\* is told so a second time, until that request has left it.
WaitInv ==
    /\ inVain \in 0 .. 2
    /\ seen \in 0 .. Len(log)
    /\ notBefore \in Int
    /\ stage = "told" /\ seen = Len(log) =>
          /\ Len(log) >= Limit
          /\ inVain \in 1 .. 2
          /\ notBefore > Oldest + Window - Second
          /\ inVain = 2 => notBefore > Oldest + Window

\* int() takes off less than one second.
LEMMA WholeSeconds ==
    ASSUME NEW left \in Int, NEW unit \in Nat \ {0}
    PROVE  /\ (left \div unit) * unit \in Int
           /\ (left \div unit) * unit > left - unit
BY Z3

\* Whoever is refused is refused because of the oldest request, which is still
\* in the window.
LEMMA RefusedByOldest ==
    ASSUME RateInv, Refuse
    PROVE  /\ Len(log) >= Limit
           /\ Len(log) \in Nat /\ now \in Int /\ Oldest \in Int
           /\ first' = Len(log) - Limit + 1
           /\ log[first'] = Oldest
           /\ Oldest >= now - Window
<1>1. RateInv' /\ log' = log /\ now' = now
  BY RefuseStep DEF Refuse
<1>2. /\ Limit \in Nat \ {0} /\ Window \in Nat /\ MaxTime \in Nat
      /\ Len(log) \in Nat /\ log \in Seq(0 .. MaxTime) /\ now \in 0 .. MaxTime
  BY RateAssumption DEF RateInv, RateTypeOK
<1>3. first' \in 1 .. Len(log) + 1 /\ Len(log) - first' + 1 <= Limit
  BY <1>1 DEF RateInv, RateTypeOK, WithinLimit
<1>4. Len(log) - first' + 1 >= Limit
  BY DEF Refuse
<1>5. first' = Len(log) - Limit + 1 /\ Len(log) >= Limit /\ first' \in 1 .. Len(log)
  BY <1>2, <1>3, <1>4
<1>6. log[first'] = Oldest /\ Oldest \in 0 .. MaxTime
  BY <1>2, <1>5 DEF Oldest
<1>7. log[first'] >= now - Window
  BY <1>2, <1>5 DEF Refuse, Prune
<1>8. QED
  BY <1>2, <1>5, <1>6, <1>7

LEMMA RefusedStep ==
    ASSUME RateInv, WaitInv, Ask, Refuse,
           stage' = "told", notBefore' = now + RetryAfter, seen' = Len(log),
           inVain' = IF stage = "told" /\ seen = Len(log) THEN inVain + 1 ELSE 1
    PROVE  WaitInv'
<1> DEFINE left == Oldest + Window - now
<1>1. /\ Len(log) >= Limit /\ Len(log) \in Nat
      /\ now \in Int /\ Oldest \in Int /\ log[first'] = Oldest
      /\ Oldest >= now - Window
  BY RefusedByOldest
<1>2. Window \in Nat /\ Second \in Nat \ {0} /\ log' = log
  BY RateAssumption DEF Refuse
<1>3. left \in Int /\ left >= 0
  BY <1>1, <1>2
<1>4. /\ RetryAfter \in Int
      /\ RetryAfter > left - Second
      /\ left < Second => RetryAfter = Second
  <2>1. RetryAfter = IF left < Second THEN Second ELSE (left \div Second) * Second
    BY <1>1 DEF RetryAfter
  <2>2. (left \div Second) * Second \in Int /\ (left \div Second) * Second > left - Second
    BY <1>2, <1>3, WholeSeconds
  <2> DEFINE whole == (left \div Second) * Second
  <2>3. whole \in Int /\ whole > left - Second
    BY <2>2
  <2>4. RetryAfter = IF left < Second THEN Second ELSE whole
    BY <2>1
  <2> HIDE DEF whole, left
  <2>5. QED
    BY <1>2, <1>3, <2>3, <2>4
<1>5. Oldest' = Oldest
  BY <1>2 DEF Oldest
<1>6. notBefore' \in Int /\ notBefore' > Oldest + Window - Second
  BY <1>1, <1>2, <1>4
<1>7. CASE ~(stage = "told" /\ seen = Len(log))
  BY <1>1, <1>2, <1>5, <1>6, <1>7 DEF WaitInv
<1>8. CASE stage = "told" /\ seen = Len(log)
  <2>1. /\ notBefore \in Int /\ now >= notBefore
        /\ notBefore > Oldest + Window - Second
        /\ inVain \in 1 .. 2
        /\ inVain = 2 => notBefore > Oldest + Window
    BY <1>8 DEF Ask, WaitInv
  <2>2. inVain = 1
    BY <2>1, <1>1, <1>2
  <2>3. left < Second
    BY <2>1, <1>1, <1>2
  <2>4. notBefore' > Oldest + Window
    BY <2>1, <2>3, <1>1, <1>2, <1>4
  <2>5. inVain' = 2
    BY <1>8, <2>2
  <2>6. QED
    BY <2>4, <2>5, <1>1, <1>2, <1>5, <1>6 DEF WaitInv
<1>9. QED
  BY <1>7, <1>8

\* Steps that let somebody through, or leave the client and the log alone.
LEMMA AdmittedStep ==
    ASSUME RateInv, WaitInv, Admit, UNCHANGED walkVars
    PROVE  WaitInv'
<1>1. log \in Seq(0 .. MaxTime) /\ now \in 0 .. MaxTime /\ log' = Append(log, now)
  BY DEF RateInv, RateTypeOK, Admit
<1>2. Len(log') = Len(log) + 1 /\ Len(log) \in Nat
  BY <1>1
<1>3. UNCHANGED <<stage, seen, notBefore, inVain>> /\ seen \in 0 .. Len(log)
  BY DEF walkVars, WaitInv
<1>4. seen # Len(log') /\ seen \in 0 .. Len(log')
  BY <1>2, <1>3
<1>5. QED
  BY <1>3, <1>4 DEF WaitInv

LEMMA IdleStep ==
    ASSUME WaitInv, log' = log, UNCHANGED walkVars
    PROVE  WaitInv'
BY DEF WaitInv, walkVars, Oldest

LEMMA NextWaitInv ==
    ASSUME RateInv, WaitInv, [Next]_vars
    PROVE  WaitInv'
<1>1. CASE Ask
  <2>1. CASE Admit /\ stage' = "asked" /\ notBefore' = 0 /\ seen' = 0 /\ inVain' = 0
    <3>1. Len(log') \in Nat
      BY <2>1, AdmitStep DEF RateInv, RateTypeOK
    <3>2. QED
      BY <2>1, <3>1 DEF WaitInv
  <2>2. CASE /\ Refuse /\ stage' = "told" /\ notBefore' = now + RetryAfter
             /\ seen' = Len(log)
             /\ inVain' = IF stage = "told" /\ seen = Len(log) THEN inVain + 1 ELSE 1
    BY <1>1, <2>2, RefusedStep
  <2>3. QED
    BY <1>1, <2>1, <2>2 DEF Ask
<1>2. CASE Answer
  <2>1. UNCHANGED <<log, notBefore, seen, inVain>> /\ stage' # "told"
    BY <1>2 DEF Answer, rateVars
  <2>2. QED
    BY <2>1 DEF WaitInv
<1>3. CASE Other
  <2>1. CASE Admit
    BY <1>3, <2>1, AdmittedStep DEF Other
  <2>2. CASE Refuse
    BY <1>3, <2>2, IdleStep DEF Other, Refuse
  <2>3. QED
    BY <1>3, <2>1, <2>2 DEF Other
<1>4. CASE Tick /\ UNCHANGED <<tables, walkVars, others>>
  BY <1>4, IdleStep DEF Tick
<1>5. CASE TablesNext(now) /\ UNCHANGED <<rateVars, walkVars, others>>
  BY <1>5, IdleStep DEF rateVars
<1>6. CASE UNCHANGED vars
  BY <1>6, IdleStep DEF vars, rateVars
<1>7. QED
  BY <1>1, <1>2, <1>3, <1>4, <1>5, <1>6 DEF Next

\* For every limit and window, a client that waits as Retry-After says is let
\* through at its second try at the latest, while nobody else of its address
\* is (RateLimitMiddleware.dispatch, rate_limit.py).
THEOREM WaitingHelps == Spec => []RetrySucceeds
<1>1. Init => RateInv /\ WaitInv
  BY InitRateInv DEF Init, WaitInv, RateInit
<1>2. RateInv /\ WaitInv /\ [Next]_vars => RateInv' /\ WaitInv'
  BY NextIsRateStep, NextRateInv, NextWaitInv
<1>3. WaitInv => RetrySucceeds
  BY DEF WaitInv, RetrySucceeds
<1>4. QED
  BY <1>1, <1>2, <1>3, PTL DEF Spec

-----------------------------------------------------------------------------
(* The walk                                                                *)

Place == [at : Nat, id : Ids]

\* The cursor is a row of a page, or stands at the place of one.
AtOrBefore(o, r, c) == Before(o, r, c) \/ (r.at = c.at /\ r.id = c.id)

LEMMA BeforeIsTransitive ==
    ASSUME NEW o, NEW r, NEW c, NEW t,
           {r.at, c.at, t.at, r.id, c.id, t.id} \subseteq Nat,
           Before(o, c, t)
    PROVE  /\ Before(o, r, c) => Before(o, r, t)
           /\ r.at = c.at /\ r.id = c.id => Before(o, r, t)
BY DEF Before

LEMMA FunctionIsSequence ==
    ASSUME NEW S, NEW n \in Nat, NEW f \in [1..n -> S]
    PROVE  f \in Seq(S) /\ Len(f) = n
<1>1. f \in Seq(S)
  BY SeqDef
<1>2. QED
  BY <1>1, LenProperties

\* The query gives all rows that match, in their order.
LEMMA Listed ==
    ASSUME NEW M \in SUBSET Rows, IsFiniteSet(M), NEW all \in SetToSeqs(M)
    PROVE  /\ all \in Seq(Rows) /\ Len(all) \in Nat
           /\ \A i \in 1..Len(all) : all[i] \in M
           /\ \A r \in M : \E i \in 1..Len(all) : all[i] = r
<1> DEFINE k == Cardinality(M)
<1>1. k \in Nat
  BY FS_CardinalityType
<1>2. all \in [1..k -> M] /\ \A i, j \in 1..k : i # j => all[i] # all[j]
  BY DEF SetToSeqs
<1>3. \A r \in M : \E i \in 1..k : all[i] = r
  <2>1. all \in Injection(1..k, M)
    BY <1>2, Fun_IsInj
  <2>2. Cardinality(1..k) = k
    BY <1>1, FS_Interval
  <2>3. all \in Surjection(1..k, M)
    BY <1>1, <2>1, <2>2, FS_Injection
  <2>4. QED
    BY <2>3 DEF Surjection
<1> HIDE DEF k
<1>4. all \in [1..k -> Rows]
  BY <1>2
<1>5. all \in Seq(Rows) /\ Len(all) = k
  BY <1>1, <1>4, FunctionIsSequence
<1>6. QED
  BY <1>1, <1>2, <1>3, <1>5

\* A page is the beginning of the list; without a next page, all of it, and
\* otherwise next_cursor is the place of its last row.
LEMMA PageBegins ==
    ASSUME NEW all \in Seq(Rows), NEW rows, rows = LimitTo(PageSize + 1, all)
    PROVE  /\ Page(rows) \in Seq(Rows) /\ Len(Page(rows)) \in 0..Len(all)
           /\ \A i \in 1..Len(Page(rows)) : Page(rows)[i] = all[i]
           /\ NextCursor(rows) = None => Len(Page(rows)) = Len(all)
           /\ NextCursor(rows) # None =>
                 /\ Len(Page(rows)) > 0
                 /\ NextCursor(rows) \in Place
                 /\ NextCursor(rows).at = all[Len(Page(rows))].at
                 /\ NextCursor(rows).id = all[Len(Page(rows))].id
<1> DEFINE n == Len(all)
           min(a, b) == IF a < b THEN a ELSE b
           page == Page(rows)
<1>1. PageSize \in Nat \ {0}
  BY HistoryAssumption
<1>2. n \in Nat /\ \A i \in 1..n : all[i] \in Rows
  BY LenProperties, ElementOfSeq
<1>3. /\ rows \in Seq(Rows) /\ Len(rows) = min(n, PageSize + 1)
      /\ \A i \in 1..Len(rows) : rows[i] = all[i]
  <2> DEFINE e == min(n, PageSize + 1)
  <2>1. e \in Nat /\ e <= n
    BY <1>1, <1>2
  <2>2. rows = SubSeq(all, 1, e)
    BY DEF LimitTo
  <2> HIDE DEF e
  <2>3. \A i \in 1..e : all[i] \in Rows
    BY <1>2, <2>1
  <2>4. /\ rows \in Seq(Rows) /\ Len(rows) = e
        /\ \A i \in 1..e : rows[i] = all[i]
    BY <2>1, <2>2, <2>3, SubSeqProperties
  <2>5. QED
    BY <2>4 DEF e
<1>4. Len(rows) \in Nat /\ \A i \in 1..Len(rows) : rows[i] \in Rows
  BY <1>3, LenProperties, ElementOfSeq
<1>5. /\ page \in Seq(Rows) /\ Len(page) = min(Len(rows), PageSize)
      /\ \A i \in 1..Len(page) : page[i] = rows[i]
  <2>1. min(Len(rows), PageSize) \in Nat /\ min(Len(rows), PageSize) <= Len(rows)
    BY <1>1, <1>4
  <2>2. page = SubSeq(rows, 1, min(Len(rows), PageSize))
    BY DEF LimitTo, Page
  <2> HIDE DEF min, page
  <2>3. QED
    BY <1>4, <2>1, <2>2, SubSeqProperties
<1> HIDE DEF page
<1>6. /\ Len(page) \in 0..n
      /\ \A i \in 1..Len(page) : page[i] = all[i]
      /\ ~(Len(rows) > PageSize) => Len(page) = n
      /\ Len(rows) > PageSize => Len(page) = PageSize
  BY <1>1, <1>2, <1>3, <1>5
<1>7. CASE Len(rows) > PageSize
  <2>1. Len(page) > 0 /\ Len(page) \in 1..Len(page) /\ Len(page) \in 1..n
    BY <1>1, <1>2, <1>6, <1>7
  <2>2. Last(page) = all[Len(page)] /\ all[Len(page)] \in Rows
    BY <1>2, <1>6, <2>1 DEF Last
  <2>3. NextCursor(rows) = [at |-> Last(page).at, id |-> Last(page).id]
    BY <1>7 DEF NextCursor, page
  <2>4. /\ NextCursor(rows) \in Place
        /\ NextCursor(rows).at = all[Len(page)].at
        /\ NextCursor(rows).id = all[Len(page)].id
    BY <2>2, <2>3 DEF Rows, Place
  <2>5. NextCursor(rows) # None
    <3>1. NextCursor(rows).at \in Nat
      BY <2>4 DEF Place
    <3>2. None.at = -1
      BY DEF None
    <3>3. QED
      BY <3>1, <3>2
  <2>6. QED
    BY <1>5, <1>6, <2>1, <2>4, <2>5 DEF page
<1>8. CASE ~(Len(rows) > PageSize)
  BY <1>5, <1>6, <1>8 DEF page, NextCursor
<1>9. QED
  BY <1>7, <1>8

WalkTypeOK ==
    /\ order \in {"asc", "desc"}
    /\ stage \in {"ready", "asked", "told", "done"}
    /\ cursor \in Place \cup {None}
    /\ got \in Seq(Rows) /\ owed \subseteq Rows
    /\ IsFiniteSet(segments)

\* No two rows have the same id, stored or not, and the id of a row that is owed
\* is only used again for a later one.
IdsInv ==
    /\ \A s \in Sessions : writing[s] # None =>
          /\ \A r \in segments : r.id # writing[s].id
          /\ \A t \in Sessions : writing[t].id = writing[s].id => t = s
          /\ \A r \in owed : r.id = writing[s].id => r.at < writing[s].at
    /\ \A r \in owed : r \in segments \/ r.at < now

\* What has been received is in order and ends at the cursor; what is owed comes
\* after it, or has been received.
GotInv ==
    /\ Sorted(order, got)
    /\ cursor # None => \A i \in 1..Len(got) : AtOrBefore(order, got[i], cursor)
    /\ cursor = None /\ stage # "done" => got = <<>> /\ owed = {}
    /\ \A r \in owed \cap segments :
          \/ r \in ToSet(got)
          \/ stage # "done" /\ cursor # None /\ Before(order, cursor, r)

WalkInv == WalkTypeOK /\ IdsInv /\ GotInv

\* The steps of the tables that store no row.
LEMMA FewerRows ==
    ASSUME TablesInv, TablesInv', WalkInv, UNCHANGED walkVars,
           segments' \subseteq segments, now' \in {now, now + 1},
           \A r \in segments : r \in segments' \/ r.at < now,
           \A s \in Sessions : writing'[s] \in {writing[s], None}
    PROVE  WalkInv'
<1>1. /\ UNCHANGED <<order, stage, cursor, got, owed>>
      /\ now \in Nat /\ now' \in Nat /\ now <= now'
      /\ \A r \in owed : r.at \in Nat
  BY DEF walkVars, TablesInv, TablesOK, WalkInv, WalkTypeOK, Rows
<1>2. WalkTypeOK'
  BY <1>1, FS_Subset DEF WalkInv, WalkTypeOK
<1>3. \A s \in Sessions : writing'[s] # None => writing'[s] = writing[s]
  OBVIOUS
<1>4. None.id = -1 /\ \A s \in Sessions : writing[s] # None => writing[s].id \in Nat
  BY HistoryAssumption DEF None, TablesInv, TablesOK
<1>5. ASSUME NEW s \in Sessions, writing'[s] # None
      PROVE  /\ \A r \in segments' : r.id # writing'[s].id
             /\ \A t \in Sessions : writing'[t].id = writing'[s].id => t = s
             /\ \A r \in owed' : r.id = writing'[s].id => r.at < writing'[s].at
  <2>1. writing'[s] = writing[s] /\ writing[s] # None
    BY <1>3, <1>5
  <2>2. \A t \in Sessions : writing'[t].id = writing'[s].id => t = s
    <3>1. TAKE t \in Sessions
    <3>2. CASE writing'[t] = None
      BY <1>4, <2>1, <3>2
    <3>3. CASE writing'[t] # None
      BY <1>3, <2>1, <3>3 DEF WalkInv, IdsInv
    <3>4. QED
      BY <3>2, <3>3
  <2>3. QED
    BY <1>1, <2>1, <2>2 DEF WalkInv, IdsInv
<1>6. \A r \in owed' : r \in segments' \/ r.at < now'
  <2>1. TAKE r \in owed'
  <2>2. r \in segments' \/ r.at < now
    BY <1>1 DEF WalkInv, IdsInv
  <2>3. r.at \in Nat
    BY <1>1
  <2>4. QED
    BY <1>1, <2>2, <2>3
<1>7. IdsInv'
  BY <1>5, <1>6 DEF IdsInv
<1>8. GotInv'
  BY <1>1 DEF WalkInv, GotInv, Sorted, AtOrBefore
<1>9. QED
  BY <1>2, <1>7, <1>8 DEF WalkInv

LEMMA FlushWalk ==
    ASSUME TablesInv, WalkInv, NEW s \in Sessions, Flush(s, now), UNCHANGED <<rateVars, walkVars>>
    PROVE  WalkInv'
<1>1. PICK id \in Ids \ Used : writing' = [writing EXCEPT ![s] = [at |-> now, id |-> id]]
  BY DEF Flush
<1>2. /\ UNCHANGED <<order, stage, cursor, got, owed, segments, now>>
      /\ writing[s] = None /\ now \in Nat
  BY DEF Flush, rateVars, walkVars, TablesInv, TablesOK
<1>3. /\ writing'[s].at = now /\ writing'[s].id = id
      /\ \A t \in Sessions : t # s => writing'[t] = writing[t]
  BY <1>1 DEF TablesInv, TablesOK
<1>4. (\A r \in segments : r.id # id) /\ \A t \in Sessions : writing[t].id # id
  BY <1>1 DEF Used
<1>5. \A r \in owed : r.id = id => r.at < now
  BY <1>4 DEF WalkInv, IdsInv
<1>6. ASSUME NEW t \in Sessions, writing'[t] # None
      PROVE  /\ \A r \in segments' : r.id # writing'[t].id
             /\ \A u \in Sessions : writing'[u].id = writing'[t].id => u = t
             /\ \A r \in owed' : r.id = writing'[t].id => r.at < writing'[t].at
  <2>1. CASE t = s
    BY <1>2, <1>3, <1>4, <1>5, <2>1
  <2>2. CASE t # s
    <3>1. writing'[t] = writing[t] /\ writing[t] # None
      BY <1>3, <1>6, <2>2
    <3>2. \A u \in Sessions : writing'[u].id = writing'[t].id => u = t
      BY <1>3, <1>4, <3>1 DEF WalkInv, IdsInv
    <3>3. QED
      BY <1>2, <3>1, <3>2 DEF WalkInv, IdsInv
  <2>3. QED
    BY <2>1, <2>2
<1>7. IdsInv'
  BY <1>2, <1>6 DEF WalkInv, IdsInv
<1>8. WalkTypeOK' /\ GotInv'
  BY <1>2 DEF WalkInv, WalkTypeOK, GotInv, Sorted, AtOrBefore
<1>9. QED
  BY <1>7, <1>8 DEF WalkInv

LEMMA EndWriteWalk ==
    ASSUME TablesInv, TablesInv', WalkInv, NEW s \in Sessions, EndWrite(s),
           UNCHANGED <<rateVars, walkVars>>
    PROVE  WalkInv'
<1>1. /\ UNCHANGED <<order, stage, cursor, got, owed, now>>
      /\ writing[s] # None /\ writing' = [writing EXCEPT ![s] = None]
  BY DEF EndWrite, rateVars, walkVars
<1>2. \A t \in Sessions : writing'[t] = IF t = s THEN None ELSE writing[t]
  BY <1>1 DEF TablesInv, TablesOK
<1>3. CASE UNCHANGED segments
  BY <1>1, <1>2, <1>3, FewerRows
<1> DEFINE row == [at |-> writing[s].at, id |-> writing[s].id, of |-> s]
<1>4. CASE segments' = segments \cup {row}
  <2>1. row \notin owed
    <3>1. writing[s].at \in Nat
      BY <1>1 DEF TablesInv, TablesOK
    <3>2. row \in owed => row.at < writing[s].at
      BY <1>1 DEF WalkInv, IdsInv
    <3>3. QED
      BY <3>1, <3>2
  <2>2. WalkTypeOK'
    BY <1>1, <1>4, FS_AddElement DEF WalkInv, WalkTypeOK
  <2>3. ASSUME NEW t \in Sessions, writing'[t] # None
        PROVE  /\ \A r \in segments' : r.id # writing'[t].id
               /\ \A u \in Sessions : writing'[u].id = writing'[t].id => u = t
               /\ \A r \in owed' : r.id = writing'[t].id => r.at < writing'[t].at
    <3>1. t # s /\ writing'[t] = writing[t] /\ writing[t] # None
      BY <1>2, <2>3
    <3>2. writing[t].id \in Nat /\ None.id = -1
      BY <3>1, HistoryAssumption DEF TablesInv, TablesOK, None
    <3>3. row.id # writing[t].id
      BY <1>1, <3>1 DEF WalkInv, IdsInv
    <3>4. \A r \in segments' : r.id # writing'[t].id
      BY <1>4, <3>1, <3>3 DEF WalkInv, IdsInv
    <3>5. \A u \in Sessions : writing'[u].id = writing'[t].id => u = t
      BY <1>2, <3>1, <3>2 DEF WalkInv, IdsInv
    <3>6. QED
      BY <1>1, <3>1, <3>4, <3>5 DEF WalkInv, IdsInv
  <2>4. IdsInv'
    BY <1>1, <1>4, <2>3 DEF WalkInv, IdsInv
  <2>5. owed \cap segments' = owed \cap segments
    BY <1>4, <2>1
  <2>6. GotInv'
    BY <1>1, <2>5 DEF WalkInv, GotInv, Sorted, AtOrBefore
  <2>7. QED
    BY <2>2, <2>4, <2>6 DEF WalkInv
<1>5. QED
  BY <1>3, <1>4 DEF EndWrite

LEMMA TablesWalk ==
    ASSUME TablesInv, TablesInv', WalkInv, TablesNext(now), UNCHANGED <<rateVars, walkVars>>
    PROVE  WalkInv'
<1>1. ASSUME NEW s \in Sessions, EndSession(s, now)
      PROVE  WalkInv'
  BY <1>1, FewerRows DEF EndSession, rateVars
<1>2. CASE Cleanup(now)
  <2>1. \A r \in segments : r.at < now \/ r.at >= now - Retention
    BY HistoryAssumption DEF TablesInv, TablesOK, Rows
  <2>2. /\ segments' = {r \in segments : r.at >= now - Retention}
        /\ UNCHANGED <<now, writing>>
    BY <1>2 DEF Cleanup, rateVars
  <2>3. QED
    BY <2>1, <2>2, FewerRows
<1>3. QED
  BY <1>1, <1>2, FlushWalk, EndWriteWalk DEF TablesNext

\* A page is added, which begins after the cursor.
LEMMA PageAdded ==
    ASSUME WalkInv, NEW all \in Seq(Rows), Sorted(order, all),
           \A i \in 1..Len(all) : cursor = None \/ Before(order, cursor, all[i]),
           stage # "done",
           NEW page \in Seq(Rows), Len(page) \in 0..Len(all),
           \A i \in 1..Len(page) : page[i] = all[i]
    PROVE  /\ got \o page \in Seq(Rows)
           /\ Sorted(order, got \o page)
           /\ ToSet(got) \subseteq ToSet(got \o page)
           /\ \A i \in 1..Len(page) : all[i] \in ToSet(got \o page)
           /\ \A i \in 1..Len(got \o page) :
                 \/ cursor # None /\ i \in 1..Len(got) /\ (got \o page)[i] = got[i]
                 \/ \E j \in 1..Len(page) : (got \o page)[i] = all[j]
<1> DEFINE l == Len(got)
           k == Len(page)
           more == got \o page
<1>1. /\ got \in Seq(Rows) /\ l \in Nat /\ k \in Nat /\ Len(all) \in Nat /\ k <= Len(all)
      /\ DOMAIN got = 1..l /\ DOMAIN all = 1..Len(all)
      /\ \A i \in 1..l : got[i] \in Rows
      /\ \A i \in 1..Len(all) : all[i] \in Rows
  BY LenProperties, ElementOfSeq DEF WalkInv, WalkTypeOK
<1>2. /\ more \in Seq(Rows) /\ Len(more) = l + k /\ DOMAIN more = 1..l + k
      /\ \A i \in 1..l + k : more[i] = IF i <= l THEN got[i] ELSE page[i - l]
  BY <1>1, ConcatProperties, LenProperties
<1>3. /\ \A i \in 1..l : i \in 1..l + k /\ i <= l
      /\ \A i \in 1..k : l + i \in 1..l + k /\ ~(l + i <= l) /\ l + i - l = i
      /\ \A i \in 1..k : i \in 1..Len(all)
      /\ \A i \in 1..l + k : i \in 1..l \/ (i - l \in 1..k /\ l + (i - l) = i)
  BY <1>1
<1>4. /\ \A i \in 1..l : more[i] = got[i]
      /\ \A i \in 1..k : more[l + i] = all[i]
  BY <1>2, <1>3
<1> HIDE DEF more, l, k
<1>5. \A i \in 1..l + k : i \in 1..l \/ \E j \in 1..k : i = l + j
  BY <1>3
<1>6. cursor = None => l = 0
  BY DEF WalkInv, GotInv, l
<1>7. \A i \in 1..l, j \in 1..k : Before(order, got[i], all[j])
  <2>1. TAKE i \in 1..l, j \in 1..k
  <2>2. cursor # None
    BY <1>6
  <2>3. AtOrBefore(order, got[i], cursor) /\ Before(order, cursor, all[j]) /\ cursor \in Place
    BY <1>3, <2>2 DEF WalkInv, WalkTypeOK, GotInv, l
  <2>4. got[i] \in Rows /\ all[j] \in Rows
    BY <1>1, <1>3 DEF l
  <2>5. {got[i].at, cursor.at, all[j].at, got[i].id, cursor.id, all[j].id} \subseteq Nat
    BY <2>3, <2>4, HistoryAssumption DEF Rows, Place
  <2>6. QED
    BY <2>3, <2>5, BeforeIsTransitive DEF AtOrBefore
<1>8. Sorted(order, more)
  <2>1. ASSUME NEW i \in 1..l + k, NEW j \in 1..l + k, i < j
        PROVE  Before(order, more[i], more[j])
    <3>1. CASE i \in 1..l /\ j \in 1..l
      <4>1. Before(order, got[i], got[j])
        BY <1>1, <2>1, <3>1 DEF WalkInv, GotInv, Sorted
      <4>2. QED
        BY <1>4, <3>1, <4>1
    <3>2. ASSUME i \in 1..l, NEW n \in 1..k, j = l + n
          PROVE  Before(order, more[i], more[j])
      BY <1>4, <1>7, <3>2
    <3>3. ASSUME NEW m \in 1..k, i = l + m, j \in 1..l
          PROVE  FALSE
      BY <1>1, <2>1, <3>3 DEF l, k
    <3>4. ASSUME NEW m \in 1..k, i = l + m, NEW n \in 1..k, j = l + n
          PROVE  Before(order, more[i], more[j])
      <4>1. m < n
        BY <1>1, <2>1, <3>4 DEF l, k
      <4>2. Before(order, all[m], all[n])
        BY <1>1, <1>3, <4>1 DEF Sorted
      <4>3. QED
        BY <1>4, <3>4, <4>2
    <3>5. QED
      BY <1>5, <3>1, <3>2, <3>3, <3>4
  <2>2. QED
    BY <1>2, <2>1 DEF Sorted
<1>9. ToSet(got) \subseteq ToSet(more)
  <2>1. \A i \in 1..l : got[i] \in ToSet(more)
    BY <1>2, <1>3, <1>4 DEF ToSet
  <2>2. QED
    BY <1>1, <2>1 DEF ToSet
<1>10. \A i \in 1..k : all[i] \in ToSet(more)
  <2>1. TAKE i \in 1..k
  <2>2. l + i \in DOMAIN more /\ more[l + i] = all[i]
    BY <1>2, <1>3, <1>4
  <2>3. QED
    BY <2>2 DEF ToSet
<1>11. \A i \in 1..Len(more) :
          \/ cursor # None /\ i \in 1..l /\ more[i] = got[i]
          \/ \E j \in 1..k : more[i] = all[j]
  <2>1. TAKE i \in 1..Len(more)
  <2>2. CASE i \in 1..l
    BY <1>4, <1>6, <2>2
  <2>3. ASSUME NEW j \in 1..k, i = l + j
        PROVE  more[i] = all[j]
    BY <1>4, <2>3
  <2>4. QED
    BY <1>2, <1>5, <2>2, <2>3
<1>12. QED
  BY <1>2, <1>8, <1>9, <1>10, <1>11 DEF more, l, k

LEMMA AnswerWalk ==
    ASSUME TablesInv, WalkInv, Answer
    PROVE  WalkInv'
<1>1. PICK all \in SetToSeqs(Matches(order, cursor)), rows \in Fetched(order, cursor) :
          /\ Sorted(order, all) /\ rows = LimitTo(PageSize + 1, all)
          /\ got' = got \o Page(rows)
          /\ cursor' = NextCursor(rows)
          /\ stage' = IF NextCursor(rows) = None THEN "done" ELSE "ready"
  BY DEF Answer, Fetched
<1>2. /\ stage = "asked" /\ owed' = (IF cursor = None THEN segments ELSE owed)
      /\ UNCHANGED <<now, order, sessions, segments, writing>>
  BY DEF Answer, rateVars, tables
<1>3. Matches(order, cursor) \subseteq segments /\ segments \subseteq Rows
  BY DEF Matches, TablesInv, TablesOK
<1>4. /\ all \in Seq(Rows) /\ Len(all) \in Nat
      /\ \A i \in 1..Len(all) : all[i] \in Matches(order, cursor)
      /\ \A r \in Matches(order, cursor) : \E i \in 1..Len(all) : all[i] = r
  <2>1. IsFiniteSet(Matches(order, cursor))
    BY <1>3, FS_Subset DEF WalkInv, WalkTypeOK
  <2>2. Matches(order, cursor) \in SUBSET Rows
    BY <1>3
  <2>3. QED
    BY <1>1, <2>1, <2>2, Listed
<1> DEFINE page == Page(rows)
           p == Len(page)
<1>5. /\ page \in Seq(Rows) /\ p \in 0..Len(all)
      /\ \A i \in 1..p : page[i] = all[i]
      /\ cursor' = None => p = Len(all)
      /\ cursor' # None =>
            /\ p \in 1..Len(all) /\ cursor' \in Place
            /\ cursor'.at = all[p].at /\ cursor'.id = all[p].id
  <2>1. rows = LimitTo(PageSize + 1, all) /\ cursor' = NextCursor(rows)
    BY <1>1
  <2>2. /\ page \in Seq(Rows) /\ p \in 0..Len(all)
        /\ \A i \in 1..p : page[i] = all[i]
        /\ NextCursor(rows) = None => p = Len(all)
        /\ NextCursor(rows) # None =>
              /\ p > 0 /\ NextCursor(rows) \in Place
              /\ NextCursor(rows).at = all[p].at /\ NextCursor(rows).id = all[p].id
    BY <1>4, <2>1, PageBegins
  <2> HIDE DEF p
  <2>3. QED
    BY <1>4, <2>1, <2>2
<1>6. \A i \in 1..Len(all) : cursor = None \/ Before(order, cursor, all[i])
  BY <1>4 DEF Matches
<1> HIDE DEF page
<1>7. /\ got' \in Seq(Rows)
      /\ Sorted(order, got')
      /\ ToSet(got) \subseteq ToSet(got')
      /\ \A i \in 1..p : all[i] \in ToSet(got')
      /\ \A i \in 1..Len(got') :
            \/ cursor # None /\ i \in 1..Len(got) /\ got'[i] = got[i]
            \/ \E j \in 1..p : got'[i] = all[j]
  <2>1. got' = got \o page /\ stage # "done"
    BY <1>1, <1>2 DEF page
  <2>2. Sorted(order, all)
    BY <1>1
  <2> HIDE DEF p
  <2>3. page \in Seq(Rows) /\ Len(page) \in 0..Len(all) /\ \A i \in 1..Len(page) : page[i] = all[i]
    BY <1>5 DEF p
  <2>4. /\ got \o page \in Seq(Rows)
        /\ Sorted(order, got \o page)
        /\ ToSet(got) \subseteq ToSet(got \o page)
        /\ \A i \in 1..Len(page) : all[i] \in ToSet(got \o page)
        /\ \A i \in 1..Len(got \o page) :
              \/ cursor # None /\ i \in 1..Len(got) /\ (got \o page)[i] = got[i]
              \/ \E j \in 1..Len(page) : (got \o page)[i] = all[j]
    BY <1>4, <1>6, <2>1, <2>2, <2>3, PageAdded
  <2>5. QED
    BY <2>1, <2>4 DEF p
<1>8. owed' \subseteq Rows
  BY <1>2, <1>3 DEF WalkInv, WalkTypeOK
<1>9. WalkTypeOK'
  BY <1>1, <1>2, <1>5, <1>7, <1>8 DEF WalkInv, WalkTypeOK
<1>10. IdsInv'
  <2>1. CASE cursor = None
    <3>1. owed' = segments
      BY <1>2, <2>1
    <3>2. QED
      BY <1>2, <3>1 DEF WalkInv, IdsInv
  <2>2. CASE cursor # None
    <3>1. owed' = owed
      BY <1>2, <2>2
    <3>2. QED
      BY <1>2, <3>1 DEF WalkInv, IdsInv
  <2>3. QED
    BY <2>1, <2>2
<1>11. \A i \in 1..Len(all) : all[i] \in Rows
  BY <1>3, <1>4
<1>12. ASSUME cursor' # None, NEW i \in 1..Len(got')
       PROVE  AtOrBefore(order', got'[i], cursor')
  <2>1. /\ p \in 1..Len(all) /\ cursor'.at = all[p].at /\ cursor'.id = all[p].id /\ order' = order
    BY <1>2, <1>5, <1>12
  <2>2. ASSUME NEW j \in 1..p
        PROVE  Before(order, all[j], cursor') \/ (all[j].at = cursor'.at /\ all[j].id = cursor'.id)
    <3>1. CASE j = p
      BY <2>1, <3>1
    <3>2. CASE j # p
      <4>1. j \in DOMAIN all /\ p \in DOMAIN all /\ j < p
        BY <1>4, <2>1, <3>2, LenProperties
      <4>2. Before(order, all[j], all[p])
        BY <1>1, <4>1 DEF Sorted
      <4>3. QED
        BY <2>1, <4>2 DEF Before
    <3>3. QED
      BY <3>1, <3>2
  <2>3. CASE cursor # None /\ i \in 1..Len(got) /\ got'[i] = got[i]
    <3>1. AtOrBefore(order, got[i], cursor) /\ cursor \in Place /\ got[i] \in Rows /\ all[p] \in Rows
      BY <1>11, <2>1, <2>3, ElementOfSeq DEF WalkInv, WalkTypeOK, GotInv
    <3>2. Before(order, cursor, all[p])
      BY <1>6, <2>1, <2>3
    <3>3. {got[i].at, cursor.at, all[p].at, got[i].id, cursor.id, all[p].id} \subseteq Nat
      BY <3>1, HistoryAssumption DEF Rows, Place
    <3>4. Before(order, got[i], all[p])
      BY <3>1, <3>2, <3>3, BeforeIsTransitive DEF AtOrBefore
    <3>5. Before(order, got[i], cursor')
      BY <2>1, <3>4 DEF Before
    <3>6. QED
      BY <2>1, <2>3, <3>5 DEF AtOrBefore
  <2>4. ASSUME NEW j \in 1..p, got'[i] = all[j]
        PROVE  AtOrBefore(order', got'[i], cursor')
    BY <2>1, <2>2, <2>4 DEF AtOrBefore
  <2>5. QED
    BY <1>7, <2>3, <2>4
<1>13. \A r \in owed' \cap segments' :
          \/ r \in ToSet(got')
          \/ stage' # "done" /\ cursor' # None /\ Before(order', cursor', r)
  <2>1. TAKE r \in owed' \cap segments'
  <2>2. r \in segments /\ r.of \in sessions
    BY <1>2 DEF TablesInv, NoOrphans
  <2>3. r \in ToSet(got) \/ r \in Matches(order, cursor)
    BY <1>2, <2>2 DEF Matches, WalkInv, GotInv
  <2>4. ASSUME NEW i \in 1..Len(all), r = all[i]
        PROVE  \/ r \in ToSet(got')
               \/ stage' # "done" /\ cursor' # None /\ Before(order', cursor', r)
    <3>1. CASE i \in 1..p
      BY <1>7, <2>4, <3>1
    <3>2. CASE i \notin 1..p
      <4>1. p < i /\ p # Len(all) /\ i \in DOMAIN all
        BY <1>4, <1>5, <2>4, <3>2, LenProperties
      <4>2. /\ cursor' # None /\ p \in 1..Len(all) /\ p \in DOMAIN all
            /\ cursor'.at = all[p].at /\ cursor'.id = all[p].id
        BY <1>4, <1>5, <4>1, LenProperties
      <4>3. Before(order, all[p], all[i])
        BY <1>1, <4>1, <4>2 DEF Sorted
      <4>4. stage' = "ready" /\ order' = order
        BY <1>1, <1>2, <4>2
      <4>5. QED
        BY <2>4, <4>2, <4>3, <4>4 DEF Before
    <3>3. QED
      BY <3>1, <3>2
  <2>5. QED
    BY <1>4, <1>7, <2>3, <2>4
<1>14. cursor' = None => stage' = "done"
  BY <1>1
<1>15. GotInv'
  BY <1>2, <1>7, <1>12, <1>13, <1>14 DEF GotInv, Sorted
<1>16. QED
  BY <1>9, <1>10, <1>15 DEF WalkInv

LEMMA NextWalkInv ==
    ASSUME TablesInv, WalkInv, [Next]_vars
    PROVE  WalkInv'
<1>1. TablesInv'
  BY NextTablesInv
<1>2. ASSUME UNCHANGED <<tables, walkVars>>, now' \in {now, now + 1}
      PROVE  WalkInv'
  BY <1>1, <1>2, FewerRows DEF tables
<1>3. CASE Ask
  <2>1. /\ UNCHANGED <<now, segments, writing, order, cursor, got, owed>>
        /\ stage # "done" /\ stage' \in {"asked", "told"}
    BY <1>3 DEF Ask, Admit, Refuse, tables
  <2>2. QED
    BY <2>1 DEF WalkInv, WalkTypeOK, IdsInv, GotInv, Sorted, AtOrBefore
<1>4. CASE Answer
  BY <1>4, AnswerWalk
<1>5. CASE Other
  BY <1>2, <1>5 DEF Other, Admit, Refuse
<1>6. CASE Tick /\ UNCHANGED <<tables, walkVars, others>>
  BY <1>2, <1>6 DEF Tick
<1>7. CASE TablesNext(now) /\ UNCHANGED <<rateVars, walkVars, others>>
  BY <1>1, <1>7, TablesWalk
<1>8. CASE UNCHANGED vars
  BY <1>2, <1>8 DEF vars, rateVars
<1>9. QED
  BY <1>3, <1>4, <1>5, <1>6, <1>7, <1>8 DEF Next

\* For every page size and direction, and whatever is stored, ended or cleaned up
\* between two pages: a client that follows next_cursor receives each caption
\* once and in order, and in the end every one that there was when it began,
\* but for those deleted since (get_caption_history, captions.py).
THEOREM WalkLosesNothing == Spec => []WalkIsComplete
<1>1. Init => TablesInv /\ WalkInv
  <2> SUFFICES ASSUME Init PROVE TablesInv /\ WalkInv
    OBVIOUS
  <2>1. /\ order \in {"asc", "desc"} /\ stage = "ready" /\ cursor = None
        /\ got = <<>> /\ owed = {} /\ segments = {}
        /\ \A s \in Sessions : writing[s] = None
    BY DEF Init, TablesInit
  <2>2. WalkTypeOK /\ IdsInv
    BY <2>1, FS_EmptySet DEF WalkTypeOK, IdsInv
  <2>3. DOMAIN got = {} /\ Len(got) = 0
    BY <2>1
  <2>4. GotInv
    BY <2>1, <2>3 DEF GotInv, Sorted
  <2>5. QED
    BY <2>2, <2>4, InitTablesInv DEF WalkInv
<1>2. TablesInv /\ WalkInv /\ [Next]_vars => TablesInv' /\ WalkInv'
  BY NextTablesInv, NextWalkInv
<1>3. WalkInv => WalkIsComplete
  BY DEF WalkInv, GotInv, WalkIsComplete
<1>4. QED
  BY <1>1, <1>2, <1>3, PTL DEF Spec
=============================================================================
