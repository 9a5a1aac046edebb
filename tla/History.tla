------------------------------ MODULE History ------------------------------
(***************************************************************************)
(* The stored captions of one venue: the segments and sessions tables as   *)
(* the receive tasks (_store), end_session, the retention cleanup          *)
(* (routers/admin.py) and get_caption_history (routers/captions.py) use    *)
(* them.  The listing of sessions (routers/sessions.py) pages in the same  *)
(* way by started_at and id.                                               *)
(*                                                                         *)
(* A row's created_at is taken when it is flushed, but others see it only  *)
(* once it is committed.  Ids are random: any unused one, in any order.    *)
(***************************************************************************)
EXTENDS Integers, FiniteSets, SequencesExt

CONSTANTS
    Sessions,
    Ids,          \* the ids of segments: numbers, for they are ordered
    Retention,    \* retention_hours
    PageSize      \* limit of a query

ASSUME HistoryAssumption ==
    /\ Ids \subseteq Nat
    /\ {Retention, PageSize} \subseteq Nat \ {0}

None == [at |-> -1, id |-> -1]      \* no row
Alive == -1                         \* ended_at IS NULL

VARIABLES
    sessions,   \* sessions table: the sessions that have a row
    endedAt,    \* its column ended_at
    segments,   \* segments table, as far as committed
    writing     \* the row each session's receive task has flushed, not committed

tables == <<sessions, endedAt, segments, writing>>

TablesInit ==
    /\ sessions = Sessions
    /\ endedAt = [s \in Sessions |-> Alive]
    /\ segments = {}
    /\ writing = [s \in Sessions |-> None]

Used == {r.id : r \in segments} \cup {writing[s].id : s \in Sessions}

-----------------------------------------------------------------------------
Flush(s, now) ==
    /\ s \in sessions /\ endedAt[s] = Alive /\ writing[s] = None
    /\ \E id \in Ids \ Used :
          writing' = [writing EXCEPT ![s] = [at |-> now, id |-> id]]
    /\ UNCHANGED <<sessions, endedAt, segments>>

\* The transaction ends: by commit, or by rollback when the receive task is
\* cancelled or the database refuses.
EndWrite(s) ==
    /\ writing[s] # None
    /\ \/ segments' = segments \cup {[at |-> writing[s].at, id |-> writing[s].id, of |-> s]}
       \/ UNCHANGED segments
    /\ writing' = [writing EXCEPT ![s] = None]
    /\ UNCHANGED <<sessions, endedAt>>

\* Mutant: ended_at is written before the receive task has been stopped.
EndSessionEarly(s, now) ==
    /\ s \in sessions /\ endedAt[s] = Alive
    /\ endedAt' = [endedAt EXCEPT ![s] = now]
    /\ UNCHANGED <<sessions, segments, writing>>

\* end_session: the receive task is over, and its transaction with it.
EndSession(s, now) ==
    /\ s \in sessions /\ endedAt[s] = Alive
    /\ writing[s] = None
    /\ endedAt' = [endedAt EXCEPT ![s] = now]
    /\ UNCHANGED <<sessions, segments, writing>>

\* cleanup_old_data: both deletions are one transaction.
Cleanup(now) ==
    LET cutoff == now - Retention IN
    /\ segments' = {r \in segments : r.at >= cutoff}
    /\ sessions' = {s \in sessions : endedAt[s] = Alive \/ endedAt[s] >= cutoff}
    /\ UNCHANGED <<endedAt, writing>>

TablesNext(now) ==
    \/ \E s \in Sessions : Flush(s, now) \/ EndWrite(s) \/ EndSession(s, now)
    \/ Cleanup(now)

-----------------------------------------------------------------------------
(* get_caption_history                                                     *)

\* ORDER BY created_at, id, both ascending or both descending.
Before(order, r, t) ==
    LET less(x, y) == x.at < y.at \/ (x.at = y.at /\ x.id < y.id) IN
    IF order = "asc" THEN less(r, t) ELSE less(t, r)

\* Mutant: the rows after a cursor are those with another created_at.
MatchesByTime(order, cursor) ==
    {r \in segments : /\ r.of \in sessions
                      /\ cursor = None \/ (r.at # cursor.at /\ Before(order, cursor, r))}

\* The rows joined with their sessions that come after the cursor.
Matches(order, cursor) ==
    {r \in segments : /\ r.of \in sessions
                      /\ cursor = None \/ Before(order, cursor, r)}

LimitTo(n, rows) == SubSeq(rows, 1, IF Len(rows) < n THEN Len(rows) ELSE n)

Sorted(order, rows) == \A i, j \in DOMAIN rows : i < j => Before(order, rows[i], rows[j])

\* One row more than the page is fetched, only to see whether there is one.
Fetched(order, cursor) ==
    {LimitTo(PageSize + 1, all) :
        all \in {rows \in SetToSeqs(Matches(order, cursor)) : Sorted(order, rows)}}

Page(rows) == LimitTo(PageSize, rows)

NextCursor(rows) ==
    IF Len(rows) > PageSize
    THEN [at |-> Last(Page(rows)).at, id |-> Last(Page(rows)).id] ELSE None

-----------------------------------------------------------------------------
\* A segment never outlives its session: the cleanup deletes by two different
\* columns, and the query for the history joins both tables, so that captions
\* without a session would silently be missing from it.
NoOrphans == \A r \in segments : r.of \in sessions
=============================================================================
