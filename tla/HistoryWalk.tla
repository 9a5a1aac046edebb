---------------------------- MODULE HistoryWalk ----------------------------
(***************************************************************************)
(* An archive client: it walks through the history of a venue page by page *)
(* and waits as long as it is told to when a request is refused, while     *)
(* captions are stored and cleaned up, and while others of its address use *)
(* the same limit.  Composes RateLimit and History, which share the clock. *)
(***************************************************************************)
EXTENDS RateLimit, History

CONSTANT MaxOthers     \* requests by others of the address (bound of the model)

VARIABLES
    order,      \* direction of the walk
    stage,      \* "ready", "asked" (admitted, the query not yet run), "told" to
                \* wait, "done"
    cursor,     \* next_cursor of the last page
    got,        \* the segments received so far
    owed,       \* the segments there were when the first page was read
    notBefore,  \* when the last refusal allows to retry
    seen,       \* how many requests had been admitted at that refusal
    inVain,     \* ghost: refusals in a row, with nobody let through meanwhile
    others      \* requests by others so far

walkVars == <<order, stage, cursor, got, owed, notBefore, seen, inVain>>
vars == <<rateVars, tables, walkVars, others>>

Init ==
    /\ RateInit /\ TablesInit
    /\ order \in {"asc", "desc"} /\ stage = "ready" /\ cursor = None
    /\ got = <<>> /\ owed = {} /\ notBefore = 0 /\ seen = 0 /\ inVain = 0
    /\ others = 0

\* A refused client comes again when the time it was given is over.
Ask ==
    /\ stage = "ready" \/ (stage = "told" /\ now >= notBefore)
    /\ \/ /\ Admit
          /\ stage' = "asked"
          /\ notBefore' = 0 /\ seen' = 0 /\ inVain' = 0
       \/ /\ Refuse
          /\ stage' = "told"
          /\ notBefore' = now + RetryAfter
          /\ seen' = Len(log)
          /\ inVain' = IF stage = "told" /\ seen = Len(log) THEN inVain + 1 ELSE 1
    /\ UNCHANGED <<tables, order, cursor, got, owed, others>>

Answer ==
    /\ stage = "asked"
    /\ \E rows \in Fetched(order, cursor) :
       /\ got' = got \o Page(rows)
       /\ cursor' = NextCursor(rows)
       /\ stage' = IF NextCursor(rows) = None THEN "done" ELSE "ready"
    /\ owed' = IF cursor = None THEN segments ELSE owed
    /\ UNCHANGED <<rateVars, tables, order, notBefore, seen, inVain, others>>

Other ==
    /\ others < MaxOthers
    /\ others' = others + 1
    /\ Admit \/ Refuse
    /\ UNCHANGED <<tables, walkVars>>

Next ==
    \/ Ask \/ Answer \/ Other
    \/ Tick /\ UNCHANGED <<tables, walkVars, others>>
    \/ TablesNext(now) /\ UNCHANGED <<rateVars, walkVars, others>>

Spec == Init /\ [][Next]_vars

-----------------------------------------------------------------------------
\* Following next_cursor until it is absent gives every segment there was
\* when the walk began, unless it has been deleted since, each one once and
\* in order, whatever is stored or deleted between two pages.
WalkIsComplete ==
    /\ Sorted(order, got)
    /\ stage = "done" => owed \cap segments \subseteq ToSet(got)

\* A client that waits as long as Retry-After says, while nobody else of its
\* address is let through, is let through at the second try at the latest.
\* (Not at the first: the seconds are rounded down, and a request exactly one
\* window old still counts.)
RetrySucceeds == inVain <= 2
=============================================================================
