------------------------------ MODULE Schedule ------------------------------
(***************************************************************************)
(* ScheduleService (services/schedule.py) for one venue, the service it    *)
(* polls, the two places of caption_stream (routers/captions.py) that send *)
(* a viewer the schedule, and onScheduleUpdate of its page.                *)
(*                                                                         *)
(* No two talks of a venue start at the same time.  Messages arrive in     *)
(* order: on their way they are the matter of Viewer.                      *)
(***************************************************************************)
EXTENDS Integers

CONSTANTS
    Talks,
    Start, End,       \* start_date and end_date of each talk
    MaxTime,          \* bounds of the model: the clock stops there,
    MaxChanges,       \* changes of the schedule upstream,
    MaxFailures       \* fetches that fail, and restarts

ASSUME ScheduleAssumption ==
    /\ Start \in [Talks -> Nat] /\ End \in [Talks -> Nat]
    /\ \A a, b \in Talks : Start[a] = Start[b] => a = b
    /\ {MaxTime, MaxChanges, MaxFailures} \subseteq Nat

NoTalk == [talk |-> "none"]
Unknown == [now |-> [talk |-> "?"], next |-> NoTalk]     \* no entry for the venue

VARIABLES
    clock,
    listed,     \* the talks of the venue in the schedule upstream
    poller,     \* "start" (the fetch of start()), "sleep", "fetch"; ended by an
                \* exception: "failed" in start(), "dead" in its task
    doc,        \* what the response lists
    cache,      \* _cache[venue_id]
    viewer,     \* caption_stream: "away", "subscribed", "open"
    told,       \* the last schedule_update that the page had
    changes, failures

vars == <<clock, listed, poller, doc, cache, viewer, told, changes, failures>>

Init ==
    /\ clock = 0 /\ listed \in SUBSET Talks
    /\ poller = "start" /\ doc = listed /\ cache = Unknown
    /\ viewer = "away" /\ told = Unknown
    /\ changes = 0 /\ failures = 0

-----------------------------------------------------------------------------
(* The rule for now and next                                               *)

First(talks) ==
    IF talks = {} THEN NoTalk
    ELSE [talk |-> CHOOSE t \in talks : \A u \in talks : Start[t] <= Start[u]]

\* The talks are run through by their start.
Entry(talks, time) ==
    [now  |-> First({t \in talks : Start[t] <= time /\ time < End[t]}),
     next |-> First({t \in talks : Start[t] > time})]

-----------------------------------------------------------------------------
(* The service                                                             *)

\* POLL_INTERVAL is over: the request is sent, and answered.
Fetch ==
    /\ poller = "sleep"
    /\ poller' = "fetch" /\ doc' = listed
    /\ UNCHANGED <<clock, listed, cache, viewer, told, changes, failures>>

Fetching == poller \in {"start", "fetch"}

Broadcast(entry) == told' = IF viewer = "away" THEN told ELSE entry

\* Mutant: only the talk that is on is compared.
UpdateByNow ==
    /\ Fetching /\ poller' = "sleep"
    /\ LET entry == Entry(doc, clock) IN
       IF doc # {} /\ cache.now # entry.now
       THEN cache' = entry /\ Broadcast(entry)
       ELSE UNCHANGED <<cache, told>>
    /\ UNCHANGED <<clock, listed, doc, viewer, changes, failures>>

\* The response is there.  A venue that it does not name keeps its entry.
Update ==
    /\ Fetching /\ poller' = "sleep"
    /\ LET entry == Entry(doc, clock) IN
       IF doc # {} /\ cache # entry
       THEN cache' = entry /\ Broadcast(entry)
       ELSE UNCHANGED <<cache, told>>
    /\ UNCHANGED <<clock, listed, doc, viewer, changes, failures>>

FetchFails ==
    /\ Fetching /\ failures < MaxFailures
    /\ failures' = failures + 1
    /\ poller' = "sleep"
    /\ UNCHANGED <<clock, listed, doc, cache, viewer, told, changes>>

\* The response is not what the code expects (a venue that is null, say): the
\* exception is raised outside the try block, and ends the task.
BadResponse ==
    /\ Fetching /\ failures < MaxFailures
    /\ failures' = failures + 1
    /\ poller' = IF poller = "start" THEN "failed" ELSE "dead"
    /\ UNCHANGED <<clock, listed, doc, cache, viewer, told, changes>>

\* stop() and start() of a new process, which fetches before it serves.
Restart ==
    /\ failures < MaxFailures
    /\ failures' = failures + 1
    /\ poller' = "start" /\ doc' = listed
    /\ cache' = Unknown /\ viewer' = "away"
    /\ UNCHANGED <<clock, listed, told, changes>>

-----------------------------------------------------------------------------
(* A viewer                                                                *)

\* Subscribed: it is sent the broadcasts from now on.  Nobody is served before
\* start() is over; a poller that is dead hinders nobody.
Subscribe ==
    /\ viewer = "away" /\ poller \notin {"start", "failed"}
    /\ viewer' = "subscribed"
    /\ UNCHANGED <<clock, listed, poller, doc, cache, told, changes, failures>>

\* After `connected`: the entry there is at this moment, if any.
SendSnapshot ==
    /\ viewer = "subscribed" /\ viewer' = "open"
    /\ told' = IF cache = Unknown THEN told ELSE cache
    /\ UNCHANGED <<clock, listed, poller, doc, cache, changes, failures>>

Disconnect ==
    /\ viewer # "away" /\ failures < MaxFailures
    /\ failures' = failures + 1
    /\ viewer' = "away"
    /\ UNCHANGED <<clock, listed, poller, doc, cache, told, changes>>

-----------------------------------------------------------------------------
Tick ==
    /\ clock < MaxTime /\ clock' = clock + 1
    /\ UNCHANGED <<listed, poller, doc, cache, viewer, told, changes, failures>>

Change ==
    /\ changes < MaxChanges /\ changes' = changes + 1
    /\ \E t \in Talks : listed' = IF t \in listed THEN listed \ {t} ELSE listed \cup {t}
    /\ UNCHANGED <<clock, poller, doc, cache, viewer, told, failures>>

Next ==
    \/ Fetch \/ Update \/ FetchFails \/ BadResponse \/ Restart
    \/ Subscribe \/ SendSnapshot \/ Disconnect \/ Tick \/ Change

\* The poller sleeps and fetches, with a timeout; the page reconnects.
Spec ==
    /\ Init /\ [][Next]_vars
    /\ WF_vars(Fetch) /\ WF_vars(Update)
    /\ WF_vars(Subscribe) /\ WF_vars(SendSnapshot)

-----------------------------------------------------------------------------
\* When nothing changes or fails any more, the page comes to show the talks
\* that the schedule has on and next, unless the poller has ended by an
\* exception, or the venue has gone from the schedule altogether.
PageCatchesUp ==
    <>[](\/ poller \in {"failed", "dead"} \/ listed = {}
         \/ viewer = "open" /\ told = Entry(listed, clock))
=============================================================================
