------------------------------- MODULE Viewer -------------------------------
(***************************************************************************)
(* One viewer's page: CaptionsClient (static/captions-client.js, in line   *)
(* mode, as viewer.html uses it) and the handler of its connection,        *)
(* caption_stream (routers/captions.py), with the events of the venue it   *)
(* shows.                                                                  *)
(*                                                                         *)
(* A caption is a number, for its session_id and sequence; how it is laid  *)
(* out, and lines purged off the top, are left out.  So is how long a      *)
(* timer runs.  A broadcast is one step: how several interleave is the     *)
(* matter of Distribution and SessionLifecycle.                            *)
(***************************************************************************)
EXTENDS Integers, SequencesExt

CONSTANTS
    HistoryLimit,   \* historyLimit
    MaxEvents,      \* bounds of the model: captions, tentative texts, changes of
                    \* sessions and admins' toggles together,
    MaxLosses,      \* connections lost or refused, and
    MaxVisits       \* times the page becomes visible

ASSUME ViewerAssumption ==
    {HistoryLimit, MaxEvents, MaxLosses, MaxVisits} \subseteq Nat

VARIABLES
    \* the server
    said, stored,       \* captions broadcast, and stored
    live, enabled,      \* is_live and transcription_enabled of the venue
    ending,             \* end_session: "no", "popped", or "told" (session_end)
    untold,             \* a change of `enabled` is committed, not yet broadcast
    untrue,             \* what was last broadcast of `live` is not, or no longer, true
    stage,              \* of caption_stream: "none", "subscribed", "read" (the
                        \* venue's flag), "open"
    known,              \* what it has read for `connected`
    wire,               \* messages on their way to the page
    \* the page
    loading,            \* init(): "fetch", "answer", "done"
    answer,             \* the captions of the history, until they are rendered
    sock,               \* ws: "none", "connecting", "open", "closed"
    timers,             \* reconnect timers that run
    shown,              \* the captions in the container, from top to bottom
    tentative,          \* whether there is a tentative span
    paused, status,     \* what it says about the venue
    destroyed,
    \* the world, and ghosts
    changes, losses, visits,
    starts,             \* captions before which there may be a gap
    early,              \* the page became visible while it was loading
    outdated            \* `connected` had been overtaken when it was sent

liveVars == <<live, ending, untrue>>
flagVars == <<enabled, untold>>
venueVars == <<said, stored, liveVars, flagVars, changes>>
connVars == <<stage, known, wire, outdated>>
loadVars == <<loading, answer, early>>
sockVars == <<sock, timers, losses, visits>>
textVars == <<shown, tentative, starts>>
saysVars == <<paused, status>>
vars == <<venueVars, connVars, loadVars, sockVars, textVars, saysVars, destroyed>>

Unread == [live |-> FALSE, enabled |-> TRUE]

Init ==
    /\ said = 0 /\ stored = 0 /\ live \in BOOLEAN /\ enabled \in BOOLEAN
    /\ ending = "no" /\ untold = FALSE /\ untrue = FALSE
    /\ stage = "none" /\ known = Unread /\ wire = <<>>
    /\ loading = "fetch" /\ answer = {} /\ sock = "none" /\ timers = 0
    /\ shown = <<>> /\ tentative = FALSE /\ paused = FALSE /\ status = "none"
    /\ destroyed = FALSE
    /\ changes = 0 /\ losses = 0 /\ visits = 0
    /\ starts = {1} /\ early = FALSE /\ outdated = FALSE

-----------------------------------------------------------------------------
(* The venue                                                               *)

Change == said + changes < MaxEvents /\ changes' = changes + 1   \* bounded

Broadcast(msg) == wire' = IF stage = "none" THEN wire ELSE Append(wire, msg)

\* A caption is broadcast first and stored then, before the next one.  The
\* receive task goes on while end_session waits for it.
Say ==
    /\ live \/ ending = "popped"
    /\ said + changes < MaxEvents /\ stored = said
    /\ said' = said + 1
    /\ Broadcast([type |-> "committed", n |-> said'])
    /\ UNCHANGED <<stored, liveVars, flagVars, changes, stage, known, outdated>>

Store ==
    /\ stored < said
    /\ stored' = said
    /\ UNCHANGED <<said, liveVars, flagVars, changes, connVars>>

\* A tentative text may go out late, after a pause or the session's end.
Guess ==
    /\ Change
    /\ Broadcast([type |-> "tentative"])
    /\ UNCHANGED <<said, stored, liveVars, flagVars, stage, known, outdated>>

Status(isLive) == [type |-> IF isLive THEN "venue_live" ELSE "venue_offline"]

\* WhisperLive comes up, or goes down, for the session in the dictionary, which
\* is told in the same step.
Flip ==
    /\ Change
    /\ live' = ~live /\ untrue' = FALSE
    /\ Broadcast(Status(live'))
    /\ UNCHANGED <<said, stored, ending, flagVars, stage, known, outdated>>

\* end_session takes the session out of the dictionary, and tells nobody.
Pop ==
    /\ Change
    /\ ending = "no" /\ ending' = "popped"
    /\ live' = FALSE /\ untrue' = (untrue \/ live)
    /\ UNCHANGED <<said, stored, flagVars, connVars>>

\* Much later, when the tasks are gone and the row has its end, it announces
\* that, unless the commit fails.  On behalf of a takeover that is all.
SessionEnd ==
    /\ ending = "popped"
    /\ \/ ending' \in {"told", "no"} /\ Broadcast([type |-> "session_end"])
       \/ ending' = "no" /\ UNCHANGED wire
    /\ UNCHANGED <<said, stored, live, untrue, flagVars, changes, stage, known, outdated>>

\* The Pi's handler then sends venue_offline, also when a new session is live.
Offline ==
    /\ ending = "told" /\ ending' = "no"
    /\ untrue' = live
    /\ Broadcast(Status(FALSE))
    /\ UNCHANGED <<said, stored, live, flagVars, changes, stage, known, outdated>>

\* update_venue commits the flag, and broadcasts it with is_live after that.
Toggle ==
    /\ Change
    /\ ~untold
    /\ enabled' = ~enabled /\ untold' = TRUE
    /\ UNCHANGED <<said, stored, liveVars, connVars>>

Tell ==
    /\ untold /\ untold' = FALSE
    /\ Broadcast([type |-> "transcription", enabled |-> enabled, live |-> live])
    /\ UNCHANGED <<said, stored, liveVars, enabled, changes, stage, known, outdated>>

Venue == Say \/ Store \/ Guess \/ Flip \/ Pop \/ SessionEnd \/ Offline \/ Toggle \/ Tell

-----------------------------------------------------------------------------
(* caption_stream                                                          *)

\* accept, subscribe and the read of is_live: nothing comes between them.
Accept ==
    /\ sock = "connecting" /\ stage = "none"
    /\ sock' = "open"
    /\ stage' = "subscribed"
    /\ known' = [known EXCEPT !.live = live]
    /\ starts' = starts \cup {said + 1}
    /\ UNCHANGED <<wire, outdated, timers, losses, visits, shown, tentative>>

ReadFlag ==
    /\ stage = "subscribed"
    /\ stage' = "read"
    /\ known' = [known EXCEPT !.enabled = enabled]
    /\ UNCHANGED <<wire, outdated>>

Greet ==
    /\ stage = "read"
    /\ stage' = "open"
    /\ wire' = Append(wire, [type |-> "connected", live |-> known.live, enabled |-> known.enabled])
    /\ outdated' = \/ known.live # live /\ ~untrue
                   \/ known.enabled # enabled /\ ~untold
    /\ known' = Unread

-----------------------------------------------------------------------------
(* The life of the connection                                              *)

\* The handler comes to its end, and unsubscribes.
HandlerEnds == stage' = "none" /\ known' = Unread /\ outdated' = FALSE

\* _connect: what there was of an old connection is closed, and its onclose
\* detached.  A timer that still runs is not stopped.
Connect ==
    /\ sock' = "connecting" /\ status' = "reconnecting"
    /\ HandlerEnds /\ wire' = <<>>
    /\ UNCHANGED paused

TimerFires ==
    /\ timers > 0
    /\ timers' = timers - 1
    /\ IF destroyed THEN UNCHANGED <<sock, connVars, saysVars>> ELSE Connect
    /\ UNCHANGED <<losses, visits>>

\* The connection breaks: the page may not know yet, nor have all messages.
LinkDown ==
    /\ losses < MaxLosses /\ stage # "none"
    /\ losses' = losses + 1
    /\ HandlerEnds
    /\ UNCHANGED <<wire, sock, timers, visits, saysVars>>

\* Mutant: only a connection that was open is tried again.
OnCloseOfOpen ==
    /\ ~destroyed
    /\ \/ sock = "open" /\ stage = "none" /\ UNCHANGED losses
       \/ sock = "connecting" /\ losses < MaxLosses /\ losses' = losses + 1
    /\ sock' = "closed" /\ HandlerEnds /\ wire' = <<>>
    /\ status' = "disconnected"
    /\ timers' = timers + (IF sock = "open" THEN 1 ELSE 0)
    /\ UNCHANGED <<visits, paused>>

\* onclose: the page notices that, or its attempt to connect fails.
OnClose ==
    /\ ~destroyed
    /\ \/ sock = "open" /\ stage = "none" /\ UNCHANGED losses
       \/ sock = "connecting" /\ losses < MaxLosses /\ losses' = losses + 1
    /\ sock' = "closed" /\ HandlerEnds /\ wire' = <<>>
    /\ status' = "disconnected"
    /\ timers' = timers + 1
    /\ UNCHANGED <<visits, paused>>

\* The page becomes visible, which reconnects unless the socket is open.
Visible ==
    /\ ~destroyed /\ visits < MaxVisits
    /\ visits' = visits + 1
    /\ IF sock = "open" THEN UNCHANGED <<sock, connVars, saysVars, early>>
       ELSE Connect /\ early' = (early \/ loading # "done")
    /\ UNCHANGED <<timers, losses, loading, answer>>

\* The client is dropped for that of another venue: of its timers only the
\* last one set is cancelled, if it still runs.
Destroy ==
    /\ ~destroyed /\ destroyed' = TRUE
    /\ sock' = "none" /\ HandlerEnds /\ wire' = <<>>
    /\ timers' \in {timers, timers - 1} \cap Nat
    /\ UNCHANGED <<losses, visits, saysVars>>

-----------------------------------------------------------------------------
(* _loadHistory, and the rest of init                                      *)

\* The server answers with the last captions, or with an error.
Answer ==
    /\ loading = "fetch" /\ loading' = "answer"
    /\ \/ answer' = {n \in 1..stored : n > stored - HistoryLimit}
       \/ losses < MaxLosses /\ answer' = {}
    /\ UNCHANGED early

Ascending(s) == \A i, j \in DOMAIN s : i < j => s[i] < s[j]

\* The captions that _seenCommitted does not have are added, in order.
Add(captions) ==
    \E new \in SetToSeqs(captions \ ToSet(shown)) : Ascending(new) /\ shown' = shown \o new

\* The history is rendered, whatever has happened to the client meanwhile.
Render ==
    /\ loading = "answer" /\ loading' = "done"
    /\ Add(answer)
    /\ tentative' = (tentative /\ answer = {})
    /\ starts' = starts \cup {n \in answer : n - 1 \notin answer}
    /\ IF destroyed THEN UNCHANGED <<sock, connVars, saysVars>> ELSE Connect
    /\ answer' = {}
    /\ UNCHANGED <<early, timers, losses, visits>>

-----------------------------------------------------------------------------
(* _handleMessage                                                          *)

ShowStatus(isLive) == status' = IF isLive THEN "live" ELSE "offline"

\* Mutant: captions are ignored while transcription is paused.
OnCommittedUnlessPaused(msg) ==
    /\ msg.type = "committed"
    /\ tentative' = FALSE
    /\ IF paused THEN UNCHANGED shown ELSE Add({msg.n})
    /\ UNCHANGED saysVars

OnCommitted(msg) ==
    /\ msg.type = "committed"
    /\ tentative' = FALSE
    /\ Add({msg.n})
    /\ UNCHANGED saysVars

OnTentative(msg) ==
    /\ msg.type = "tentative"
    /\ tentative' = (tentative \/ ~paused)
    /\ UNCHANGED <<shown, saysVars>>

\* `connected` says where the venue stands, also when the page was paused
\* before and is still.
OnConnected(msg) ==
    /\ msg.type = "connected"
    /\ paused' = ~msg.enabled
    /\ tentative' = (tentative /\ (paused' => paused))
    /\ IF paused' THEN status' = "paused" ELSE ShowStatus(msg.live)
    /\ UNCHANGED shown

OnVenue(msg) ==
    /\ msg.type \in {"venue_live", "venue_offline"}
    /\ tentative' = (tentative /\ msg.type = "venue_live")
    /\ IF paused THEN UNCHANGED status ELSE ShowStatus(msg.type = "venue_live")
    /\ UNCHANGED <<shown, paused>>

OnSessionEnd(msg) ==
    /\ msg.type = "session_end"
    /\ tentative' = FALSE
    /\ UNCHANGED <<shown, saysVars>>

\* Mutant: the hint is not used.
OnTranscriptionNoHint(msg) ==
    /\ msg.type = "transcription"
    /\ paused' = ~msg.enabled
    /\ IF paused' = paused THEN UNCHANGED <<tentative, status>>
       ELSE /\ tentative' = (tentative /\ ~paused')
            /\ IF paused' THEN status' = "paused" ELSE ShowStatus(FALSE)
    /\ UNCHANGED shown

\* _setPaused does nothing when nothing changes.
OnTranscription(msg) ==
    /\ msg.type = "transcription"
    /\ paused' = ~msg.enabled
    /\ IF paused' = paused THEN UNCHANGED <<tentative, status>>
       ELSE /\ tentative' = (tentative /\ ~paused')
            /\ IF paused' THEN status' = "paused" ELSE ShowStatus(msg.live)
    /\ UNCHANGED shown

Receive ==
    /\ sock = "open" /\ wire # <<>>
    /\ wire' = Tail(wire)
    /\ LET msg == Head(wire) IN
       \/ OnCommitted(msg) \/ OnTentative(msg) \/ OnConnected(msg)
       \/ OnVenue(msg) \/ OnSessionEnd(msg) \/ OnTranscription(msg)
    /\ UNCHANGED <<stage, known, outdated, starts>>

-----------------------------------------------------------------------------
Handler ==
    \/ Accept /\ UNCHANGED <<venueVars, loadVars, saysVars, destroyed>>
    \/ (ReadFlag \/ Greet) /\ UNCHANGED <<venueVars, loadVars, sockVars, textVars, saysVars, destroyed>>

Page ==
    \/ TimerFires /\ UNCHANGED <<venueVars, loadVars, textVars, destroyed>>
    \/ Answer /\ UNCHANGED <<venueVars, connVars, sockVars, textVars, saysVars, destroyed>>
    \/ Render /\ UNCHANGED <<venueVars, destroyed>>
    \/ Receive /\ UNCHANGED <<venueVars, loadVars, sockVars, destroyed>>
    \/ OnClose /\ UNCHANGED <<venueVars, loadVars, textVars, destroyed>>

World ==
    \/ Venue /\ UNCHANGED <<loadVars, sockVars, textVars, saysVars, destroyed>>
    \/ LinkDown /\ UNCHANGED <<venueVars, loadVars, textVars, destroyed>>
    \/ Visible /\ UNCHANGED <<venueVars, textVars, destroyed>>
    \/ Destroy /\ UNCHANGED <<venueVars, loadVars, textVars>>

Next == Handler \/ Page \/ World

Spec == Init /\ [][Next]_vars /\ WF_vars(Handler) /\ WF_vars(Page)
-----------------------------------------------------------------------------
(* Properties                                                              *)

\* No caption is shown twice; captions are in order, unless the page became
\* visible while its history was loading; and none is missing after the first
\* one, but before the first caption of the history or of a connection.
ShownIsFaithful ==
    /\ IsInjective(shown)
    /\ ~early => Ascending(shown)
    /\ \A n \in ToSet(shown) : n \in starts \/ n - 1 \in ToSet(shown)

\* All messages have arrived, and what they said of the venue is true: it may
\* not be from the pop of a session until venue_offline (which never comes on a
\* takeover or if the commit fails), and after the late venue_offline of an old
\* session, until the venue's next change.
Quiet == sock = "open" /\ stage = "open" /\ wire = <<>> /\ ~untold /\ ~untrue
Agrees ==
    /\ paused = ~enabled
    /\ status = IF ~enabled THEN "paused" ELSE IF live THEN "live" ELSE "offline"

\* When all messages have arrived and the venue has told its state, the page
\* says what is true of it, whatever it heard before, unless `connected` had been
\* overtaken by another message.  Under the paused banner there is never a
\* tentative text.
PageAgrees ==
    /\ Quiet /\ ~outdated => Agrees
    /\ paused => ~tentative

\* Once no connection is lost any more, the page has one for good, in spite of
\* the timers that nobody cancelled; a client that has been destroyed has none,
\* whatever timer, answer or event of it came later.
StaysConnected ==
    <>[](IF destroyed THEN sock = "none" ELSE sock = "open" /\ stage = "open")
=============================================================================
