-------------------------- MODULE SessionLifecycle --------------------------
(***************************************************************************)
(* The life of the caption sessions of ONE venue: the coroutines that      *)
(* serve /ingest (routers/audio.py), the transcription manager they call   *)
(* (services/transcription.py), the admin's pause switch                   *)
(* (routers/venues.py), the session rows in the database, and what a       *)
(* viewer that stays subscribed shows (static/captions-client.js).         *)
(*                                                                         *)
(* Everything runs on one asyncio loop, so a step is the code between two  *)
(* awaits that can really suspend.  An ingest handler creates at most one  *)
(* session, so the handler's name also names its session.  Venues share    *)
(* nothing but the dictionary they are keys of; one venue is enough.       *)
(***************************************************************************)
EXTENDS FiniteSets

CONSTANTS
    Handlers,        \* ingest connections, and the sessions they create
    Stoppers,        \* tasks that run TranscriptionManager.stop()
    Admins,          \* PATCH requests that set transcription_enabled
    NoOne,           \* "no session": dict.get() returned None
    DbMayFail        \* may a database call raise?

Actors == Handlers \cup Stoppers

ASSUME ConstantsAssumption ==
    /\ Handlers \cap Stoppers = {}
    /\ NoOne \notin Actors
    /\ DbMayFail \in BOOLEAN

VARIABLES
    pc,          \* where each actor is suspended
    enabledRead, \* what a handler read in transcription_enabled
    victim,      \* the session an actor took out of the dictionary to end
    current,     \* manager.venues.get(venue_id)
    stopped,     \* sessions whose stop_event is set
    paused,      \* VenueSession.paused
    wlReady,     \* VenueSession.wl_ready
    loops,       \* the session's running tasks, of Tasks and "flush"
    queued,      \* is there audio in the session's audio_queue?
    row,         \* the row in the sessions table: "none", "open" or "ended"
    announced,   \* sessions whose session_end was broadcast
    enabledDb,   \* venues.transcription_enabled
    patch,       \* where each PATCH request is suspended
    want,        \* the value a PATCH request sets
    viewer,      \* the status a subscribed viewer shows
    overwritten, \* history: sessions that another start replaced unended
    crossed,     \* history: the last change of the flag met another PATCH or a
                 \* starting session, or was not applied
    misled       \* history: who last made the status on screen untrue

handlerVars == <<pc, enabledRead, victim>>
sessionVars == <<current, stopped, paused, wlReady, loops, queued>>
tableVars   == <<row, announced>>
adminVars   == <<enabledDb, patch, want>>
historyVars == <<overwritten, crossed, misled>>
vars == <<handlerVars, sessionVars, tableVars, adminVars, viewer, historyVars>>

\* send_task and recv_task; "flush" is the delayed tentative of the receiver.
Tasks == {"send", "recv"}

StartStages == {"reading", "flagged", "insert", "install"}
EndStages   == {"stopSend", "stopRecv", "closeWl", "endRow"}
Stages == {"idle", "streaming", "ended", "done", "dead"} \cup StartStages \cup EndStages

\* manager.is_live(venue_id)
IsLive == current # NoOne /\ wlReady[current]

Ending(a) == pc[a] \in EndStages

-----------------------------------------------------------------------------
(* CaptionsClient._handleMessage: what each status message does to the     *)
(* status on screen.  "paused" hides venue_live and venue_offline.         *)

OnLive(v)    == IF v = "paused" THEN v ELSE "live"
OnOffline(v) == IF v = "paused" THEN v ELSE "offline"
OnEnabled(v, live) ==
    IF v # "paused" THEN v ELSE IF live THEN "live" ELSE "offline"

Init ==
    /\ pc = [a \in Actors |-> "idle"]
    /\ enabledRead = [h \in Handlers |-> TRUE]
    /\ victim = [a \in Actors |-> NoOne]
    /\ current = NoOne
    /\ stopped = {}
    /\ paused = [h \in Handlers |-> FALSE]
    /\ wlReady = [h \in Handlers |-> FALSE]
    /\ loops = [h \in Handlers |-> {}]
    /\ queued = [h \in Handlers |-> FALSE]
    /\ row = [h \in Handlers |-> "none"]
    /\ announced = {}
    /\ enabledDb \in BOOLEAN
    /\ patch = [p \in Admins |-> "idle"]
    /\ want = [p \in Admins |-> TRUE]
    /\ viewer = IF enabledDb THEN "offline" ELSE "paused"
    /\ overwritten = {}
    /\ crossed = FALSE
    /\ misled = NoOne

Goto(a, stage) == pc' = [pc EXCEPT ![a] = stage]

\* A step of actor a that replaces or removes the current session says nothing
\* to the viewers: if the venue was live, a has misled them.
OffAirBy(a) == misled' = IF IsLive THEN a ELSE misled

-----------------------------------------------------------------------------
(* TranscriptionManager.end_session, run by a handler or by stop().        *)

\* Mutant: dict.get() where the code has dict.pop().
PopWithoutRemoving(a) ==
    /\ current # NoOne
    /\ victim' = [victim EXCEPT ![a] = current]
    /\ stopped' = stopped \cup {current}
    /\ OffAirBy(a)
    /\ Goto(a, "stopSend")
    /\ UNCHANGED current

\* Mutant: the early return on a missing session is lost.
PopUnguarded(a) ==
    /\ victim' = [victim EXCEPT ![a] = current]
    /\ stopped' = stopped \cup {current}
    /\ OffAirBy(a)
    /\ current' = NoOne
    /\ Goto(a, "stopSend")

\* Up to the first await: the entry leaves the dictionary, whoever it belongs
\* to, and the stop event is set.
Pop(a) ==
    /\ current # NoOne
    /\ victim' = [victim EXCEPT ![a] = current]
    /\ stopped' = stopped \cup {current}
    /\ OffAirBy(a)
    /\ current' = NoOne
    /\ Goto(a, "stopSend")

\* Mutant: processor.stop() is forgotten.
StopSendOnly(a) ==
    /\ pc[a] = "stopSend"
    /\ loops' = [loops EXCEPT ![victim[a]] = @ \ {"send"}]
    /\ Goto(a, "closeWl")
    /\ UNCHANGED <<enabledRead, victim, current, stopped, paused, wlReady, queued,
                   tableVars, adminVars, viewer, historyVars>>

\* streamer.stop(): the send task has returned, or was cancelled after 3 s.
\* processor.stop() follows at once: it cancels a waiting flush, then waits.
StopSend(a) ==
    /\ pc[a] = "stopSend"
    /\ loops' = [loops EXCEPT ![victim[a]] = @ \ {"send", "flush"}]
    /\ Goto(a, "stopRecv")
    /\ UNCHANGED <<enabledRead, victim, current, stopped, paused, wlReady, queued,
                   tableVars, adminVars, viewer, historyVars>>

\* Mutant: wait for the receiver to return by itself, without the time limit.
StopRecvNoTimeout(a) ==
    /\ pc[a] = "stopRecv"
    /\ ~wlReady[victim[a]]
    /\ loops' = [loops EXCEPT ![victim[a]] = @ \ {"recv"}]
    /\ Goto(a, "closeWl")
    /\ UNCHANGED <<enabledRead, victim, current, stopped, paused, wlReady, queued,
                   tableVars, adminVars, viewer, historyVars>>

\* processor.stop(): likewise for the receive task, which may have scheduled
\* another flush while it was waited for.
StopRecv(a) ==
    /\ pc[a] = "stopRecv"
    /\ loops' = [loops EXCEPT ![victim[a]] = @ \ {"recv"}]
    /\ Goto(a, "closeWl")
    /\ UNCHANGED <<enabledRead, victim, current, stopped, paused, wlReady, queued,
                   tableVars, adminVars, viewer, historyVars>>

\* wl.close(): the callback clears wl_ready and, the session being out of the
\* dictionary, broadcasts nothing.  It does not run when a task cancelled
\* inside drop() had already let go of the socket: wl_ready then stays set.
CloseWl(a) ==
    /\ pc[a] = "closeWl"
    /\ \E left \in {FALSE, wlReady[victim[a]]} :
           wlReady' = [wlReady EXCEPT ![victim[a]] = left]
    /\ Goto(a, "endRow")
    /\ UNCHANGED <<enabledRead, victim, current, stopped, paused, loops, queued,
                   tableVars, adminVars, viewer, historyVars>>

\* Mutant: the row's ended_at is never written.
AnnounceOnly(a) ==
    /\ pc[a] = "endRow"
    /\ announced' = announced \cup {victim[a]}
    /\ Goto(a, "ended")
    /\ UNCHANGED <<enabledRead, victim, sessionVars, row, adminVars, viewer, historyVars>>

\* ended_at is committed and session_end broadcast (it leaves a viewer's
\* status alone); or the commit raises, and with it whoever called.
EndRow(a) ==
    /\ pc[a] = "endRow"
    /\ \/ /\ row' = [row EXCEPT ![victim[a]] = "ended"]
          /\ announced' = announced \cup {victim[a]}
          /\ Goto(a, "ended")
       \/ /\ DbMayFail
          /\ Goto(a, "dead")
          /\ UNCHANGED tableVars
    /\ UNCHANGED <<enabledRead, victim, sessionVars, adminVars, viewer, historyVars>>

-----------------------------------------------------------------------------
(* audio_ingest                                                            *)

Accept(h) ==
    /\ pc[h] = "idle"
    /\ Goto(h, "reading")
    /\ UNCHANGED <<enabledRead, victim, sessionVars, tableVars, adminVars, viewer, historyVars>>

\* _venue_transcription_enabled: the value is used only after more awaits.
\* The query may raise, before the handler has a session.
ReadFlag(h) ==
    /\ pc[h] = "reading"
    /\ \/ /\ enabledRead' = [enabledRead EXCEPT ![h] = enabledDb]
          /\ Goto(h, "flagged")
       \/ /\ DbMayFail
          /\ Goto(h, "dead")
          /\ UNCHANGED enabledRead
    /\ UNCHANGED <<victim, sessionVars, tableVars, adminVars, viewer, historyVars>>

\* start_session up to its first await: an existing session is ended first.
StartSession(h) ==
    /\ pc[h] = "flagged"
    /\ \/ Pop(h)
       \/ /\ current = NoOne
          /\ Goto(h, "insert")
          /\ UNCHANGED <<victim, current, stopped, misled>>
    /\ UNCHANGED <<enabledRead, paused, wlReady, loops, queued, tableVars, adminVars, viewer,
                   overwritten, crossed>>

\* end_session returned to start_session.
EndedThenInsert(h) ==
    /\ pc[h] = "ended"
    /\ row[h] = "none"
    /\ Goto(h, "insert")
    /\ UNCHANGED <<enabledRead, victim, sessionVars, tableVars, adminVars, viewer, historyVars>>

\* The INSERT commits, or raises out of the handler (which has no session to
\* end yet: start_session is called outside the try block).
InsertRow(h) ==
    /\ pc[h] = "insert"
    /\ \/ /\ row' = [row EXCEPT ![h] = "open"]
          /\ Goto(h, "install")
       \/ /\ DbMayFail
          /\ Goto(h, "dead")
          /\ UNCHANGED row
    /\ UNCHANGED <<enabledRead, victim, sessionVars, announced, adminVars, viewer, historyVars>>

\* The rest of start_session has no real await: the session replaces whatever
\* the dictionary holds, its two tasks start, and the handler goes on to
\* broadcast transcription_disabled and to read audio.
Install(h) ==
    /\ pc[h] = "install"
    /\ current' = h
    /\ paused' = [paused EXCEPT ![h] = ~enabledRead[h]]
    /\ loops' = [loops EXCEPT ![h] = Tasks]
    /\ viewer' = IF enabledRead[h] THEN viewer ELSE "paused"
    /\ overwritten' = overwritten \cup ({current} \ {NoOne})
    /\ OffAirBy(h)
    /\ Goto(h, "streaming")
    /\ UNCHANGED <<enabledRead, victim, stopped, wlReady, queued, tableVars, adminVars, crossed>>

\* Mutant: the handler feeds the session it created, without a look-up.
ChunkToOwnSession(h) ==
    /\ pc[h] = "streaming"
    /\ ~paused[h]
    /\ queued' = [queued EXCEPT ![h] = TRUE]
    /\ UNCHANGED <<handlerVars, current, stopped, paused, wlReady, loops,
                   tableVars, adminVars, viewer, historyVars>>

\* process_audio(venue_id): the chunk goes to the venue's current session.
Chunk(h) ==
    /\ pc[h] = "streaming"
    /\ current # NoOne
    /\ ~paused[current]
    /\ queued' = [queued EXCEPT ![current] = TRUE]
    /\ UNCHANGED <<handlerVars, current, stopped, paused, wlReady, loops,
                   tableVars, adminVars, viewer, historyVars>>

\* The send loop takes what is queued and sends it, or loses it with its socket.
Drain(s) ==
    /\ "send" \in loops[s]
    /\ queued[s]
    /\ queued' = [queued EXCEPT ![s] = FALSE]
    /\ UNCHANGED <<handlerVars, current, stopped, paused, wlReady, loops,
                   tableVars, adminVars, viewer, historyVars>>

\* The Pi is gone (or send_json/receive raised): the finally block calls
\* end_session(venue_id), which may find no session.
Disconnect(h) ==
    /\ pc[h] = "streaming"
    /\ \/ Pop(h) /\ UNCHANGED viewer
       \/ /\ current = NoOne
          /\ Goto(h, "done")
          /\ viewer' = OnOffline(viewer)
          /\ misled' = NoOne
          /\ UNCHANGED <<victim, current, stopped>>
    /\ UNCHANGED <<enabledRead, paused, wlReady, loops, queued, tableVars, adminVars,
                   overwritten, crossed>>

\* Mutant: venue_offline is left to the session's own WlDown.
EndedSilently(h) ==
    /\ pc[h] = "ended"
    /\ row[h] # "none"
    /\ Goto(h, "done")
    /\ misled' = IF IsLive THEN h ELSE NoOne
    /\ UNCHANGED <<enabledRead, victim, sessionVars, tableVars, adminVars, viewer,
                   overwritten, crossed>>

\* end_session returned to the finally block, which broadcasts venue_offline:
\* untrue if another handler's session is live by now.
EndedThenOffline(h) ==
    /\ pc[h] = "ended"
    /\ row[h] # "none"
    /\ Goto(h, "done")
    /\ viewer' = OnOffline(viewer)
    /\ misled' = IF IsLive THEN h ELSE NoOne
    /\ UNCHANGED <<enabledRead, victim, sessionVars, tableVars, adminVars,
                   overwritten, crossed>>

\* TranscriptionManager.stop() for this venue.
Shutdown(t) ==
    /\ pc[t] = "idle"
    /\ Pop(t)
    /\ UNCHANGED <<enabledRead, paused, wlReady, loops, queued, tableVars, adminVars, viewer,
                   overwritten, crossed>>

-----------------------------------------------------------------------------
(* _on_wl_state_change, fired by a running task of session s, and what the *)
(* receiver does with the text in progress.                                *)

\* The viewers are told of the current session only.
Tell(s, status) ==
    /\ viewer' = IF current = s THEN status ELSE viewer
    /\ misled' = IF current = s THEN NoOne ELSE misled

\* Mutant: the guard "is not venue" is lost.
WlUpUnguarded(s) ==
    /\ loops[s] \cap Tasks # {}
    /\ ~wlReady[s]
    /\ wlReady' = [wlReady EXCEPT ![s] = TRUE]
    /\ viewer' = OnLive(viewer)
    /\ misled' = NoOne
    /\ UNCHANGED <<handlerVars, current, stopped, paused, loops, queued, tableVars, adminVars,
                   overwritten, crossed>>

\* A connect that was under way when the stop event was set still completes.
WlUp(s) ==
    /\ loops[s] \cap Tasks # {}
    /\ ~wlReady[s]
    /\ wlReady' = [wlReady EXCEPT ![s] = TRUE]
    /\ Tell(s, OnLive(viewer))
    /\ UNCHANGED <<handlerVars, current, stopped, paused, loops, queued, tableVars, adminVars,
                   overwritten, crossed>>

\* Mutant: venue_offline is broadcast but wl_ready is left set.
WlDownFlagLeft(s) ==
    /\ loops[s] \cap Tasks # {}
    /\ wlReady[s]
    /\ Tell(s, OnOffline(viewer))
    /\ UNCHANGED <<handlerVars, sessionVars, tableVars, adminVars, overwritten, crossed>>

WlDown(s) ==
    /\ loops[s] \cap Tasks # {}
    /\ wlReady[s]
    /\ wlReady' = [wlReady EXCEPT ![s] = FALSE]
    /\ Tell(s, OnOffline(viewer))
    /\ UNCHANGED <<handlerVars, current, stopped, paused, loops, queued, tableVars, adminVars,
                   overwritten, crossed>>

\* A message with text in progress, throttled: the flush task is created.  The
\* message may come from a socket the sender has dropped meanwhile.
ScheduleFlush(s) ==
    /\ "recv" \in loops[s]
    /\ loops' = [loops EXCEPT ![s] = @ \cup {"flush"}]
    /\ UNCHANGED <<handlerVars, current, stopped, paused, wlReady, queued,
                   tableVars, adminVars, viewer, historyVars>>

\* The flush fired, at most half a second later, or the receiver cancelled it.
FlushEnds(s) ==
    /\ "flush" \in loops[s]
    /\ loops' = [loops EXCEPT ![s] = @ \ {"flush"}]
    /\ UNCHANGED <<handlerVars, current, stopped, paused, wlReady, queued,
                   tableVars, adminVars, viewer, historyVars>>

-----------------------------------------------------------------------------
(* update_venue with transcription_enabled                                 *)

\* The row is read and compared; nothing changes when the value is the same.
SelectVenue(p) ==
    /\ patch[p] = "idle"
    /\ \E v \in BOOLEAN :
          /\ want' = [want EXCEPT ![p] = v]
          /\ patch' = [patch EXCEPT ![p] = IF v # enabledDb THEN "changed" ELSE "done"]
    /\ UNCHANGED <<handlerVars, sessionVars, tableVars, enabledDb, viewer, historyVars>>

\* h has read the flag but its session is not installed yet.
HoldsFlag(h) ==
    \/ pc[h] \in {"flagged", "insert", "install"}
    \/ (Ending(h) \/ pc[h] = "ended") /\ row[h] = "none"

\* A commit at this moment crosses a PATCH that is committed but not applied,
\* or a session that starts with the old value.
Crossing(p) ==
    \/ \E q \in Admins \ {p} : patch[q] = "committed"
    \/ \E h \in Handlers : HoldsFlag(h)

\* The commit and the refresh after it are two calls: the first may raise, or
\* succeed and the second raise, and then nobody is told of the new value.
CommitVenue(p) ==
    /\ patch[p] = "changed"
    /\ \/ /\ enabledDb' = want[p]
          /\ patch' = [patch EXCEPT ![p] = "committed"]
          /\ crossed' = Crossing(p)
       \/ /\ DbMayFail
          /\ enabledDb' = want[p]
          /\ patch' = [patch EXCEPT ![p] = "done"]
          /\ crossed' = TRUE
       \/ /\ DbMayFail
          /\ patch' = [patch EXCEPT ![p] = "done"]
          /\ UNCHANGED <<enabledDb, crossed>>
    /\ UNCHANGED <<handlerVars, sessionVars, tableVars, want, viewer, overwritten, misled>>

\* Mutant: the subscribers are told, the session is not.
ApplyTellsOnly(p) ==
    /\ patch[p] = "committed"
    /\ patch' = [patch EXCEPT ![p] = "done"]
    /\ viewer' = IF want[p] THEN OnEnabled(viewer, IsLive) ELSE "paused"
    /\ UNCHANGED <<handlerVars, sessionVars, tableVars, enabledDb, want, historyVars>>

\* After the refresh: set_paused and the broadcast with the live state.
ApplyToSession(p) ==
    /\ patch[p] = "committed"
    /\ patch' = [patch EXCEPT ![p] = "done"]
    /\ paused' = IF current = NoOne THEN paused
                 ELSE [paused EXCEPT ![current] = ~want[p]]
    /\ viewer' = IF want[p] THEN OnEnabled(viewer, IsLive) ELSE "paused"
    /\ misled' = IF want[p] /\ viewer = "paused" THEN NoOne ELSE misled
    /\ UNCHANGED <<handlerVars, current, stopped, wlReady, loops, queued,
                   tableVars, enabledDb, want, overwritten, crossed>>

-----------------------------------------------------------------------------
EndStep(a) == StopSend(a) \/ StopRecv(a) \/ CloseWl(a) \/ EndRow(a)

StartStep(h) ==
    ReadFlag(h) \/ StartSession(h) \/ EndedThenInsert(h) \/ InsertRow(h) \/ Install(h)

Next ==
    \/ \E a \in Actors : EndStep(a)
    \/ \E h \in Handlers :
          Accept(h) \/ StartStep(h) \/ Chunk(h) \/ Disconnect(h) \/ EndedThenOffline(h)
    \/ \E t \in Stoppers : Shutdown(t)
    \/ \E s \in Handlers :
          WlUp(s) \/ WlDown(s) \/ Drain(s) \/ ScheduleFlush(s) \/ FlushEnds(s)
    \/ \E p \in Admins : SelectVenue(p) \/ CommitVenue(p) \/ ApplyToSession(p)

Spec == Init /\ [][Next]_vars

\* The event loop resumes what is ready; database calls return; the two waits
\* of end_session are bounded by await_or_cancel.  Nothing obliges a Pi, an
\* admin or WhisperLive to do anything.
Fairness ==
    /\ \A a \in Actors : WF_vars(EndStep(a))
    /\ \A h \in Handlers : WF_vars(StartStep(h)) /\ WF_vars(EndedThenOffline(h))

FairSpec == Spec /\ Fairness

-----------------------------------------------------------------------------
(* Properties                                                              *)

\* Every variable stays in its type.
TypeOK ==
    /\ pc \in [Actors -> Stages]
    /\ enabledRead \in [Handlers -> BOOLEAN]
    /\ victim \in [Actors -> Handlers \cup {NoOne}]
    /\ current \in Handlers \cup {NoOne}
    /\ stopped \subseteq Handlers
    /\ paused \in [Handlers -> BOOLEAN]
    /\ wlReady \in [Handlers -> BOOLEAN]
    /\ loops \in [Handlers -> SUBSET (Tasks \cup {"flush"})]
    /\ queued \in [Handlers -> BOOLEAN]
    /\ row \in [Handlers -> {"none", "open", "ended"}]
    /\ announced \subseteq Handlers
    /\ enabledDb \in BOOLEAN
    /\ patch \in [Admins -> {"idle", "changed", "committed", "done"}]
    /\ want \in [Admins -> BOOLEAN]
    /\ viewer \in {"offline", "live", "paused"}
    /\ overwritten \subseteq Handlers
    /\ crossed \in BOOLEAN
    /\ misled \in Actors \cup {NoOne}

\* However takeovers, disconnects and the shutdown interleave, a session is
\* torn down by one actor only, and not again once its session_end is out.
EndIsExclusive ==
    \A a \in Actors : Ending(a) =>
        /\ victim[a] \notin announced
        /\ \A b \in Actors \ {a} : Ending(b) => victim[b] # victim[a]

\* The session that audio is fed to, and that admins pause, is a running one:
\* its Pi is connected, both its tasks run, its row is open.
CurrentIsRunning ==
    current # NoOne =>
        /\ pc[current] = "streaming"
        /\ current \notin stopped
        /\ Tasks \subseteq loops[current]
        /\ row[current] = "open"

\* session_end comes last: send_task and recv_task, the only ones that emit
\* committed captions, are gone and ended_at is on disk.  The tasks are gone
\* also when the commit failed and nothing was announced.  What may be left is
\* one flush, scheduled while processor.stop() waited for the receiver.
EndAnnouncedLast ==
    /\ \A s \in announced : loops[s] \cap Tasks = {} /\ row[s] = "ended"
    /\ \A a \in Actors :
          pc[a] = "dead" /\ victim[a] # NoOne => loops[victim[a]] \cap Tasks = {}

\* A session that was told to stop is never left half ended: some actor is
\* still at it, unless that actor died of a database error.
NotAbandoned ==
    \A s \in stopped :
        row[s] = "ended" \/ \E a \in Actors : victim[a] = s /\ (Ending(a) \/ pc[a] = "dead")

\* No audio enters the queue of a session that was told to stop.
NoAudioAfterStop == [][\A s \in stopped : queued'[s] => queued[s]]_vars

\* A viewer's status turns to "live" only at a moment when the venue is live:
\* no late venue_live of a session that has been replaced or ended.
LiveIsTrue == [][viewer' = "live" /\ viewer # "live" => IsLive']_vars

\* Every session that is told to stop is ended and announced, or the database
\* failed the actor that was at it.
EndingCompletes ==
    \A s \in Handlers : s \in stopped ~>
        s \in announced \/ \E a \in Actors : victim[a] = s /\ pc[a] = "dead"

\* Every Pi that is accepted gets its session, also when it has to wait for an
\* older one to be torn down, or is turned away by a database error.
PiGetsSession == \A h \in Handlers : pc[h] = "reading" ~> pc[h] \in {"streaming", "dead"}

\* What a subscribed viewer shows is so, except for one actor's doing.  It may
\* show "live" for a venue that is off air only as long as the actor that took
\* it off air (by ending, taking over or overwriting the live session) is not
\* through: a handler that leaves in good order has corrected it.  It may show
\* "offline" for a live venue only after the venue_offline of a handler that
\* ended an older session.  Both are cleared by the next status message.
StatusIsTrue ==
    /\ viewer = "live" /\ ~IsLive => misled # NoOne /\ pc[misled] # "done"
    /\ viewer = "offline" /\ IsLive => misled # NoOne /\ pc[misled] = "done"

\* schemas.py: ended_at is absent while the session is active, so an open row
\* is that of the current session, or of one that is starting or ending.  The
\* only other ways to an open row: its teardown died of the database, or a
\* start that overlapped its own replaced it in the dictionary.
OpenRowIsActive ==
    \A s \in Handlers : row[s] = "open" =>
        \/ current = s
        \/ pc[s] = "install"
        \/ \E a \in Actors : victim[a] = s /\ (Ending(a) \/ pc[a] = "dead")
        \/ s \in overwritten

\* audio.py: the per-venue toggle is honoured.  Once every committed change is
\* applied, the current session is paused exactly if the venue's transcription
\* is disabled, unless the last change crossed another one or a session that
\* was starting, or its refresh() raised.  A change that crosses nothing sets
\* right what earlier ones left wrong.
PauseHonoured ==
    current # NoOne /\ ~crossed /\ (\A p \in Admins : patch[p] # "committed")
        => paused[current] = ~enabledDb

\* transcription.py, process_audio: audio without a session is discarded only
\* transiently, so a connected Pi has a session it can be heard by, or some
\* handler is on its way to create one or to say that it is over.
PiIsHeard ==
    (\E h \in Handlers : pc[h] = "streaming") =>
        \/ current # NoOne
        \/ \E h \in Handlers : Ending(h) \/ pc[h] \in StartStages \cup {"ended"}
=============================================================================
