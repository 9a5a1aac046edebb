-------------------------- MODULE CaptionPipeline --------------------------
(***************************************************************************)
(* From audio to captions, for one session: process_audio and the send     *)
(* task (queue, replay ring), WhisperLive (which transcribes what it heard *)
(* on the current connection, and counts time from that connection's       *)
(* start), the receive task (TranscriptionProcessor._broadcast, _store,    *)
(* the throttled tentative text) and the end of the session.               *)
(*                                                                         *)
(* Audio is cut in chunks 1, 2, ...; a chunk in `speech` is one segment    *)
(* and the chunk's number is its text.  A segment's `start` is the place   *)
(* of its chunk in the connection's audio.  WhisperLive is idealised: the  *)
(* same audio always gives the same segments.                              *)
(***************************************************************************)
EXTENDS Naturals, Sequences, FiniteSets

CONSTANTS
    MaxChunks,    \* chunks the Pi sends in a behaviour (bound of the model)
    RingMax,      \* _RING_MAXCHUNKS
    QueueMax,     \* _QUEUE_MAX
    LastN,        \* send_last_n_segments
    DbMayFail     \* may storing a segment raise?

ASSUME BoundsAssumption ==
    /\ {MaxChunks, RingMax, QueueMax, LastN} \subseteq Nat \ {0}
    /\ DbMayFail \in BOOLEAN

Chunks == 1..MaxChunks
None == 0                   \* no text

VARIABLES
    \* audio
    pushed,      \* chunks the Pi has sent
    speech,      \* the chunks that have speech in them
    queue,       \* audio_queue
    sender,      \* the send task's socket: "on" the current, "stale", or "off"
    ring,        \* the send task's replay ring
    sent,        \* history: all the audio that went into the ring
    \* WhisperLive
    link,        \* is there a current, live connection?
    heard,       \* the audio of this connection
    done,        \* how much of it has been finalised
    replayed,    \* history: chunks replayed from a ring that had dropped audio
    \* receive task
    receiver,    \* "off", "idle", in "await" of broadcast and store, "gone"
    stale,       \* the receive task's socket is no longer the current one
    last,        \* what was heard and finalised on it, if it is not
    mark,        \* history: captions there were when it took up its socket
    todo,        \* segments <<start, text>> of the current message that are still new
    tentText,    \* the in-progress text of that message, if any
    committed,   \* VenueSession.committed_starts
    lastTent,    \* VenueSession.last_tentative
    flush,       \* text of the pending tentative flush task
    \* outside
    shown,       \* committed captions broadcast; the index is the sequence
    stored,      \* sequence numbers in the segments table
    unsaved,     \* those whose insertion raised
    paused,      \* VenueSession.paused
    stage        \* "run", "stopped", "stopRecv", "closeWl", "ended"

audioVars == <<pushed, speech, queue, sender, ring, sent>>
wlVars == <<link, heard, done, replayed>>
msgVars == <<receiver, stale, last, mark, todo, tentText>>
capVars == <<committed, shown, stored, unsaved>>
tentVars == <<lastTent, flush>>
vars == <<audioVars, wlVars, msgVars, capVars, tentVars, paused, stage>>

Nothing == [heard |-> <<>>, done |-> 0]

Init ==
    /\ pushed = 0
    /\ speech \in SUBSET Chunks
    /\ queue = <<>> /\ sender = "off" /\ ring = <<>> /\ sent = <<>>
    /\ link = FALSE /\ heard = <<>> /\ done = 0 /\ replayed = {}
    /\ receiver = "off" /\ stale = FALSE /\ last = Nothing /\ mark = 0
    /\ todo = {} /\ tentText = None
    /\ committed = {} /\ lastTent = None /\ flush = None
    /\ shown = <<>> /\ stored = {} /\ unsaved = {}
    /\ paused = FALSE
    /\ stage = "run"

LastOf(n, s) == IF Len(s) <= n THEN s ELSE SubSeq(s, Len(s) - n + 1, Len(s))

-----------------------------------------------------------------------------
(* Audio in                                                                *)

\* process_audio: dropped while paused, and when the queue is full.
Push ==
    /\ stage = "run"
    /\ pushed < MaxChunks
    /\ pushed' = pushed + 1
    /\ queue' = IF paused \/ Len(queue) = QueueMax THEN queue
                ELSE Append(queue, pushed')
    /\ UNCHANGED <<speech, sender, ring, sent, wlVars, msgVars, capVars, tentVars, paused, stage>>

\* ensure(): a task without a socket connects; WL starts counting at zero.
Connect ==
    /\ stage = "run"
    /\ ~link
    /\ sender = "off" \/ receiver = "off"
    /\ link' = TRUE /\ heard' = <<>> /\ done' = 0
    /\ UNCHANGED <<audioVars, replayed, msgVars, capVars, tentVars, paused, stage>>

\* Mutant: the send task goes straight on to new audio.
AttachWithoutReplay ==
    /\ stage = "run"
    /\ link /\ sender = "off"
    /\ sender' = "on"
    /\ UNCHANGED <<pushed, speech, queue, ring, sent, wlVars, msgVars, capVars, tentVars,
                   paused, stage>>

\* The send task picks up the current socket and replays its ring.
AttachSender ==
    /\ stage = "run"
    /\ link /\ sender = "off"
    /\ sender' = "on"
    /\ heard' = heard \o ring
    /\ replayed' = IF ring = sent THEN replayed ELSE replayed \cup {ring[i] : i \in 1..Len(ring)}
    /\ UNCHANGED <<pushed, speech, queue, ring, sent, link, done, msgVars, capVars, tentVars,
                   paused, stage>>

\* The chunk at the head is sent, then remembered in the ring.  On a dead
\* socket it is lost, and the send task lets go of the socket.
Send ==
    /\ stage = "run"
    /\ sender # "off" /\ queue # <<>>
    /\ queue' = Tail(queue)
    /\ \/ /\ sender = "on"
          /\ heard' = Append(heard, Head(queue))
          /\ ring' = LastOf(RingMax, Append(ring, Head(queue)))
          /\ sent' = Append(sent, Head(queue))
          /\ UNCHANGED sender
       \/ /\ sender = "stale"
          /\ sender' = "off"
          /\ UNCHANGED <<heard, ring, sent>>
    /\ UNCHANGED <<pushed, speech, link, done, replayed, msgVars, capVars, tentVars, paused,
                   stage>>

\* The connection is gone, for any reason; either task may still hold it, the
\* receive task with the messages that came before.
Lose ==
    /\ link' = FALSE
    /\ sender' = IF sender = "on" THEN "stale" ELSE sender
Outdate ==
    /\ stale' = TRUE
    /\ last' = IF stale \/ receiver = "off" THEN last ELSE [heard |-> heard, done |-> done]

LinkDown ==
    /\ link
    /\ Lose
    /\ Outdate
    /\ UNCHANGED <<pushed, speech, queue, ring, sent, heard, done, replayed, receiver, mark,
                   todo, tentText, capVars, tentVars, paused, stage>>

\* Mutant: the send task goes back to the head of its loop without drop().
ExpireKeepsSocket ==
    /\ stage = "run"
    /\ sender # "off"
    /\ sender' = "off"
    /\ UNCHANGED <<pushed, speech, queue, ring, sent, wlVars, msgVars, capVars, tentVars,
                   paused, stage>>

\* The proactive reconnect lets go of the socket between two chunks.
Expire ==
    /\ stage = "run"
    /\ sender # "off"
    /\ \/ sender = "on" /\ link' = FALSE /\ Outdate
       \/ sender = "stale" /\ UNCHANGED <<link, stale, last>>
    /\ sender' = "off"
    /\ UNCHANGED <<pushed, speech, queue, ring, sent, heard, done, replayed, receiver, mark,
                   todo, tentText, capVars, tentVars, paused, stage>>

\* External: WhisperLive finalises some more of what it has heard.
Transcribe ==
    /\ link
    /\ \E d \in done + 1 .. Len(heard) : done' = d
    /\ UNCHANGED <<audioVars, link, heard, replayed, msgVars, capVars, tentVars, paused, stage>>

-----------------------------------------------------------------------------
(* _broadcast                                                              *)

\* Mutant: the pause is checked for immediate updates only.
TentUnguarded(text) == lastTent' = text

\* _emit_tentative: dropped while the venue is paused.
Tent(text) == lastTent' = IF paused THEN lastTent ELSE text

\* The end of a message: the in-progress text, if it has one, goes out now or,
\* within 0.5 s of the last, through a flush task that replaces any earlier one.
Tentative(text) ==
    \/ /\ text = None
       /\ flush' = None
       /\ UNCHANGED lastTent
    \/ /\ text # None /\ text = lastTent
       /\ UNCHANGED tentVars
    \/ /\ text \notin {None, lastTent}
       /\ \/ flush' = None /\ Tent(text)
          \/ flush' = text /\ UNCHANGED lastTent

\* The segments, in order of their start: the first one not seen before is
\* broadcast, or the message has come to its end.  There is no suspension
\* before the first broadcast, nor between a store and the next broadcast.
Fresh(segments) == {seg \in segments : seg[1] \notin committed}
Proceed(segments, text) ==
    \/ \E seg \in Fresh(segments) :
           /\ \A other \in Fresh(segments) : seg[1] <= other[1]
           /\ committed' = committed \cup {seg[1]}
           /\ shown' = Append(shown, seg[2])
           /\ todo' = Fresh(segments) \ {seg} /\ tentText' = text
           /\ receiver' = "await"
           /\ UNCHANGED tentVars
    \/ /\ Fresh(segments) = {}
       /\ Tentative(text)
       /\ todo' = {} /\ tentText' = None
       /\ receiver' = "idle"
       /\ UNCHANGED <<committed, shown>>

\* External: what WhisperLive had finalised of the audio of the receive task's
\* connection when it sent a message, of which that has the last segments, and
\* the text it was working on.
Source == IF stale THEN last ELSE [heard |-> heard, done |-> done]
Segments(d) == {<<i, Source.heard[i]>> : i \in {i \in 1..d : Source.heard[i] \in speech}}
LastSegments(d) ==
    {seg \in Segments(d) : Cardinality({later \in Segments(d) : later[1] > seg[1]}) < LastN}
InProgress(d) ==
    IF d < Len(Source.heard) /\ Source.heard[d + 1] \in speech THEN Source.heard[d + 1]
    ELSE None

AttachReceiver ==
    /\ stage = "run"
    /\ link /\ receiver = "off"
    /\ receiver' = "idle"
    /\ stale' = FALSE
    /\ mark' = Len(shown)
    /\ UNCHANGED <<audioVars, wlVars, last, todo, tentText, capVars, tentVars, paused, stage>>

\* A message of the socket the receive task has, which may be of a while ago
\* and of a connection that is no more; while paused it is ignored.
Receive ==
    /\ receiver = "idle"
    /\ ~paused
    /\ \E d \in 0..Source.done : \E text \in {None, InProgress(d)} :
           /\ Segments(d) # {} \/ text # None
           /\ Proceed(LastSegments(d), text)
    /\ UNCHANGED <<audioVars, wlVars, stale, last, mark, stored, unsaved, paused, stage>>

\* Mutant: the row is written for the last segment of a message only.
StoreLastOnly ==
    /\ receiver = "await"
    /\ stored' = IF todo = {} THEN stored \cup {Len(shown)} ELSE stored
    /\ Proceed(todo, tentText)
    /\ UNCHANGED <<audioVars, wlVars, stale, last, mark, unsaved, paused, stage>>

\* The broadcast and the insertion are done: on with the message.
Store ==
    /\ receiver = "await"
    /\ stored' = stored \cup {Len(shown)}
    /\ Proceed(todo, tentText)
    /\ UNCHANGED <<audioVars, wlVars, stale, last, mark, unsaved, paused, stage>>

\* Mutant: a new connection starts with an empty set of known segments.
ForgetCommitted ==
    /\ committed' = {}
    /\ flush' = None /\ lastTent' = None

\* _reset_wl_state: committed_starts is kept, the tentative text is not.
ResetWlState ==
    /\ flush' = None /\ lastTent' = None
    /\ UNCHANGED committed

\* The insertion raises: the rest of the message is given up and the socket
\* dropped, unless it is no longer the current one.
StoreFails ==
    /\ DbMayFail
    /\ receiver = "await"
    /\ unsaved' = unsaved \cup {Len(shown)}
    /\ IF stale THEN UNCHANGED <<link, sender>> ELSE Lose
    /\ ResetWlState
    /\ receiver' = "off" /\ stale' = TRUE /\ last' = Nothing /\ todo' = {} /\ tentText' = None
    /\ UNCHANGED <<pushed, speech, queue, ring, sent, heard, done, replayed, mark, shown, stored,
                   paused, stage>>

\* The message loop ends with its socket.
ReceiverLetsGo ==
    /\ receiver = "idle" /\ stale
    /\ receiver' = "off" /\ last' = Nothing
    /\ ResetWlState
    /\ UNCHANGED <<audioVars, wlVars, stale, mark, todo, tentText, shown, stored, unsaved,
                   paused, stage>>

\* The flush task wakes up; the text may have gone out meanwhile.
FlushFires ==
    /\ flush # None
    /\ flush' = None
    /\ IF flush # lastTent THEN Tent(flush) ELSE UNCHANGED lastTent
    /\ UNCHANGED <<audioVars, wlVars, msgVars, capVars, paused, stage>>

-----------------------------------------------------------------------------
(* set_paused and end_session                                              *)

SetPaused ==
    /\ stage = "run"
    /\ paused' = ~paused
    /\ UNCHANGED <<audioVars, wlVars, msgVars, capVars, tentVars, stage>>

\* Popped, stop event set, and the send task waited for.
Stop ==
    /\ stage = "run"
    /\ stage' = "stopped"
    /\ UNCHANGED <<audioVars, wlVars, msgVars, capVars, tentVars, paused>>

\* processor.stop() cancels the flush, then waits for a task that the stop
\* event does not wake: messages are still handled.
StopReceiver ==
    /\ stage = "stopped"
    /\ stage' = "stopRecv"
    /\ flush' = None
    /\ UNCHANGED <<audioVars, wlVars, msgVars, capVars, lastTent, paused>>

\* Mutant: the receive task is not waited for.
LeaveReceiver ==
    /\ stage = "stopRecv"
    /\ stage' = "closeWl"
    /\ UNCHANGED <<audioVars, wlVars, msgVars, capVars, tentVars, paused>>

\* It returned, or was cancelled wherever it was; then the socket is closed.
ReceiverGone ==
    /\ stage = "stopRecv"
    /\ stage' = "closeWl"
    /\ receiver' = "gone" /\ last' = Nothing /\ todo' = {} /\ tentText' = None
    /\ link' = FALSE
    /\ UNCHANGED <<audioVars, heard, done, replayed, stale, mark, capVars, tentVars, paused>>

SessionEnd ==
    /\ stage = "closeWl"
    /\ stage' = "ended"
    /\ UNCHANGED <<audioVars, wlVars, msgVars, capVars, tentVars, paused>>

-----------------------------------------------------------------------------
Next ==
    \/ Push \/ Connect \/ AttachSender \/ Send \/ LinkDown \/ Expire \/ Transcribe
    \/ AttachReceiver \/ Receive \/ Store \/ StoreFails \/ ReceiverLetsGo \/ FlushFires
    \/ SetPaused \/ Stop \/ StopReceiver \/ ReceiverGone \/ SessionEnd

Spec == Init /\ [][Next]_vars

-----------------------------------------------------------------------------
(* Properties                                                              *)

\* Viewers get no speech twice, whatever connections are lost, but speech that
\* was replayed from a ring which had by then dropped audio of the session: on
\* that connection its start is another one.
RepeatsAreReplays ==
    \A i, j \in 1..Len(shown) : i # j /\ shown[i] = shown[j] => shown[i] \in replayed

\* On one connection to WhisperLive none goes out twice, whatever was replayed.
OncePerConnection ==
    \A i, j \in mark + 1..Len(shown) : shown[i] = shown[j] => i = j

\* committed_starts holds back nothing that viewers have not had (speech of the
\* current connection whose start is known has been shown), until a ring that
\* had dropped audio is replayed: from then on other speech has those starts.
OnlyShownIsSuppressed ==
    link /\ replayed = {} => \A i \in 1..Len(heard) :
        i \in committed /\ heard[i] \in speech => \E j \in 1..Len(shown) : shown[j] = heard[i]

\* The history is behind the stream by at most the caption being stored, but
\* for the captions whose insertion raised.
HistoryKeepsUp == 1..Len(shown) - 1 \subseteq stored \cup unsaved

\* No tentative text goes out while paused, not even through a flush that was
\* scheduled before the pause.
TentativeRespectsPause == [][lastTent' \notin {lastTent, None} => ~paused]_vars

\* No committed caption of a session after its session_end.
EndIsFinal == [][stage = "ended" => UNCHANGED shown]_vars

-----------------------------------------------------------------------------
(* A property the code's documentation states, which the code violates     *)

\* routers/captions.py: consumers get each committed segment exactly once
\* within a session.
NoCaptionTwice ==
    \A i, j \in 1..Len(shown) : shown[i] = shown[j] => i = j
=============================================================================
